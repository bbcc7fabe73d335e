SPECIFICATION FairSpec
CONSTANTS
    Handlers = {h1, h2}
    Ticker = ticker
    Week = 2
    Day = 3
    Schedules <- MCSchedules
    Faults = {"write", "clock", "list", "nft", "stop", "reboot"}
    MaxEvents = 2
    h1 = h1
    h2 = h2
    ticker = ticker
INVARIANTS TypeOK Enforced OverrideConsumed OnInsideWindow
PROPERTIES Converges
