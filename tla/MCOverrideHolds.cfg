SPECIFICATION FairSpec
CONSTANTS
    Handlers = {h1}
    Ticker = ticker
    Week = 2
    Day = 3
    Schedules <- MCSchedules
    Faults = {}
    MaxEvents = 2
    h1 = h1
    ticker = ticker
PROPERTY OverrideHolds
