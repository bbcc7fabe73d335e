SPECIFICATION FairSpec
CONSTANTS
    Keys = {wifi}
    Handlers = {h1, h2}
    Timers = {t1, t2}
    Settings = {a, b, x}
    GoodSettings = {a, b}
    InitSettings = a
    Kinds = {"now", "hold"}
    MaxEdits = 2
    OneAtATime = TRUE
    Faults = {"backup_io", "write_io", "refused", "exit"}
    wifi = wifi
    h1 = h1
    h2 = h2
    t1 = t1
    t2 = t2
    a = a
    b = b
    x = x
INVARIANTS TypeOK BaselineKept SettledInForce
PROPERTIES ImplementsCommitConfirm HoldSettles
