SPECIFICATION FairSpec
CONSTANTS
    Keys = {wifi}
    Handlers = {h1, h2}
    Timers = {t1, t2}
    Settings = {a}
    GoodSettings = {a}
    InitSettings = a
    Kinds = {"hold"}
    MaxEdits = 2
    OneAtATime = FALSE
    Faults = {"restore_io"}
    wifi = wifi
    h1 = h1
    h2 = h2
    t1 = t1
    t2 = t2
    a = a
INVARIANTS ArmedIsReachable
PROPERTIES EveryRequestAnswered
