SPECIFICATION Spec
CONSTANTS
    Keys = {wifi}
    Handlers = {h1}
    Timers = {t1, t2}
    Settings = {a, b, x}
    GoodSettings = {a, b}
    InitSettings = a
    Kinds = {"now", "hold"}
    MaxEdits = 2
    OneAtATime = TRUE
    Faults = {"write_io"}
    wifi = wifi
    h1 = h1
    t1 = t1
    t2 = t2
    a = a
    b = b
    x = x
INVARIANT FailureRestores
