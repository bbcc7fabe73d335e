SPECIFICATION AdminSpec
CONSTANTS
    Request = {r1, r2}
    Chosen = {"p1", "first"}
    MaxLogins = 3
    MaxMishaps = 2
INVARIANTS
    ChangeSticks
    FirstPasswordKnown
PROPERTIES
    ComesToServe
    ScreenForgets
CHECK_DEADLOCK FALSE
