SPECIFICATION Spec
CONSTANTS
    m1 = m1
    m2 = m2
    Mac <- MCMac
    Request = {r1}
    Lists <- MCOne
    MaxEdits = 2
    MaxOverlap = 2
    MayFail = FALSE
INVARIANT RevertBringsBack
