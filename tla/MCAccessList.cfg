SPECIFICATION Spec
CONSTANTS
    m1 = m1
    m2 = m2
    Mac <- MCMac
    Request = {r1, r2}
    Lists <- MCLists
    MaxEdits = 3
    MaxOverlap = 2
    MayFail = TRUE
INVARIANTS
    ListInForce
    LinesOnce
PROPERTY OtherLinesKept
SYMMETRY Symmetry
