\* Two guards, each with every interleaving of its owner and its worker; the
\* second shows that guards do not disturb one another.  A guard that is gone
\* does nothing more, so the model ends: deadlock is not checked.
SPECIFICATION FairSpec
CONSTANTS
    Timers = {t1, t2}
    t1 = t1
    t2 = t2
INVARIANTS TypeOK VerdictIsFinal
PROPERTIES ImplementsOneShot DropReturns UncancelledFires
CHECK_DEADLOCK FALSE
