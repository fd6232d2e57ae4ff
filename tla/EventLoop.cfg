CONSTANTS
    Posters = {p1, p2}
    Remote = {r1, r2, r3}
    Local = {l1}
    EventFdMax = 2
SPECIFICATION FairSpec
INVARIANTS NoLostWakeup NoLostQuit
PROPERTIES ImplementsQueue PostedRuns LocalRuns QuitEndsLoop
CHECK_DEADLOCK FALSE
