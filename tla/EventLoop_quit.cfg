CONSTANTS
    Posters = {p1}
    Remote = {r1}
    Local = {l1}
    EventFdMax = 1
SPECIFICATION FairSpec
PROPERTIES DestructorJoins
CHECK_DEADLOCK FALSE
