CONSTANTS
    a = a
    b = b
    c1 = c1
    c2 = c2
    c3 = c3
    Conns = {c1, c2, c3}
    Pushes = {a, b}
    Nothing = none
SPECIFICATION FairSpec
CHECK_DEADLOCK FALSE
INVARIANTS TypeOK SentOnce NeverPanics ServedOrBroken
PROPERTIES Ends
