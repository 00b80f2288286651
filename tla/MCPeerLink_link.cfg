CONSTANTS
    Initial = 1
    Maximum = 30
    WireCap = 3
SPECIFICATION FairSpec
CHECK_DEADLOCK FALSE
INVARIANTS TypeOK NoStaleSend UnlinkedWhileWaiting
PROPERTIES Reconnects LinkEnds
