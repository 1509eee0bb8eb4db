\* A broadcast to two children, one of them gone, while the screen is full.
CONSTANTS
    Conns = {c1, c2}
    NoConn = NoConn
    SockCap = 1
    ScreenCap = 1
    Sizes = {1}
    MaxSends = 1
SPECIFICATION FairSpec
PROPERTY
    OthersProceed
CHECK_DEADLOCK FALSE
