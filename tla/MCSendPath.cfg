\* Two connections, two sends, payloads shorter and longer than a socket, and
\* no room or room for one line on the way to the screen.
CONSTANTS
    Conns = {c1, c2}
    NoConn = NoConn
    SockCap = 2
    ScreenCap = 1
    Sizes = {1, 3}
    MaxSends = 2
SPECIFICATION FairSpec
INVARIANTS
    TypeOK
    WholePayloadsInOrder
    EveryTargetServed
    FailuresAreSaid
PROPERTY
    SendsAnswered
CHECK_DEADLOCK FALSE
