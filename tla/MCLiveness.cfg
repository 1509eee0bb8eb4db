\* One TCP server, two connections from one remote port.
CONSTANTS
    TcpPorts = {1}
    IpcPaths = {}
    PeerKeys = {7}
    Labels = {}
    None = None
    Conns = {c1, c2}
    SeqMax = 1
    Commands <- CollisionCommands
    InboxCap = 1
SPECIFICATION FairSpec
PROPERTIES
    PeerCloseSeen
    CommandsAnswered
    ShutdownEnds
