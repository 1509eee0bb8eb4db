\* Three connections of one remote port.
CONSTANTS
    TcpPorts = {1}
    IpcPaths = {}
    PeerKeys = {7}
    Labels = {}
    None = None
    Conns = {c1, c2, c3}
    SeqMax = 2
    Commands <- CollisionCommands
    InboxCap = 2
SPECIFICATION Spec
PROPERTY
    IdDesignatesOneConnection
