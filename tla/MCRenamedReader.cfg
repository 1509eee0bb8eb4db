\* A renamed connection is closed by its peer.
CONSTANTS
    TcpPorts = {1}
    IpcPaths = {}
    PeerKeys = {7}
    Labels = {}
    None = None
    Conns = {c1, c2}
    SeqMax = 2
    Commands <- CollisionCommands
    InboxCap = 1
SPECIFICATION FairSpec
PROPERTY
    PeerCloseUnregisters
