\* A labelled connection is renamed.
CONSTANTS
    TcpPorts = {1}
    IpcPaths = {}
    PeerKeys = {7}
    Labels <- OneWord
    None = None
    Conns = {c1, c2}
    SeqMax = 2
    Commands <- CollisionCommands
    InboxCap = 2
SPECIFICATION Spec
INVARIANT
    LabelsDesignateHolders
