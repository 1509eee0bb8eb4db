\* Servers and clients of both kinds, one port, one path, two connections, and a
\* counter of two values.
CONSTANTS
    TcpPorts = {1}
    IpcPaths <- OnePath
    PeerKeys = {7}
    Labels = {}
    None = None
    Conns = {c1, c2}
    SeqMax = 2
    Commands <- IdCommands
    InboxCap = 1
SPECIFICATION Spec
SYMMETRY Interchangeable
INVARIANTS
    TypeOK
    FamilyConsistent
    NoReaderLeftBehind
    FilesMatchServers
    
    RegisteredAreAnnounced
    BroadcastMatchesStatus
PROPERTY
    ImplementsTable
