\* A server is closed while a connection waits in the inbox, and an IPC server
\* is registered.
CONSTANTS
    TcpPorts = {1}
    IpcPaths <- OnePath
    PeerKeys = {7}
    Labels = {}
    None = None
    Conns = {c1}
    SeqMax = 1
    Commands <- IdCommands
    InboxCap = 2
SPECIFICATION Spec
INVARIANT
    NoFileLeftBehind
