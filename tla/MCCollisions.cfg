\* One TCP server, three connections from one remote port.
CONSTANTS
    TcpPorts = {1}
    IpcPaths = {}
    PeerKeys = {7}
    Labels <- OneWord
    None = None
    Conns = {c1, c2, c3}
    SeqMax = 1
    Commands <- StayingOpen
    InboxCap = 2
SPECIFICATION Spec
SYMMETRY Interchangeable
INVARIANTS
    FamilyConsistent
    SuffixDiscipline
    LabelsHeld
    HandlesOwnTheirReaders
    NoReaderLeftBehind
    CloseOnItsWay
    RegisteredAreAnnounced
    BroadcastMatchesStatus
PROPERTIES
    ImplementsTable
    LabelsFreed
    IdsStayWithConnections
