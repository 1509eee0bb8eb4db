\* Two messages in the inbox, one line in each buffer on the way to the screen.
CONSTANTS
    InboxCap = 2
    DisplayCap = 1
    PrinterCap = 1
SPECIFICATION FairSpec
INVARIANTS
    TypeOK
    OutcomeFollowsEchoes
    OneCommandAtATime
    NoRequestLost
    BlockedForAReason
PROPERTIES
    LinesInOrder
    SignalHonoured
    HandlersFinish
    ProcessEnds
CHECK_DEADLOCK FALSE
