\* A signal while the screen is full and a line is being entered.
CONSTANTS
    InboxCap = 1
    DisplayCap = 1
    PrinterCap = 1
SPECIFICATION PeersAnswerSpec
PROPERTY
    CtrlCTearsDown
CHECK_DEADLOCK FALSE
