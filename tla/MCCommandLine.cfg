\* Arguments and lines of a few words; every short <host>:<port>.
CONSTANTS
    ArgLists <- MCArgLists
    Lines <- MCLines
SPECIFICATION Spec
INVARIANTS
    TypeOK
    WhatIsDoneWasSaid
    WhatIsSaidIsDone
PROPERTY
    ArgsDecide
CHECK_DEADLOCK FALSE
