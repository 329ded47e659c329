CONSTANTS
    ty_root = ty_root
    ty_host = ty_host
    usr_name = usr_name
    val_one = val_one
    pat_one = pat_one
    NULL = NULL
    UNDEF = UNDEF
    TypeNames <- MCTypeNames
    UserNames <- MCUserNames
    Vals <- MCVals
    Patterns <- MCPatterns
    MaxCalls = 4
SPECIFICATION Spec
INVARIANT TypeOK
INVARIANT FindServersAfterLoad
CHECK_DEADLOCK FALSE
