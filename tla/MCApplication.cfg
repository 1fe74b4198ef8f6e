SPECIFICATION FairSpec
CONSTANTS
    Nil = Nil
    Limit <- MCLimit
    EnableAutomaticPicture = TRUE
    MaxMessages = 4
INVARIANT
    TypeOK
PROPERTIES
    SaidInOrder
    Drains
    FadesResolve
CHECK_DEADLOCK FALSE
