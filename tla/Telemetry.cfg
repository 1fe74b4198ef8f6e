SPECIFICATION FairSpec
CONSTANTS
    ID = {1, 2}
    Accepted = {"CRC32ISOHDLC"}
    Grace = 1
    Nil = Nil
INVARIANTS
    TypeOK
    LateOnce
PROPERTIES
    SeesAll
    Streams
