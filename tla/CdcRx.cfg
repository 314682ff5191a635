\* Two connections, more bytes than the stream holds, line codings set faster
\* than they are applied; the host may fall silent.
SPECIFICATION FairSpec
CONSTANTS
    FifoSize = 2
    StreamSize = 2
    CodingRoom = 1
    MaxBytes = 3
    MaxOpens = 2
    MaxCodings = 2
INVARIANTS
    InOrderExactlyOnce
    NoLostWakeup
PROPERTIES
    LastCodingApplied
CHECK_DEADLOCK FALSE
