\* Four bytes fill both buffers of two; a line coding turns the UART on, and
\* another comes in the middle of everything.
SPECIFICATION FairSpec
CONSTANTS
    BufSize = 2
    FifoSize = 1
    StreamSize = 3
    MaxBytes = 4
    MaxCodings = 2
INVARIANTS
    RxInOrder
    RxComplete
    OneReception
    TxExactlyOnce
PROPERTIES
    RxFlushed
    TxWaitEnds
CHECK_DEADLOCK FALSE
