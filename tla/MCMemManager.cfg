CONSTANTS
    PoolCount = 3
    BufSize <- MCBufSize
    BufCount <- MCBufCount
    Tasks = {gdb, usb}
    Requests <- MCRequests
    NULL = NULL
SPECIFICATION MemSpec
INVARIANT NeverShared
INVARIANT OnlyLongjmpLeaks
CHECK_DEADLOCK FALSE
