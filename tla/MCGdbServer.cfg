CONSTANTS
    Targets = {t1, t2}
    NULL = NULL
    MaxTargets = 2
    MaxDepth = 2
    LoopCtl = "static"
    AttachCtl = "static"
SPECIFICATION Spec
INVARIANT NoDanglingTarget
INVARIANT SyscallFaultOnlyWhenCut
 
CHECK_DEADLOCK FALSE
