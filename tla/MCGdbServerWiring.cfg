CONSTANTS
    Targets = {t1, t2}
    NULL = NULL
    MaxTargets = 2
    MaxDepth = 1
    LoopCtl = "main"
    AttachCtl = "static"
SPECIFICATION Spec
INVARIANT vAttachAttaches
CHECK_DEADLOCK FALSE
