\* Two DPs, two APs and two targets, with two failures that lose a reference.
SPECIFICATION FairSpec
CONSTANTS
    DPs = {d1, d2}
    APs = {a1, a2}
    Targets = {t1, t2}
    None = None
    Devices = 2
    ApSels = 3
    VoidAps = 2
    MaxLosses = 2
INVARIANTS
    NoUseAfterFree
    LeaksAreBounded
PROPERTIES
    ScanEnds
CHECK_DEADLOCK FALSE
