\* Any order of sessions, scans and Z/z packets, on a target whose DWT has
\* fewer comparators than hw_watchpoint[] has slots.
SPECIFICATION Spec
CONSTANTS
    FpbComps = 2
    DwtComps = 3
    FpbSlots = 1
    DwtSlots = 4
    Comps <- MCComps
    MaxSlots <- MCMaxSlots
    Requests <- MCRequests
    FpbRevision = 0
    CodeSpace = 4
    ListBound = 2
    NONE = NONE
INVARIANTS
    GrantedIsArmed
    ArmedIsGranted
    TakenIsGranted
    WatchReportIsLive
