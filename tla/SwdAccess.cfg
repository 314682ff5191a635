SPECIFICATION FairSpec
CONSTANTS
    NrDps = 2
    MaxTrouble = 2
INVARIANT ReportIsExact
INVARIANT SessionOnItsDp
INVARIANT ScanFindsAll
PROPERTY HaltNoticed
CHECK_DEADLOCK FALSE
