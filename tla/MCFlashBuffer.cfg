\* Two loads in any pieces and order, each of which may fail or be given up.
SPECIFICATION Spec
CONSTANTS
    Regions <- MCRegions
    BufSize = 2
    MaxWrite = 3
    Loads = 2
    ERASED = 0
    GARBLED = 99
INVARIANTS
    CleanLoadCommits
    CommitEmptiesBuffers
    NothingForeign
