SPECIFICATION Spec
CONSTANTS
    Runtimes = {r1, r2, r3}
    None = none
    Pids = {1, 2}
    InitPid = 1
    Reuse = 2
    ProcReadable = TRUE
    Overlap = FALSE
    Lapses = FALSE
    Wedges = TRUE
SYMMETRY RuntimeSymmetry
INVARIANT TypeOK
INVARIANT SoleOwner
PROPERTY HolderKeepsRow
