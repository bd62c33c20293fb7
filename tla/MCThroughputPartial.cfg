\* As MCThroughput.cfg, but one family may fail to dump while the other answers.
CONSTANTS
    Inodes = {i1, i2}
    Feeders = {f1, f2}
    Families = {v4, v6}
    PartialDumps = TRUE
    HasCounters = TRUE
    MaxBytes = 2
SYMMETRY Symmetry
SPECIFICATION Spec
INVARIANT NoByteTwice
