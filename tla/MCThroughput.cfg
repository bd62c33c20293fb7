\* Two socket numbers shared by two feeders: enough for a reconnection, a
\* reused number, an unreadable process and a failed dump.  The families fail
\* together here, so one stands for both.
CONSTANTS
    Inodes = {i1, i2}
    Feeders = {f1, f2}
    Families = {v4}
    PartialDumps = FALSE
    HasCounters = TRUE
    MaxBytes = 2
SYMMETRY Symmetry
SPECIFICATION Spec
INVARIANTS TypeOK NoByteTwice NoByteMissed
PROPERTY MeterSpec
