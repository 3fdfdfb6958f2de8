SPECIFICATION MCSpec
CONSTANTS
    MaxWrite = 3
    MaxBytes = 6
    Fds = {f1, f2}
    Extras <- NoExtras
    Running = {"registry"}
SYMMETRY FdSymmetry
INVARIANT RemoveAssert
CHECK_DEADLOCK FALSE
