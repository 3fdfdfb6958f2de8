SPECIFICATION MCSpec
CONSTANTS
    MaxWrite = 3
    MaxBytes = 6
    Fds = {f1, f2}
    Extras <- NoExtras
    Running = {"files"}
INVARIANT WholeBody
CHECK_DEADLOCK FALSE
