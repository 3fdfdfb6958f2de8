SPECIFICATION MCSpec
CONSTANTS
    MaxWrite = 3
    MaxBytes = 6
    Fds = {f1, f2}
    Extras <- SomeExtras
    Running = {"hpack"}
INVARIANT DecodedAsEncoded
CHECK_DEADLOCK FALSE
