SPECIFICATION MCSpec
CONSTANTS
    MaxWrite = 3
    MaxBytes = 6
    Fds = {f1, f2}
    Extras <- NoExtras
    Running = {"buffer", "registry", "pool", "router", "files", "cookies", "messages", "codecs", "hpack"}
SYMMETRY FdSymmetry
INVARIANTS ViewIsContent RegistrySafe PoolSafe RoutesFound CacheSafe  MessagesAgree  
CHECK_DEADLOCK FALSE
