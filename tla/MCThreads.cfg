SPECIFICATION MCSpec
CONSTANTS
    Producers = {p1, p2}
    Nodes = {n1, n2, n3, n4}
    Values = {a, b}
    Null = Null
    Threads = {"t1", "t2"}
    Callbacks = {"c1", "c2", "c3"}
    NoCallback = NoCallback
    Home <- Homes
    NoScheduler = {"t2"}
    Waiters = {"w1"}
    Calls = {"a", "b"}
    Keys = {"k", "l"}
    Workers = {"u", "v"}
    Ttl = 1
    Period = 2
    MaxTime = 3
    Accepted = {"a"}
    Dialed = {"d"}
    Running = {"queue", "cancel", "resolver", "tcp"}
INVARIANTS NoUseAfterFree CancelSafe ResolverSafe 
PROPERTIES ImplementsPublishQueue EveryPushIsPopped CallsEnd
CHECK_DEADLOCK FALSE
