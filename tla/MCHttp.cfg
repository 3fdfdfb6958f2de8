SPECIFICATION MCSpec
CONSTANTS
    Running = {"server1", "client1", "server2", "client2", "websocket"}
    Calls = {"a", "b"}
    Conns = {"k", "l"}
    None = "none"
    MaxIdle = 1
    MaxId = 3
    MaxFrames = 3
    Requests = {"a", "b"}
    Sessions = {"k", "l"}
    NoSession = "none"
INVARIANTS ConnectionInStep ClientSafe BlocksInOrder OwnStream MessagesAsMeant
PROPERTY ExchangesEnd
CHECK_DEADLOCK FALSE
