SPECIFICATION MCSpec
CONSTANTS
    Cap = 1
    Len = 2
    Running = {"channel", "tls"}
INVARIANTS ChannelSafe 
 
CHECK_DEADLOCK FALSE
