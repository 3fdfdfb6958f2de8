SPECIFICATION MCSpec
CONSTANTS
    Coros = {c1, c2, c3}
    Unlocked = Unlocked
    Null = Null
    Waiters = {c1, c2}
    Setters = {s1, s2}
    Dtor = Dtor
    Nil = Nil
    Closed = Closed
    Senders = {p1, p2}
    MaxSends = 4
    Depth = 3
    Roots = {r}
    Tasks = {t}
    Async = {a}
    Sync = {g}
    Slots = {x, y}
    None = None
    MaxYield = 1
    MaxAwaits = 2
    Running = {"future"}
INVARIANT AwaitSeesResult
CHECK_DEADLOCK FALSE
