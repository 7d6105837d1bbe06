SPECIFICATION Spec
CONSTANTS
    r1 = r1
    r2 = r2
    Conns = {c1, c2}
    Requests = {r1, r2}
    Hosts = {h1, h2}
    TimeoutOf <- MCTimeouts
    Free = Free
    NoHandler = NoHandler
    Disconnects = TRUE
INVARIANT HostUndisturbed
