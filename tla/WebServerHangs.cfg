SPECIFICATION Spec
CONSTANTS
    page = page
    trap = trap
    Requests <- TwoRequests
    Paths = {page, trap}
    Root = Root
    Patterns <- TrapAndRoot
    IPs = {ip1, ip2}
    Invalid = Invalid
    Hooked = {404}
    None = None
    MaxMuxes = 3
    Starters <- TwoStarts
    Setup <- Configured
    SetupLimits <- RootLimited
    MaxEvents = 4
INVARIANT RouterNeverHangs
CHECK_DEADLOCK FALSE
