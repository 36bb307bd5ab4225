SPECIFICATION Spec
CONSTANTS
    Services = {s1, s2}
    Clients = {user}
    Outside = Outside
    None = None
    MaxCallChainDepth = 2
    Copying = {"http"}
    MaxHops = 4
SYMMETRY ServicesAlike
INVARIANTS
    TypeOK
    ChainIsRoute
    SentChainsFit
    CallerIsSender
CHECK_DEADLOCK FALSE
