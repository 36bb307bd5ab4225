SPECIFICATION Spec
CONSTANTS
    Services = {s1, s2}
    Clients = {user}
    Outside = Outside
    None = None
    MaxCallChainDepth = 2
    Copying = {"http"}
    MaxHops = 2
SYMMETRY ServicesAlike
INVARIANT CallersNameThemselves
CHECK_DEADLOCK FALSE
