SPECIFICATION Spec
CONSTANTS
    Goroutines = {g1, g2}
    Nobody = Nobody
    Tokens <- AllTokens
    Enabled = {"kubernetes", "platform", "oidc"}
    Secret = "secret"
    KeySets <- Rotation
    NetworkFails = TRUE
    ClockSkew = 1
    TokenCacheTTL = 1
    TokenCacheMaxSize = 1
    JWKSCacheTTL = 1
    MaxTime = 1
SYMMETRY GoroutinesAlike
INVARIANTS
    TypeOK
    OnlyGenuineAccepted
    DiscoveryIsExclusive
PROPERTY RefusalsHaveReason
