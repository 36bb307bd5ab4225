SPECIFICATION FairSpec
CONSTANTS
    Goroutines = {g1, g2}
    Nobody = Nobody
    Tokens <- RotatingTokens
    Enabled = {"oidc"}
    Secret = "secret"
    KeySets <- Rotation
    NetworkFails = TRUE
    ClockSkew = 0
    TokenCacheTTL = 1
    TokenCacheMaxSize = 1
    JWKSCacheTTL = 1
    MaxTime = 1
PROPERTY EveryValidateReturns
