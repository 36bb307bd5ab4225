SPECIFICATION Spec
CONSTANTS
    Goroutines = {g1}
    Nobody = Nobody
    Tokens <- AllTokens
    Enabled = {"kubernetes", "platform", "oidc"}
    Secret = "secret"
    KeySets <- Rotation
    NetworkFails = TRUE
    ClockSkew = 0
    TokenCacheTTL = 1
    TokenCacheMaxSize = 1
    JWKSCacheTTL = 1
    MaxTime = 1
INVARIANT CachedNoLongerThanToken
