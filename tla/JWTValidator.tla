---------------------------- MODULE JWTValidator ----------------------------
(***************************************************************************)
(* JWTValidator.Validate (pkg/auth/jwt.go) called by several goroutines:   *)
(* the token cache, the JWKS cache, OIDC discovery and the three           *)
(* validation paths.                                                       *)
(*                                                                         *)
(* A step ends where another goroutine can intervene: at the token cache,  *)
(* at the discovery mutex, at each HTTP response, at the two critical      *)
(* sections of jwksCache.getKey, and between the verification of a token   *)
(* and the put of its identity.  The clock may advance at all these points *)
(* and the providers may rotate their keys at any time.                    *)
(*                                                                         *)
(* A token is a record of what the code can find out about it.  Key k      *)
(* verifies exactly the signatures made with k, and a provider publishes   *)
(* key k under the key id k.                                               *)
(*                                                                         *)
(* A definition introduced as a "Variant" is a faulty version of the one   *)
(* that follows it.  No specification uses it: it stands for a mistake the *)
(* properties below would find.                                            *)
(***************************************************************************)
EXTENDS Integers, FiniteSets

CONSTANTS
    Goroutines,   \* callers of Validate
    Nobody,       \* the discovery mutex is free
    Tokens,       \* the tokens they present
    Enabled,      \* the token types of the configuration
    Secret,       \* PlatformSigningKey
    KeySets,      \* the key sets a provider may publish
    NetworkFails, \* whether HTTP requests may fail
    ClockSkew, TokenCacheTTL, TokenCacheMaxSize, JWKSCacheTTL,
    MaxTime       \* bound: the clock stops here

TokenTypes == {"kubernetes", "platform", "oidc"}
Providers  == {"kubernetes", "oidc"}
AllKeys    == UNION KeySets
NoExp      == -1
NoKid      == ""   \* a "kid" header that is missing, empty or not a string

Algorithms == {"HS256", "HS384", "RS256", "ES256", "PS256", "none"}

ASSUME JWTValidatorConstants ==
    /\ Nobody \notin Goroutines
    /\ Enabled \subseteq TokenTypes
    /\ KeySets # {} /\ NoKid \notin AllKeys \* a key without an id is skipped
    /\ NetworkFails \in BOOLEAN
    /\ ClockSkew \in Nat /\ TokenCacheTTL \in Nat /\ JWKSCacheTTL \in Nat
    /\ TokenCacheMaxSize \in Nat \ {0}
    /\ MaxTime \in Nat
    /\ \A t \in Tokens :
          /\ t.shape \in {"ok", "empty", "oversized", "malformed"}
          /\ t.alg \in Algorithms
          /\ t.iss \in TokenTypes \cup {"other"} \* whose issuer it names
          /\ t.aud \in BOOLEAN   \* its audience is the configured one
          /\ t.who \in BOOLEAN   \* an identity can be built from its claims
          /\ t.nbf \in Nat             \* 0: valid from the beginning
          /\ t.exp \in Nat \cup {NoExp}

VARIABLES
    now,         \* the clock
    entries,     \* tokenCache.entries
    jwks,        \* jwksCache.entries: [keys, fetchedAt] per provider, or none
    discovered,  \* v.oidcDiscovered
    discoveryMu, \* the goroutine that holds v.oidcJWKSMu
    published,   \* what each provider publishes
    pc, tok,     \* where each goroutine is, and with which token
    fetched,     \* the key set in a response it read and did not store yet
    result,      \* what its last call returned
    excuse       \* history: since the call began, a request failed or the
                 \* provider did not publish the key the token needs

vars == <<now, entries, jwks, discovered, discoveryMu, published, pc, tok,
          fetched, result, excuse>>

\* The token cache is keyed by the hash of the token; a token stands for it.
Cache == INSTANCE TokenCache
         WITH Exp <- [t \in Tokens |-> t.exp], TTL <- TokenCacheTTL,
              MaxSize <- TokenCacheMaxSize

Locations == {"idle", "cache", "oidc", "discovering", "lookup", "fetch",
              "store", "verify", "put"}
Results   == {"none", "identity", "Authentication", "Invalid", "Expired"}
NoEntry   == [keys |-> {}, fetchedAt |-> -1]

Init ==
    /\ now = 0
    /\ entries = [t \in {} |-> 0]
    /\ jwks = [p \in Providers |-> NoEntry]
    /\ discovered = FALSE
    /\ discoveryMu = Nobody
    /\ published \in [Providers -> KeySets]
    /\ pc = [g \in Goroutines |-> "idle"]
    /\ \E t \in Tokens : tok = [g \in Goroutines |-> t]
    /\ fetched = [g \in Goroutines |-> {}]
    /\ result = [g \in Goroutines |-> "none"]
    /\ excuse = [g \in Goroutines |-> FALSE]

-----------------------------------------------------------------------------
(* The parts of a token's validation that depend on the token alone. *)

HS(alg) == alg \in {"HS256", "HS384"}
RSorES(alg) == alg \in {"RS256", "ES256"}

\* Without a known issuer the type is guessed from the algorithm.
GuessedType(t) ==
    CASE HS(t.alg) /\ "platform" \in Enabled   -> "platform"
      [] RSorES(t.alg) /\ "oidc" \in Enabled   -> "oidc"
      [] /\ RSorES(t.alg) /\ "oidc" \notin Enabled
         /\ "kubernetes" \in Enabled           -> "kubernetes"
      [] OTHER                                 -> "none"

detectTokenType(t) == IF t.iss \in Enabled THEN t.iss ELSE GuessedType(t)

\* jwt.WithValidMethods
ValidMethod(t) == IF detectTokenType(t) = "platform" THEN t.alg = "HS256"
                                                     ELSE RSorES(t.alg)

\* The key the token has to be verified with.
KeyOf(t) == IF detectTokenType(t) = "platform" THEN Secret ELSE t.kid

\* Whether a key can be looked for.
HasKid(t) == detectTokenType(t) = "platform" \/ t.kid # NoKid

\* The token's nbf and exp claims, with the leeway of jwt.WithLeeway.
Begun(t)  == t.nbf <= now + ClockSkew
Over(t)   == t.exp # NoExp /\ now >= t.exp + ClockSkew
InTime(t) == Begun(t) /\ ~Over(t)

-----------------------------------------------------------------------------
Goto(g, l) ==
    pc' = [pc EXCEPT ![g] = l] /\ UNCHANGED result

Return(g, r) ==
    /\ pc' = [pc EXCEPT ![g] = "idle"]
    /\ result' = [result EXCEPT ![g] = r]

\* Whether p's key of t is missing from what p publishes.
Missing(t, pub) == detectTokenType(t) \in Providers
                   /\ t.kid \notin pub[detectTokenType(t)]

\* A call of Validate; an empty or an oversized token is refused at once.
Validate(g, t) ==
    /\ pc[g] = "idle"
    /\ tok' = [tok EXCEPT ![g] = t]
    /\ excuse' = [excuse EXCEPT ![g] = Missing(t, published)]
    /\ IF t.shape \in {"empty", "oversized"} THEN Return(g, "Invalid")
       ELSE /\ pc' = [pc EXCEPT ![g] = "cache"]
            /\ result' = [result EXCEPT ![g] = "none"]
    /\ UNCHANGED <<now, entries, jwks, discovered, discoveryMu, published,
                   fetched>>

\* Refused after the cache and before anything is fetched.
Unparsable(t)  == t.shape = "malformed" \/ t.alg = "none"
Unroutable(t)  == ~Unparsable(t) /\ detectTokenType(t) = "none"
Routable(t, y) == ~Unparsable(t) /\ detectTokenType(t) = y

\* The library checks the algorithm before it asks for the key, which is not
\* looked for without a key id.
AskForKey(g, l) ==
    IF ValidMethod(tok[g]) /\ HasKid(tok[g]) THEN Goto(g, l)
                                            ELSE Return(g, "Invalid")

\* The token cache is asked; on a miss the token is parsed and routed.
LookupToken(g) ==
    /\ pc[g] = "cache"
    /\ \/ Cache!get(tok[g]) /\ Return(g, "identity")
       \/ /\ ~Cache!get(tok[g])
          /\ \/ Unparsable(tok[g]) /\ Return(g, "Invalid")
             \/ Unroutable(tok[g]) /\ Return(g, "Authentication")
             \/ Routable(tok[g], "oidc") /\ Goto(g, "oidc")
             \/ Routable(tok[g], "platform") /\ AskForKey(g, "verify")
             \/ Routable(tok[g], "kubernetes") /\ AskForKey(g, "lookup")
    /\ UNCHANGED <<now, entries, jwks, discovered, discoveryMu, published, tok,
                   fetched, excuse>>

-----------------------------------------------------------------------------
(* OIDC discovery, under v.oidcJWKSMu for the whole HTTP exchange. *)

\* Variant: v.oidcDiscovered is checked without the mutex.
LockDiscoveryUnguarded(g) ==
    /\ pc[g] = "oidc"
    /\ IF discovered
       THEN AskForKey(g, "lookup") /\ UNCHANGED discoveryMu
       ELSE Goto(g, "discovering") /\ discoveryMu' = g
    /\ UNCHANGED <<now, entries, jwks, discovered, published, tok, fetched,
                   excuse>>

LockDiscovery(g) ==
    /\ pc[g] = "oidc"
    /\ discoveryMu = Nobody
    /\ IF discovered
       THEN AskForKey(g, "lookup") /\ UNCHANGED discoveryMu
       ELSE Goto(g, "discovering") /\ discoveryMu' = g
    /\ UNCHANGED <<now, entries, jwks, discovered, published, tok, fetched,
                   excuse>>

\* Variant: the mutex stays locked when the request fails.
DiscoverKeepsLock(g) ==
    /\ pc[g] = "discovering"
    /\ \/ /\ discovered' = TRUE /\ discoveryMu' = Nobody
          /\ AskForKey(g, "lookup") /\ UNCHANGED excuse
       \/ /\ NetworkFails
          /\ Return(g, "Authentication")
          /\ excuse' = [excuse EXCEPT ![g] = TRUE]
          /\ UNCHANGED <<discovered, discoveryMu>>
    /\ UNCHANGED <<now, entries, jwks, published, tok, fetched>>

Discover(g) ==
    /\ pc[g] = "discovering"
    /\ discoveryMu' = Nobody
    /\ \/ discovered' = TRUE /\ AskForKey(g, "lookup") /\ UNCHANGED excuse
       \/ /\ NetworkFails
          /\ Return(g, "Authentication")
          /\ excuse' = [excuse EXCEPT ![g] = TRUE]
          /\ UNCHANGED discovered
    /\ UNCHANGED <<now, entries, jwks, published, tok, fetched>>

-----------------------------------------------------------------------------
(* jwksCache.getKey *)

Provider(g) == detectTokenType(tok[g])

Fresh(p) == jwks[p].fetchedAt >= 0 /\ now - jwks[p].fetchedAt < JWKSCacheTTL

\* Variant: a fresh key set without the key settles the matter.
LookupKeyTrustsFresh(g) ==
    /\ pc[g] = "lookup"
    /\ \/ ~Fresh(Provider(g)) /\ Goto(g, "fetch")
       \/ /\ Fresh(Provider(g)) /\ tok[g].kid \in jwks[Provider(g)].keys
          /\ Goto(g, "verify")
       \/ /\ Fresh(Provider(g)) /\ tok[g].kid \notin jwks[Provider(g)].keys
          /\ Return(g, "Invalid")
    /\ UNCHANGED <<now, entries, jwks, discovered, discoveryMu, published, tok,
                   fetched, excuse>>

\* Under RLock: a fresh key set that has the key answers at once; if it has
\* not, the key may be new.
LookupKey(g) ==
    /\ pc[g] = "lookup"
    /\ Goto(g, IF Fresh(Provider(g)) /\ tok[g].kid \in jwks[Provider(g)].keys
               THEN "verify" ELSE "fetch")
    /\ UNCHANGED <<now, entries, jwks, discovered, discoveryMu, published, tok,
                   fetched, excuse>>

\* Variant: the error of a failed request is passed on as it is.
FetchUnclassified(g) ==
    /\ pc[g] = "fetch"
    /\ \/ /\ fetched' = [fetched EXCEPT ![g] = published[Provider(g)]]
          /\ Goto(g, "store")
          /\ UNCHANGED excuse
       \/ /\ NetworkFails
          /\ Return(g, "net.OpError")
          /\ excuse' = [excuse EXCEPT ![g] = TRUE]
          /\ UNCHANGED fetched
    /\ UNCHANGED <<now, entries, jwks, discovered, discoveryMu, published, tok>>

\* The response is what the provider publishes when it answers.
Fetch(g) ==
    /\ pc[g] = "fetch"
    /\ \/ /\ fetched' = [fetched EXCEPT ![g] = published[Provider(g)]]
          /\ Goto(g, "store")
          /\ UNCHANGED excuse
       \/ /\ NetworkFails
          /\ Return(g, "Invalid")
          /\ excuse' = [excuse EXCEPT ![g] = TRUE]
          /\ UNCHANGED fetched
    /\ UNCHANGED <<now, entries, jwks, discovered, discoveryMu, published, tok>>

\* Under Lock: the response replaces whatever the cache holds by now, and is
\* dated from now on.
Store(g) ==
    /\ pc[g] = "store"
    /\ jwks' = [jwks EXCEPT ![Provider(g)] =
                   [keys |-> fetched[g], fetchedAt |-> now]]
    /\ IF tok[g].kid \in fetched[g] THEN Goto(g, "verify")
                                    ELSE Return(g, "Invalid")
    /\ fetched' = [fetched EXCEPT ![g] = {}]
    /\ UNCHANGED <<now, entries, discovered, discoveryMu, published, tok,
                   excuse>>

-----------------------------------------------------------------------------
SignatureOK(t) == t.key = KeyOf(t)

\* Variant: the issuer is not compared.
ClaimsOKAnyIssuer(t) == t.aud /\ t.who

ClaimsOK(t)    == t.iss = detectTokenType(t) /\ t.aud /\ t.who

\* jwt.Parse with the key at hand: the signature, then the claims; then the
\* identity is built.  An expired token is reported as such, whatever else is
\* wrong with its claims.
Verify(g) ==
    /\ pc[g] = "verify"
    /\ \/ ~SignatureOK(tok[g]) /\ Return(g, "Invalid")
       \/ SignatureOK(tok[g]) /\ Over(tok[g]) /\ Return(g, "Expired")
       \/ /\ SignatureOK(tok[g]) /\ ~Over(tok[g])
          /\ ~(Begun(tok[g]) /\ ClaimsOK(tok[g]))
          /\ Return(g, "Invalid")
       \/ /\ SignatureOK(tok[g]) /\ InTime(tok[g]) /\ ClaimsOK(tok[g])
          /\ IF tok[g].exp = NoExp THEN Return(g, "identity")
                                   ELSE Goto(g, "put")
    /\ UNCHANGED <<now, entries, jwks, discovered, discoveryMu, published, tok,
                   fetched, excuse>>

Put(g) ==
    /\ pc[g] = "put"
    /\ Cache!Put(tok[g], tok[g].exp)
    /\ Return(g, "identity")
    /\ UNCHANGED <<jwks, discovered, discoveryMu, published, tok, fetched,
                   excuse>>

-----------------------------------------------------------------------------
(* The environment. *)

Tick ==
    /\ now < MaxTime
    /\ now' = now + 1
    /\ UNCHANGED <<entries, jwks, discovered, discoveryMu, published, pc, tok,
                   fetched, result, excuse>>

\* Provider p publishes another key set.
Rotate(p) ==
    /\ \E K \in KeySets : published' = [published EXCEPT ![p] = K]
    /\ excuse' = [g \in Goroutines |->
                     \/ excuse[g]
                     \/ pc[g] # "idle" /\ Missing(tok[g], published')]
    /\ UNCHANGED <<now, entries, jwks, discovered, discoveryMu, pc, tok,
                   fetched, result>>

Step(g) ==
    \/ LookupToken(g) \/ LockDiscovery(g) \/ Discover(g) \/ LookupKey(g)
    \/ Fetch(g) \/ Store(g) \/ Verify(g) \/ Put(g)

Next ==
    \/ \E g \in Goroutines, t \in Tokens : Validate(g, t)
    \/ \E g \in Goroutines : Step(g)
    \/ \E p \in Providers : Rotate(p)
    \/ Tick

Spec == Init /\ [][Next]_vars

\* Goroutines run, requests are answered or time out (http.Client.Timeout),
\* and sync.Mutex starves nobody.
Fairness ==
    \A g \in Goroutines :
        /\ WF_vars(LookupToken(g) \/ Discover(g) \/ LookupKey(g) \/ Fetch(g)
                   \/ Store(g) \/ Verify(g) \/ Put(g))
        /\ SF_vars(LockDiscovery(g))

FairSpec == Spec /\ Fairness

-----------------------------------------------------------------------------
(* Properties. *)

JwksEntries == [keys : SUBSET AllKeys, fetchedAt : Int]

TypeOK ==
    /\ now \in Nat
    /\ DOMAIN entries \in SUBSET Tokens
    /\ entries \in [DOMAIN entries -> Int]
    /\ jwks \in [Providers -> JwksEntries]
    /\ discovered \in BOOLEAN
    /\ discoveryMu \in Goroutines \cup {Nobody}
    /\ published \in [Providers -> KeySets]
    /\ pc \in [Goroutines -> Locations]
    /\ tok \in [Goroutines -> Tokens]
    /\ fetched \in [Goroutines -> SUBSET AllKeys]
    /\ result \in [Goroutines -> Results]
    /\ excuse \in [Goroutines -> BOOLEAN]

\* What the documentation of Validate says a token has to be: of an enabled
\* type by its issuer, made with an algorithm of that type, signed with the
\* platform's secret or with a key that is published, at some time, under the
\* token's key id, for the right audience and about somebody.
Genuine(t) ==
    /\ t.shape = "ok"
    /\ t.iss \in Enabled
    /\ t.aud /\ t.who
    /\ IF t.iss = "platform"
       THEN t.alg = "HS256" /\ t.key = Secret
       ELSE t.alg \in {"RS256", "ES256"} /\ t.key = t.kid /\ t.kid \in AllKeys

\* No interleaving of calls, cache hits, key rotations and failures makes
\* Validate return an identity for a token that is not genuine or not valid
\* yet, and the cache holds none (jwt.go:659-672).  A key that was withdrawn
\* may still be in use: Genuine looks at no particular moment.
OnlyGenuineAccepted ==
    /\ \A g \in Goroutines :
          result[g] = "identity" => Genuine(tok[g]) /\ Begun(tok[g])
    /\ \A t \in DOMAIN entries : Genuine(t) /\ Begun(t)

\* A genuine token that is in time is refused only if a request failed during
\* the call or its provider did not publish its key at some moment of the
\* call: never because a cache is stale, or because another goroutine
\* overwrote the key set (jwt.go:421-425).
RefusalsHaveReason ==
    [][\A g \in Goroutines :
          /\ pc[g] # "idle" /\ pc'[g] = "idle"
          /\ result'[g] # "identity"
          /\ Genuine(tok[g])
          => ~InTime(tok[g]) \/ excuse'[g]]_vars

\* One goroutine at a time asks for the discovery document, and nobody asks
\* once the answer is known (jwt.go:934-952).
DiscoveryIsExclusive ==
    \A g \in Goroutines :
        pc[g] = "discovering" => discoveryMu = g /\ ~discovered

\* No identity stays cached for longer than its token lives (jwt.go:168-170 and
\* 341), also when time passes between the verification of a token and its put.
CachedNoLongerThanToken == Cache!NoEntryOutlivesToken

\* Every call of Validate returns, whoever waits for the discovery document.
EveryValidateReturns ==
    \A g \in Goroutines : pc[g] # "idle" ~> pc[g] = "idle"
=============================================================================
