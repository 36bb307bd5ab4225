------------------------ MODULE JWTValidator_proofs ------------------------
(***************************************************************************)
(* Only genuine tokens are accepted, for any number of goroutines, any set *)
(* of tokens, any configuration and any schedule of key rotations.         *)
(***************************************************************************)
EXTENDS JWTValidator, TLAPS

\* What has been established about the token at each point of the call.
Checked(g) ==
    LET t == tok[g]
    IN  /\ pc[g] # "idle" => t.shape \in {"ok", "malformed"}
        /\ pc[g] \in {"oidc", "discovering"}
              => t.shape = "ok" /\ detectTokenType(t) = "oidc"
        /\ pc[g] \in {"lookup", "fetch", "store"}
              => /\ t.shape = "ok" /\ ValidMethod(t)
                 /\ detectTokenType(t) \in Providers
        /\ pc[g] = "verify"
              => /\ t.shape = "ok" /\ ValidMethod(t)
                 /\ \/ detectTokenType(t) = "platform"
                    \/ detectTokenType(t) \in Providers /\ t.kid \in AllKeys
        /\ pc[g] = "put" => Genuine(t)
        /\ result[g] = "identity" => Genuine(t)

\* Everything cached, in either cache, is what it should be.
CachesOK ==
    /\ \A p \in Providers : jwks[p].keys \subseteq AllKeys
    /\ \A t \in DOMAIN entries : Genuine(t)
    /\ published \in [Providers -> KeySets]
    /\ \A g \in Goroutines : fetched[g] \subseteq AllKeys

\* The functions that steps update are defined on all goroutines.
Shape ==
    /\ DOMAIN pc = Goroutines /\ DOMAIN tok = Goroutines
    /\ DOMAIN result = Goroutines /\ DOMAIN fetched = Goroutines
    /\ DOMAIN jwks = Providers
    /\ \A g \in Goroutines : tok[g] \in Tokens

IInv == Shape /\ CachesOK /\ \A g \in Goroutines : Checked(g)

-----------------------------------------------------------------------------
\* put adds no other key than its own.
LEMMA PutKeys ==
    ASSUME NEW t, NEW e, Cache!Put(t, e)
    PROVE  DOMAIN entries' \subseteq DOMAIN entries \cup {t}
<1>1. CASE Cache!EffectiveTTL(e) <= 0
  BY <1>1 DEF Cache!Put
<1>2. CASE ~(Cache!EffectiveTTL(e) <= 0)
  <2>1. PICK K \in Cache!Room(DOMAIN entries) :
           entries' = [u \in K \cup {t} |->
                          IF u = t THEN now + Cache!EffectiveTTL(e)
                                   ELSE entries[u]]
    BY <1>2 DEF Cache!Put
  <2>2. K \subseteq DOMAIN entries
    BY DEF Cache!Room, Cache!Live, Cache!Oldest
  <2> QED
    BY <2>1, <2>2
<1> QED
  BY <1>1, <1>2

\* A token of a type, by a method of that type, that verifies and whose claims
\* are in order, is genuine.
LEMMA VerifiedIsGenuine ==
    ASSUME NEW t \in Tokens, t.shape = "ok", ValidMethod(t),
           \/ detectTokenType(t) = "platform"
           \/ detectTokenType(t) \in Providers /\ t.kid \in AllKeys,
           SignatureOK(t), ClaimsOK(t)
    PROVE  Genuine(t)
<1>1. detectTokenType(t) \in Enabled /\ t.iss = detectTokenType(t)
  <2>1. t.iss \in TokenTypes \cup {"other"}
    BY JWTValidatorConstants
  <2>2. t.iss = detectTokenType(t)
    BY DEF ClaimsOK
  <2>3. CASE t.iss \in Enabled
    BY <2>2, <2>3
  <2>4. CASE t.iss \notin Enabled
    <3>1. detectTokenType(t) = GuessedType(t)
      BY <2>4 DEF detectTokenType
    <3>2. GuessedType(t) \in Enabled \cup {"none"}
      BY DEF GuessedType
    <3> QED
      BY <2>2, <2>4, <3>1, <3>2 DEF Providers
  <2> QED
    BY <2>3, <2>4
<1> QED
  BY <1>1 DEF Genuine, ValidMethod, SignatureOK, KeyOf, ClaimsOK, Providers,
              RSorES

LEMMA InitIInv == Init => IInv
<1>1. ASSUME Init, NEW g \in Goroutines
      PROVE  Checked(g)
  BY <1>1 DEF Init, Checked
<1>2. Init => Shape
  BY DEF Init, Shape
<1>3. ASSUME Init
      PROVE  CachesOK
  <2>1. DOMAIN entries = {}
    BY <1>3 DEF Init
  <2>2. \A p \in Providers : jwks[p].keys = {}
    BY <1>3 DEF Init, NoEntry
  <2> QED
    BY <1>3, <2>1, <2>2 DEF Init, CachesOK
<1> QED
  BY <1>1, <1>2, <1>3 DEF IInv

\* What is true of a goroutine stays true while others move.
LEMMA OthersUndisturbed ==
    ASSUME NEW g \in Goroutines, Checked(g),
           pc'[g] = pc[g], tok'[g] = tok[g], result'[g] = result[g]
    PROVE  Checked(g)'
  BY DEF Checked

LEMMA NextIInv == IInv /\ [Next]_vars => IInv'
<1> SUFFICES ASSUME IInv, [Next]_vars
             PROVE  IInv'
  OBVIOUS
<1>1. ASSUME NEW g \in Goroutines, NEW t \in Tokens, Validate(g, t)
      PROVE  IInv'
  <2>1. Shape' /\ CachesOK'
    BY <1>1 DEF Validate, Return, IInv, Shape, CachesOK
  <2>2. Checked(g)'
    BY <1>1, JWTValidatorConstants
    DEF Validate, Return, IInv, Shape, Checked
  <2>3. ASSUME NEW h \in Goroutines, h # g
        PROVE  Checked(h)'
    BY <1>1, <2>3, OthersUndisturbed DEF Validate, Return, IInv, Shape
  <2> QED
    BY <2>1, <2>2, <2>3 DEF IInv
<1>2. ASSUME NEW g \in Goroutines, Step(g)
      PROVE  IInv'
  <2>0. /\ Checked(g) /\ g \in DOMAIN pc /\ g \in DOMAIN result
        /\ tok[g] \in Tokens
    BY DEF IInv, Shape
  <2>1. Shape'
    BY <1>2 DEF Step, LookupToken, LockDiscovery, Discover, LookupKey, Fetch,
                Store, Verify, Put, AskForKey, Goto, Return, IInv, Shape
  <2>2. ASSUME NEW h \in Goroutines, h # g
        PROVE  Checked(h)'
    <3>1. pc'[h] = pc[h] /\ tok'[h] = tok[h] /\ result'[h] = result[h]
      BY <1>2, <2>2
      DEF Step, LookupToken, LockDiscovery, Discover, LookupKey, Fetch,
          Store, Verify, Put, AskForKey, Goto, Return, IInv, Shape
    <3> QED
      BY <3>1, OthersUndisturbed DEF IInv
  <2>3. CachesOK'
    <3>1. CASE Put(g)
      BY <2>0, <3>1, PutKeys DEF Put, IInv, CachesOK, Checked
    <3>2. CASE Store(g)
      BY <3>2 DEF Store, IInv, CachesOK, Shape
    <3>3. CASE Fetch(g)
      <4>1. Provider(g) \in Providers
        BY <2>0, <3>3 DEF Fetch, Checked, Provider
      <4>2. published[Provider(g)] \subseteq AllKeys
        BY <4>1 DEF IInv, CachesOK, AllKeys
      <4> QED
        BY <3>3, <4>2 DEF Fetch, IInv, CachesOK, Shape
    <3>4. CASE \/ LookupToken(g) \/ LockDiscovery(g) \/ Discover(g)
               \/ LookupKey(g) \/ Verify(g)
      BY <3>4 DEF LookupToken, LockDiscovery, Discover, LookupKey, Verify,
                  IInv, CachesOK
    <3> QED
      BY <1>2, <3>1, <3>2, <3>3, <3>4 DEF Step
  <2>4. Checked(g)'
    <3>1. CASE LookupToken(g)
      <4>1. tok' = tok /\ pc[g] = "cache" /\ result[g] = result[g]
        BY <3>1 DEF LookupToken
      <4>2. CASE Cache!get(tok[g]) /\ Return(g, "identity")
        BY <2>0, <4>1, <4>2
        DEF Cache!get, Return, Checked, IInv, CachesOK, Shape
      <4>3. CASE \/ Return(g, "Invalid") \/ Return(g, "Authentication")
        BY <2>0, <4>1, <4>3 DEF Return, Checked, IInv, Shape
      <4>4. CASE Routable(tok[g], "oidc") /\ Goto(g, "oidc")
        BY <2>0, <4>1, <4>4 DEF Routable, Unparsable, Goto, Checked, IInv, Shape
      <4>5. CASE /\ Routable(tok[g], "platform") /\ ValidMethod(tok[g])
                 /\ Goto(g, "verify")
        BY <2>0, <4>1, <4>5 DEF Routable, Unparsable, Goto, Checked, IInv, Shape
      <4>6. CASE /\ Routable(tok[g], "kubernetes") /\ ValidMethod(tok[g])
                 /\ Goto(g, "lookup")
        BY <2>0, <4>1, <4>6
        DEF Routable, Unparsable, Goto, Checked, IInv, Shape, Providers
      <4> QED
        BY <3>1, <4>2, <4>3, <4>4, <4>5, <4>6 DEF LookupToken, AskForKey
    <3>2. CASE LockDiscovery(g)
      BY <2>0, <3>2 DEF LockDiscovery, AskForKey, Goto, Return, Checked,
                        Providers
    <3>3. CASE Discover(g)
      BY <2>0, <3>3 DEF Discover, AskForKey, Goto, Return, Checked, Providers
    <3>4. CASE LookupKey(g)
      BY <2>0, <3>4 DEF LookupKey, Goto, Checked, Provider, IInv, CachesOK
    <3>5. CASE Fetch(g)
      BY <2>0, <3>5 DEF Fetch, Goto, Return, Checked
    <3>6. CASE Store(g)
      BY <2>0, <3>6 DEF Store, Goto, Return, Checked, IInv, CachesOK
    <3>7. CASE Verify(g)
      <4>1. tok' = tok /\ pc[g] = "verify"
        BY <3>7 DEF Verify
      <4>2. CASE Return(g, "Invalid") \/ Return(g, "Expired")
        BY <2>0, <4>1, <4>2 DEF Return, Checked
      <4>3. CASE SignatureOK(tok[g]) /\ ClaimsOK(tok[g])
        <5>1. Genuine(tok[g])
          BY <2>0, <4>1, <4>3, VerifiedIsGenuine DEF Checked
        <5> QED
          BY <2>0, <3>7, <4>1, <5>1 DEF Verify, Goto, Return, Checked, Genuine
      <4> QED
        BY <3>7, <4>2, <4>3 DEF Verify
    <3>8. CASE Put(g)
      BY <2>0, <3>8 DEF Put, Return, Checked
    <3> QED
      BY <1>2, <3>1, <3>2, <3>3, <3>4, <3>5, <3>6, <3>7, <3>8 DEF Step
  <2> QED
    BY <2>1, <2>2, <2>3, <2>4 DEF IInv
<1>3. ASSUME NEW p \in Providers, Rotate(p)
      PROVE  IInv'
  BY <1>3, OthersUndisturbed DEF Rotate, IInv, Shape, CachesOK
<1>4. CASE Tick
  BY <1>4, OthersUndisturbed DEF Tick, IInv, Shape, CachesOK
<1>5. CASE UNCHANGED vars
  BY <1>5, OthersUndisturbed DEF vars, IInv, Shape, CachesOK
<1> QED
  BY <1>1, <1>2, <1>3, <1>4, <1>5 DEF Next

-----------------------------------------------------------------------------
\* The discovery document is asked for under the mutex, and only until it is
\* known.
THEOREM DiscoveryExclusive == Spec => []DiscoveryIsExclusive
<1>1. Init => DiscoveryIsExclusive
  BY DEF Init, DiscoveryIsExclusive
<1>2. IInv /\ DiscoveryIsExclusive /\ [Next]_vars => DiscoveryIsExclusive'
  <2> SUFFICES ASSUME IInv, DiscoveryIsExclusive, [Next]_vars,
                      NEW h \in Goroutines, pc'[h] = "discovering"
               PROVE  discoveryMu' = h /\ ~discovered'
    BY DEF DiscoveryIsExclusive
  <2> USE JWTValidatorConstants
  <2>1. ASSUME NEW g \in Goroutines, LockDiscovery(g)
        PROVE  discoveryMu' = h /\ ~discovered'
    <3>1. pc[h] # "discovering" /\ pc[g] = "oidc"
      BY <2>1 DEF LockDiscovery, DiscoveryIsExclusive
    <3>2. g = h
      BY <2>1, <3>1
      DEF LockDiscovery, AskForKey, Goto, Return, IInv, Shape
    <3> QED
      BY <2>1, <3>2
      DEF LockDiscovery, AskForKey, Goto, Return, IInv, Shape
  <2>2. ASSUME NEW g \in Goroutines, Discover(g)
        PROVE  FALSE
    <3>1. pc'[g] # "discovering"
      BY <2>2 DEF Discover, AskForKey, Goto, Return, IInv, Shape
    <3>2. pc[h] = "discovering" /\ h # g
      BY <2>2, <3>1 DEF Discover, AskForKey, Goto, Return, IInv, Shape
    <3> QED
      BY <2>2, <3>2 DEF Discover, DiscoveryIsExclusive
  <2>3. ASSUME NEW g \in Goroutines,
               \/ LookupToken(g) \/ LookupKey(g) \/ Fetch(g) \/ Store(g)
               \/ Verify(g) \/ Put(g)
        PROVE  discoveryMu' = h /\ ~discovered'
    <3>1. pc'[g] # "discovering"
      BY <2>3 DEF LookupToken, LookupKey, Fetch, Store, Verify, Put,
                  AskForKey, Goto, Return, IInv, Shape
    <3>2. pc[h] = "discovering"
      BY <2>3, <3>1 DEF LookupToken, LookupKey, Fetch, Store, Verify, Put,
                        AskForKey, Goto, Return, IInv, Shape
    <3> QED
      BY <2>3, <3>2 DEF LookupToken, LookupKey, Fetch, Store, Verify, Put,
                        DiscoveryIsExclusive
  <2>4. ASSUME NEW g \in Goroutines, NEW t \in Tokens, Validate(g, t)
        PROVE  discoveryMu' = h /\ ~discovered'
    BY <2>4 DEF Validate, Return, DiscoveryIsExclusive, IInv, Shape
  <2>5. CASE Tick \/ (\E p \in Providers : Rotate(p)) \/ UNCHANGED vars
    BY <2>5 DEF Tick, Rotate, vars, DiscoveryIsExclusive
  <2> QED
    BY <2>1, <2>2, <2>3, <2>4, <2>5 DEF Next, Step
<1>3. IInv /\ [Next]_vars => IInv'
  BY NextIInv
<1> QED
  BY <1>1, <1>2, <1>3, InitIInv, PTL DEF Spec

-----------------------------------------------------------------------------
\* The caches, the mutex and the goroutines stay what they are (jwt.go:279-390,
\* 426-457): a key set is stored as it was fetched, under a provider, an identity
\* with an expiry, and a call is always at one of its steps.
THEOREM TypeCorrect == Spec => []TypeOK
<1> USE DEF Locations, Results
<1>1. Init => TypeOK
  <2> SUFFICES ASSUME Init PROVE TypeOK
    OBVIOUS
  <2>1. NoEntry \in JwksEntries
    BY DEF NoEntry, JwksEntries
  <2>2. DOMAIN entries = {} /\ entries = [t \in DOMAIN entries |-> 0]
    BY DEF Init
  <2>3. tok \in [Goroutines -> Tokens] /\ jwks \in [Providers -> JwksEntries]
    BY <2>1 DEF Init
  <2>4. entries \in [DOMAIN entries -> Int]
    BY <2>2
  <2> QED
    BY <2>2, <2>3, <2>4 DEF Init, TypeOK
<1>2. IInv /\ TypeOK /\ [Next]_vars => TypeOK'
  <2> SUFFICES ASSUME IInv, TypeOK, [Next]_vars PROVE TypeOK'
    OBVIOUS
  <2>1. ASSUME NEW g \in Goroutines, NEW t \in Tokens, Validate(g, t)
        PROVE  TypeOK'
    <3>1. /\ tok' \in [Goroutines -> Tokens] /\ pc' \in [Goroutines -> Locations]
          /\ result' \in [Goroutines -> Results]
      BY <2>1 DEF Validate, Return, TypeOK
    <3>2. excuse' \in [Goroutines -> BOOLEAN]
      <4>1. Missing(t, published) \in BOOLEAN
        BY DEF Missing
      <4> QED
        BY <2>1, <4>1 DEF Validate, TypeOK
    <3> QED
      BY <2>1, <3>1, <3>2 DEF Validate, TypeOK
  <2>2. ASSUME NEW g \in Goroutines, Step(g)
        PROVE  TypeOK'
    <3>1. ASSUME NEW l \in Locations, Goto(g, l)
          PROVE  pc' \in [Goroutines -> Locations] /\ result' \in [Goroutines -> Results]
      BY <3>1 DEF Goto, TypeOK
    <3>2. ASSUME NEW r \in Results, Return(g, r)
          PROVE  pc' \in [Goroutines -> Locations] /\ result' \in [Goroutines -> Results]
      BY <3>2 DEF Return, TypeOK
    <3>3. CASE LookupToken(g)
      BY <3>1, <3>2, <3>3 DEF LookupToken, AskForKey, TypeOK
    <3>4. CASE LockDiscovery(g)
      BY <3>1, <3>2, <3>4 DEF LockDiscovery, AskForKey, TypeOK
    <3>5. CASE Discover(g)
      BY <3>1, <3>2, <3>5 DEF Discover, AskForKey, TypeOK
    <3>6. CASE LookupKey(g)
      BY <3>1, <3>6 DEF LookupKey, TypeOK
    <3>7. CASE Fetch(g)
      <4>1. published[Provider(g)] \subseteq AllKeys
        BY <3>7 DEF Fetch, IInv, Checked, Provider, CachesOK, AllKeys
      <4>2. fetched' \in [Goroutines -> SUBSET AllKeys]
        BY <3>7, <4>1 DEF Fetch, TypeOK
      <4>3. excuse' \in [Goroutines -> BOOLEAN]
        BY <3>7 DEF Fetch, TypeOK
      <4>4. pc' \in [Goroutines -> Locations] /\ result' \in [Goroutines -> Results]
        BY <3>1, <3>2, <3>7 DEF Fetch
      <4> QED
        BY <3>7, <4>2, <4>3, <4>4 DEF Fetch, TypeOK
    <3>8. CASE Store(g)
      <4>1. [keys |-> fetched[g], fetchedAt |-> now] \in JwksEntries
        BY DEF JwksEntries, TypeOK
      <4>2. jwks' \in [Providers -> JwksEntries] /\ fetched' \in [Goroutines -> SUBSET AllKeys]
        BY <3>8, <4>1 DEF Store, TypeOK
      <4>3. pc' \in [Goroutines -> Locations] /\ result' \in [Goroutines -> Results]
        BY <3>1, <3>2, <3>8 DEF Store
      <4> QED
        BY <3>8, <4>2, <4>3 DEF Store, TypeOK
    <3>9. CASE Verify(g)
      BY <3>1, <3>2, <3>9 DEF Verify, TypeOK
    <3>10. CASE Put(g)
      <4>1. /\ pc' \in [Goroutines -> Locations] /\ result' \in [Goroutines -> Results]
        BY <3>2, <3>10 DEF Put
      <4>2. DOMAIN entries' \in SUBSET Tokens
        BY <3>10, PutKeys DEF Put, TypeOK
      <4>3. entries' \in [DOMAIN entries' -> Int]
        <5> DEFINE e == tok[g].exp
        <5>1. Cache!EffectiveTTL(e) \in Int
          BY JWTValidatorConstants DEF Cache!EffectiveTTL, TypeOK, NoExp
        <5>2. CASE Cache!EffectiveTTL(e) <= 0
          BY <3>10, <5>2 DEF Put, Cache!Put, TypeOK
        <5>3. CASE ~(Cache!EffectiveTTL(e) <= 0)
          <6>1. PICK K \in Cache!Room(DOMAIN entries) :
                   entries' = [u \in K \cup {tok[g]} |->
                                  IF u = tok[g] THEN now + Cache!EffectiveTTL(e)
                                                ELSE entries[u]]
            BY <3>10, <5>3 DEF Put, Cache!Put
          <6>2. K \subseteq DOMAIN entries
            BY DEF Cache!Room, Cache!Live, Cache!Oldest
          <6>3. now + Cache!EffectiveTTL(e) \in Int
            BY <5>1 DEF TypeOK
          <6>4. \A u \in K : entries[u] \in Int
            BY <6>2 DEF TypeOK
          <6> QED
            BY <6>1, <6>3, <6>4
        <5> QED
          BY <5>2, <5>3
      <4>4. now' = now
        BY <3>10 DEF Put, Cache!Put
      <4> QED
        BY <3>10, <4>1, <4>2, <4>3, <4>4 DEF Put, TypeOK
    <3> QED
      BY <2>2, <3>3, <3>4, <3>5, <3>6, <3>7, <3>8, <3>9, <3>10 DEF Step
  <2>3. ASSUME NEW p \in Providers, Rotate(p)
        PROVE  TypeOK'
    <3>1. published' \in [Providers -> KeySets]
      BY <2>3 DEF Rotate, TypeOK
    <3>2. excuse' \in [Goroutines -> BOOLEAN]
      BY <2>3 DEF Rotate, TypeOK
    <3> QED
      BY <2>3, <3>1, <3>2 DEF Rotate, TypeOK
  <2>4. CASE Tick
    BY <2>4 DEF Tick, TypeOK
  <2>5. CASE UNCHANGED vars
    BY <2>5 DEF vars, TypeOK
  <2> QED
    BY <2>1, <2>2, <2>3, <2>4, <2>5 DEF Next
<1>3. IInv /\ [Next]_vars => IInv'
  BY NextIInv
<1> QED
  BY <1>1, <1>2, <1>3, InitIInv, PTL DEF Spec

-----------------------------------------------------------------------------
\* What was verified has begun, and stays begun as time passes.
BegunInv ==
    /\ \A g \in Goroutines :
          pc[g] = "put" \/ result[g] = "identity" => Begun(tok[g])
    /\ \A t \in DOMAIN entries : Begun(t)

\* The clock does not run back.
LEMMA StaysBegun ==
    ASSUME TypeOK, [Next]_vars, NEW t \in Tokens, Begun(t)
    PROVE  Begun(t)'
<1>1. now \in Nat /\ now' \in Nat /\ now' >= now
  <2>1. now' = now \/ now' = now + 1
    BY DEF Next, Step, Validate, LookupToken, LockDiscovery, Discover, LookupKey,
           Fetch, Store, Verify, Put, Cache!Put, Rotate, Tick, vars
  <2> QED
    BY <2>1 DEF TypeOK
<1>2. t.nbf \in Nat /\ ClockSkew \in Nat
  BY JWTValidatorConstants
<1> QED
  BY <1>1, <1>2 DEF Begun

LEMMA BegunStep ==
    ASSUME TypeOK, BegunInv, [Next]_vars
    PROVE  BegunInv'
<1>1. ASSUME NEW g \in Goroutines, \/ pc'[g] # "put" /\ result'[g] # "identity"
                                   \/ tok'[g] \in Tokens /\ Begun(tok'[g])
      PROVE  pc'[g] = "put" \/ result'[g] = "identity" => Begun(tok[g])'
  BY <1>1, StaysBegun
<1>2. ASSUME NEW g \in Goroutines,
             tok'[g] = tok[g], pc'[g] = pc[g], result'[g] = result[g]
      PROVE  pc'[g] = "put" \/ result'[g] = "identity" => Begun(tok[g])'
  BY <1>1, <1>2 DEF BegunInv, TypeOK
<1>3. ASSUME DOMAIN entries' = DOMAIN entries
      PROVE  \A t \in DOMAIN entries' : Begun(t)'
  BY <1>3, StaysBegun DEF BegunInv, TypeOK
<1>4. ASSUME NEW g \in Goroutines, NEW t \in Tokens, Validate(g, t)
      PROVE  BegunInv'
  <2>1. pc'[g] # "put" /\ result'[g] # "identity" /\ entries' = entries
    BY <1>4 DEF Validate, Return, TypeOK
  <2>2. ASSUME NEW h \in Goroutines, h # g
        PROVE  tok'[h] = tok[h] /\ pc'[h] = pc[h] /\ result'[h] = result[h]
    BY <1>4, <2>2 DEF Validate, Return, TypeOK
  <2> QED
    BY <1>1, <1>2, <1>3, <2>1, <2>2 DEF BegunInv
<1>5. ASSUME NEW g \in Goroutines, Step(g)
      PROVE  BegunInv'
  <2>1. tok' = tok /\ tok[g] \in Tokens
    BY <1>5 DEF Step, LookupToken, LockDiscovery, Discover, LookupKey, Fetch,
                Store, Verify, Put, TypeOK
  <2>2. ASSUME NEW h \in Goroutines, h # g
        PROVE  pc'[h] = pc[h] /\ result'[h] = result[h]
    BY <1>5, <2>2 DEF Step, LookupToken, LockDiscovery, Discover, LookupKey,
       Fetch, Store, Verify, Put, AskForKey, Goto, Return, TypeOK
  <2>3. \/ pc'[g] # "put" /\ result'[g] # "identity"
        \/ Begun(tok[g])
    <3>1. CASE LookupToken(g)
      BY <3>1 DEF LookupToken, AskForKey, Goto, Return, Cache!get, BegunInv, TypeOK
    <3>2. CASE LockDiscovery(g) \/ Discover(g) \/ LookupKey(g) \/ Fetch(g) \/ Store(g)
      BY <3>2 DEF LockDiscovery, Discover, LookupKey, Fetch, Store, AskForKey,
                  Goto, Return, BegunInv, TypeOK
    <3>3. CASE Verify(g)
      BY <3>3 DEF Verify, InTime, Goto, Return, BegunInv, TypeOK
    <3>4. CASE Put(g)
      BY <3>4 DEF Put, BegunInv
    <3> QED
      BY <1>5, <3>1, <3>2, <3>3, <3>4 DEF Step
  <2>4. \A t \in DOMAIN entries' : Begun(t)'
    <3>1. CASE Put(g)
      <4>1. DOMAIN entries' \subseteq DOMAIN entries \cup {tok[g]}
        BY <3>1, PutKeys DEF Put
      <4>2. Begun(tok[g]) /\ \A t \in DOMAIN entries : Begun(t) /\ t \in Tokens
        BY <3>1 DEF Put, BegunInv, TypeOK
      <4> QED
        BY <2>1, <4>1, <4>2, StaysBegun
    <3>2. CASE ~Put(g)
      BY <1>3, <1>5, <3>2 DEF Step, LookupToken, LockDiscovery, Discover,
                              LookupKey, Fetch, Store, Verify
    <3> QED
      BY <3>1, <3>2
  <2> QED
    BY <1>1, <1>2, <2>1, <2>2, <2>3, <2>4 DEF BegunInv
<1>6. CASE Tick \/ (\E p \in Providers : Rotate(p)) \/ UNCHANGED vars
  BY <1>2, <1>3, <1>6 DEF Tick, Rotate, vars, BegunInv
<1> QED
  BY <1>4, <1>5, <1>6 DEF Next

\* Validate accepts genuine tokens only, none before its time, and caches no
\* others.
THEOREM GenuineOnly == Spec => []OnlyGenuineAccepted
<1>1. IInv /\ [Next]_vars => IInv'
  BY NextIInv
<1>2. Init => BegunInv
  BY DEF Init, BegunInv
<1>3. TypeOK /\ BegunInv /\ [Next]_vars => BegunInv'
  BY BegunStep
<1>4. IInv /\ BegunInv => OnlyGenuineAccepted
  BY DEF IInv, BegunInv, CachesOK, Checked, OnlyGenuineAccepted
<1> QED
  BY <1>1, <1>2, <1>3, <1>4, InitIInv, TypeCorrect, PTL DEF Spec

-----------------------------------------------------------------------------
\* What a call that has no excuse can count on: its key is published, and in
\* the response that it read.
KeyAtHand(g) ==
    pc[g] # "idle" /\ ~excuse[g] =>
        /\ ~Missing(tok[g], published)
        /\ pc[g] = "store" /\ detectTokenType(tok[g]) \in Providers
              => tok[g].kid \in fetched[g]

\* The token of a call stays, and nobody else reads its response.
LEMMA KeyStaysAtHand ==
    ASSUME NEW g \in Goroutines, KeyAtHand(g), published' = published,
           pc'[g] = pc[g], tok'[g] = tok[g], fetched'[g] = fetched[g],
           excuse'[g] = excuse[g]
    PROVE  KeyAtHand(g)'
  BY DEF KeyAtHand, Missing

\* No step takes the key away without an excuse.
LEMMA KeyStep ==
    ASSUME IInv, TypeOK, \A g \in Goroutines : KeyAtHand(g), [Next]_vars
    PROVE  \A g \in Goroutines : KeyAtHand(g)'
<1> SUFFICES ASSUME NEW g \in Goroutines PROVE KeyAtHand(g)'
  OBVIOUS
<1>1. ASSUME NEW h \in Goroutines, NEW t \in Tokens, Validate(h, t)
      PROVE  KeyAtHand(g)'
  <2>1. CASE h = g
    <3>1. /\ tok'[g] = t /\ excuse'[g] = Missing(t, published) /\ published' = published
          /\ pc'[g] # "store"
      BY <1>1, <2>1 DEF Validate, Return, TypeOK
    <3> QED
      BY <3>1 DEF KeyAtHand, Missing
  <2>2. CASE h # g
    BY <1>1, <2>2, KeyStaysAtHand DEF Validate, Return, TypeOK
  <2> QED
    BY <2>1, <2>2
<1>2. ASSUME NEW h \in Goroutines, Step(h)
      PROVE  KeyAtHand(g)'
  <2>1. published' = published /\ tok' = tok
    BY <1>2 DEF Step, LookupToken, LockDiscovery, Discover, LookupKey, Fetch, Store, Verify, Put
  <2>2. CASE h # g
    <3>1. /\ pc'[g] = pc[g] /\ fetched'[g] = fetched[g] /\ excuse'[g] = excuse[g]
      BY <1>2, <2>2 DEF Step, LookupToken, LockDiscovery, Discover, LookupKey, Fetch, Store,
         Verify, Put, AskForKey, Goto, Return, TypeOK
    <3> QED
      BY <2>1, <3>1, KeyStaysAtHand
  <2>3. CASE h = g
    <3>1. CASE Fetch(g)
      <4>1. \/ pc'[g] = "idle"
            \/ /\ fetched'[g] = published[Provider(g)] /\ excuse'[g] = excuse[g]
               /\ pc[g] = "fetch"
        BY <3>1 DEF Fetch, Return, TypeOK
      <4> QED
        BY <2>1, <4>1 DEF KeyAtHand, Missing, Provider
    <3>2. CASE Step(g) /\ ~Fetch(g)
      <4>1. pc[g] # "idle" /\ pc'[g] # "store" /\ (pc'[g] = "idle" \/ excuse'[g] = excuse[g])
        BY <3>2 DEF Step, LookupToken, LockDiscovery, Discover, LookupKey, Store, Verify, Put,
           AskForKey, Goto, Return, TypeOK
      <4> QED
        BY <2>1, <4>1 DEF KeyAtHand, Missing
    <3> QED
      BY <1>2, <2>3, <3>1, <3>2
  <2> QED
    BY <2>2, <2>3
<1>3. ASSUME NEW p \in Providers, Rotate(p)
      PROVE  KeyAtHand(g)'
  <2>1. excuse'[g] = (excuse[g] \/ (pc[g] # "idle" /\ Missing(tok[g], published')))
    BY <1>3 DEF Rotate
  <2>2. pc' = pc /\ tok' = tok /\ fetched' = fetched
    BY <1>3 DEF Rotate
  <2>3. excuse[g] \in BOOLEAN /\ excuse'[g] \in BOOLEAN
    BY <2>1 DEF TypeOK
  <2>4. ~excuse'[g] /\ pc[g] # "idle" => ~excuse[g] /\ ~Missing(tok[g], published')
    BY <2>1, <2>3
  <2> QED
    BY <2>2, <2>4 DEF KeyAtHand, Missing
<1>4. CASE Tick \/ UNCHANGED vars
  BY <1>4, KeyStaysAtHand DEF Tick, vars
<1> QED
  BY <1>1, <1>2, <1>3, <1>4 DEF Next

\* What a genuine token has that a call looks for.
LEMMA GenuineFits ==
    ASSUME NEW t \in Tokens, Genuine(t)
    PROVE  /\ ~Unparsable(t) /\ ~Unroutable(t) /\ ValidMethod(t) /\ HasKid(t)
           /\ detectTokenType(t) = t.iss /\ SignatureOK(t) /\ ClaimsOK(t)
<1>1. detectTokenType(t) = t.iss /\ t.iss \in TokenTypes
  BY JWTValidatorConstants DEF Genuine, detectTokenType
<1>2. ~Unparsable(t) /\ ValidMethod(t)
  BY <1>1 DEF Genuine, Unparsable, ValidMethod, RSorES
<1>3. HasKid(t)
  BY <1>1, JWTValidatorConstants DEF Genuine, HasKid
<1> QED
  BY <1>1, <1>2, <1>3 DEF Genuine, Unroutable, SignatureOK, KeyOf, ClaimsOK, TokenTypes

\* A genuine token that is in time is refused only after a request failed or
\* when its provider did not publish its key at some moment of the call, however
\* many goroutines overwrite the key sets (jwt.go:421-425).
THEOREM RefusedWithReason == Spec => RefusalsHaveReason
<1> DEFINE Keys == \A g \in Goroutines : KeyAtHand(g)
           Refuses(g) == /\ pc[g] # "idle" /\ pc'[g] = "idle"
                         /\ result'[g] # "identity"
                         /\ Genuine(tok[g])
           Reasoned == \A g \in Goroutines : Refuses(g) => ~InTime(tok[g]) \/ excuse'[g]
<1>1. Init => Keys
  BY DEF Init, KeyAtHand
<1>2. IInv /\ TypeOK /\ Keys /\ [Next]_vars => Keys'
  BY KeyStep
<1>3. IInv /\ TypeOK /\ Keys /\ [Next]_vars => [Reasoned]_vars
  <2> SUFFICES ASSUME IInv, TypeOK, Keys, [Next]_vars, NEW g \in Goroutines, Refuses(g)
               PROVE  ~InTime(tok[g]) \/ excuse'[g]
    OBVIOUS
  <2>0. tok[g] \in Tokens
    BY DEF TypeOK
  <2>1. PICK h \in Goroutines : Step(h)
    BY DEF Next, Validate, Return, Rotate, Tick, vars, TypeOK
  <2>2. h = g
    BY <2>1 DEF Step, LookupToken, LockDiscovery, Discover, LookupKey, Fetch, Store, Verify,
       Put, AskForKey, Goto, Return, TypeOK
  <2>3. CASE LookupToken(g) \/ LockDiscovery(g) \/ LookupKey(g) \/ Put(g)
    BY <2>0, <2>3, GenuineFits DEF LookupToken, LockDiscovery, LookupKey, Put, AskForKey, Goto,
       Return, TypeOK
  <2>4. CASE Discover(g) \/ Fetch(g)
    BY <2>0, <2>4, GenuineFits DEF Discover, Fetch, AskForKey, Goto, Return, TypeOK
  <2>5. CASE Store(g)
    <3>1. tok[g].kid \notin fetched[g] /\ pc[g] = "store" /\ excuse' = excuse
      BY <2>5 DEF Store, Goto, TypeOK
    <3>2. detectTokenType(tok[g]) \in Providers
      BY <3>1 DEF IInv, Checked
    <3> QED
      BY <3>1, <3>2 DEF KeyAtHand
  <2>6. CASE Verify(g)
    BY <2>0, <2>6, GenuineFits DEF Verify, InTime, Goto, Return, TypeOK
  <2> QED
    BY <2>1, <2>2, <2>3, <2>4, <2>5, <2>6 DEF Step
<1>4. IInv /\ [Next]_vars => IInv'
  BY NextIInv
<1> QED
  BY <1>1, <1>2, <1>3, <1>4, InitIInv, TypeCorrect, PTL DEF Spec, RefusalsHaveReason
-----------------------------------------------------------------------------
\* Whatever the goroutines do, the validator uses the token cache as the cache
\* expects: it puts tokens with their own exp, one at a time, and touches no
\* entry otherwise (jwt.go:692-755).
THEOREM ValidatorUsesCache == Spec => Cache!Spec
<1>1. Init => Cache!Init
  BY DEF Init, Cache!Init
<1>2. IInv /\ [Next]_vars => [Cache!Next]_(Cache!vars)
  <2> SUFFICES ASSUME IInv, [Next]_vars PROVE [Cache!Next]_(Cache!vars)
    OBVIOUS
  <2>1. ASSUME NEW g \in Goroutines, Put(g)
        PROVE  Cache!Next
    <3>1. tok[g] \in Tokens /\ Cache!Put(tok[g], tok[g].exp)
      BY <2>1 DEF Put, IInv, Shape
    <3>2. [t \in Tokens |-> t.exp][tok[g]] = tok[g].exp
      BY <3>1
    <3> QED
      BY <3>1, <3>2 DEF Cache!Next
  <2>2. CASE Tick
    BY <2>2 DEF Tick, Cache!Next, Cache!Tick
  <2>3. ASSUME NEW g \in Goroutines,
               \/ LookupToken(g) \/ LockDiscovery(g) \/ Discover(g) \/ LookupKey(g)
               \/ Fetch(g) \/ Store(g) \/ Verify(g) \/ \E t \in Tokens : Validate(g, t)
        PROVE  UNCHANGED Cache!vars
    BY <2>3 DEF LookupToken, LockDiscovery, Discover, LookupKey, Fetch, Store, Verify,
       Validate, Cache!vars
  <2>4. CASE (\E p \in Providers : Rotate(p)) \/ UNCHANGED vars
    BY <2>4 DEF Rotate, vars, Cache!vars
  <2> QED
    BY <2>1, <2>2, <2>3, <2>4 DEF Next, Step
<1>3. IInv /\ [Next]_vars => IInv'
  BY NextIInv
<1> QED
  BY <1>1, <1>2, <1>3, InitIInv, PTL DEF Spec, Cache!Spec

\* What is proved of the token cache, for the one of a validator.
CacheProofs == INSTANCE TokenCache_proofs
               WITH Exp <- [t \in Tokens |-> t.exp], TTL <- TokenCacheTTL,
                    MaxSize <- TokenCacheMaxSize

\* The validator's configuration is one the cache is made for.
LEMMA CacheConstants == CacheProofs!TokenCacheConstants
<1>1. [t \in Tokens |-> t.exp] \in [Tokens -> Int]
  BY JWTValidatorConstants DEF NoExp
<1> QED
  BY <1>1, JWTValidatorConstants DEF CacheProofs!TokenCacheConstants

\* The cache of the proofs is the cache of the model.
LEMMA SameCardinality == \A S : Cache!Cardinality(S) = CacheProofs!Cardinality(S)
  BY Zenon DEF Cache!Cardinality, CacheProofs!Cardinality

LEMMA SamePut == \A t, e : Cache!Put(t, e) <=> CacheProofs!Put(t, e)
<1>1. \A S : Cache!Room(S) = CacheProofs!Room(S)
  BY SameCardinality, Zenon
     DEF Cache!Room, CacheProofs!Room, Cache!Live, CacheProofs!Live,
         Cache!Oldest, CacheProofs!Oldest, Cache!Expired, CacheProofs!Expired
<1> QED
  BY <1>1, Zenon DEF Cache!Put, CacheProofs!Put,
                     Cache!EffectiveTTL, CacheProofs!EffectiveTTL

LEMMA SameSpec == Cache!Spec => CacheProofs!Spec
<1>1. Cache!Init => CacheProofs!Init
  BY DEF Cache!Init, CacheProofs!Init
<1>2. [Cache!Next]_(Cache!vars) => [CacheProofs!Next]_(CacheProofs!vars)
  BY SamePut DEF Cache!Next, CacheProofs!Next, Cache!vars, CacheProofs!vars,
     Cache!EvictExpired, CacheProofs!EvictExpired, Cache!Tick, CacheProofs!Tick,
     Cache!Live, CacheProofs!Live, Cache!Expired, CacheProofs!Expired
<1> QED
  BY <1>1, <1>2, PTL DEF Cache!Spec, CacheProofs!Spec

\* So what the cache promises holds in a validator, for any number of goroutines:
\* its size and the age of its entries (jwt.go:167-176),
THEOREM ValidatorCacheBounded == Spec => [](Cache!SizeBounded /\ Cache!GoneAfterTTL)
<1>1. CacheProofs!Spec => []CacheProofs!SizeBounded
  BY CacheConstants, CacheProofs!CacheBounded, PTL
<1>2. CacheProofs!Spec => []CacheProofs!GoneAfterTTL
  BY CacheConstants, CacheProofs!CacheForgets, PTL
<1>3. CacheProofs!SizeBounded => Cache!SizeBounded
  BY SameCardinality DEF Cache!SizeBounded, CacheProofs!SizeBounded
<1>4. CacheProofs!GoneAfterTTL => Cache!GoneAfterTTL
  BY DEF Cache!GoneAfterTTL, CacheProofs!GoneAfterTTL
<1> QED
  BY <1>1, <1>2, <1>3, <1>4, SameSpec, ValidatorUsesCache, PTL

\* that good entries go last, and that an entry that is put while its token lives
\* does not outlive it, however many calls put and evict between the verification
\* of a token and its put (jwt.go:325-344).
THEOREM ValidatorCacheFair == Spec => Cache!GoodEntriesGoLast /\ Cache!PutRespectsExp
<1> DEFINE Gone     == DOMAIN entries \ DOMAIN entries'
           First(t) == \A u \in DOMAIN entries : entries[t] <= entries[u]
           Goes     == \A t \in Gone :
                          ~Cache!Expired(t) =>
                              /\ Cache!Cardinality(DOMAIN entries) = TokenCacheMaxSize
                              /\ First(t)
           Proved   == \A t \in Gone :
                          ~CacheProofs!Expired(t) =>
                              /\ CacheProofs!Cardinality(DOMAIN entries) = TokenCacheMaxSize
                              /\ First(t)
<1>1. CacheProofs!Spec => CacheProofs!GoodEntriesGoLast /\ CacheProofs!PutRespectsExp
  BY CacheConstants, CacheProofs!GoodEntriesLast, CacheProofs!PutInTime, PTL
<1>2. [Proved]_(CacheProofs!vars) => [Goes]_(Cache!vars)
  BY SameCardinality DEF Cache!Expired, CacheProofs!Expired, Cache!vars, CacheProofs!vars
<1>3. CacheProofs!GoodEntriesGoLast => Cache!GoodEntriesGoLast
  BY <1>2, PTL DEF Cache!GoodEntriesGoLast, CacheProofs!GoodEntriesGoLast
<1>4. CacheProofs!PutRespectsExp => Cache!PutRespectsExp
  BY PTL DEF Cache!PutRespectsExp, CacheProofs!PutRespectsExp, Cache!vars, CacheProofs!vars
<1> QED
  BY <1>1, <1>3, <1>4, SameSpec, ValidatorUsesCache, PTL
-----------------------------------------------------------------------------
\* How many steps a call has before it at most: the longest way leads from the
\* token cache by discovery and a request for the key set to a put.
StepsFrom == [idle |-> 0, put |-> 1, verify |-> 2, store |-> 3, fetch |-> 4,
              lookup |-> 5, discovering |-> 6, oidc |-> 7, cache |-> 8]

StepsLeft(g) == StepsFrom[pc[g]]

\* Whoever holds the mutex of discovery is asking for the document.
HolderAsks == discoveryMu # Nobody => pc[discoveryMu] = "discovering"

\* Where a step leads to.
LEMMA StepLeads ==
    ASSUME TypeOK, NEW g \in Goroutines, Step(g)
    PROVE  /\ pc[g] \in Locations \ {"idle"}
           /\ \E l \in Locations : /\ pc' = [pc EXCEPT ![g] = l]
                                   /\ StepsFrom[l] < StepsFrom[pc[g]]
           /\ \/ discoveryMu' = discoveryMu /\ pc[g] # "discovering"
              \/ discoveryMu' = g /\ pc'[g] = "discovering"
              \/ discoveryMu' = Nobody
<1>1. pc \in [Goroutines -> Locations]
  BY DEF TypeOK
<1> USE <1>1 DEF Locations, StepsFrom, Goto, Return, AskForKey
<1>2. CASE LookupToken(g)
  BY <1>2 DEF LookupToken
<1>3. CASE LockDiscovery(g)
  BY <1>3 DEF LockDiscovery
<1>4. CASE Discover(g)
  BY <1>4 DEF Discover
<1>5. CASE LookupKey(g)
  <2>1. Goto(g, "verify") \/ Goto(g, "fetch")
    BY <1>5, Zenon DEF LookupKey
  <2>2. pc[g] = "lookup" /\ discoveryMu' = discoveryMu
    BY <1>5 DEF LookupKey
  <2> QED
    BY <2>1, <2>2
<1>6. CASE Fetch(g)
  BY <1>6 DEF Fetch
<1>7. CASE Store(g)
  BY <1>7 DEF Store
<1>8. CASE Verify(g)
  BY <1>8 DEF Verify
<1>9. CASE Put(g)
  BY <1>9 DEF Put
<1> QED
  BY <1>2, <1>3, <1>4, <1>5, <1>6, <1>7, <1>8, <1>9 DEF Step

\* A step of its own brings a call nearer to its end, and no other step takes it
\* away from there.
LEMMA CallsAdvance ==
    ASSUME TypeOK, Next, NEW g \in Goroutines, pc[g] # "idle"
    PROVE  IF Step(g) THEN StepsLeft(g)' < StepsLeft(g)
                      ELSE StepsLeft(g)' = StepsLeft(g)
<1>1. CASE Step(g)
  BY <1>1, StepLeads DEF StepsLeft, TypeOK
<1>2. CASE ~Step(g)
  <2>1. pc'[g] = pc[g]
    <3>1. ASSUME NEW h \in Goroutines, Step(h)
          PROVE  pc'[g] = pc[g]
      BY <1>2, <3>1, StepLeads DEF TypeOK
    <3>2. ASSUME NEW h \in Goroutines, NEW t \in Tokens, Validate(h, t)
          PROVE  pc'[g] = pc[g]
      BY <3>2 DEF Validate, Return, TypeOK
    <3> QED
      BY <3>1, <3>2 DEF Next, Rotate, Tick
  <2> QED
    BY <1>2, <2>1 DEF StepsLeft
<1> QED
  BY <1>1, <1>2

\* The mutex is not left locked on any path.
LEMMA HolderStep ==
    ASSUME TypeOK, HolderAsks, [Next]_vars
    PROVE  HolderAsks'
<1>1. ASSUME NEW g \in Goroutines, Step(g)
      PROVE  HolderAsks'
  BY <1>1, StepLeads, JWTValidatorConstants DEF HolderAsks, TypeOK
<1>2. ASSUME NEW g \in Goroutines, NEW t \in Tokens, Validate(g, t)
      PROVE  HolderAsks'
  BY <1>2 DEF HolderAsks, Validate, Return, TypeOK
<1> QED
  BY <1>1, <1>2 DEF Next, Rotate, Tick, vars, HolderAsks

\* Validate has no loop, and no other call, rotation of keys or delay makes it
\* one: it returns after at most eight steps of its own, two of them requests,
\* and the only thing it waits for is the mutex of discovery, whose holder is on
\* its way through a request (jwt.go:427-463, 936-951).
THEOREM ValidateIsBounded ==
    Spec => /\ []\A g \in Goroutines : StepsLeft(g) \in 0..8
            /\ []HolderAsks
            /\ [][\A g \in Goroutines : pc[g] # "idle" =>
                    IF Step(g) THEN StepsLeft(g)' < StepsLeft(g)
                               ELSE StepsLeft(g)' = StepsLeft(g)]_vars
<1>1. TypeOK => \A g \in Goroutines : StepsLeft(g) \in 0..8
  BY DEF TypeOK, StepsLeft, StepsFrom, Locations
<1>2. Init => HolderAsks
  BY DEF Init, HolderAsks
<1>3. TypeOK /\ HolderAsks /\ [Next]_vars => HolderAsks'
  BY HolderStep
<1>4. TypeOK /\ Next => \A g \in Goroutines : pc[g] # "idle" =>
                    IF Step(g) THEN StepsLeft(g)' < StepsLeft(g)
                               ELSE StepsLeft(g)' = StepsLeft(g)
  BY CallsAdvance
<1> QED
  BY <1>1, <1>2, <1>3, <1>4, TypeCorrect, PTL DEF Spec
=============================================================================
