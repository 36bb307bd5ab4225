------------------------- MODULE TokenCache_proofs -------------------------
(***************************************************************************)
(* Proofs about TokenCache, for any set of tokens, any TTL, size and skew. *)
(***************************************************************************)
EXTENDS TokenCache, FiniteSetTheorems, TLAPS

IInv ==
    /\ TypeOK
    /\ IsFiniteSet(DOMAIN entries)
    /\ SizeBounded
    /\ GoneAfterTTL

-----------------------------------------------------------------------------
\* What put caches lives for at most one TTL.
LEMMA EffectiveTTLBound ==
    ASSUME NEW exp \in Int, now \in Nat
    PROVE  EffectiveTTL(exp) \in Int /\ EffectiveTTL(exp) <= TTL
  BY TokenCacheConstants DEF EffectiveTTL

\* Making room leaves a part of the keys that is below the limit.
LEMMA RoomIsSmaller ==
    ASSUME NEW K, IsFiniteSet(K), Cardinality(K) <= MaxSize,
           NEW L \in Room(K)
    PROVE  L \subseteq K /\ IsFiniteSet(L) /\ Cardinality(L) < MaxSize
<1> USE TokenCacheConstants
<1>1. Live(K) \subseteq K
  BY DEF Live
<1>2. IsFiniteSet(Live(K)) /\ Cardinality(Live(K)) <= Cardinality(K)
  BY <1>1, FS_Subset
<1>3. Cardinality(K) \in Nat /\ Cardinality(Live(K)) \in Nat
  BY <1>2, FS_CardinalityType
<1>4. ASSUME NEW M, M \subseteq K, IsFiniteSet(M), Cardinality(M) <= MaxSize,
             NEW t \in Oldest(M)
      PROVE  /\ M \ {t} \subseteq K /\ IsFiniteSet(M \ {t})
             /\ Cardinality(M \ {t}) < MaxSize
  <2>1. t \in M
    BY DEF Oldest
  <2>2. IsFiniteSet(M \ {t}) /\ Cardinality(M \ {t}) = Cardinality(M) - 1
    BY <1>4, <2>1, FS_RemoveElement
  <2> QED
    BY <1>4, <2>2, FS_CardinalityType
<1>5. CASE Cardinality(K) >= MaxSize
  <2>1. CASE Cardinality(Live(K)) >= MaxSize
    <3>1. PICK t \in Oldest(Live(K)) : L = Live(K) \ {t}
      BY <1>5, <2>1 DEF Room
    <3> QED
      BY <1>1, <1>2, <1>3, <1>4, <3>1
  <2>2. CASE ~(Cardinality(Live(K)) >= MaxSize)
    BY <1>1, <1>2, <1>3, <1>5, <2>2 DEF Room
  <2> QED
    BY <2>1, <2>2
<1>6. CASE ~(Cardinality(K) >= MaxSize)
  BY <1>3, <1>6 DEF Room
<1> QED
  BY <1>5, <1>6

LEMMA InitIInv == Init => IInv
<1> SUFFICES ASSUME Init PROVE IInv
  OBVIOUS
<1>1. DOMAIN entries = {}
  BY DEF Init
<1>2. IsFiniteSet({}) /\ Cardinality({}) = 0
  BY FS_EmptySet
<1> QED
  BY <1>1, <1>2, TokenCacheConstants
  DEF Init, IInv, TypeOK, SizeBounded, GoneAfterTTL

LEMMA NextIInv == IInv /\ [Next]_vars => IInv'
<1> SUFFICES ASSUME IInv, [Next]_vars
             PROVE  IInv'
  OBVIOUS
<1> USE TokenCacheConstants
<1>1. ASSUME NEW t \in Tokens, Put(t, Exp[t])
      PROVE  IInv'
  <2> DEFINE ttl == EffectiveTTL(Exp[t])
  <2>1. ttl \in Int /\ ttl <= TTL /\ now' = now
    BY <1>1, EffectiveTTLBound DEF IInv, TypeOK, Put
  <2>2. CASE ttl <= 0
    <3>1. entries' = entries
      BY <1>1, <2>2 DEF Put
    <3> QED
      BY <2>1, <3>1 DEF IInv, TypeOK, SizeBounded, GoneAfterTTL
  <2>3. CASE ~(ttl <= 0)
    <3>1. PICK K \in Room(DOMAIN entries) :
             entries' = [u \in K \cup {t} |->
                            IF u = t THEN now + ttl ELSE entries[u]]
      BY <1>1, <2>3 DEF Put
    <3>2. /\ K \subseteq DOMAIN entries
          /\ IsFiniteSet(K)
          /\ Cardinality(K) < MaxSize
      BY RoomIsSmaller DEF IInv, SizeBounded
    <3>3. DOMAIN entries' = K \cup {t}
      BY <3>1
    <3>4. IsFiniteSet(K \cup {t}) /\ Cardinality(K \cup {t}) <= MaxSize
      <4>1. Cardinality(K) \in Nat
        BY <3>2, FS_CardinalityType
      <4>2. /\ IsFiniteSet(K \cup {t})
            /\ \/ Cardinality(K \cup {t}) = Cardinality(K)
               \/ Cardinality(K \cup {t}) = Cardinality(K) + 1
        BY <3>2, FS_AddElement
      <4> QED
        BY <3>2, <4>1, <4>2
    <3>5. TypeOK'
      BY <2>1, <3>1, <3>2, <3>3 DEF IInv, TypeOK
    <3>6. GoneAfterTTL'
      BY <2>1, <3>1, <3>2, <3>3 DEF IInv, TypeOK, GoneAfterTTL
    <3> QED
      BY <3>3, <3>4, <3>5, <3>6 DEF IInv, SizeBounded
  <2> QED
    BY <2>2, <2>3
<1>2. CASE EvictExpired
  <2>1. DOMAIN entries' = Live(DOMAIN entries)
    BY <1>2 DEF EvictExpired
  <2>2. Live(DOMAIN entries) \subseteq DOMAIN entries
    BY DEF Live
  <2>3. /\ IsFiniteSet(Live(DOMAIN entries))
        /\ Cardinality(Live(DOMAIN entries)) <= Cardinality(DOMAIN entries)
    BY <2>2, FS_Subset DEF IInv
  <2>4. SizeBounded'
    BY <2>1, <2>3, FS_CardinalityType DEF IInv, SizeBounded
  <2>5. TypeOK' /\ GoneAfterTTL'
    BY <1>2, <2>1, <2>2 DEF EvictExpired, IInv, TypeOK, GoneAfterTTL
  <2> QED
    BY <2>1, <2>3, <2>4, <2>5 DEF IInv
<1>3. CASE Tick
  BY <1>3 DEF Tick, IInv, TypeOK, SizeBounded, GoneAfterTTL
<1>4. CASE UNCHANGED vars
  BY <1>4 DEF vars, IInv, TypeOK, SizeBounded, GoneAfterTTL
<1> QED
  BY <1>1, <1>2, <1>3, <1>4 DEF Next

THEOREM Invariance == Spec => []IInv
<1>1. IInv /\ [Next]_vars => IInv'
  BY NextIInv
<1> QED
  BY <1>1, InitIInv, PTL DEF Spec

\* The cache is never larger than its maximum.
THEOREM CacheBounded == Spec => []SizeBounded
<1>1. IInv => SizeBounded
  BY DEF IInv
<1> QED
  BY <1>1, Invariance, PTL

\* Everything cached at some moment has expired one TTL later.
THEOREM CacheForgets == Spec => []GoneAfterTTL
<1>1. IInv => GoneAfterTTL
  BY DEF IInv
<1> QED
  BY <1>1, Invariance, PTL

-----------------------------------------------------------------------------
\* Room gives up good keys only when all of them are good, and then one that
\* expires first.
LEMMA RoomKeepsGoodEntries ==
    ASSUME IInv, NEW L \in Room(DOMAIN entries),
           NEW t \in DOMAIN entries \ L, ~Expired(t)
    PROVE  /\ Cardinality(DOMAIN entries) = MaxSize
           /\ \A u \in DOMAIN entries : entries[t] <= entries[u]
<1> USE TokenCacheConstants
<1> DEFINE D == DOMAIN entries
<1>1. /\ IsFiniteSet(D) /\ Cardinality(D) \in Nat /\ Cardinality(D) <= MaxSize
      /\ Live(D) \subseteq D
  BY FS_CardinalityType DEF IInv, SizeBounded, Live
<1>2. t \in Live(D)
  BY DEF Live
<1>3. Cardinality(D) >= MaxSize
  BY DEF Room
<1>4. L # Live(D)
  BY <1>2
<1>5. Cardinality(Live(D)) >= MaxSize
  BY <1>3, <1>4 DEF Room
<1>6. PICK v \in Oldest(Live(D)) : L = Live(D) \ {v}
  BY <1>3, <1>5 DEF Room
<1>7. v = t
  BY <1>2, <1>6
<1>8. Live(D) = D
  <2>1. /\ Cardinality(Live(D)) \in Nat
        /\ Cardinality(Live(D)) <= Cardinality(D)
        /\ Cardinality(D) = Cardinality(Live(D)) => D = Live(D)
    BY <1>1, FS_Subset, FS_CardinalityType
  <2> QED
    BY <1>1, <1>5, <2>1
<1> QED
  BY <1>1, <1>3, <1>6, <1>7, <1>8 DEF Oldest

\* Good entries are the last to go.
THEOREM GoodEntriesLast == Spec => GoodEntriesGoLast
<1> DEFINE Goes(t) ==
      ~Expired(t) => /\ Cardinality(DOMAIN entries) = MaxSize
                     /\ \A u \in DOMAIN entries : entries[t] <= entries[u]
           Step == \A t \in DOMAIN entries \ DOMAIN entries' : Goes(t)
<1>1. IInv /\ [Next]_vars => [Step]_vars
  <2> SUFFICES ASSUME IInv, [Next]_vars,
                      NEW t \in DOMAIN entries \ DOMAIN entries', ~Expired(t)
               PROVE  /\ Cardinality(DOMAIN entries) = MaxSize
                      /\ \A u \in DOMAIN entries : entries[t] <= entries[u]
    OBVIOUS
  <2>1. entries' # entries
    OBVIOUS
  <2>2. CASE EvictExpired
    BY <2>2 DEF EvictExpired, Live
  <2>3. ASSUME NEW u \in Tokens, Put(u, Exp[u])
        PROVE  /\ Cardinality(DOMAIN entries) = MaxSize
               /\ \A w \in DOMAIN entries : entries[t] <= entries[w]
    <3>1. ~(EffectiveTTL(Exp[u]) <= 0)
      BY <2>1, <2>3 DEF Put
    <3>2. PICK K \in Room(DOMAIN entries) :
             entries' = [w \in K \cup {u} |->
                            IF w = u THEN now + EffectiveTTL(Exp[u])
                                     ELSE entries[w]]
      BY <2>3, <3>1 DEF Put
    <3>3. t \notin K
      BY <3>2
    <3> QED
      BY <3>3, RoomKeepsGoodEntries
  <2> QED
    BY <2>1, <2>2, <2>3 DEF Next, Tick, vars
<1> QED
  BY <1>1, Invariance, PTL DEF Spec, GoodEntriesGoLast

-----------------------------------------------------------------------------
\* The cache has an expiry for each token it holds and for nothing else,
\* whatever is put into it (jwt.go:322-366).
THEOREM TypeCorrect == Spec => []TypeOK
<1>1. IInv => TypeOK
  BY DEF IInv
<1> QED
  BY <1>1, Invariance, PTL

\* Whatever the cache holds, an entry that is put while its token lives does not
\* outlive the token (jwt.go:325-344).
THEOREM PutInTime == Spec => PutRespectsExp
<1> DEFINE Step == \A t \in DOMAIN entries' :
                      \/ t \in DOMAIN entries /\ entries'[t] = entries[t]
                      \/ now < Exp[t] => entries'[t] <= Exp[t]
<1>1. IInv /\ [Next]_vars => [Step]_vars
  <2> DEFINE Kept(t)     == t \in DOMAIN entries /\ entries'[t] = entries[t]
             Respects(t) == now < Exp[t] => entries'[t] <= Exp[t]
  <2> SUFFICES ASSUME IInv, [Next]_vars, NEW t \in DOMAIN entries', ~Kept(t)
               PROVE  Respects(t)
    OBVIOUS
  <2>1. ASSUME NEW u \in Tokens, Put(u, Exp[u])
        PROVE  Respects(t)
    <3> DEFINE ttl == EffectiveTTL(Exp[u])
    <3>1. PICK K \in Room(DOMAIN entries) :
             entries' = [w \in K \cup {u} |->
                            IF w = u THEN now + ttl ELSE entries[w]]
      BY <2>1 DEF Put
    <3>2. K \subseteq DOMAIN entries
      BY RoomIsSmaller DEF IInv, SizeBounded
    <3>3. t = u /\ entries'[t] = now + ttl
      BY <3>1, <3>2
    <3>4. now < Exp[u] => now + ttl <= Exp[u]
      BY TokenCacheConstants DEF EffectiveTTL, IInv, TypeOK
    <3> QED
      BY <3>3, <3>4
  <2>2. CASE EvictExpired
    BY <2>2 DEF EvictExpired, Live
  <2>3. CASE Tick \/ UNCHANGED vars
    BY <2>3 DEF Tick, vars
  <2> QED
    BY <2>1, <2>2, <2>3 DEF Next
<1> QED
  BY <1>1, Invariance, PTL DEF Spec, PutRespectsExp
=============================================================================
