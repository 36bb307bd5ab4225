----------------------------- MODULE TokenCache -----------------------------
(***************************************************************************)
(* tokenCache (pkg/auth/jwt.go:279-390): the identities of tokens that     *)
(* were verified, keyed by token hash.  Each operation holds c.mu, so each *)
(* is one step; get changes nothing and is a predicate.  An entry is       *)
(* reduced to its expiresAt: the identity is a function of the token.      *)
(*                                                                         *)
(* Time is counted in whole units and `now` may advance between any two    *)
(* operations; the two clock readings inside put are taken at one instant. *)
(*                                                                         *)
(* A definition introduced as a "Variant" is a faulty version of the one   *)
(* that follows it; no specification uses it.                              *)
(***************************************************************************)
EXTENDS Integers, FiniteSets

CONSTANTS
    Tokens,     \* token hashes
    Exp,        \* Exp[t]: the exp claim of t
    TTL,        \* c.ttl
    MaxSize,    \* c.maxSize
    MaxTime     \* bound: the clock stops here

ASSUME TokenCacheConstants ==
    /\ Exp \in [Tokens -> Int]
    /\ TTL \in Nat            \* ValidatorConfig.Validate: not negative
    /\ MaxSize \in Nat \ {0}  \* ValidatorConfig.Validate: greater than zero
    /\ MaxTime \in Nat

VARIABLES
    now,        \* time.Now()
    entries     \* c.entries: hash -> expiresAt

vars == <<now, entries>>

Init == now = 0 /\ entries = [t \in {} |-> 0]

Expired(t) == now > entries[t]

get(t) == t \in DOMAIN entries /\ ~Expired(t)

\* Variant: the lifetime of the token is ignored.
EffectiveTTLIgnoringExp(exp) == TTL

\* Variant: the two limits are added up.
EffectiveTTLSum(exp) == IF exp > now THEN TTL + (exp - now) ELSE TTL

\* How long put keeps a token that expires at exp.
EffectiveTTL(exp) ==
    LET remaining == exp - now
    IN  IF remaining > 0 /\ remaining < TTL THEN remaining ELSE TTL

Live(K) == {t \in K : ~Expired(t)}

\* The entry that expires first is the "oldest".
Oldest(K) == {t \in K : \A u \in K : entries[t] <= entries[u]}

\* Variants: no eviction of an entry that is still good; eviction of the one
\* that lives longest, before the expired ones.
RoomNoOldest(K) ==
    {IF Cardinality(K) >= MaxSize THEN Live(K) ELSE K}
RoomLiveFirst(K) ==
    IF Cardinality(K) >= MaxSize
    THEN {K \ {t} : t \in {v \in K : \A u \in K : entries[u] <= entries[v]}}
    ELSE {K}

\* The keys that may be left of K when put has made room: at capacity the
\* expired entries go, and if that is not enough, the oldest one.
Room(K) ==
    LET L == IF Cardinality(K) >= MaxSize THEN Live(K) ELSE K
    IN  IF Cardinality(L) >= MaxSize THEN {L \ {t} : t \in Oldest(L)} ELSE {L}

\* The first branch is put's early return.
Put(t, exp) ==
    /\ IF EffectiveTTL(exp) <= 0
       THEN UNCHANGED entries
       ELSE \E K \in Room(DOMAIN entries) :
               entries' = [u \in K \cup {t} |->
                              IF u = t THEN now + EffectiveTTL(exp)
                                       ELSE entries[u]]
    /\ UNCHANGED now

\* evictExpired
EvictExpired ==
    /\ entries' = [t \in Live(DOMAIN entries) |-> entries[t]]
    /\ UNCHANGED now

Tick == now < MaxTime /\ now' = now + 1 /\ UNCHANGED entries

\* A token is put some time after it was verified, and within ClockSkew of its
\* exp at that: it may have expired.
Next ==
    \/ \E t \in Tokens : Put(t, Exp[t])
    \/ EvictExpired
    \/ Tick

Spec == Init /\ [][Next]_vars

-----------------------------------------------------------------------------
TypeOK ==
    /\ now \in Nat
    /\ DOMAIN entries \in SUBSET Tokens
    /\ entries \in [DOMAIN entries -> Int]

\* The cache never holds more than its maximum (jwt.go:173-176), whatever is
\* put into it in whatever order.
SizeBounded == Cardinality(DOMAIN entries) <= MaxSize

\* From any moment on, what is cached now is gone after one TTL: no sequence
\* of puts makes an entry live longer (jwt.go:167-168).
GoneAfterTTL == \A t \in DOMAIN entries : entries[t] <= now + TTL

\* An entry that is still good is given up only for another one, when the
\* cache is full of good entries, and then it is one that expires first
\* (jwt.go:327-329).
GoodEntriesGoLast ==
    [][\A t \in DOMAIN entries \ DOMAIN entries' :
          ~Expired(t) =>
              /\ Cardinality(DOMAIN entries) = MaxSize
              /\ \A u \in DOMAIN entries : entries[t] <= entries[u]]_vars

\* An entry that is put while something is left of its token's lifetime does
\* not outlive the token: it gets the minimum of the TTL and of what is left,
\* whatever the cache held under its hash before (jwt.go:168-170 and 325-327).
PutRespectsExp ==
    [][\A t \in DOMAIN entries' :
          \/ t \in DOMAIN entries /\ entries'[t] = entries[t]
          \/ now < Exp[t] => entries'[t] <= Exp[t]]_vars

\* The same of every entry, as jwt.go:168-170 and 341 have it: a token that has
\* expired is not cached.
NoEntryOutlivesToken == \A t \in DOMAIN entries : entries[t] <= Exp[t]
=============================================================================
