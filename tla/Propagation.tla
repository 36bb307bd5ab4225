---------------------------- MODULE Propagation ----------------------------
(***************************************************************************)
(* A request on its way through the services of the platform: each service *)
(* authenticates it (HTTPMiddleware in pkg/auth/http.go, the server        *)
(* interceptors in pkg/auth/grpc.go), takes over the caller service and    *)
(* the call chain from its headers, and calls the next service through the *)
(* PropagatingRoundTripper or a client interceptor.                        *)
(*                                                                         *)
(* A header is the sequence of its values, of which receivers read the     *)
(* first.  Contexts and chains are values, so a service that makes several *)
(* calls makes each of them from the same state: one path through the      *)
(* services stands for all the branches of a request.  Base64 and JSON are *)
(* one-to-one on chains and left out; whether claims and chain fit into a  *)
(* header depends on sizes the model does not have and is a choice.  The   *)
(* identity headers (x-identity-id, -type, -claims) are written and never  *)
(* read by a receiver, which trusts its own token validation only.         *)
(*                                                                         *)
(* A definition introduced as a "Variant" is a faulty version of the one   *)
(* that follows it; no specification uses it.                              *)
(***************************************************************************)
EXTENDS Naturals, Sequences

CONSTANTS
    Services,           \* service names; also a service's own identity
    Clients,            \* the other identities
    Outside,            \* a service that does not use this library
    None,               \* no caller service, no originator, no valid token
    MaxCallChainDepth,
    Copying,            \* transports over which applications start a call
                        \* with the headers of the request they serve
    MaxHops             \* bound: length of the route

Transports == {"http", "grpc"}
Identities == Services \cup Clients
Names      == Services \cup {Outside}

ASSUME PropagationConstants ==
    /\ MaxCallChainDepth \in Nat \ {0}
    /\ Outside \notin Services
    /\ None \notin Identities \cup Names
    /\ Copying \subseteq Transports
    /\ MaxHops \in Nat

VARIABLES
    request,  \* the request in flight or being served
    stage,    \* "sent", "served" or "refused"
    ctx,      \* the context of its handler
    route     \* history: the hops so far and what became of their headers

vars == <<request, stage, ctx, route>>

CallerInfo == [service : Names, identity : Identities]
CallChain  == [originalID : Identities, callers : Seq(CallerInfo)]
NoChain    == [originalID |-> None, callers |-> <<>>]
\* A header value that DeserializeCallChain returns an error for.
Malformed  == [originalID |-> None,
               callers |-> <<[service |-> None, identity |-> None]>>]

Headers    == [caller : Seq(Names), chain : Seq(CallChain \cup {Malformed})]
NoHeaders  == [caller |-> <<>>, chain |-> <<>>]
NoContext  == [identity |-> None, caller |-> None, chain |-> NoChain]

\* A hop: the service that made the call, for which identity, what became of
\* its headers, and whether the chain header was spoilt on the way.
Hop(s, i, how) == [service |-> s, identity |-> i, how |-> how,
                   spoilt |-> FALSE]

-----------------------------------------------------------------------------
(* A request enters the platform, with or without headers of its own. *)

ForeignChain(c, n) ==
    [originalID |-> c,
     callers |-> [i \in 1..n |-> [service |-> Outside, identity |-> c]]]

Enters(s, token, hs, r) ==
    /\ request = [via |-> "http", to |-> s, token |-> token, headers |-> hs]
    /\ route = r

Init ==
    /\ stage = "sent"
    /\ ctx = NoContext
    /\ \E s \in Services, token \in Identities \cup {None} :
          \/ Enters(s, token, NoHeaders, <<>>)
          \/ \E c \in Clients, n \in 1..(MaxCallChainDepth + 1) :
                Enters(s, token, [caller |-> <<Outside>>,
                                  chain |-> <<ForeignChain(c, n)>>],
                       [i \in 1..n |-> Hop(Outside, c, "written")])

-----------------------------------------------------------------------------
(* CallChain.AppendCaller *)

\* Variant: one caller is dropped, however many there are.
LatestDropsOne(s) == IF Len(s) > MaxCallChainDepth THEN Tail(s) ELSE s

\* Variant: the latest callers are dropped.
LatestKeepsOldest(s) ==
    IF Len(s) > MaxCallChainDepth THEN SubSeq(s, 1, MaxCallChainDepth) ELSE s

Latest(s) ==
    IF Len(s) > MaxCallChainDepth
    THEN SubSeq(s, Len(s) - MaxCallChainDepth + 1, Len(s))
    ELSE s

AppendCaller(chain, caller) ==
    [chain EXCEPT !.callers = Latest(Append(chain.callers, caller))]

\* Variant: a new chain has no originator.
OutgoingChainOfNobody(s, c) ==
    AppendCaller(c.chain, [service |-> s, identity |-> c.identity])

\* The chain service s sends from context c: a new one if the context has none.
OutgoingChain(s, c) ==
    AppendCaller(IF c.chain = NoChain
                 THEN [originalID |-> c.identity, callers |-> <<>>]
                 ELSE c.chain,
                 [service |-> s, identity |-> c.identity])

identityToHeaders(s, c) == [caller |-> <<s>>, chain |-> <<OutgoingChain(s, c)>>]

-----------------------------------------------------------------------------
(* The transports. *)

\* http.Header.Set replaces the values of a key; metadata.Join puts the new
\* values behind those that are there.
WithHeaders(t, there, new) ==
    IF t = "http" THEN new
    ELSE [caller |-> there.caller \o new.caller,
          chain  |-> there.chain \o new.chain]

\* What the application puts on the request before the library sees it.
Prepared(t, copy) == IF copy THEN request.headers ELSE NoHeaders

\* The application of the service that handles the request calls service s,
\* with the token it was called with, with its own, or with none.
Call(t, s, copy, headers, how) ==
    /\ stage = "served"
    /\ Len(route) < MaxHops
    /\ copy => t \in Copying /\ request.via = t
    /\ \E token \in {ctx.identity, request.to, None} :
          request' = [via |-> t, to |-> s, token |-> token, headers |-> headers]
    /\ stage' = "sent"
    /\ ctx' = NoContext
    /\ route' = Append(route, Hop(request.to, ctx.identity, how))

Propagate(t, s, copy) ==
    Call(t, s, copy,
         WithHeaders(t, Prepared(t, copy), identityToHeaders(request.to, ctx)),
         "written")

\* Claims or chain do not fit: the call goes out as the application made it.
PropagationFails(t, s, copy) ==
    Call(t, s, copy, Prepared(t, copy), IF copy THEN "copied" ELSE "dropped")

\* Something on the way spoils the call chain header.
Mangle ==
    /\ stage = "sent"
    /\ request.headers.chain # <<>> /\ request.headers.chain[1] # Malformed
    /\ request' = [request EXCEPT !.headers.chain = <<Malformed>>]
    /\ route' = [route EXCEPT ![Len(route)].spoilt = TRUE]
    /\ UNCHANGED <<stage, ctx>>

-----------------------------------------------------------------------------
(* The server side. *)

\* Variant: a chain that cannot be read hides the caller service, too.
CallerOfStrict(h) ==
    IF h.caller = <<>> \/ (h.chain # <<>> /\ Head(h.chain) = Malformed)
    THEN None ELSE Head(h.caller)

CallerOf(h) == IF h.caller = <<>> THEN None ELSE Head(h.caller)

ChainOf(h) == IF h.chain = <<>> \/ Head(h.chain) = Malformed THEN NoChain
                                                             ELSE Head(h.chain)

\* No token or an invalid one: 401, Unauthenticated.
Refuse ==
    /\ stage = "sent"
    /\ request.token = None
    /\ stage' = "refused"
    /\ UNCHANGED <<request, ctx, route>>

Serve ==
    /\ stage = "sent"
    /\ request.token # None
    /\ stage' = "served"
    /\ ctx' = [identity |-> request.token, caller |-> CallerOf(request.headers),
               chain |-> ChainOf(request.headers)]
    /\ UNCHANGED <<request, route>>

Next ==
    \/ \E t \in Transports, s \in Services, copy \in BOOLEAN :
          Propagate(t, s, copy) \/ PropagationFails(t, s, copy)
    \/ Mangle
    \/ Refuse
    \/ Serve

Spec == Init /\ [][Next]_vars

-----------------------------------------------------------------------------
(* Properties. *)

TypeOK ==
    /\ request \in [via : Transports, to : Services,
                    token : Identities \cup {None}, headers : Headers]
    /\ stage \in {"sent", "served", "refused"}
    /\ ctx \in [identity : Identities \cup {None}, caller : Names \cup {None},
                chain : CallChain \cup {NoChain}]
    /\ route \in Seq([service : Names, identity : Identities,
                      how : {"written", "dropped", "copied"},
                      spoilt : BOOLEAN])

\* The hops that are on the chain: those that wrote it, after the last one
\* whose headers were dropped or spoilt.  A service that only passed on the
\* headers it was called with does not appear.
Broken(h)  == h.how = "dropped" \/ h.spoilt
OnChain(r) == {i \in DOMAIN r : /\ r[i].how = "written"
                                /\ \A j \in i..Len(r) : ~Broken(r[j])}

\* The chain tells the truth about route r: its callers name the services of
\* hops of the route, in order; a hop is only missing in front of a full chain;
\* and the originator is the identity that was known where the chain began.
TellsRoute(chain, r) ==
    LET callers == chain.callers
    IN  IF OnChain(r) = {} THEN chain = NoChain
        ELSE /\ \E i \in OnChain(r) : /\ \A j \in OnChain(r) : i <= j
                                      /\ chain.originalID = r[i].identity
             /\ \E at \in [DOMAIN callers -> OnChain(r)] :
                   /\ \A k \in DOMAIN callers :
                         callers[k].service = r[at[k]].service
                   /\ \A k, l \in DOMAIN callers : k < l => at[k] < at[l]
                   /\ \A i \in OnChain(r) :
                         \/ \E k \in DOMAIN callers : at[k] = i
                         \/ /\ Len(callers) >= MaxCallChainDepth
                            /\ \A k \in DOMAIN callers : i < at[k]

\* The call chain a handler sees tells the truth about the route: it names, in
\* order and without gaps, the latest services the request came through, and
\* as originator the identity that was known where the chain began, over any
\* mixture of transports, tokens, truncations, failures to write the headers
\* and headers that cannot be read (identity.go:468-493).  It says nothing of
\* the identities of the callers, which are the next property's.
ChainIsRoute == stage = "served" => TellsRoute(ctx.chain, route)

\* A caller on the chain is recorded with its own identity, not with that of
\* the requester (identity.go:459-460).  What RoundTrip and the interceptors
\* record is the identity of the request they forward (http.go:131-135).
CallersNameThemselves ==
    stage = "served" =>
        \A k \in DOMAIN ctx.chain.callers :
            LET caller == ctx.chain.callers[k]
            IN  caller.service \in Services => caller.identity = caller.service

\* No service sends a chain of more than MaxCallChainDepth callers, although
\* it may have received one, and the last caller on it is the sender
\* (identity.go:495-503).
SentChainsFit ==
    stage = "sent" /\ route # <<>> =>
        LET h == route[Len(route)]
        IN  h.how = "written" /\ ~h.spoilt /\ h.service # Outside =>
               LET callers == Head(request.headers.chain).callers
               IN  /\ Len(callers) <= MaxCallChainDepth
                   /\ callers[Len(callers)].service = h.service

\* The caller service a handler sees is the service that forwarded the
\* request, also when the call chain cannot be read; it is absent if that
\* service could not write its headers (propagation.go:40-43).
CallerIsSender ==
    stage = "served" =>
        LET wrote == {i \in DOMAIN route : route[i].how # "copied"}
            last  == CHOOSE i \in wrote : \A j \in wrote : j <= i
        IN  ctx.caller = IF wrote = {} \/ route[last].how = "dropped" THEN None
                         ELSE route[last].service
=============================================================================
