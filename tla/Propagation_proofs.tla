------------------------- MODULE Propagation_proofs -------------------------
(***************************************************************************)
(* Theorems about a request on its way, for any services, any length of    *)
(* its route and any limit of the call chain: requests, contexts and       *)
(* chains are well-formed whatever is copied, dropped or spoilt, and no    *)
(* service sends a chain that is too long or does not end with itself.     *)
(***************************************************************************)
EXTENDS Propagation, SequenceTheorems, TLAPS

HopType == [service : Names, identity : Identities,
            how : {"written", "dropped", "copied"}, spoilt : BOOLEAN]

\* A context belongs to a handler whose caller was authenticated.
Authenticated == stage = "served" => ctx.identity \in Identities

IInv == TypeOK /\ Authenticated

\* A one-element sequence.
LEMMA Single == ASSUME NEW S, NEW x \in S PROVE <<x>> \in Seq(S) /\ Head(<<x>>) = x
  OBVIOUS

\* However long a sequence gets, Latest keeps its last element and no more than
\* MaxCallChainDepth of them.
LEMMA LatestKeepsTheEnd ==
    ASSUME NEW S, NEW s \in Seq(S), s # <<>>
    PROVE  /\ Latest(s) \in Seq(S)
           /\ Len(Latest(s)) \in 1..MaxCallChainDepth
           /\ Latest(s)[Len(Latest(s))] = s[Len(s)]
<1> DEFINE m == MaxCallChainDepth
           n == Len(s)
<1>1. m \in Nat /\ m >= 1 /\ n \in Nat /\ n >= 1
  BY PropagationConstants, EmptySeq
<1>2. CASE n > m
  <2>1. Latest(s) = SubSeq(s, n - m + 1, n)
    BY <1>2 DEF Latest
  <2>2. \A i \in (n - m + 1)..n : s[i] \in S
    BY <1>1, <1>2, ElementOfSeq
  <2>3. /\ SubSeq(s, n - m + 1, n) \in Seq(S)
        /\ Len(SubSeq(s, n - m + 1, n)) = m
        /\ SubSeq(s, n - m + 1, n)[m] = s[n]
    <3>1. n - m + 1 \in Int /\ n \in Int /\ n - m + 1 <= n
      BY <1>1, <1>2
    <3>2. /\ SubSeq(s, n - m + 1, n) \in Seq(S)
          /\ Len(SubSeq(s, n - m + 1, n))
                = IF n - m + 1 <= n THEN n - (n - m + 1) + 1 ELSE 0
          /\ \A i \in 1..(n - (n - m + 1) + 1) :
                SubSeq(s, n - m + 1, n)[i] = s[n - m + 1 + i - 1]
      BY <2>2, <3>1, SubSeqProperties
    <3>3. n - (n - m + 1) + 1 = m /\ n - m + 1 + m - 1 = n /\ m \in 1..m
      BY <1>1
    <3> QED
      BY <3>1, <3>2, <3>3
  <2> QED
    BY <1>1, <2>1, <2>3
<1>3. CASE ~(n > m)
  BY <1>1, <1>3 DEF Latest
<1> QED
  BY <1>2, <1>3

\* The chain a service sends is well-formed, fits, and ends with the service.
LEMMA OutgoingChainFits ==
    ASSUME NEW s \in Services,
           NEW c \in [identity : Identities, caller : Names \cup {None},
                      chain : CallChain \cup {NoChain}]
    PROVE  /\ OutgoingChain(s, c) \in CallChain
           /\ Len(OutgoingChain(s, c).callers) \in 1..MaxCallChainDepth
           /\ OutgoingChain(s, c).callers[Len(OutgoingChain(s, c).callers)].service = s
<1> DEFINE start == IF c.chain = NoChain
                    THEN [originalID |-> c.identity, callers |-> <<>>] ELSE c.chain
           me    == [service |-> s, identity |-> c.identity]
           long  == Append(start.callers, me)
<1>1. start \in CallChain
  BY DEF CallChain
<1>2. me \in CallerInfo
  BY DEF CallerInfo, Names
<1>3. start.callers \in Seq(CallerInfo) /\ start.originalID \in Identities
  BY <1>1 DEF CallChain
<1> HIDE DEF start, me
<1>4. long \in Seq(CallerInfo) /\ long # <<>> /\ long[Len(long)] = me
  BY <1>2, <1>3
<1>5. OutgoingChain(s, c) = [start EXCEPT !.callers = Latest(long)]
  BY DEF OutgoingChain, AppendCaller, start, me
<1> HIDE DEF long
<1>6. /\ Latest(long) \in Seq(CallerInfo)
      /\ Len(Latest(long)) \in 1..MaxCallChainDepth
      /\ Latest(long)[Len(Latest(long))] = me
  BY <1>4, LatestKeepsTheEnd
<1>7. me.service = s
  BY DEF me
<1> HIDE DEF Latest
<1>8. /\ OutgoingChain(s, c) \in CallChain
      /\ OutgoingChain(s, c).callers = Latest(long)
  BY <1>1, <1>5, <1>6 DEF CallChain
<1> QED
  BY <1>6, <1>7, <1>8

\* Headers that are well-formed stay so when new ones are put on the request.
LEMMA HeadersJoin ==
    ASSUME NEW t, NEW there \in Headers, NEW new \in Headers
    PROVE  WithHeaders(t, there, new) \in Headers
<1>1. there.caller \o new.caller \in Seq(Names)
  BY ConcatProperties DEF Headers
<1>2. there.chain \o new.chain \in Seq(CallChain \cup {Malformed})
  BY ConcatProperties DEF Headers
<1> QED
  BY <1>1, <1>2 DEF WithHeaders, Headers

\* No headers are headers, too.
LEMMA NoHeadersAreHeaders == NoHeaders \in Headers
  BY EmptySeq DEF NoHeaders, Headers

\* The headers a service writes are well-formed.
LEMMA OwnHeaders ==
    ASSUME IInv, stage = "served"
    PROVE  identityToHeaders(request.to, ctx) \in Headers
<1>1. request.to \in Services
  BY DEF IInv, TypeOK
<1>2. ctx \in [identity : Identities, caller : Names \cup {None},
               chain : CallChain \cup {NoChain}]
  BY DEF IInv, TypeOK, Authenticated
<1>3. OutgoingChain(request.to, ctx) \in CallChain
  BY <1>1, <1>2, OutgoingChainFits
<1>4. <<request.to>> \in Seq(Names)
  BY <1>1 DEF Names
<1>5. <<OutgoingChain(request.to, ctx)>> \in Seq(CallChain \cup {Malformed})
  BY <1>3
<1> QED
  BY <1>4, <1>5 DEF identityToHeaders, Headers
-----------------------------------------------------------------------------
\* What becomes of the route when a header is spoilt on the way.
LEMMA SpoiltRoute ==
    ASSUME NEW r \in Seq(HopType)
    PROVE  LET q == [r EXCEPT ![Len(r)].spoilt = TRUE]
           IN  /\ q \in Seq(HopType) /\ Len(q) = Len(r)
               /\ r = <<>> => q = <<>>
               /\ r # <<>> => q[Len(r)].spoilt
<1> DEFINE n == Len(r)
           last == [r[n] EXCEPT !.spoilt = TRUE]
<1>1. CASE r # <<>>
  <2>1. n \in 1..n
    BY <1>1, EmptySeq
  <2>2. r[n] \in HopType
    BY <2>1, ElementOfSeq
  <2>3. last \in HopType
    <3>1. \A h \in HopType : [h EXCEPT !.spoilt = TRUE] \in HopType
      BY Zenon DEF HopType
    <3> QED
      BY <2>2, <3>1
  <2>4. last.spoilt
    BY <2>2 DEF HopType
  <2> HIDE DEF last
  <2>5. /\ [r EXCEPT ![n] = last] \in Seq(HopType)
        /\ Len([r EXCEPT ![n] = last]) = n
        /\ [r EXCEPT ![n] = last][n] = last
    BY <2>1, <2>3, ExceptSeq
  <2> QED
    BY <1>1, <2>4, <2>5 DEF last
<1>2. CASE r = <<>>
  <2> DEFINE q == [r EXCEPT ![n].spoilt = TRUE]
  <2>1. DOMAIN r = 1..0
    BY <1>2
  <2>2. q \in [1..0 -> HopType]
    <3>2. \A x : [r EXCEPT ![n] = x] = [i \in DOMAIN r |-> IF i = n THEN x ELSE r[i]]
      BY Zenon
    <3>3. q = [i \in 1..0 |-> IF i = n THEN last ELSE r[i]]
      BY <2>1, <3>2
    <3> HIDE DEF last, q
    <3> QED
      BY <3>3
  <2> HIDE DEF q
  <2>3. q \in Seq(HopType) /\ Len(q) = 0
    BY <2>2, SeqDef
  <2>4. q = <<>>
    BY <2>3, EmptySeq
  <2> QED
    BY <1>2, <2>3, <2>4 DEF q
<1> QED
  BY <1>1, <1>2

\* A request that enters the platform is well-formed, whatever chain it has.
LEMMA InitInv == Init => IInv
<1> SUFFICES ASSUME Init PROVE IInv
  OBVIOUS
<1>1. stage = "sent" /\ ctx = NoContext
  BY DEF Init
<1>2. PICK s \in Services, token \in Identities \cup {None} :
          \/ Enters(s, token, NoHeaders, <<>>)
          \/ \E c \in Clients, n \in 1..(MaxCallChainDepth + 1) :
                Enters(s, token, [caller |-> <<Outside>>,
                                  chain |-> <<ForeignChain(c, n)>>],
                       [i \in 1..n |-> Hop(Outside, c, "written")])
  BY DEF Init
<1>3. ctx \in [identity : Identities \cup {None}, caller : Names \cup {None},
               chain : CallChain \cup {NoChain}]
  BY <1>1 DEF NoContext
<1>4. /\ request \in [via : Transports, to : Services,
                       token : Identities \cup {None}, headers : Headers]
      /\ route \in Seq(HopType)
  <2>1. ASSUME NEW hs \in Headers, NEW r \in Seq(HopType), Enters(s, token, hs, r)
        PROVE  <1>4
    BY <2>1 DEF Enters, Transports
  <2>2. CASE Enters(s, token, NoHeaders, <<>>)
    BY <2>1, <2>2, NoHeadersAreHeaders, EmptySeq
  <2>3. ASSUME NEW c \in Clients, NEW n \in 1..(MaxCallChainDepth + 1),
               Enters(s, token, [caller |-> <<Outside>>, chain |-> <<ForeignChain(c, n)>>],
                      [i \in 1..n |-> Hop(Outside, c, "written")])
        PROVE  <1>4
    <3>1. n \in Nat
      BY PropagationConstants
    <3>2. c \in Identities /\ Outside \in Names
      BY DEF Identities, Names
    <3>3. [i \in 1..n |-> [service |-> Outside, identity |-> c]] \in Seq(CallerInfo)
      <4>1. [i \in 1..n |-> [service |-> Outside, identity |-> c]] \in [1..n -> CallerInfo]
        BY <3>2 DEF CallerInfo
      <4> QED
        BY <3>1, <4>1, SeqDef
    <3>4. ForeignChain(c, n) \in CallChain
      BY <3>2, <3>3 DEF ForeignChain, CallChain
    <3>5. [caller |-> <<Outside>>, chain |-> <<ForeignChain(c, n)>>] \in Headers
      BY <3>2, <3>4 DEF Headers
    <3>6. [i \in 1..n |-> Hop(Outside, c, "written")] \in Seq(HopType)
      <4>1. Hop(Outside, c, "written") \in HopType
        BY <3>2 DEF Hop, HopType
      <4>2. [i \in 1..n |-> Hop(Outside, c, "written")] \in [1..n -> HopType]
        BY <4>1
      <4> QED
        BY <3>1, <4>2, SeqDef
    <3> QED
      BY <2>1, <2>3, <3>5, <3>6
  <2> QED
    BY <1>2, <2>2, <2>3
<1> QED
  BY <1>1, <1>3, <1>4 DEF IInv, TypeOK, Authenticated, HopType

\* A call leaves with well-formed headers if it is given some.
LEMMA CallInv ==
    ASSUME IInv, NEW t \in Transports, NEW s \in Services, NEW copy \in BOOLEAN,
           NEW headers \in Headers, NEW how \in {"written", "dropped", "copied"},
           Call(t, s, copy, headers, how)
    PROVE  IInv'
<1>1. /\ ctx.identity \in Identities /\ request.to \in Services
      /\ stage' = "sent" /\ ctx' = NoContext /\ route \in Seq(HopType)
  BY DEF IInv, TypeOK, Authenticated, Call, HopType
<1>2. request' \in [via : Transports, to : Services,
                    token : Identities \cup {None}, headers : Headers]
  <2>1. PICK token \in {ctx.identity, request.to, None} :
           request' = [via |-> t, to |-> s, token |-> token, headers |-> headers]
    BY DEF Call
  <2> QED
    BY <1>1, <2>1 DEF Identities
<1>3. route' \in Seq(HopType)
  <2>1. Hop(request.to, ctx.identity, how) \in HopType
    BY <1>1 DEF Hop, HopType, Names
  <2> QED
    BY <1>1, <2>1 DEF Call
<1>4. ctx' \in [identity : Identities \cup {None}, caller : Names \cup {None},
                chain : CallChain \cup {NoChain}]
  BY <1>1 DEF NoContext
<1> QED
  BY <1>1, <1>2, <1>3, <1>4 DEF IInv, TypeOK, Authenticated, HopType

\* What the application puts on a request is well-formed.
LEMMA PreparedHeaders ==
    ASSUME IInv, NEW t, NEW copy
    PROVE  Prepared(t, copy) \in Headers
  BY NoHeadersAreHeaders DEF Prepared, IInv, TypeOK

\* What a handler reads of the headers is a service and a chain, or nothing.
LEMMA ReadFromHeaders ==
    ASSUME NEW h \in Headers
    PROVE  /\ CallerOf(h) \in Names \cup {None}
           /\ ChainOf(h) \in CallChain \cup {NoChain}
<1>1. h.caller \in Seq(Names) /\ h.chain \in Seq(CallChain \cup {Malformed})
  BY DEF Headers
<1>2. h.caller # <<>> => Head(h.caller) \in Names
  BY <1>1, HeadTailProperties
<1>3. h.chain # <<>> => Head(h.chain) \in CallChain \cup {Malformed}
  BY <1>1, HeadTailProperties
<1> QED
  BY <1>2, <1>3 DEF CallerOf, ChainOf

\* Every step leaves requests, contexts and the route well-formed.
LEMMA StepInv == IInv /\ [Next]_vars => IInv'
<1> SUFFICES ASSUME IInv, [Next]_vars PROVE IInv'
  OBVIOUS
<1>1. ASSUME NEW t \in Transports, NEW s \in Services, NEW copy \in BOOLEAN,
             Propagate(t, s, copy)
      PROVE  IInv'
  <2>1. stage = "served"
    BY <1>1 DEF Propagate, Call
  <2>2. WithHeaders(t, Prepared(t, copy), identityToHeaders(request.to, ctx)) \in Headers
    BY <2>1, PreparedHeaders, OwnHeaders, HeadersJoin
  <2> QED
    BY <1>1, <2>2, CallInv DEF Propagate
<1>2. ASSUME NEW t \in Transports, NEW s \in Services, NEW copy \in BOOLEAN,
             PropagationFails(t, s, copy)
      PROVE  IInv'
  <2> DEFINE how == IF copy THEN "copied" ELSE "dropped"
  <2>1. how \in {"written", "dropped", "copied"}
    OBVIOUS
  <2>2. Call(t, s, copy, Prepared(t, copy), how)
    BY <1>2 DEF PropagationFails
  <2> HIDE DEF how
  <2> QED
    BY <2>1, <2>2, PreparedHeaders, CallInv
<1>3. CASE Mangle
  <2>1. /\ request.headers.caller \in Seq(Names)
        /\ <<Malformed>> \in Seq(CallChain \cup {Malformed})
    BY DEF IInv, TypeOK, Headers
  <2>2. request' \in [via : Transports, to : Services,
                      token : Identities \cup {None}, headers : Headers]
    <3>1. [request.headers EXCEPT !.chain = <<Malformed>>] \in Headers
      BY <2>1 DEF IInv, TypeOK, Headers
    <3> QED
      BY <1>3, <3>1 DEF Mangle, IInv, TypeOK
  <2>3. route' \in Seq(HopType)
    <3>1. route \in Seq(HopType) /\ route' = [route EXCEPT ![Len(route)].spoilt = TRUE]
      BY <1>3 DEF IInv, TypeOK, HopType, Mangle
    <3> QED
      BY <3>1, SpoiltRoute
  <2> QED
    BY <1>3, <2>2, <2>3 DEF IInv, TypeOK, Authenticated, Mangle, HopType
<1>4. CASE Refuse
  BY <1>4 DEF Refuse, IInv, TypeOK, Authenticated
<1>5. CASE Serve
  <2>1. /\ CallerOf(request.headers) \in Names \cup {None}
        /\ ChainOf(request.headers) \in CallChain \cup {NoChain}
    BY ReadFromHeaders DEF IInv, TypeOK
  <2> QED
    BY <1>5, <2>1 DEF Serve, IInv, TypeOK, Authenticated
<1>6. CASE UNCHANGED vars
  BY <1>6 DEF vars, IInv, TypeOK, Authenticated
<1> QED
  BY <1>1, <1>2, <1>3, <1>4, <1>5, <1>6 DEF Next
-----------------------------------------------------------------------------
\* On any route, requests, contexts and chains are well-formed; what cannot be
\* read never reaches a handler (propagation.go:40-43).
THEOREM TypeCorrect == Spec => []TypeOK
<1>1. IInv => TypeOK
  BY DEF IInv
<1> QED
  BY <1>1, InitInv, StepInv, PTL DEF Spec

\* If no application starts gRPC calls with the metadata it was called with, no
\* service ever sends a chain of more than MaxCallChainDepth callers or one
\* that does not end with itself, however long the chain it received
\* (identity.go:495-503).
THEOREM ChainsFit ==
    ASSUME "grpc" \notin Copying
    PROVE  Spec => []SentChainsFit
<1>1. Init => SentChainsFit
  <2> SUFFICES ASSUME Init, route # <<>> PROVE route[Len(route)].service = Outside
    BY DEF SentChainsFit
  <2>1. PICK c \in Clients, n \in 1..(MaxCallChainDepth + 1) :
           route = [i \in 1..n |-> Hop(Outside, c, "written")]
    BY DEF Init, Enters
  <2>2. n \in Nat /\ n \in 1..n
    BY PropagationConstants
  <2>3. route \in [1..n -> {Hop(Outside, c, "written")}]
    BY <2>1
  <2>4. Len(route) = n
    BY <2>2, <2>3
  <2> QED
    BY <2>1, <2>2, <2>4 DEF Hop
<1>2. SentChainsFit /\ IInv /\ [Next]_vars => SentChainsFit'
  <2> SUFFICES ASSUME SentChainsFit, IInv, [Next]_vars PROVE SentChainsFit'
    OBVIOUS
  <2>0. route \in Seq(HopType)
    BY DEF IInv, TypeOK, HopType
  <2>1. ASSUME NEW t \in Transports, NEW s \in Services, NEW copy \in BOOLEAN,
               Propagate(t, s, copy)
        PROVE  SentChainsFit'
    <3> DEFINE chain == OutgoingChain(request.to, ctx)
    <3>1. stage = "served" /\ (copy => t \in Copying)
      BY <2>1 DEF Propagate, Call
    <3>2. /\ Len(chain.callers) \in 1..MaxCallChainDepth
          /\ chain.callers[Len(chain.callers)].service = request.to
      BY <3>1, OutgoingChainFits DEF IInv, TypeOK, Authenticated
    <3>3. WithHeaders(t, Prepared(t, copy), identityToHeaders(request.to, ctx)).chain = <<chain>>
      <4>1. CASE t = "http"
        BY <4>1 DEF WithHeaders, identityToHeaders
      <4>2. CASE t # "http"
        <5>1. ~copy
          BY <3>1, <4>2 DEF Transports
        <5>2. <<>> \o <<chain>> = <<chain>>
          <6> HIDE DEF chain
          <6> QED
            BY ConcatEmptySeq
        <5> QED
          BY <4>2, <5>1, <5>2 DEF WithHeaders, Prepared, NoHeaders, identityToHeaders
      <4> QED
        BY <4>1, <4>2
    <3>4. request'.headers.chain = <<chain>>
      BY <2>1, <3>3 DEF Propagate, Call
    <3>5. route'[Len(route')] = Hop(request.to, ctx.identity, "written")
      BY <2>0, <2>1 DEF Propagate, Call
    <3> HIDE DEF chain
    <3>6. Head(request'.headers.chain) = chain
      BY <3>4
    <3> QED
      BY <3>2, <3>5, <3>6, PropagationConstants DEF SentChainsFit, Hop
  <2>2. ASSUME NEW t \in Transports, NEW s \in Services, NEW copy \in BOOLEAN,
               PropagationFails(t, s, copy)
        PROVE  SentChainsFit'
    <3>1. route'[Len(route')]
             = Hop(request.to, ctx.identity, IF copy THEN "copied" ELSE "dropped")
      BY <2>0, <2>2 DEF PropagationFails, Call
    <3> QED
      BY <3>1 DEF SentChainsFit, Hop
  <2>3. CASE Mangle
    <3> SUFFICES ASSUME route' # <<>> PROVE route'[Len(route')].spoilt
      BY DEF SentChainsFit
    <3>1. route' = [route EXCEPT ![Len(route)].spoilt = TRUE]
      BY <2>3 DEF Mangle
    <3> QED
      BY <2>0, <3>1, SpoiltRoute
  <2>4. CASE Refuse \/ Serve
    BY <2>4 DEF Refuse, Serve, SentChainsFit
  <2>5. CASE UNCHANGED vars
    BY <2>5 DEF vars, SentChainsFit
  <2> QED
    BY <2>1, <2>2, <2>3, <2>4, <2>5 DEF Next
<1> QED
  BY <1>1, <1>2, InitInv, StepInv, PTL DEF Spec
-----------------------------------------------------------------------------
\* The hops that put headers of their own on the request, or none.
Wrote(r) == {i \in DOMAIN r : r[i].how # "copied"}

\* The caller header names the last of them, if it wrote one.
NamesSender(caller, r) ==
    \/ Wrote(r) = {} /\ caller = None
    \/ \E i \in Wrote(r) :
          /\ \A j \in Wrote(r) : j <= i
          /\ caller = IF r[i].how = "dropped" THEN None ELSE r[i].service

SenderInv ==
    /\ NamesSender(CallerOf(request.headers), route)
    /\ stage = "served" => ctx.caller = CallerOf(request.headers)

\* A hop that writes headers, or drops them, becomes the sender.
LEMMA SenderOfWritten ==
    ASSUME NEW r \in Seq(HopType), NEW h \in HopType, h.how # "copied"
    PROVE  NamesSender(IF h.how = "dropped" THEN None ELSE h.service, Append(r, h))
<1> DEFINE q == Append(r, h)
<1>1. Len(q) = Len(r) + 1 /\ DOMAIN q = 1..(Len(r) + 1) /\ q[Len(r) + 1] = h
      /\ Len(r) \in Nat
  OBVIOUS
<1> HIDE DEF q
<1>2. Len(r) + 1 \in Wrote(q) /\ \A j \in Wrote(q) : j <= Len(r) + 1
  BY <1>1 DEF Wrote
<1> QED
  BY <1>1, <1>2 DEF NamesSender, q

\* A hop that passes on the headers it was called with does not.
LEMMA SenderOfCopied ==
    ASSUME NEW r \in Seq(HopType), NEW h \in HopType, h.how = "copied",
           NEW c, NamesSender(c, r)
    PROVE  NamesSender(c, Append(r, h))
<1> DEFINE q == Append(r, h)
<1>1. /\ DOMAIN q = 1..(Len(r) + 1) /\ q[Len(r) + 1] = h
      /\ DOMAIN r = 1..Len(r) /\ \A i \in 1..Len(r) : q[i] = r[i]
      /\ Len(r) \in Nat
  OBVIOUS
<1> HIDE DEF q
<1>2. Wrote(q) = Wrote(r)
  BY <1>1 DEF Wrote
<1> QED
  BY <1>1, <1>2 DEF NamesSender, Wrote, q

\* If no application starts gRPC calls with the metadata it was called with,
\* the caller service that a handler sees is the last service that wrote
\* headers, however many others passed them on and whatever became of the call
\* chain (propagation.go:40-43).
THEOREM CallerCorrect ==
    ASSUME "grpc" \notin Copying
    PROVE  Spec => []CallerIsSender
<1>1. Init => SenderInv
  <2> SUFFICES ASSUME Init PROVE NamesSender(CallerOf(request.headers), route)
    BY DEF Init, SenderInv
  <2>1. CASE request.headers = NoHeaders /\ route = <<>>
    BY <2>1 DEF NamesSender, Wrote, CallerOf, NoHeaders
  <2>2. ASSUME NEW c \in Clients, NEW n \in 1..(MaxCallChainDepth + 1),
               request.headers.caller = <<Outside>>,
               route = [i \in 1..n |-> Hop(Outside, c, "written")]
        PROVE  NamesSender(CallerOf(request.headers), route)
    <3>1. n \in 1..n /\ \A j \in 1..n : j <= n
      BY PropagationConstants
    <3>2. /\ Wrote(route) = 1..n
          /\ route[n].how = "written" /\ route[n].service = Outside
      BY <2>2, <3>1 DEF Wrote, Hop
    <3>3. CallerOf(request.headers) = Outside
      BY <2>2 DEF CallerOf
    <3> QED
      BY <3>1, <3>2, <3>3 DEF NamesSender
  <2> QED
    BY <2>1, <2>2 DEF Init, Enters
<1>2. SenderInv /\ IInv /\ [Next]_vars => SenderInv'
  <2> SUFFICES ASSUME SenderInv, IInv, [Next]_vars PROVE SenderInv'
    OBVIOUS
  <2>0. route \in Seq(HopType)
    BY DEF IInv, TypeOK, HopType
  <2>1. ASSUME NEW t, NEW s, NEW copy, NEW headers,
               NEW how \in {"written", "dropped", "copied"},
               Call(t, s, copy, headers, how),
               how = "copied" => headers = request.headers,
               how # "copied" => CallerOf(headers)
                                    = IF how = "dropped" THEN None ELSE request.to
        PROVE  SenderInv'
    <3> DEFINE h == Hop(request.to, ctx.identity, how)
    <3>1. h \in HopType /\ h.how = how /\ h.service = request.to
      BY <2>1 DEF IInv, TypeOK, Authenticated, Call, Hop, HopType, Names
    <3>2. route' = Append(route, h) /\ request'.headers = headers /\ stage' = "sent"
      BY <2>1 DEF Call
    <3> HIDE DEF h
    <3>3. NamesSender(CallerOf(headers), Append(route, h))
      BY <2>0, <2>1, <3>1, SenderOfWritten, SenderOfCopied DEF SenderInv
    <3> QED
      BY <3>2, <3>3 DEF SenderInv
  <2>2. ASSUME NEW t \in Transports, NEW s \in Services, NEW copy \in BOOLEAN,
               Propagate(t, s, copy)
        PROVE  SenderInv'
    <3> DEFINE headers == WithHeaders(t, Prepared(t, copy), identityToHeaders(request.to, ctx))
    <3>1. Call(t, s, copy, headers, "written")
      BY <2>2 DEF Propagate
    <3>2. headers.caller = <<request.to>>
      <4>1. CASE t = "http"
        BY <4>1 DEF WithHeaders, identityToHeaders
      <4>2. CASE t # "http"
        <5>1. ~copy
          BY <3>1, <4>2 DEF Call, Transports
        <5> QED
          BY <4>2, <5>1, ConcatEmptySeq
             DEF WithHeaders, Prepared, NoHeaders, identityToHeaders
      <4> QED
        BY <4>1, <4>2
    <3>3. CallerOf(headers) = request.to
      <4> HIDE DEF headers
      <4> QED
        BY <3>2 DEF CallerOf
    <3> HIDE DEF headers
    <3> QED
      BY <2>1, <3>1, <3>3
  <2>3. ASSUME NEW t \in Transports, NEW s \in Services, NEW copy \in BOOLEAN,
               PropagationFails(t, s, copy)
        PROVE  SenderInv'
    <3>1. CallerOf(NoHeaders) = None
      BY DEF CallerOf, NoHeaders
    <3>2. CASE copy
      <4>1. Call(t, s, copy, request.headers, "copied")
        BY <2>3, <3>2 DEF PropagationFails, Prepared
      <4> QED
        BY <2>1, <4>1
    <3>3. CASE ~copy
      <4>1. Call(t, s, copy, NoHeaders, "dropped")
        BY <2>3, <3>3 DEF PropagationFails, Prepared
      <4> QED
        BY <2>1, <3>1, <4>1
    <3> QED
      BY <3>2, <3>3
  <2>4. CASE Mangle
    <3>1. CallerOf(request.headers)' = CallerOf(request.headers)
      BY <2>4 DEF Mangle, CallerOf, IInv, TypeOK, Headers
    <3>2. route' = [route EXCEPT ![Len(route)].spoilt = TRUE]
      BY <2>4 DEF Mangle
    <3>3. /\ DOMAIN route' = DOMAIN route
          /\ \A i \in DOMAIN route : route'[i].how = route[i].how
                                    /\ route'[i].service = route[i].service
      BY <3>2
    <3>4. Wrote(route)' = Wrote(route)
      BY <3>3 DEF Wrote
    <3>5. NamesSender(CallerOf(request.headers), route)'
      BY <3>1, <3>3, <3>4 DEF SenderInv, NamesSender, Wrote
    <3> QED
      BY <2>4, <3>5 DEF SenderInv, Mangle
  <2>5. CASE Refuse
    BY <2>5 DEF Refuse, SenderInv
  <2>6. CASE Serve
    BY <2>6 DEF Serve, SenderInv
  <2>7. CASE UNCHANGED vars
    BY <2>7 DEF vars, SenderInv
  <2> QED
    BY <2>2, <2>3, <2>4, <2>5, <2>6, <2>7 DEF Next
<1>3. SenderInv /\ IInv => CallerIsSender
  <2> SUFFICES ASSUME SenderInv, IInv, stage = "served"
               PROVE  LET wrote == Wrote(route)
                          last  == CHOOSE i \in wrote : \A j \in wrote : j <= i
                      IN  ctx.caller = IF wrote = {} \/ route[last].how = "dropped"
                                       THEN None ELSE route[last].service
    BY DEF CallerIsSender, Wrote
  <2> DEFINE last == CHOOSE i \in Wrote(route) : \A j \in Wrote(route) : j <= i
  <2>1. NamesSender(ctx.caller, route)
    BY DEF SenderInv
  <2>2. ASSUME NEW i \in Wrote(route), \A j \in Wrote(route) : j <= i
        PROVE  last = i
    <3>1. last \in Wrote(route) /\ \A j \in Wrote(route) : j <= last
      BY <2>2
    <3>2. Wrote(route) \subseteq Nat
      BY DEF Wrote, IInv, TypeOK
    <3> HIDE DEF last
    <3> QED
      BY <2>2, <3>1, <3>2
  <2> HIDE DEF last
  <2>3. ctx.caller = IF Wrote(route) = {} \/ route[last].how = "dropped"
                     THEN None ELSE route[last].service
    BY <2>1, <2>2 DEF NamesSender
  <2> QED
    BY <2>3 DEF last
<1> QED
  BY <1>1, <1>2, <1>3, InitInv, StepInv, PTL DEF Spec
-----------------------------------------------------------------------------
\* A sequence of callers is cut at its front, and only to MaxCallChainDepth.
LEMMA LatestDropsTheFront ==
    ASSUME NEW S, NEW s \in Seq(S), s # <<>>
    PROVE  \E d \in Nat :
              /\ Len(Latest(s)) = Len(s) - d
              /\ Len(Latest(s)) \in Nat
              /\ d # 0 => Len(Latest(s)) = MaxCallChainDepth
              /\ \A k \in 1..Len(Latest(s)) : Latest(s)[k] = s[k + d]
<1> DEFINE m == MaxCallChainDepth
           n == Len(s)
<1>1. m \in Nat /\ m >= 1 /\ n \in Nat
  BY PropagationConstants
<1>2. CASE n > m
  <2>1. Latest(s) = SubSeq(s, n - m + 1, n)
    BY <1>2 DEF Latest
  <2>2. \A i \in (n - m + 1)..n : s[i] \in S
    BY <1>1, <1>2, ElementOfSeq
  <2>3. n - m + 1 \in Int /\ n \in Int /\ n - m + 1 <= n
    BY <1>1, <1>2
  <2>4. /\ Len(SubSeq(s, n - m + 1, n))
                = IF n - m + 1 <= n THEN n - (n - m + 1) + 1 ELSE 0
        /\ \A i \in 1..(n - (n - m + 1) + 1) :
              SubSeq(s, n - m + 1, n)[i] = s[n - m + 1 + i - 1]
    BY <2>2, <2>3, SubSeqProperties
  <2>5. n - (n - m + 1) + 1 = m /\ \A i \in 1..m : n - m + 1 + i - 1 = i + (n - m)
    BY <1>1
  <2>6. Len(Latest(s)) = m /\ \A i \in 1..m : Latest(s)[i] = s[i + (n - m)]
    BY <2>1, <2>3, <2>4, <2>5
  <2>7. n - m \in Nat /\ m = n - (n - m)
    BY <1>1, <1>2
  <2> QED
    BY <1>1, <2>6, <2>7
<1>3. CASE ~(n > m)
  <2>1. Latest(s) = s
    BY <1>3 DEF Latest
  <2>2. 0 \in Nat /\ n = n - 0 /\ \A k \in 1..n : s[k] = s[k + 0]
    BY <1>1
  <2> QED
    BY <1>1, <2>1, <2>2
<1> QED
  BY <1>2, <1>3

\* A chain that tells the truth still does when it is cut to the limit.
LEMMA CutTellsRoute ==
    ASSUME NEW r \in Seq(HopType), NEW chain \in CallChain, NEW cut \in CallChain,
           OnChain(r) # {}, TellsRoute(chain, r),
           cut.originalID = chain.originalID,
           cut.callers = Latest(chain.callers)
    PROVE  TellsRoute(cut, r)
<1> DEFINE old == chain.callers
           new == cut.callers
<1>1. old \in Seq(CallerInfo) /\ new \in Seq(CallerInfo)
  BY DEF CallChain
<1>2. PICK at \in [DOMAIN old -> OnChain(r)] :
         /\ \A k \in DOMAIN old : old[k].service = r[at[k]].service
         /\ \A k, l \in DOMAIN old : k < l => at[k] < at[l]
         /\ \A i \in OnChain(r) :
               \/ \E k \in DOMAIN old : at[k] = i
               \/ /\ Len(old) >= MaxCallChainDepth
                  /\ \A k \in DOMAIN old : i < at[k]
  BY DEF TellsRoute
<1>3. old # <<>>
  <2>1. MaxCallChainDepth \in Nat /\ MaxCallChainDepth >= 1 /\ Len(<<>>) = 0
    BY PropagationConstants
  <2> SUFFICES ASSUME old = <<>> PROVE FALSE
    OBVIOUS
  <2>2. Len(old) = 0 /\ DOMAIN old = {}
    OBVIOUS
  <2> HIDE DEF old
  <2> QED
    BY <1>2, <2>1, <2>2
<1>4. PICK d \in Nat :
         /\ Len(new) = Len(old) - d
         /\ Len(new) \in Nat
         /\ d # 0 => Len(new) = MaxCallChainDepth
         /\ \A k \in 1..Len(new) : new[k] = old[k + d]
  <2> HIDE DEF old, new
  <2>1. new = Latest(old)
    BY DEF new, old
  <2> QED
    BY <1>1, <1>3, <2>1, LatestDropsTheFront
<1>5. DOMAIN old = 1..Len(old) /\ DOMAIN new = 1..Len(new) /\ Len(old) \in Nat
  BY <1>1
<1> HIDE DEF old, new
<1>6. \A k \in DOMAIN new : k + d \in DOMAIN old
  BY <1>4, <1>5
<1> DEFINE shifted == [k \in DOMAIN new |-> at[k + d]]
<1>7. shifted \in [DOMAIN new -> OnChain(r)]
  BY <1>6
<1>8. \A k \in DOMAIN new : new[k].service = r[shifted[k]].service
  BY <1>2, <1>4, <1>5, <1>6
<1>9. \A k, l \in DOMAIN new : k < l => shifted[k] < shifted[l]
  <2> SUFFICES ASSUME NEW k \in DOMAIN new, NEW l \in DOMAIN new, k < l
               PROVE  at[k + d] < at[l + d]
    OBVIOUS
  <2>1. k + d < l + d
    BY <1>4, <1>5
  <2> QED
    BY <1>2, <1>6, <2>1
<1>10. ASSUME NEW i \in OnChain(r)
       PROVE  \/ \E k \in DOMAIN new : shifted[k] = i
              \/ /\ Len(new) >= MaxCallChainDepth
                 /\ \A k \in DOMAIN new : i < shifted[k]
  <2>1. CASE \E k \in DOMAIN old : at[k] = i
    <3>1. PICK k \in DOMAIN old : at[k] = i
      BY <2>1
    <3>2. CASE k > d
      <4>1. k - d \in DOMAIN new /\ (k - d) + d = k
        BY <1>4, <1>5, <3>2
      <4>2. shifted[k - d] = at[(k - d) + d]
        BY <4>1
      <4> HIDE DEF shifted
      <4> QED
        BY <3>1, <4>1, <4>2
    <3>3. CASE ~(k > d)
      <4>1. d # 0 /\ Len(new) = MaxCallChainDepth
        BY <1>4, <1>5, <3>3
      <4>2. \A l \in DOMAIN new : k < l + d
        BY <1>4, <1>5, <3>3
      <4>3. \A l \in DOMAIN new : i < shifted[l]
        BY <1>2, <1>6, <3>1, <4>2
      <4> HIDE DEF shifted
      <4> QED
        BY <1>4, <4>1, <4>3
    <3> QED
      BY <3>2, <3>3
  <2>2. CASE /\ Len(old) >= MaxCallChainDepth
             /\ \A k \in DOMAIN old : i < at[k]
    <3>1. Len(new) >= MaxCallChainDepth
      BY <1>4, <1>5, <2>2, PropagationConstants
    <3>2. \A k \in DOMAIN new : i < shifted[k]
      BY <1>6, <2>2
    <3> QED
      BY <3>1, <3>2
  <2> QED
    BY <1>2, <2>1, <2>2
<1> HIDE DEF shifted
<1> QED
  BY <1>7, <1>8, <1>9, <1>10 DEF TellsRoute, new

\* A hop that writes its headers joins the hops on the chain; one that copies
\* them leaves the chain alone; one that drops them ends it.
LEMMA OnChainAppended ==
    ASSUME NEW r \in Seq(HopType), NEW h \in HopType, ~h.spoilt
    PROVE  /\ h.how = "written" => OnChain(Append(r, h)) = OnChain(r) \cup {Len(r) + 1}
           /\ h.how = "copied"  => OnChain(Append(r, h)) = OnChain(r)
           /\ h.how = "dropped" => OnChain(Append(r, h)) = {}
<1> DEFINE q == Append(r, h)
<1>1. /\ q[Len(r) + 1] = h /\ Len(q) = Len(r) + 1 /\ Len(r) \in Nat
      /\ DOMAIN q = 1..(Len(r) + 1) /\ DOMAIN r = 1..Len(r)
      /\ \A i \in 1..Len(r) : q[i] = r[i]
  OBVIOUS
<1> HIDE DEF q
<1>2. ASSUME h.how # "dropped"
      PROVE  \A i \in DOMAIN r : i \in OnChain(q) <=> i \in OnChain(r)
  <2> SUFFICES ASSUME NEW i \in DOMAIN r
               PROVE  (\A j \in i..Len(q) : ~Broken(q[j])) <=> (\A j \in i..Len(r) : ~Broken(r[j]))
    BY <1>1 DEF OnChain
  <2>1. \A j \in i..Len(q) : j = Len(r) + 1 \/ (j \in i..Len(r) /\ q[j] = r[j])
    BY <1>1
  <2>2. \A j \in i..Len(r) : j \in i..Len(q) /\ q[j] = r[j]
    BY <1>1
  <2>3. ~Broken(h)
    BY <1>2 DEF Broken
  <2> QED
    BY <1>1, <2>1, <2>2, <2>3
<1>3. Len(r) + 1 \in OnChain(q) <=> h.how = "written"
  <2>1. \A j \in (Len(r) + 1)..Len(q) : j = Len(r) + 1
    BY <1>1
  <2>2. h.how = "written" => ~Broken(h)
    BY DEF Broken
  <2> QED
    BY <1>1, <2>1, <2>2 DEF OnChain
<1>4. ASSUME h.how = "dropped"
      PROVE  OnChain(q) = {}
  <2>1. Broken(h) /\ \A i \in DOMAIN q : Len(r) + 1 \in i..Len(q)
    BY <1>1, <1>4 DEF Broken
  <2> QED
    BY <1>1, <2>1 DEF OnChain
<1>5. OnChain(q) \subseteq DOMAIN r \cup {Len(r) + 1} /\ OnChain(r) \subseteq DOMAIN r
  BY <1>1 DEF OnChain
<1> QED
  BY <1>2, <1>3, <1>4, <1>5 DEF q

\* A chain that tells the truth tells it as well of a longer route with the same
\* hops on the chain.
LEMMA SameChainTellsRoute ==
    ASSUME NEW r, NEW q, NEW chain, TellsRoute(chain, r),
           OnChain(q) = OnChain(r), \A i \in OnChain(r) : q[i] = r[i]
    PROVE  TellsRoute(chain, q)
<1>1. CASE OnChain(r) = {}
  BY <1>1 DEF TellsRoute
<1>2. CASE OnChain(r) # {}
  <2> DEFINE callers == chain.callers
  <2>1. \E i \in OnChain(q) : /\ \A j \in OnChain(q) : i <= j
                              /\ chain.originalID = q[i].identity
    BY <1>2 DEF TellsRoute
  <2>2. PICK at \in [DOMAIN callers -> OnChain(r)] :
           /\ \A k \in DOMAIN callers : callers[k].service = r[at[k]].service
           /\ \A k, l \in DOMAIN callers : k < l => at[k] < at[l]
           /\ \A i \in OnChain(r) :
                 \/ \E k \in DOMAIN callers : at[k] = i
                 \/ /\ Len(callers) >= MaxCallChainDepth
                    /\ \A k \in DOMAIN callers : i < at[k]
    BY <1>2 DEF TellsRoute
  <2>3. \A k \in DOMAIN callers : q[at[k]] = r[at[k]]
    BY <2>2
  <2>4. \A k \in DOMAIN callers : callers[k].service = q[at[k]].service
    BY <2>2, <2>3
  <2> QED
    BY <1>2, <2>1, <2>2, <2>4 DEF TellsRoute
<1> QED
  BY <1>1, <1>2

\* A chain is empty exactly if no hop is on it.
LEMMA NoChainMeansNoHop ==
    ASSUME NEW chain \in CallChain \cup {NoChain}, NEW r, TellsRoute(chain, r)
    PROVE  OnChain(r) = {} <=> chain = NoChain
<1> SUFFICES ASSUME OnChain(r) # {}, chain = NoChain PROVE FALSE
  BY DEF TellsRoute
<1>1. PICK i \in OnChain(r) :
         \/ \E k \in DOMAIN chain.callers : TRUE
         \/ Len(chain.callers) >= MaxCallChainDepth
  BY DEF TellsRoute
<1>2. chain.callers = <<>>
  BY DEF NoChain
<1>3. DOMAIN chain.callers = {} /\ Len(chain.callers) = 0
  BY <1>2
<1> QED
  BY <1>1, <1>3, PropagationConstants

\* A hop that writes its headers sends a chain that tells the truth about the
\* route it has become part of, if the chain it received did about the route
\* it came by.
LEMMA WrittenTellsRoute ==
    ASSUME NEW r \in Seq(HopType), NEW s \in Services,
           NEW c \in [identity : Identities, caller : Names \cup {None},
                      chain : CallChain \cup {NoChain}],
           TellsRoute(c.chain, r)
    PROVE  TellsRoute(OutgoingChain(s, c), Append(r, Hop(s, c.identity, "written")))
<1> DEFINE h     == Hop(s, c.identity, "written")
           q     == Append(r, h)
           n     == Len(r)
           start == IF c.chain = NoChain
                    THEN [originalID |-> c.identity, callers |-> <<>>] ELSE c.chain
           me    == [service |-> s, identity |-> c.identity]
           long  == [start EXCEPT !.callers = Append(start.callers, me)]
<1>1. h \in HopType /\ h.how = "written" /\ ~h.spoilt
      /\ h.service = s /\ h.identity = c.identity
  BY DEF Hop, HopType, Names
<1>2. start \in CallChain /\ me \in CallerInfo
  BY DEF CallChain, CallerInfo, Names
<1>3. start.callers \in Seq(CallerInfo) /\ start.originalID \in Identities
  BY <1>2 DEF CallChain
<1>4. me.service = s /\ me.identity = c.identity
  OBVIOUS
<1>5. /\ OnChain(r) = {} => start.originalID = c.identity /\ start.callers = <<>>
      /\ OnChain(r) # {} => start = c.chain
  BY NoChainMeansNoHop
<1>6. OutgoingChain(s, c) = [start EXCEPT !.callers = Latest(Append(start.callers, me))]
  BY DEF OutgoingChain, AppendCaller
<1> HIDE DEF start, h
<1>7. /\ q[n + 1] = h /\ Len(q) = n + 1 /\ n \in Nat /\ q \in Seq(HopType)
      /\ \A i \in 1..n : q[i] = r[i]
  BY <1>1
<1>8. OnChain(q) = OnChain(r) \cup {n + 1}
  BY <1>1, OnChainAppended
<1>9. OnChain(r) \subseteq 1..n
  BY DEF OnChain
<1> HIDE DEF q, me
<1>10. /\ long \in CallChain /\ long.originalID = start.originalID
       /\ long.callers = Append(start.callers, me)
  <2> DEFINE longer == Append(start.callers, me)
  <2>1. longer \in Seq(CallerInfo)
    BY <1>2, <1>3
  <2> HIDE DEF longer
  <2>2. long = [start EXCEPT !.callers = longer]
    BY DEF longer
  <2>3. long \in CallChain /\ long.originalID = start.originalID /\ long.callers = longer
    BY <1>2, <2>1, <2>2 DEF CallChain
  <2> QED
    BY <2>3 DEF longer
<1> DEFINE m == Len(start.callers)
<1>11. /\ m \in Nat /\ DOMAIN long.callers = 1..(m + 1) /\ DOMAIN start.callers = 1..m
       /\ long.callers[m + 1] = me
       /\ \A k \in 1..m : long.callers[k] = start.callers[k]
       /\ Len(long.callers) = m + 1
  BY <1>2, <1>3, <1>10
<1> HIDE DEF long
<1>12. TellsRoute(long, q)
  <2>1. CASE OnChain(r) = {}
    <3>1. OnChain(q) = {n + 1} /\ m = 0
      BY <1>5, <1>8, <2>1
    <3>2. \E i \in OnChain(q) : /\ \A j \in OnChain(q) : i <= j
                                /\ long.originalID = q[i].identity
      BY <1>1, <1>5, <1>7, <1>10, <2>1, <3>1
    <3> DEFINE at == [k \in DOMAIN long.callers |-> n + 1]
    <3>3. at \in [DOMAIN long.callers -> OnChain(q)]
      BY <3>1
    <3>4. \A k \in DOMAIN long.callers : long.callers[k].service = q[at[k]].service
      BY <1>1, <1>4, <1>7, <1>11, <3>1 DEF me
    <3>5. \A k, l \in DOMAIN long.callers : ~(k < l)
      BY <1>11, <3>1
    <3>6. \A i \in OnChain(q) : \E k \in DOMAIN long.callers : at[k] = i
      BY <1>11, <3>1
    <3> HIDE DEF at
    <3> QED
      BY <3>1, <3>2, <3>3, <3>4, <3>5, <3>6 DEF TellsRoute
  <2>2. CASE OnChain(r) # {}
    <3>0. start = c.chain /\ TellsRoute(start, r)
      BY <1>5, <2>2
    <3>1. \E i \in OnChain(q) : /\ \A j \in OnChain(q) : i <= j
                                /\ long.originalID = q[i].identity
      <4>1. PICK i \in OnChain(r) : /\ \A j \in OnChain(r) : i <= j
                                    /\ start.originalID = r[i].identity
        BY <2>2, <3>0 DEF TellsRoute
      <4>2. i \in OnChain(q) /\ i <= n + 1 /\ q[i] = r[i]
        BY <1>7, <1>8, <1>9
      <4> QED
        BY <1>8, <1>10, <4>1, <4>2
    <3>2. PICK at \in [DOMAIN start.callers -> OnChain(r)] :
             /\ \A k \in DOMAIN start.callers :
                   start.callers[k].service = r[at[k]].service
             /\ \A k, l \in DOMAIN start.callers : k < l => at[k] < at[l]
             /\ \A i \in OnChain(r) :
                   \/ \E k \in DOMAIN start.callers : at[k] = i
                   \/ /\ Len(start.callers) >= MaxCallChainDepth
                      /\ \A k \in DOMAIN start.callers : i < at[k]
      BY <2>2, <3>0 DEF TellsRoute
    <3> DEFINE to == [k \in DOMAIN long.callers |-> IF k = m + 1 THEN n + 1 ELSE at[k]]
    <3>3. \A k \in 1..m : /\ to[k] = at[k] /\ at[k] \in OnChain(r)
                          /\ q[at[k]] = r[at[k]] /\ at[k] < n + 1
      BY <1>7, <1>9, <1>11, <3>2
    <3>4. to[m + 1] = n + 1
      BY <1>11
    <3>5. \A k \in DOMAIN long.callers : k \in 1..m \/ k = m + 1
      BY <1>11
    <3>6. to \in [DOMAIN long.callers -> OnChain(q)]
      BY <1>8, <3>3, <3>5
    <3> HIDE DEF to
    <3>7. \A k \in DOMAIN long.callers : long.callers[k].service = q[to[k]].service
      <4>1. me.service = q[n + 1].service
        BY <1>1, <1>7 DEF me
      <4>2. \A k \in 1..m : long.callers[k].service = q[to[k]].service
        <5> SUFFICES ASSUME NEW k \in 1..m
                     PROVE  long.callers[k].service = q[to[k]].service
          OBVIOUS
        <5>1. long.callers[k].service = r[at[k]].service
          BY <1>11, <3>2
        <5> QED
          BY <3>3, <5>1
      <4> QED
        BY <1>11, <3>4, <3>5, <4>1, <4>2
    <3>8. \A k, l \in DOMAIN long.callers : k < l => to[k] < to[l]
      <4> SUFFICES ASSUME NEW k \in DOMAIN long.callers, NEW l \in DOMAIN long.callers, k < l
                   PROVE  to[k] < to[l]
        OBVIOUS
      <4>1. k \in 1..m
        BY <1>11
      <4> QED
        BY <1>11, <3>2, <3>3, <3>4, <3>5, <4>1
    <3>9. ASSUME NEW i \in OnChain(q)
          PROVE  \/ \E k \in DOMAIN long.callers : to[k] = i
                 \/ /\ Len(long.callers) >= MaxCallChainDepth
                    /\ \A k \in DOMAIN long.callers : i < to[k]
      <4>1. CASE i = n + 1
        BY <1>11, <3>4, <4>1
      <4>2. CASE i \in OnChain(r) /\ \E k \in DOMAIN start.callers : at[k] = i
        BY <1>11, <3>3, <4>2
      <4>3. CASE /\ i \in OnChain(r)
                 /\ Len(start.callers) >= MaxCallChainDepth
                 /\ \A k \in DOMAIN start.callers : i < at[k]
        <5>1. m + 1 >= MaxCallChainDepth
          BY <1>11, <4>3, PropagationConstants
        <5>2. i < n + 1
          BY <1>7, <1>9, <4>3
        <5> QED
          BY <1>11, <3>3, <3>4, <3>5, <4>3, <5>1, <5>2
      <4> QED
        BY <1>8, <3>2, <4>1, <4>2, <4>3
    <3> QED
      BY <1>8, <3>1, <3>6, <3>7, <3>8, <3>9 DEF TellsRoute
  <2> QED
    BY <2>1, <2>2
<1>13. /\ OutgoingChain(s, c) \in CallChain
       /\ OutgoingChain(s, c).originalID = long.originalID
       /\ OutgoingChain(s, c).callers = Latest(long.callers)
  <2>1. OutgoingChain(s, c) \in CallChain
    BY OutgoingChainFits
  <2>2. start.callers \in Seq(CallerInfo) /\ "callers" \in DOMAIN start /\ "originalID" \in DOMAIN start
    BY <1>2 DEF CallChain
  <2> HIDE DEF Latest
  <2> QED
    BY <1>2, <1>6, <1>10, <2>1 DEF CallChain
<1>14. OnChain(q) # {}
  BY <1>8
<1> QED
  BY <1>7, <1>10, <1>12, <1>13, <1>14, CutTellsRoute DEF q, h

\* The chain in the headers tells the truth about the route, on the way and
\* while the request is served.
ChainInv ==
    /\ TellsRoute(ChainOf(request.headers), route)
    /\ stage = "served" => ctx.chain = ChainOf(request.headers)

\* Who calls from outside this library is on the chain that comes in.
LEMMA ForeignTellsRoute ==
    ASSUME NEW c \in Clients, NEW n \in 1..(MaxCallChainDepth + 1)
    PROVE  TellsRoute(ForeignChain(c, n), [i \in 1..n |-> Hop(Outside, c, "written")])
<1> DEFINE chain == ForeignChain(c, n)
           r     == [i \in 1..n |-> Hop(Outside, c, "written")]
           at    == [i \in 1..n |-> i]
<1>1. n \in Nat /\ n >= 1 /\ 1 \in 1..n
  BY PropagationConstants
<1>2. r \in [1..n -> {Hop(Outside, c, "written")}]
  OBVIOUS
<1>3. Len(r) = n /\ DOMAIN r = 1..n
  BY <1>1, <1>2
<1>4. \A i \in 1..n : /\ r[i].how = "written" /\ ~r[i].spoilt
                      /\ r[i].service = Outside /\ r[i].identity = c
  BY DEF Hop
<1>5. DOMAIN chain.callers = 1..n /\ chain.originalID = c
      /\ \A k \in 1..n : chain.callers[k] = [service |-> Outside, identity |-> c]
  BY DEF ForeignChain
<1> HIDE DEF r, chain
<1>6. OnChain(r) = 1..n
  <2>1. \A i \in 1..n : i..n \subseteq 1..n
    BY <1>1
  <2> QED
    BY <1>3, <1>4, <2>1 DEF OnChain, Broken
<1>7. \E i \in OnChain(r) : (\A j \in OnChain(r) : i <= j) /\ chain.originalID = r[i].identity
  BY <1>1, <1>4, <1>5, <1>6
<1>8. at \in [DOMAIN chain.callers -> OnChain(r)] /\ \A k \in 1..n : at[k] = k
  BY <1>5, <1>6
<1> HIDE DEF at
<1>9. \A k \in DOMAIN chain.callers : chain.callers[k].service = r[at[k]].service
  BY <1>4, <1>5, <1>8
<1>10. \A k, l \in DOMAIN chain.callers : k < l => at[k] < at[l]
  BY <1>5, <1>8
<1>11. \A i \in OnChain(r) : \E k \in DOMAIN chain.callers : at[k] = i
  BY <1>5, <1>6, <1>8
<1> QED
  BY <1>1, <1>6, <1>7, <1>8, <1>9, <1>10, <1>11 DEF TellsRoute, chain, r

\* If no application starts gRPC calls with the metadata it was called with, the
\* call chain that a handler sees is the route of its request: the latest
\* services that wrote headers, in order and without gaps, behind the identity
\* that was known where the chain began (identity.go:466-493).
THEOREM ChainTellsRoute ==
    ASSUME "grpc" \notin Copying
    PROVE  Spec => []ChainIsRoute
<1>1. Init => ChainInv
  <2> SUFFICES ASSUME Init PROVE TellsRoute(ChainOf(request.headers), route)
    BY DEF Init, ChainInv
  <2>1. CASE request.headers = NoHeaders /\ route = <<>>
    <3>1. ChainOf(request.headers) = NoChain /\ OnChain(route) = {}
      BY <2>1 DEF ChainOf, NoHeaders, OnChain
    <3> QED
      BY <3>1 DEF TellsRoute
  <2>2. ASSUME NEW c \in Clients, NEW n \in 1..(MaxCallChainDepth + 1),
               request.headers.chain = <<ForeignChain(c, n)>>,
               route = [i \in 1..n |-> Hop(Outside, c, "written")]
        PROVE  TellsRoute(ChainOf(request.headers), route)
    <3>1. ForeignChain(c, n) # Malformed
      BY PropagationConstants DEF ForeignChain, Malformed, Identities
    <3>2. ChainOf(request.headers) = ForeignChain(c, n)
      BY <2>2, <3>1 DEF ChainOf
    <3> QED
      BY <2>2, <3>2, ForeignTellsRoute
  <2> QED
    BY <2>1, <2>2 DEF Init, Enters
<1>2. ChainInv /\ IInv /\ [Next]_vars => ChainInv'
  <2> SUFFICES ASSUME ChainInv, IInv, [Next]_vars PROVE ChainInv'
    OBVIOUS
  <2>0. route \in Seq(HopType)
    BY DEF IInv, TypeOK, HopType
  <2>1. ASSUME NEW t \in Transports, NEW s \in Services, NEW copy \in BOOLEAN,
               Propagate(t, s, copy)
        PROVE  ChainInv'
    <3> DEFINE chain   == OutgoingChain(request.to, ctx)
               headers == WithHeaders(t, Prepared(t, copy), identityToHeaders(request.to, ctx))
    <3>1. stage = "served" /\ (copy => t \in Copying) /\ request.to \in Services
      BY <2>1 DEF Propagate, Call, IInv, TypeOK
    <3>2. ctx \in [identity : Identities, caller : Names \cup {None},
                   chain : CallChain \cup {NoChain}]
      BY <3>1 DEF IInv, TypeOK, Authenticated
    <3>3. TellsRoute(chain, Append(route, Hop(request.to, ctx.identity, "written")))
      BY <2>0, <3>1, <3>2, WrittenTellsRoute DEF ChainInv
    <3>4. chain \in CallChain
      BY <3>1, <3>2, OutgoingChainFits
    <3>5. chain # Malformed
      BY <3>4, PropagationConstants DEF CallChain, Malformed, Identities
    <3>6. headers.chain = <<chain>>
      <4>1. CASE t = "http"
        BY <4>1 DEF WithHeaders, identityToHeaders
      <4>2. CASE t # "http"
        <5>1. ~copy
          BY <3>1, <4>2 DEF Transports
        <5>2. <<>> \o <<chain>> = <<chain>>
          <6> HIDE DEF chain
          <6> QED
            BY ConcatEmptySeq
        <5> QED
          BY <4>2, <5>1, <5>2 DEF WithHeaders, Prepared, NoHeaders, identityToHeaders
      <4> QED
        BY <4>1, <4>2
    <3>7. request'.headers = headers /\ stage' = "sent"
          /\ route' = Append(route, Hop(request.to, ctx.identity, "written"))
      BY <2>1 DEF Propagate, Call
    <3> HIDE DEF chain, headers
    <3>8. ChainOf(headers) = chain
      BY <3>5, <3>6 DEF ChainOf
    <3> QED
      BY <3>3, <3>7, <3>8 DEF ChainInv
  <2>2. ASSUME NEW t \in Transports, NEW s \in Services, NEW copy \in BOOLEAN,
               PropagationFails(t, s, copy)
        PROVE  ChainInv'
    <3> DEFINE h == Hop(request.to, ctx.identity, IF copy THEN "copied" ELSE "dropped")
    <3>1. h \in HopType /\ ~h.spoilt /\ h.how = IF copy THEN "copied" ELSE "dropped"
      BY <2>2 DEF IInv, TypeOK, Authenticated, PropagationFails, Call, Hop, HopType, Names
    <3>2. /\ request'.headers = Prepared(t, copy) /\ stage' = "sent"
          /\ route' = Append(route, h)
      BY <2>2 DEF PropagationFails, Call
    <3> HIDE DEF h
    <3>3. CASE copy
      <4>1. ChainOf(request'.headers) = ChainOf(request.headers)
        BY <3>2, <3>3 DEF Prepared
      <4>2. OnChain(Append(route, h)) = OnChain(route)
        BY <2>0, <3>1, <3>3, OnChainAppended
      <4>3. \A i \in OnChain(route) : Append(route, h)[i] = route[i]
        BY <2>0, <3>1 DEF OnChain
      <4>4. TellsRoute(ChainOf(request.headers), Append(route, h))
        BY <4>2, <4>3, SameChainTellsRoute DEF ChainInv
      <4> QED
        BY <3>2, <4>1, <4>4 DEF ChainInv
    <3>4. CASE ~copy
      <4>1. ChainOf(request'.headers) = NoChain
        BY <3>2, <3>4 DEF Prepared, NoHeaders, ChainOf
      <4>2. OnChain(Append(route, h)) = {}
        BY <2>0, <3>1, <3>4, OnChainAppended
      <4> QED
        BY <3>2, <4>1, <4>2 DEF ChainInv, TellsRoute
    <3> QED
      BY <3>3, <3>4
  <2>3. CASE Mangle
    <3>1. request'.headers.chain = <<Malformed>> /\ stage' = "sent"
      BY <2>3 DEF Mangle, IInv, TypeOK, Headers
    <3>2. ChainOf(request'.headers) = NoChain
      <4>1. \A h : h.chain = <<Malformed>> => ChainOf(h) = NoChain
        BY DEF ChainOf
      <4> QED
        BY <3>1, <4>1
    <3>3. OnChain(route') = {}
      <4> DEFINE q == route'
      <4>1. q = [route EXCEPT ![Len(route)].spoilt = TRUE]
        BY <2>3 DEF Mangle
      <4>2. /\ q \in Seq(HopType) /\ Len(q) = Len(route)
            /\ route = <<>> => q = <<>>
            /\ route # <<>> => q[Len(route)].spoilt
        BY <2>0, <4>1, SpoiltRoute
      <4> HIDE DEF q
      <4>3. \A i \in DOMAIN q : Len(q) \in i..Len(q) /\ Broken(q[Len(q)])
        BY <4>2 DEF Broken
      <4>4. OnChain(q) = {}
        BY <4>3 DEF OnChain
      <4> QED
        BY <4>4 DEF q
    <3> QED
      BY <3>1, <3>2, <3>3 DEF ChainInv, TellsRoute
  <2>4. CASE Refuse
    BY <2>4 DEF Refuse, ChainInv
  <2>5. CASE Serve
    BY <2>5 DEF Serve, ChainInv
  <2>6. CASE UNCHANGED vars
    BY <2>6 DEF vars, ChainInv
  <2> QED
    BY <2>1, <2>2, <2>3, <2>4, <2>5, <2>6 DEF Next
<1>3. ChainInv => ChainIsRoute
  BY DEF ChainInv, ChainIsRoute
<1> QED
  BY <1>1, <1>2, <1>3, InitInv, StepInv, PTL DEF Spec
=============================================================================
