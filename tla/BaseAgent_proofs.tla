-------------------------- MODULE BaseAgent_proofs --------------------------
(***************************************************************************)
(* Proofs about BaseAgent, for any number of goroutines and of handlers.   *)
(***************************************************************************)
EXTENDS BaseAgent, TLAPS

\* What a goroutine is doing fits where it is: the critical sections of Start
\* and Stop are entered by Start and Stop, those after a hook by a call that
\* has a goal, and only Stop looks whether the agent is down already.
PlaceOK(c) ==
    /\ pc[c] = "requesting" => op[c] \in {"Start", "Stop"}
    /\ pc[c] = "enter" => op[c] = "Stop"
    /\ pc[c] # "idle" => op[c] \in Operations \cup SetStateTargets
    /\ pc[c] \in {"ctx", "enter", "require", "hook", "failing"}
          => op[c] \in Operations

\* While a.mu is free nothing is being announced; while a goroutine holds it,
\* the state is the one it asked for and the matrix leads there.
LockOK ==
    IF mu = NoCaller
    THEN from = state /\ notified = 0
    ELSE /\ pc[mu] \in Writing
         /\ state = Target(mu)
         /\ ValidTransition(from, state)

IInv ==
    /\ TypeOK
    /\ \A c \in Callers : PlaceOK(c)
    /\ LockOK
    /\ NotifiedInOrder

-----------------------------------------------------------------------------
\* What a call asks for is a state.
LEMMA TargetIsState ==
    ASSUME NEW c \in Callers, TypeOK, PlaceOK(c), pc[c] \in Writing
    PROVE  Target(c) \in States
  BY BaseAgentConstants DEF TypeOK, PlaceOK, Writing, Target, Goal, States

\* The matrix leads nowhere but to states, and never to the state one is in.
LEMMA TransitionsLeadToStates ==
    ASSUME NEW a \in States, NEW b, ValidTransition(a, b)
    PROVE  b \in States /\ a # b
  BY DEF ValidTransition, validTransitions, States

LEMMA InitIInv == Init => IInv
  BY BaseAgentConstants
  DEF Init, IInv, TypeOK, PlaceOK, LockOK, NotifiedInOrder, States, Locations,
      Results, Handlers

\* The steps that leave the agent alone: they move one goroutine, which does
\* not hold a.mu.
LEMMA QuietStep ==
    ASSUME IInv, NEW c \in Callers, UNCHANGED agent, c # mu,
           NEW l \in Locations, pc' = [pc EXCEPT ![c] = l],
           TypeOK', PlaceOK(c)',
           \A d \in Callers : d # c => op'[d] = op[d]
    PROVE  IInv'
<1>1. \A d \in Callers : PlaceOK(d)'
  BY DEF IInv, TypeOK, PlaceOK
<1>2. LockOK'
  <2>1. CASE mu = NoCaller
    BY <2>1 DEF IInv, LockOK, agent
  <2>2. CASE mu # NoCaller
    <3>1. mu \in Callers /\ pc'[mu] = pc[mu] /\ op'[mu] = op[mu]
      BY <2>2 DEF IInv, TypeOK
    <3> QED
      BY <2>2, <3>1 DEF IInv, LockOK, agent, Target
  <2> QED
    BY <2>1, <2>2
<1>3. NotifiedInOrder'
  BY DEF IInv, NotifiedInOrder, agent
<1> QED
  BY <1>1, <1>2, <1>3 DEF IInv

LEMMA HolderWrites ==
    ASSUME IInv, NEW c \in Callers, mu = c \/ pc[c] \in Writing
    PROVE  /\ mu = c => pc[c] \in Writing /\ mu # NoCaller
           /\ mu = NoCaller => mu # c
  BY BaseAgentConstants DEF IInv, LockOK

LEMMA NextIInv == IInv /\ [Next]_vars => IInv'
<1> SUFFICES ASSUME IInv, [Next]_vars
             PROVE  IInv'
  OBVIOUS
<1> USE BaseAgentConstants
<1>1. ASSUME NEW c \in Drivers, NEW o \in Operations, Call(c, o)
      PROVE  IInv'
  <2>1. c \in Callers /\ c # mu
    BY <1>1, HolderWrites DEF Call, Begin, Callers, Writing
  <2>2. TypeOK' /\ PlaceOK(c)'
    BY <1>1, <2>1 DEF Call, Begin, agent, IInv, TypeOK, PlaceOK, Locations,
                      Results
  <2> QED
    BY <1>1, <2>1, <2>2, QuietStep DEF Call, Begin, IInv, TypeOK, Locations
<1>2. ASSUME NEW c \in Monitors, NEW s \in SetStateTargets, CallSetState(c, s)
      PROVE  IInv'
  <2>1. c \in Callers /\ c # mu
    BY <1>2, HolderWrites DEF CallSetState, Begin, Callers, Writing
  <2>2. TypeOK' /\ PlaceOK(c)'
    BY <1>2, <2>1 DEF CallSetState, Begin, agent, IInv, TypeOK, PlaceOK,
                      Locations, Results
  <2> QED
    BY <1>2, <2>1, <2>2, QuietStep
    DEF CallSetState, Begin, IInv, TypeOK, Locations
<1>3. ASSUME NEW c \in Callers, Step(c)
      PROVE  IInv'
  <2>1. CASE StopIfTerminal(c)
    <3>1. c # mu
      BY <2>1 DEF StopIfTerminal
    <3>2. TypeOK' /\ PlaceOK(c)'
      BY <2>1 DEF StopIfTerminal, Goto, Return, agent, IInv, TypeOK, PlaceOK,
                  Locations, Results
    <3> QED
      BY <2>1, <3>1, <3>2, QuietStep
      DEF StopIfTerminal, Goto, Return, IInv, TypeOK, Locations
  <2>2. CASE CheckContext(c)
    <3>1. c # mu
      BY <2>2, HolderWrites DEF CheckContext, Writing
    <3>2. TypeOK' /\ PlaceOK(c)'
      BY <2>2 DEF CheckContext, Goto, Return, agent, IInv, TypeOK, PlaceOK,
                  Locations, Results
    <3> QED
      BY <2>2, <3>1, <3>2, QuietStep
      DEF CheckContext, Goto, Return, IInv, TypeOK, Locations
  <2>3. CASE requireState(c)
    <3>1. c # mu
      BY <2>3 DEF requireState
    <3>2. TypeOK' /\ PlaceOK(c)'
      BY <2>3 DEF requireState, Goto, Return, agent, IInv, TypeOK, PlaceOK,
                  Locations, Results
    <3> QED
      BY <2>3, <3>1, <3>2, QuietStep
      DEF requireState, Goto, Return, IInv, TypeOK, Locations
  <2>4. CASE Hook(c)
    <3>1. c # mu
      BY <2>4, HolderWrites DEF Hook, Writing
    <3>2. TypeOK' /\ PlaceOK(c)'
      BY <2>4 DEF Hook, Goto, Return, agent, IInv, TypeOK, PlaceOK,
                  Locations, Results
    <3> QED
      BY <2>4, <3>1, <3>2, QuietStep
      DEF Hook, Goto, Return, IInv, TypeOK, Locations
  <2>5. CASE Accept(c)
    <3>1. Target(c) \in States /\ state # Target(c)
      BY <2>5, TargetIsState, TransitionsLeadToStates
      DEF Accept, IInv, TypeOK
    <3>2. TypeOK'
      BY <2>5, <3>1 DEF Accept, Aged, IInv, TypeOK
    <3>3. \A d \in Callers : PlaceOK(d)'
      BY <2>5 DEF Accept, IInv, PlaceOK
    <3>4. LockOK'
      BY <2>5 DEF Accept, LockOK, Target
    <3>5. NotifiedInOrder'
      BY <2>5 DEF Accept, IInv, LockOK, NotifiedInOrder, Handlers
    <3> QED
      BY <3>2, <3>3, <3>4, <3>5 DEF IInv
  <2>6. CASE Refuse(c)
    <3>1. c # mu
      BY <2>6 DEF Refuse
    <3>2. TypeOK' /\ PlaceOK(c)'
      BY <2>6 DEF Refuse, Return, agent, IInv, TypeOK, PlaceOK,
                  Locations, Results
    <3> QED
      BY <2>6, <3>1, <3>2, QuietStep
      DEF Refuse, Return, IInv, TypeOK, Locations
  <2>7. CASE Notify(c)
    <3>1. TypeOK'
      BY <2>7 DEF Notify, IInv, TypeOK, Handlers
    <3>2. \A d \in Callers : PlaceOK(d)'
      BY <2>7 DEF Notify, IInv, PlaceOK
    <3>3. LockOK'
      <4>1. mu' = c /\ mu = c /\ c # NoCaller
        BY <2>7 DEF Notify
      <4>2. Target(c)' = Target(c)
        BY <2>7 DEF Notify, Target
      <4> QED
        BY <2>7, <4>1, <4>2 DEF Notify, IInv, LockOK
    <3>4. NotifiedInOrder'
      <4> SUFFICES ASSUME NEW h \in Handlers
                   PROVE  seen'[h] = IF h <= notified' THEN state' ELSE from'
        BY DEF NotifiedInOrder
      <4>1. seen[h] = IF h <= notified THEN state ELSE from
        BY DEF IInv, NotifiedInOrder
      <4>2. CASE h = notified + 1
        BY <2>7, <4>2 DEF Notify, IInv, TypeOK, Handlers
      <4>3. CASE h # notified + 1
        BY <2>7, <4>1, <4>3 DEF Notify, IInv, TypeOK, Handlers
      <4> QED
        BY <4>2, <4>3
    <3> QED
      BY <3>1, <3>2, <3>3, <3>4 DEF IInv
  <2>8. CASE Release(c)
    <3>1. pc[c] \in Writing
      BY <2>8, HolderWrites DEF Release
    <3>2. Recorded(c) \in {"nil", "current", "earlier"}
      BY DEF Recorded, IInv, TypeOK
    <3>3. TypeOK' /\ \A d \in Callers : PlaceOK(d)'
      <4>1. CASE Goto(c, "hook") /\ pc[c] = "requesting"
        <5>1. TypeOK'
          BY <2>8, <3>2, <4>1 DEF Release, Goto, IInv, TypeOK, Locations
        <5>2. \A d \in Callers : PlaceOK(d)'
          BY <4>1 DEF Goto, IInv, TypeOK, PlaceOK, Locations, States
        <5> QED
          BY <5>1, <5>2
      <4>2. ASSUME NEW r \in Results, Return(c, r)
            PROVE  TypeOK' /\ \A d \in Callers : PlaceOK(d)'
        <5>1. TypeOK'
          BY <2>8, <3>2, <4>2 DEF Release, Return, IInv, TypeOK, Locations
        <5>2. \A d \in Callers : PlaceOK(d)'
          BY <4>2 DEF Return, IInv, TypeOK, PlaceOK, Locations
        <5> QED
          BY <5>1, <5>2
      <4> QED
        BY <2>8, <4>1, <4>2 DEF Release, Results
    <3>4. LockOK'
      BY <2>8 DEF Release, LockOK
    <3>5. NotifiedInOrder'
      BY <2>8 DEF Release, IInv, NotifiedInOrder, Handlers
    <3> QED
      BY <3>3, <3>4, <3>5 DEF IInv
  <2> QED
    BY <1>3, <2>1, <2>2, <2>3, <2>4, <2>5, <2>6, <2>7, <2>8 DEF Step
<1>4. CASE UNCHANGED vars
  BY <1>4 DEF vars, IInv, TypeOK, PlaceOK, LockOK, NotifiedInOrder, Target
<1> QED
  BY <1>1, <1>2, <1>3, <1>4 DEF Next

-----------------------------------------------------------------------------
\* The inductive invariant holds throughout.
THEOREM Invariance == Spec => []IInv
<1>1. Init => IInv
  BY InitIInv
<1>2. IInv /\ [Next]_vars => IInv'
  BY NextIInv
<1> QED
  BY <1>1, <1>2, PTL DEF Spec

\* Type correctness.
THEOREM TypeCorrect == Spec => []TypeOK
<1>1. IInv => TypeOK
  BY DEF IInv
<1> QED
  BY <1>1, Invariance, PTL

\* Handlers are told of every change, in order (NotifiedInOrder).
THEOREM HandlersInOrder == Spec => []NotifiedInOrder
<1>1. IInv => NotifiedInOrder
  BY DEF IInv
<1> QED
  BY <1>1, Invariance, PTL

-----------------------------------------------------------------------------
(* BaseAgent implements AgentLifecycle. *)

LEMMA InitObserved == Init => Observed!Init
  BY DEF Init, Observed!Init, Handlers, Observed!Observers

\* A handler call announces the transition to the first handler or relays it
\* to the next one; every other step tells nobody anything.
LEMMA NotifyObserved ==
    ASSUME IInv, NEW c \in Callers, Notify(c)
    PROVE  Observed!Next
<1> USE BaseAgentConstants
<1>1. /\ mu # NoCaller
      /\ ValidTransition(from, state)
      /\ from \in States /\ state \in States /\ from # state
      /\ notified \in Nat /\ notified + 1 \in Handlers
  BY TransitionsLeadToStates
  DEF Notify, IInv, TypeOK, LockOK, Callers, Handlers
<1>2. \A h \in Handlers : seen[h] = IF h <= notified THEN state ELSE from
  BY DEF IInv, NotifiedInOrder
<1>3. CASE notified = 0
  <2>1. \A h \in Handlers : seen[h] = from
    BY <1>2, <1>3 DEF Handlers
  <2>2. 1 \in Handlers
    BY <1>1, <1>3
  <2>3. Observed!Announce(state)
    BY <1>1, <1>3, <2>1, <2>2
    DEF Notify, Observed!Announce, Observed!Observers, Handlers,
        Observed!ValidTransition, Observed!validTransitions, ValidTransition,
        validTransitions, Observed!States, States
  <2> QED
    BY <1>1, <2>3 DEF Observed!Next, Observed!States, States
<1>4. CASE notified > 0
  <2>1. 1 \in Handlers /\ seen[1] = state /\ seen[notified + 1] = from
    BY <1>1, <1>2, <1>4 DEF Handlers
  <2>2. \A k \in 1..((notified + 1) - 1) : seen[k] = seen[1]
    BY <1>1, <1>2, <2>1 DEF Handlers
  <2>3. Observed!Relay(notified + 1)
    BY <1>1, <1>4, <2>1, <2>2 DEF Notify, Observed!Relay
  <2> QED
    BY <1>1, <2>3 DEF Observed!Next, Observed!Observers, Handlers
<1> QED
  BY <1>1, <1>3, <1>4

LEMMA NextObserved == IInv /\ [Next]_vars => [Observed!Next]_seen
<1> SUFFICES ASSUME IInv, [Next]_vars
             PROVE  [Observed!Next]_seen
  OBVIOUS
<1>1. ASSUME NEW c \in Callers, Step(c)
      PROVE  [Observed!Next]_seen
  <2>1. CASE Notify(c)
    BY <2>1, NotifyObserved
  <2>2. CASE ~Notify(c)
    BY <1>1, <2>2 DEF Step, StopIfTerminal, CheckContext, requireState, Hook,
                      Accept, Refuse, Release, agent
  <2> QED
    BY <2>1, <2>2
<1>2. CASE \E c \in Drivers, o \in Operations : Call(c, o)
  BY <1>2 DEF Call, Begin, agent
<1>3. CASE \E c \in Monitors, s \in SetStateTargets : CallSetState(c, s)
  BY <1>3 DEF CallSetState, Begin, agent
<1>4. CASE UNCHANGED vars
  BY <1>4 DEF vars
<1> QED
  BY <1>1, <1>2, <1>3, <1>4 DEF Next

\* The handlers, whatever calls overlap, see the abstract life cycle.
THEOREM Refinement == Spec => ObserversSeeLifecycle
<1>1. Init => Observed!Init
  BY InitObserved
<1>2. IInv /\ [Next]_vars => [Observed!Next]_seen
  BY NextObserved
<1> QED
  BY <1>1, <1>2, Invariance, PTL DEF Spec, ObserversSeeLifecycle, Observed!Spec

-----------------------------------------------------------------------------
(* Transient states have an owner. *)

\* While the agent is in a transient state, a step of a call that owns the
\* state either keeps that call an owner or changes the state.
LEMMA OwnerStays ==
    ASSUME "panic" \notin HookOutcomes, IInv, [Next]_vars,
           NEW c \in Callers, NEW o \in {"Start", "Stop"}, MovesOn(c, o),
           state = (IF o = "Start" THEN "starting" ELSE "stopping"),
           state' = state
    PROVE  MovesOn(c, o)'
<1> USE BaseAgentConstants
<1>0. op \in [Callers -> Operations \cup SetStateTargets \cup {"none"}]
      /\ pc \in [Callers -> Locations] /\ op[c] = o /\ PlaceOK(c)
      /\ pc[c] \in {"hook", "settling", "failing", "requesting"}
  BY DEF IInv, TypeOK, MovesOn
<1>1. CASE pc' = pc /\ op' = op /\ mu' = mu
  BY <1>1 DEF MovesOn
<1>2. ASSUME NEW d \in Callers, d # c, Step(d)
      PROVE  MovesOn(c, o)'
  <2>1. pc'[c] = pc[c] /\ op'[c] = op[c]
    BY <1>0, <1>2 DEF Step, StopIfTerminal, CheckContext, requireState, Hook,
                      Accept, Refuse, Notify, Release, Goto, Return
  <2>2. mu = c => mu' = c
    BY <1>2 DEF Step, StopIfTerminal, CheckContext, requireState, Hook,
                      Accept, Refuse, Notify, Release, agent, IInv, LockOK
  <2> QED
    BY <2>1, <2>2 DEF MovesOn
<1>3. ASSUME NEW d \in Callers, d # c, NEW x, NEW l, Begin(d, x, l)
      PROVE  MovesOn(c, o)'
  BY <1>0, <1>3 DEF Begin, agent, MovesOn
<1>4. ASSUME NEW x, NEW l, Begin(c, x, l)
      PROVE  MovesOn(c, o)'
  BY <1>0, <1>4 DEF Begin
<1>5. CASE Hook(c)
  BY <1>0, <1>5 DEF Hook, Goto, MovesOn
<1>6. CASE Accept(c)
  <2>1. state # Target(c)
    BY <1>6, TransitionsLeadToStates DEF Accept, IInv, TypeOK
  <2> QED
    BY <1>6, <2>1 DEF Accept
<1>7. CASE Refuse(c)
  <2>1. pc[c] \in {"settling", "failing"}
    BY <1>0, <1>7 DEF MovesOn, Refuse, Writing
  <2>2. ValidTransition(state, Target(c))
    BY <1>0, <2>1 DEF Target, Goal, ValidTransition, validTransitions, States
  <2> QED
    BY <1>7, <2>2 DEF Refuse
<1>8. CASE Notify(c)
  BY <1>8 DEF Notify, MovesOn
<1>9. CASE Release(c)
  <2>1. pc[c] = "requesting"
    <3>1. state = Target(c)
      BY <1>9 DEF Release, IInv, LockOK, Callers
    <3>2. pc[c] \in Writing
      BY <1>9, HolderWrites DEF Release
    <3> QED
      BY <1>0, <3>1, <3>2 DEF Target, Goal, Writing
  <2> QED
    BY <1>0, <1>9, <2>1 DEF Release, Goto, MovesOn
<1>10. ~StopIfTerminal(c) /\ ~CheckContext(c) /\ ~requireState(c)
  BY <1>0 DEF StopIfTerminal, CheckContext, requireState
<1> QED
  BY <1>1, <1>2, <1>3, <1>4, <1>5, <1>6, <1>7, <1>8, <1>9, <1>10
  DEF Next, Step, Call, CallSetState, Callers, vars

\* The agent becomes Starting or Stopping by the first critical section of a
\* Start or Stop call, which then owns the state.
LEMMA OwnerAppears ==
    ASSUME SetStateTargets \cap {"starting", "stopping"} = {},
           IInv, [Next]_vars, state' # state,
           NEW o \in {"Start", "Stop"},
           state' = (IF o = "Start" THEN "starting" ELSE "stopping")
    PROVE  \E c \in Callers : MovesOn(c, o)'
<1> USE BaseAgentConstants
<1>1. PICK c \in Callers : Accept(c)
  BY DEF Next, Step, Call, CallSetState, Begin, agent, vars, StopIfTerminal,
         CheckContext, requireState, Hook, Refuse, Notify, Release
<1>2. Target(c) = state' /\ pc[c] \in Writing /\ PlaceOK(c)
  BY <1>1 DEF Accept, IInv
<1>3. pc[c] = "requesting" /\ op[c] = o
  BY <1>2 DEF Target, Goal, PlaceOK, Writing
<1> QED
  BY <1>1, <1>3 DEF Accept, MovesOn

\* When hooks do not panic and SetState is not asked for Starting or Stopping,
\* an agent in one of these states has a call that will take it out.
THEOREM TransientOwned ==
    ASSUME "panic" \notin HookOutcomes,
           SetStateTargets \cap {"starting", "stopping"} = {}
    PROVE  Spec => []TransientStateIsOwned
<1>1. Init => TransientStateIsOwned
  BY DEF Init, TransientStateIsOwned
<1>2. IInv /\ TransientStateIsOwned /\ [Next]_vars => TransientStateIsOwned'
  <2> SUFFICES ASSUME IInv, TransientStateIsOwned, [Next]_vars
               PROVE  TransientStateIsOwned'
    OBVIOUS
  <2>1. ASSUME state' = "starting"
        PROVE  \E c \in Callers : MovesOn(c, "Start")'
    BY <2>1, OwnerStays, OwnerAppears DEF TransientStateIsOwned
  <2>2. ASSUME state' = "stopping"
        PROVE  \E c \in Callers : MovesOn(c, "Stop")'
    BY <2>2, OwnerStays, OwnerAppears DEF TransientStateIsOwned
  <2> QED
    BY <2>1, <2>2 DEF TransientStateIsOwned
<1> QED
  BY <1>1, <1>2, Invariance, PTL DEF Spec

-----------------------------------------------------------------------------
(* A stopped agent has no start time. *)

StoppedInv ==
    state = "stopped" =>
        \/ startedAt = "nil"
        \/ mu # NoCaller /\ pc[mu] = "settling" /\ op[mu] = "Stop"

LEMMA StoppedStep ==
    ASSUME "stopped" \notin SetStateTargets, IInv, StoppedInv, [Next]_vars
    PROVE  StoppedInv'
<1> USE BaseAgentConstants
<1> SUFFICES ASSUME state' = "stopped"
             PROVE  \/ startedAt' = "nil"
                    \/ mu' # NoCaller /\ pc'[mu'] = "settling"
                       /\ op'[mu'] = "Stop"
  BY DEF StoppedInv
<1>1. ASSUME NEW c \in Callers, Accept(c)
      PROVE  mu' = c /\ pc'[c] = "settling" /\ op'[c] = "Stop"
  <2>1. Target(c) = "stopped" /\ pc[c] \in Writing /\ PlaceOK(c)
    BY <1>1 DEF Accept, IInv
  <2> QED
    BY <1>1, <2>1 DEF Accept, Target, Goal, PlaceOK, Writing, States
<1>2. ASSUME NEW c \in Callers, Release(c)
      PROVE  startedAt' = "nil"
  <2>1. Target(c) = "stopped" /\ pc[c] \in Writing /\ PlaceOK(c)
    BY <1>2, HolderWrites DEF Release, IInv, LockOK
  <2>2. pc[c] = "settling" /\ op[c] = "Stop"
    BY <2>1 DEF Target, Goal, PlaceOK, Writing, States
  <2> QED
    BY <1>2, <2>2 DEF Release, Recorded
<1>3. ASSUME NEW c \in Callers, Notify(c)
      PROVE  /\ state = "stopped" /\ mu' = mu /\ startedAt' = startedAt
             /\ pc' = pc /\ op' = op
  BY <1>3 DEF Notify
<1>4. ASSUME UNCHANGED agent, NEW c \in Callers, c # mu,
             \A d \in Callers : d # c => pc'[d] = pc[d] /\ op'[d] = op[d]
      PROVE  \/ startedAt' = "nil"
             \/ mu' # NoCaller /\ pc'[mu'] = "settling" /\ op'[mu'] = "Stop"
  BY <1>4 DEF agent, StoppedInv, IInv, TypeOK
<1>5. ASSUME NEW c \in Callers, NEW x, NEW l, Begin(c, x, l)
      PROVE  \/ startedAt' = "nil"
             \/ mu' # NoCaller /\ pc'[mu'] = "settling" /\ op'[mu'] = "Stop"
  <2>1. c # mu
    BY <1>5, HolderWrites DEF Begin, Writing
  <2> QED
    BY <1>4, <1>5, <2>1 DEF Begin, IInv, TypeOK
<1>6. ASSUME NEW c \in Callers,
             \/ StopIfTerminal(c) \/ CheckContext(c) \/ requireState(c)
             \/ Hook(c) \/ Refuse(c)
      PROVE  \/ startedAt' = "nil"
             \/ mu' # NoCaller /\ pc'[mu'] = "settling" /\ op'[mu'] = "Stop"
  <2>1. c # mu
    BY <1>6, HolderWrites
    DEF StopIfTerminal, CheckContext, requireState, Hook, Refuse, Writing
  <2>2. UNCHANGED agent
        /\ \A d \in Callers : d # c => pc'[d] = pc[d] /\ op'[d] = op[d]
    BY <1>6 DEF StopIfTerminal, CheckContext, requireState, Hook, Refuse,
                Goto, Return, IInv, TypeOK
  <2> QED
    BY <1>4, <2>1, <2>2
<1>7. CASE UNCHANGED vars
  BY <1>7 DEF vars, StoppedInv
<1>8. ASSUME NEW c \in Callers, Step(c)
      PROVE  \/ startedAt' = "nil"
             \/ mu' # NoCaller /\ pc'[mu'] = "settling" /\ op'[mu'] = "Stop"
  BY <1>1, <1>2, <1>3, <1>6, <1>8 DEF Step, StoppedInv
<1> QED
  BY <1>5, <1>7, <1>8 DEF Next, Call, CallSetState, Callers

\* When SetState is not asked for Stopped, no reader finds a start time on a
\* stopped agent.
THEOREM StoppedClean ==
    ASSUME "stopped" \notin SetStateTargets
    PROVE  Spec => []StoppedHasNoStartTime
<1>1. Init => StoppedInv
  BY DEF Init, StoppedInv
<1>2. IInv /\ StoppedInv /\ [Next]_vars => StoppedInv'
  BY StoppedStep
<1>3. IInv /\ StoppedInv => StoppedHasNoStartTime
  BY DEF StoppedInv, StoppedHasNoStartTime, Readable
<1> QED
  BY <1>1, <1>2, <1>3, Invariance, PTL DEF Spec

-----------------------------------------------------------------------------
(* One driver, next to goroutines that only report failures: the agent is  *)
(* where the driver's call put it, or it has failed.                       *)

OneDriver == /\ \A c, d \in Drivers : c = d
             /\ SetStateTargets \subseteq {"failed"}

\* The state a lifecycle call runs its hook in.
Underway(o) == CASE o = "Start"  -> "starting"
                 [] o = "Stop"   -> "stopping"
                 [] o = "Pause"  -> "running"
                 [] OTHER        -> "paused"

\* A goroutine that is no driver is in SetState or in no call.
MonitorOK(c) ==
    c \notin Drivers /\ pc[c] # "idle" =>
        pc[c] = "settling" /\ op[c] \in SetStateTargets

\* From its hook to its last critical section a call finds the state it left.
DriverOK(c) ==
    /\ pc[c] = "require" => op[c] \in {"Pause", "Resume"}
    /\ pc[c] \in {"hook", "settling", "failing"} /\ op[c] \in Operations
             /\ mu # c
          => state \in {Underway(op[c]), "failed"}

\* The start time is of this life, or Start is about to record it.
LifeOK ==
    state \in {"running", "paused"} =>
        \/ startedAt = "current"
        \/ mu # NoCaller /\ pc[mu] = "settling" /\ op[mu] = "Start"

OneDriverInv ==
    /\ \A c \in Callers : MonitorOK(c)
    /\ \A c \in Drivers : DriverOK(c)
    /\ LifeOK

\* Another goroutine than the driver can only make the agent Failed.
LEMMA OthersFail ==
    ASSUME OneDriver, IInv, OneDriverInv, NEW d \in Drivers,
           NEW c \in Callers, c # d, Accept(c)
    PROVE  state' = "failed"
<1>1. c \notin Drivers /\ pc[c] # "idle"
  BY DEF OneDriver, Accept, Writing
<1> QED
  BY <1>1 DEF OneDriver, OneDriverInv, MonitorOK, Accept, Target, Goal

LEMMA MonitorStep ==
    ASSUME IInv, OneDriverInv, [Next]_vars, NEW c \in Callers
    PROVE  MonitorOK(c)'
<1> USE BaseAgentConstants
<1>0. pc \in [Callers -> Locations] /\ DOMAIN op = Callers /\ MonitorOK(c)
  BY DEF IInv, TypeOK, OneDriverInv
<1>1. ASSUME NEW d \in Callers, Step(d)
      PROVE  MonitorOK(c)'
  <2>1. CASE d = c
    BY <1>0, <1>1, <2>1, HolderWrites
    DEF Step, MonitorOK, StopIfTerminal, CheckContext, requireState, Hook,
        Accept, Refuse, Notify, Release, Goto, Return
  <2>2. CASE d # c
    BY <1>0, <1>1, <2>2
    DEF Step, MonitorOK, StopIfTerminal, CheckContext, requireState, Hook,
        Accept, Refuse, Notify, Release, Goto, Return
  <2> QED
    BY <2>1, <2>2
<1>2. ASSUME NEW d \in Drivers, NEW o \in Operations, Call(d, o)
      PROVE  MonitorOK(c)'
  BY <1>0, <1>2 DEF Call, Begin, MonitorOK
<1>3. ASSUME NEW d \in Monitors, NEW s \in SetStateTargets, CallSetState(d, s)
      PROVE  MonitorOK(c)'
  BY <1>0, <1>3 DEF CallSetState, Begin, MonitorOK
<1>4. CASE UNCHANGED vars
  BY <1>0, <1>4 DEF vars, MonitorOK
<1> QED
  BY <1>1, <1>2, <1>3, <1>4 DEF Next

LEMMA DriverStep ==
    ASSUME OneDriver, IInv, OneDriverInv, [Next]_vars, NEW d \in Drivers
    PROVE  DriverOK(d)'
<1> USE BaseAgentConstants
<1>0. /\ pc \in [Callers -> Locations] /\ DOMAIN op = Callers
      /\ d \in Callers /\ PlaceOK(d) /\ DriverOK(d)
      /\ "failed" \notin Operations
  BY DEF IInv, TypeOK, OneDriverInv, Callers
<1>1. ASSUME NEW c \in Callers, c # d, Step(c)
      PROVE  DriverOK(d)'
  <2>1. pc'[d] = pc[d] /\ op'[d] = op[d]
    BY <1>0, <1>1 DEF Step, StopIfTerminal, CheckContext, requireState, Hook,
                      Accept, Refuse, Notify, Release, Goto, Return
  <2>2. CASE Accept(c)
    BY <1>0, <1>1, <2>1, <2>2, OthersFail DEF DriverOK
  <2>3. CASE ~Accept(c)
    <3>1. state' = state /\ (mu = d => mu' = d)
      BY <1>1, <2>3 DEF Step, StopIfTerminal, CheckContext, requireState, Hook,
                        Refuse, Notify, Release, agent
    <3> QED
      BY <1>0, <2>1, <3>1 DEF DriverOK
  <2> QED
    BY <2>2, <2>3
<1>2. ASSUME NEW c \in Callers, NEW x, NEW l, Begin(c, x, l),
             l = "settling" => x \notin Operations,
             l \in {"settling", "enter", "ctx"}
      PROVE  DriverOK(d)'
  BY <1>0, <1>2 DEF Begin, agent, DriverOK
<1>3. CASE requireState(d)
  BY <1>0, <1>3 DEF requireState, Goto, Return, agent, DriverOK, PlaceOK,
                    Required, Underway
<1>4. CASE Hook(d)
  BY <1>0, <1>4 DEF Hook, Goto, Return, agent, DriverOK
<1>5. CASE StopIfTerminal(d) \/ CheckContext(d) \/ Refuse(d)
  BY <1>0, <1>5 DEF StopIfTerminal, CheckContext, Refuse, Goto, Return,
                    agent, DriverOK, PlaceOK
<1>6. CASE Accept(d) \/ Notify(d)
  BY <1>0, <1>6 DEF Accept, Notify, DriverOK
<1>7. CASE Release(d)
  <2>1. state = Target(d)
    BY <1>0, <1>7 DEF Release, IInv, LockOK
  <2> QED
    BY <1>0, <1>7, <2>1
    DEF Release, Goto, Return, DriverOK, PlaceOK, Target, Underway
<1>8. CASE UNCHANGED vars
  BY <1>0, <1>8 DEF vars, DriverOK
<1>9. CASE \E c \in Drivers, o \in Operations : Call(c, o)
  BY <1>2, <1>9 DEF Call, Callers
<1>10. CASE \E c \in Monitors, s \in SetStateTargets : CallSetState(c, s)
  BY <1>0, <1>2, <1>10 DEF CallSetState, Callers, OneDriver
<1> QED
  BY <1>1, <1>3, <1>4, <1>5, <1>6, <1>7, <1>8, <1>9, <1>10 DEF Next, Step

\* Start brings Running about under the lock it records the time with, Resume
\* only from Paused, which is Running with the time already recorded.
LEMMA LifeStep ==
    ASSUME OneDriver, IInv, OneDriverInv, [Next]_vars
    PROVE  LifeOK'
<1> USE BaseAgentConstants
<1>0. /\ pc \in [Callers -> Locations] /\ DOMAIN op = Callers
      /\ mu \in Callers \cup {NoCaller} /\ LifeOK
  BY DEF IInv, TypeOK, OneDriverInv
<1>1. ASSUME NEW c \in Callers, Accept(c)
      PROVE  LifeOK'
  <2>1. /\ pc[c] \in Writing /\ PlaceOK(c) /\ MonitorOK(c)
        /\ c \in Drivers => DriverOK(c)
        /\ mu = NoCaller /\ mu # c /\ mu' = c /\ state' = Target(c)
        /\ pc' = pc /\ op' = op /\ ValidTransition(state, state')
    BY <1>1 DEF Accept, IInv, OneDriverInv
  <2>2. CASE state' = "running"
    <3>1. pc[c] = "settling" /\ op[c] \in {"Start", "Resume"}
      BY <2>1, <2>2 DEF Target, Goal, PlaceOK, Writing, OneDriver
    <3>2. CASE op[c] = "Resume"
      <4>1. c \in Drivers /\ op[c] \in Operations
        BY <2>1, <3>1, <3>2 DEF MonitorOK, OneDriver, PlaceOK
      <4>2. state = "paused"
        BY <2>1, <2>2, <3>1, <3>2, <4>1
        DEF DriverOK, Underway, ValidTransition, validTransitions, States
      <4>3. startedAt' = startedAt
        BY <1>1, <2>1, <2>2 DEF Accept, Aged
      <4> QED
        BY <1>0, <2>1, <4>2, <4>3 DEF LifeOK
    <3>3. CASE op[c] = "Start"
      BY <2>1, <3>1, <3>3 DEF LifeOK
    <3> QED
      BY <3>1, <3>2, <3>3
  <2>3. CASE state' = "paused"
    <3>1. state = "running"
      BY <2>1, <2>3 DEF ValidTransition, validTransitions, States, IInv, TypeOK
    <3>2. startedAt' = startedAt
      BY <1>1, <2>1, <2>3 DEF Accept, Aged
    <3> QED
      BY <1>0, <2>1, <3>1, <3>2 DEF LifeOK
  <2> QED
    BY <2>2, <2>3 DEF LifeOK
<1>2. ASSUME NEW c \in Callers, Release(c)
      PROVE  LifeOK'
  <2>1. state = Target(c) /\ mu = c /\ mu # NoCaller
    BY <1>2 DEF Release, IInv, LockOK, Callers
  <2>2. state' = state /\ startedAt' = Recorded(c)
    BY <1>2 DEF Release
  <2> QED
    BY <1>0, <2>1, <2>2 DEF LifeOK, Recorded, Target, Goal
<1>3. ASSUME NEW c \in Callers, Notify(c)
      PROVE  LifeOK'
  BY <1>0, <1>3 DEF Notify, LifeOK
<1>4. ASSUME NEW c \in Callers, c # mu, UNCHANGED agent,
             \A e \in Callers : e # c => pc'[e] = pc[e] /\ op'[e] = op[e]
      PROVE  LifeOK'
  BY <1>0, <1>4 DEF agent, LifeOK
<1>5. ASSUME NEW c \in Callers, NEW x, NEW l, Begin(c, x, l)
      PROVE  LifeOK'
  <2>1. c # mu
    BY <1>5, HolderWrites DEF Begin, Writing
  <2> QED
    BY <1>0, <1>4, <1>5, <2>1 DEF Begin
<1>6. ASSUME NEW c \in Callers,
             \/ StopIfTerminal(c) \/ CheckContext(c) \/ requireState(c)
             \/ Hook(c) \/ Refuse(c)
      PROVE  LifeOK'
  <2>1. c # mu
    BY <1>6, HolderWrites
    DEF StopIfTerminal, CheckContext, requireState, Hook, Refuse, Writing
  <2>2. UNCHANGED agent
        /\ \A d \in Callers : d # c => pc'[d] = pc[d] /\ op'[d] = op[d]
    BY <1>0, <1>6 DEF StopIfTerminal, CheckContext, requireState, Hook, Refuse,
                      Goto, Return
  <2> QED
    BY <1>4, <2>1, <2>2
<1>7. CASE UNCHANGED vars
  BY <1>0, <1>7 DEF vars, LifeOK
<1>8. CASE \E c \in Callers : Step(c)
  BY <1>1, <1>2, <1>3, <1>6, <1>8 DEF Step
<1> QED
  BY <1>5, <1>7, <1>8 DEF Next, Call, CallSetState, Callers

LEMMA OneDriverInvariance == ASSUME OneDriver PROVE Spec => []OneDriverInv
<1>1. Init => OneDriverInv
  BY DEF Init, OneDriverInv, MonitorOK, DriverOK, LifeOK, Callers
<1>2. IInv /\ OneDriverInv /\ [Next]_vars => OneDriverInv'
  BY MonitorStep, DriverStep, LifeStep DEF OneDriverInv
<1> QED
  BY <1>1, <1>2, Invariance, PTL DEF Spec

\* With one driver, a running agent never reports the time of an earlier life
\* (StartedThisLife), even when others report failures at any moment.
THEOREM OneDriverStarted ==
    ASSUME OneDriver PROVE Spec => []StartedThisLife
<1>1. OneDriverInv => StartedThisLife
  BY DEF OneDriverInv, LifeOK, StartedThisLife, InfoStartedAt, Readable
<1> QED
  BY <1>1, OneDriverInvariance, PTL

\* With one driver, a call whose hook failed returns to find the agent Failed:
\* SetState(Failed), whose error is ignored, only fails if it was already.
THEOREM OneDriverFails ==
    ASSUME OneDriver PROVE Spec => FailedHookFailsAgent
<1> DEFINE Fails == \A c \in Drivers :
              pc[c] = "failing" /\ pc'[c] = "idle" => state = "failed"
<1>1. IInv /\ OneDriverInv /\ [Next]_vars => [Fails]_vars
  <2> SUFFICES ASSUME IInv, OneDriverInv, [Next]_vars, NEW c \in Drivers,
                      pc[c] = "failing", pc'[c] = "idle"
               PROVE  state = "failed"
    OBVIOUS
  <2> USE BaseAgentConstants
  <2>0. c \in Callers /\ pc \in [Callers -> Locations] /\ PlaceOK(c)
        /\ DriverOK(c)
    BY DEF Callers, IInv, TypeOK, OneDriverInv
  <2>1. Refuse(c) \/ Release(c)
    BY <2>0 DEF Next, Step, Call, CallSetState, Begin, vars, StopIfTerminal,
                CheckContext, requireState, Hook, Accept, Refuse, Notify,
                Release, Goto, Return
  <2>2. CASE Release(c)
    BY <2>0, <2>2 DEF Release, IInv, LockOK, Target
  <2>3. CASE Refuse(c)
    <3>1. Target(c) = "failed" /\ ~ValidTransition(state, "failed")
      BY <2>0, <2>3 DEF Refuse, Target
    <3>2. state \in {Underway(op[c]), "failed"}
      BY <2>0, <2>3 DEF Refuse, DriverOK, PlaceOK
    <3> QED
      BY <3>1, <3>2 DEF Underway, ValidTransition, validTransitions, States
  <2> QED
    BY <2>1, <2>2, <2>3
<1> QED
  BY <1>1, Invariance, OneDriverInvariance, PTL DEF Spec, FailedHookFailsAgent
-----------------------------------------------------------------------------
(* What of "every call returns" needs no fairness. *)

\* The steps to the end of a critical section, taking the lock included.
SectionLeft(c) == IF mu = c THEN NumHandlers - notified + 1 ELSE NumHandlers + 2

\* The steps of its own that a call has left at most: in the worst case the two
\* critical sections of Start or Stop, each with all handlers, and the hook.
StepsLeft(c) ==
    CASE pc[c] \in {"settling", "failing"} -> SectionLeft(c)
      [] pc[c] = "hook"                    -> NumHandlers + 3
      [] pc[c] = "require"                 -> NumHandlers + 4
      [] pc[c] = "requesting"              -> SectionLeft(c) + NumHandlers + 3
      [] pc[c] = "ctx"                     -> 2 * NumHandlers + 6
      [] pc[c] = "enter"                   -> 2 * NumHandlers + 7
      [] OTHER                             -> 0

\* There are finitely many, and some as long as the call has not returned.
LEMMA StepsLeftBounded ==
    ASSUME IInv, NEW c \in Callers
    PROVE  /\ StepsLeft(c) \in 0..(2 * NumHandlers + 7)
           /\ pc[c] # "idle" => StepsLeft(c) > 0
<1>1. NumHandlers \in Nat /\ notified \in 0..NumHandlers /\ pc[c] \in Locations
  BY BaseAgentConstants DEF IInv, TypeOK
<1>2. SectionLeft(c) \in 1..(NumHandlers + 2)
  BY <1>1 DEF SectionLeft
<1> QED
  BY <1>1, <1>2 DEF StepsLeft, Locations

\* Every step of a call brings it nearer to its end,
LEMMA OwnStepCounts ==
    ASSUME IInv, NEW c \in Callers, Step(c)
    PROVE  StepsLeft(c)' < StepsLeft(c)
<1>1. /\ NumHandlers \in Nat /\ notified \in 0..NumHandlers
      /\ pc \in [Callers -> Locations]
      /\ mu = c => c # NoCaller /\ pc[c] \in Writing
  BY BaseAgentConstants, HolderWrites DEF IInv, TypeOK
<1>2. CASE StopIfTerminal(c)
  BY <1>1, <1>2 DEF StopIfTerminal, Goto, Return, agent, StepsLeft, SectionLeft
<1>3. CASE CheckContext(c)
  <2>1. mu # c
    BY <1>1, <1>3 DEF CheckContext, Writing
  <2> QED
    BY <1>1, <1>3, <2>1 DEF CheckContext, Goto, Return, agent, StepsLeft, SectionLeft
<1>4. CASE requireState(c)
  BY <1>1, <1>4 DEF requireState, Goto, Return, agent, StepsLeft, SectionLeft
<1>5. CASE Hook(c)
  <2>1. mu # c
    BY <1>1, <1>5 DEF Hook, Writing
  <2> QED
    BY <1>1, <1>5, <2>1 DEF Hook, Goto, Return, agent, StepsLeft, SectionLeft
<1>6. CASE Accept(c)
  <2>1. mu # c
    BY <1>6, BaseAgentConstants DEF Accept
  <2> QED
    BY <1>1, <1>6, <2>1 DEF Accept, Writing, StepsLeft, SectionLeft
<1>7. CASE Refuse(c)
  <2>1. mu # c
    BY <1>7, BaseAgentConstants DEF Refuse
  <2> QED
    BY <1>1, <1>7, <2>1 DEF Refuse, Return, Writing, StepsLeft, SectionLeft
<1>8. CASE Notify(c)
  BY <1>1, <1>8 DEF Notify, Writing, StepsLeft, SectionLeft
<1>9. CASE Release(c)
  BY <1>1, <1>9 DEF Release, Goto, Return, Writing, StepsLeft, SectionLeft
<1> QED
  BY <1>2, <1>3, <1>4, <1>5, <1>6, <1>7, <1>8, <1>9 DEF Step

\* and a step of another goroutine puts no step before it.
LEMMA OtherStepsDoNot ==
    ASSUME IInv, NEW c \in Callers, NEW d \in Callers, c # d,
           \/ Step(d)
           \/ \E o \in Operations : Call(d, o)
           \/ \E s \in SetStateTargets : CallSetState(d, s)
    PROVE  StepsLeft(c)' = StepsLeft(c)
<1>1. pc \in [Callers -> Locations]
  BY DEF IInv, TypeOK
<1>2. pc'[c] = pc[c] /\ (mu = c => mu' = c /\ notified' = notified) /\ (mu # c => mu' # c)
  BY <1>1, BaseAgentConstants
  DEF Step, StopIfTerminal, CheckContext, requireState, Hook, Accept, Refuse, Notify,
      Release, Goto, Return, Call, CallSetState, Begin, agent
<1> QED
  BY <1>2 DEF StepsLeft, SectionLeft

\* No call loops, and none makes another one loop: however many goroutines race
\* for the agent, a call returns after at most 2 * NumHandlers + 7 steps of its
\* own, whatever the others do in between, and only waits for a lock whose holder
\* is in a critical section, never in a hook (agent.go:380-392, 446-480).
THEOREM CallsAreBounded ==
    Spec => /\ []\A c \in Callers : StepsLeft(c) \in 0..(2 * NumHandlers + 7)
            /\ [](mu # NoCaller => pc[mu] \in Writing)
            /\ [][\A c \in Callers : pc[c] # "idle" =>
                    IF Step(c) THEN StepsLeft(c)' < StepsLeft(c)
                               ELSE StepsLeft(c)' = StepsLeft(c)]_vars
<1>1. IInv => /\ \A c \in Callers : StepsLeft(c) \in 0..(2 * NumHandlers + 7)
              /\ mu # NoCaller => pc[mu] \in Writing
  BY StepsLeftBounded DEF IInv, LockOK
<1>2. IInv /\ Next => \A c \in Callers : pc[c] # "idle" =>
                    IF Step(c) THEN StepsLeft(c)' < StepsLeft(c)
                               ELSE StepsLeft(c)' = StepsLeft(c)
  <2> SUFFICES ASSUME IInv, Next, NEW c \in Callers, pc[c] # "idle", ~Step(c)
               PROVE  StepsLeft(c)' = StepsLeft(c)
    BY OwnStepCounts
  <2>1. PICK d \in Callers : \/ Step(d)
                             \/ \E o \in Operations : Call(d, o)
                             \/ \E s \in SetStateTargets : CallSetState(d, s)
    BY DEF Next, Callers
  <2>2. c # d
    BY <2>1 DEF Call, CallSetState, Begin
  <2> QED
    BY <2>1, <2>2, OtherStepsDoNot
<1> QED
  BY <1>1, <1>2, Invariance, PTL DEF Spec

-----------------------------------------------------------------------------
\* What c may say when it returns nil: Stop found the agent down, or the agent is
\* where c asked it to be; in either case every handler has been told.  Start has
\* recorded its time, and a Stop that stopped has cleared it.
Done(c) ==
    /\ \A h \in Handlers : seen'[h] = state'
    /\ \/ op[c] = "Stop" /\ IsTerminal(state')
       \/ /\ state' = Goal(op[c])
          /\ op[c] = "Start" => startedAt' = "current"
          /\ op[c] = "Stop"  => startedAt' = "nil"

\* A nil is never out of date: however many calls overlap, at the moment a call
\* returns nil it is the one that brought the agent where its caller wanted it, or
\* Stop found nothing left to do, and no handler has still to hear of it
\* (agent.go:361-392, 476-489, 554-561).
THEOREM NilMeansDone ==
    Spec => [][\A c \in Callers :
                  pc[c] # "idle" /\ pc'[c] = "idle" /\ result'[c] = "nil" => Done(c)]_vars
<1>1. ASSUME IInv, Next, NEW c \in Callers,
             pc[c] # "idle", pc'[c] = "idle", result'[c] = "nil"
      PROVE  Done(c)
  <2>1. pc \in [Callers -> Locations] /\ result \in [Callers -> Results]
    BY <1>1 DEF IInv, TypeOK
  <2>2. Step(c)
    BY <1>1, <2>1
    DEF Next, Callers, Step, StopIfTerminal, CheckContext, requireState, Hook, Accept,
        Refuse, Notify, Release, Goto, Return, Call, CallSetState, Begin
  <2>3. CASE StopIfTerminal(c)
    <3>1. op[c] = "Stop" /\ IsTerminal(state) /\ state' = state /\ seen' = seen
      BY <1>1, <2>1, <2>3 DEF StopIfTerminal, Goto, Return, agent, IInv, PlaceOK
    <3>2. \A h \in Handlers : seen[h] = state
      BY <1>1, <2>3, BaseAgentConstants DEF StopIfTerminal, IInv, LockOK, NotifiedInOrder
    <3> QED
      BY <3>1, <3>2 DEF Done
  <2>4. CASE Release(c)
    <3>1. pc[c] = "settling" /\ state' = state /\ seen' = seen /\ startedAt' = Recorded(c)
      BY <1>1, <2>1, <2>4 DEF Release, Goto, Return
    <3>2. state = Goal(op[c])
      BY <1>1, <2>4, <3>1, BaseAgentConstants DEF Release, IInv, LockOK, Target
    <3>3. \A h \in Handlers : seen[h] = state
      BY <1>1, <2>4, BaseAgentConstants DEF Release, IInv, NotifiedInOrder, Handlers
    <3> QED
      BY <3>1, <3>2, <3>3 DEF Done, Recorded
  <2> QED
    BY <1>1, <2>1, <2>2, <2>3, <2>4
    DEF Step, CheckContext, requireState, Hook, Accept, Refuse, Notify, Goto, Return
<1>2. IInv /\ Next => \A c \in Callers :
                  pc[c] # "idle" /\ pc'[c] = "idle" /\ result'[c] = "nil" => Done(c)
  BY <1>1
<1> QED
  BY <1>2, Invariance, PTL DEF Spec
=============================================================================
