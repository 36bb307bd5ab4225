----------------------------- MODULE BaseAgent -----------------------------
(***************************************************************************)
(* The threads of pkg/lifecycle/agent.go: goroutines that call Start,      *)
(* Stop, Pause, Resume and SetState on one BaseAgent.                      *)
(*                                                                         *)
(* A call is split where other goroutines can run in between: at the       *)
(* context check, at each critical section of a.mu, at each state change   *)
(* handler called inside a critical section, and while a hook runs outside *)
(* the lock.  A read under RLock is one step, enabled while no writer      *)
(* holds a.mu; a critical section of a writer is an Acquire step (lock,    *)
(* check the matrix, assign), one Notify step per handler and a Release    *)
(* step (update startedAt, unlock).                                        *)
(*                                                                         *)
(* Time is abstracted to what the properties tell apart: startedAt is nil, *)
(* a time recorded since the agent last entered Starting ("current"), or a *)
(* time recorded before that ("earlier").                                  *)
(*                                                                         *)
(* A definition introduced as a "Variant" is a faulty version of the one   *)
(* that follows it.  No specification uses it: it stands for a mistake the *)
(* properties below would find.                                            *)
(***************************************************************************)
EXTENDS LifecycleStates, Naturals

CONSTANTS
    Drivers,         \* goroutines that call Start, Stop, Pause and Resume
    Monitors,        \* goroutines that call SetState
    NoCaller,        \* nobody holds a.mu
    Operations,      \* the lifecycle methods the drivers call
    SetStateTargets, \* the states the monitors ask for
    HookOutcomes,    \* how the four hooks may end
    NumHandlers      \* registered state change handlers

Callers  == Drivers \cup Monitors
Handlers == 1..NumHandlers

ASSUME BaseAgentConstants ==
    /\ NoCaller \notin Callers
    /\ Operations \subseteq {"Start", "Stop", "Pause", "Resume"}
    /\ SetStateTargets \subseteq States
    /\ HookOutcomes \subseteq {"ok", "error", "panic"}
    /\ NumHandlers \in Nat

VARIABLES
    state,      \* a.state
    startedAt,  \* a.startedAt
    mu,         \* the goroutine that holds a.mu for writing
    from,       \* `old` of the critical section in progress, else the state
    notified,   \* how many handlers that critical section has called
    seen,       \* seen[h]: the new state handler h was last called with
    pc,         \* where each goroutine is in its call
    op,         \* the method it is in; s stands for SetState(s)
    result      \* how its last call ended

vars == <<state, startedAt, mu, from, notified, seen, pc, op, result>>
agent == <<state, startedAt, mu, from, notified, seen>>

Locations == {"idle", "enter", "ctx", "requesting", "require", "hook",
              "settling", "failing"}
Writing   == {"requesting", "settling", "failing"}
Results   == {"none", "nil", "Conflict", "Timeout", "Internal", "panic"}

Init ==
    /\ state = "unknown"
    /\ startedAt = "nil"
    /\ mu = NoCaller
    /\ from = "unknown"
    /\ notified = 0
    /\ seen = [h \in Handlers |-> "unknown"]
    /\ pc = [c \in Callers |-> "idle"]
    /\ op = [c \in Callers |-> "none"]
    /\ result = [c \in Callers |-> "none"]

-----------------------------------------------------------------------------
(* What a call wants. *)

\* The state a call that succeeds leaves the agent in.
Goal(o) == CASE o \in {"Start", "Resume"} -> "running"
             [] o = "Stop"                -> "stopped"
             [] o = "Pause"               -> "paused"
             [] OTHER                     -> o

\* The state Pause and Resume require before they run their hook.
Required(o) == IF o = "Pause" THEN "running" ELSE "paused"

\* Variant: after a failed hook the agent is sent to Stopped.
TargetStopsOnFailure(c) ==
    CASE pc[c] = "requesting" -> IF op[c] = "Start" THEN "starting"
                                                    ELSE "stopping"
      [] pc[c] = "failing"    -> "stopped"
      [] OTHER                -> Goal(op[c])

\* The argument of the SetState or setStateLocked call c is about to make or
\* is making: the transient state of Start and Stop first, the goal after a
\* hook that succeeded, Failed after one that did not.
Target(c) ==
    CASE pc[c] = "requesting" -> IF op[c] = "Start" THEN "starting"
                                                    ELSE "stopping"
      [] pc[c] = "failing"    -> "failed"
      [] OTHER                -> Goal(op[c])

Goto(c, l)   == /\ pc' = [pc EXCEPT ![c] = l]
                /\ UNCHANGED <<op, result>>
Return(c, r) == /\ pc' = [pc EXCEPT ![c] = "idle"]
                /\ op' = [op EXCEPT ![c] = "none"]
                /\ result' = [result EXCEPT ![c] = r]

-----------------------------------------------------------------------------
(* The beginning of a call. *)

Begin(c, o, l) ==
    /\ pc[c] = "idle"
    /\ pc' = [pc EXCEPT ![c] = l]
    /\ op' = [op EXCEPT ![c] = o]
    /\ result' = [result EXCEPT ![c] = "none"]
    /\ UNCHANGED agent

Call(c, o) == Begin(c, o, IF o = "Stop" THEN "enter" ELSE "ctx")

CallSetState(c, s) == Begin(c, s, "settling")

\* Stop on an agent that is already down returns nil before anything else.
StopIfTerminal(c) ==
    /\ pc[c] = "enter"
    /\ mu = NoCaller
    /\ IF IsTerminal(state) THEN Return(c, "nil") ELSE Goto(c, "ctx")
    /\ UNCHANGED agent

\* ctx.Err(): a cancelled call returns before it touches the agent.
CheckContext(c) ==
    /\ pc[c] = "ctx"
    /\ \/ Return(c, "Timeout")
       \/ Goto(c, IF op[c] \in {"Start", "Stop"} THEN "requesting"
                                                 ELSE "require")
    /\ UNCHANGED agent

requireState(c) ==
    /\ pc[c] = "require"
    /\ mu = NoCaller
    /\ IF state = Required(op[c]) THEN Goto(c, "hook")
                                  ELSE Return(c, "Conflict")
    /\ UNCHANGED agent

-----------------------------------------------------------------------------
(* Hooks run outside the lock.  A hook that panics unwinds the whole call. *)

\* Variant: a failed hook ends the call, the agent stays as it is.
HookForgetsFailed(c) ==
    /\ pc[c] = "hook"
    /\ \/ "ok" \in HookOutcomes    /\ Goto(c, "settling")
       \/ "error" \in HookOutcomes /\ Return(c, "Internal")
    /\ UNCHANGED agent

Hook(c) ==
    /\ pc[c] = "hook"
    /\ \/ "ok" \in HookOutcomes    /\ Goto(c, "settling")
       \/ "error" \in HookOutcomes /\ Goto(c, "failing")
       \/ "panic" \in HookOutcomes /\ Return(c, "panic")
    /\ UNCHANGED agent

-----------------------------------------------------------------------------
(* The critical section of SetState, Start and Stop. *)

\* startedAt when the agent enters s: what was recorded before a new Starting
\* is the start of an earlier life.
Aged(s) == IF s = "starting" /\ startedAt # "nil" THEN "earlier" ELSE startedAt

\* Variant: any transition is accepted.
AcceptUnchecked(c) ==
    /\ pc[c] \in Writing
    /\ mu = NoCaller
    /\ mu' = c
    /\ from' = state
    /\ state' = Target(c)
    /\ notified' = 0
    /\ startedAt' = Aged(Target(c))
    /\ UNCHANGED <<seen, pc, op, result>>

\* Lock a.mu; the transition is in the matrix: assign the new state.
Accept(c) ==
    /\ pc[c] \in Writing
    /\ mu = NoCaller
    /\ ValidTransition(state, Target(c))
    /\ mu' = c
    /\ from' = state
    /\ state' = Target(c)
    /\ notified' = 0
    /\ startedAt' = Aged(Target(c))
    /\ UNCHANGED <<seen, pc, op, result>>

\* Variant: the early return forgets to unlock.
RefuseKeepsLock(c) ==
    /\ pc[c] \in Writing
    /\ mu = NoCaller
    /\ ~ValidTransition(state, Target(c))
    /\ Return(c, IF pc[c] = "failing" THEN "Internal" ELSE "Conflict")
    /\ mu' = c
    /\ UNCHANGED <<state, startedAt, from, notified, seen>>

\* Lock a.mu; the transition is not in the matrix: unlock and return.  The
\* call that was on its way to Failed ignores the error of SetState.
Refuse(c) ==
    /\ pc[c] \in Writing
    /\ mu = NoCaller
    /\ ~ValidTransition(state, Target(c))
    /\ Return(c, IF pc[c] = "failing" THEN "Internal" ELSE "Conflict")
    /\ UNCHANGED agent

\* Variant: the loop over the handlers runs once too often.
NotifyOverrun(c) ==
    /\ mu = c
    /\ notified <= NumHandlers
    /\ notified' = notified + 1
    /\ seen' = [seen EXCEPT ![notified + 1] = state]
    /\ UNCHANGED <<state, startedAt, mu, from, pc, op, result>>

\* The next handler is called with (from, state); a panic in it is recovered.
Notify(c) ==
    /\ mu = c
    /\ notified < NumHandlers
    /\ notified' = notified + 1
    /\ seen' = [seen EXCEPT ![notified + 1] = state]
    /\ UNCHANGED <<state, startedAt, mu, from, pc, op, result>>

\* Variants: Stop keeps the time; Start keeps a time that is already there.
RecordedUncleared(c) ==
    IF pc[c] = "settling" /\ op[c] = "Start" THEN "current" ELSE startedAt
RecordedOnce(c) ==
    CASE pc[c] = "settling" /\ op[c] = "Start" /\ startedAt = "nil" -> "current"
      [] pc[c] = "settling" /\ op[c] = "Stop" -> "nil"
      [] OTHER -> startedAt

\* startedAt at the end of a critical section: Start records the time and Stop
\* clears it under the lock they changed the state with; SetState, and with it
\* Pause and Resume, leaves it alone.
Recorded(c) ==
    CASE pc[c] = "settling" /\ op[c] = "Start" -> "current"
      [] pc[c] = "settling" /\ op[c] = "Stop"  -> "nil"
      [] OTHER                                 -> startedAt

\* Variant: a.mu is unlocked while handlers are still to be called.
ReleaseEarly(c) ==
    /\ mu = c
    /\ mu' = NoCaller
    /\ startedAt' = Recorded(c)
    /\ from' = state
    /\ notified' = 0
    /\ \/ pc[c] = "requesting" /\ Goto(c, "hook")
       \/ pc[c] = "settling"   /\ Return(c, "nil")
       \/ pc[c] = "failing"    /\ Return(c, "Internal")
    /\ UNCHANGED <<state, seen>>

\* All handlers were called: unlock and go on to the hook, or return.
Release(c) ==
    /\ mu = c
    /\ notified = NumHandlers
    /\ mu' = NoCaller
    /\ startedAt' = Recorded(c)
    /\ from' = state
    /\ notified' = 0
    /\ \/ pc[c] = "requesting" /\ Goto(c, "hook")
       \/ pc[c] = "settling"   /\ Return(c, "nil")
       \/ pc[c] = "failing"    /\ Return(c, "Internal")
    /\ UNCHANGED <<state, seen>>

-----------------------------------------------------------------------------
Step(c) ==
    \/ StopIfTerminal(c) \/ CheckContext(c) \/ requireState(c) \/ Hook(c)
    \/ Accept(c) \/ Refuse(c) \/ Notify(c) \/ Release(c)

Next ==
    \/ \E c \in Drivers, o \in Operations : Call(c, o)
    \/ \E c \in Monitors, s \in SetStateTargets : CallSetState(c, s)
    \/ \E c \in Callers : Step(c)

Spec == Init /\ [][Next]_vars

\* Goroutines are scheduled, hooks and handlers return, and sync.RWMutex
\* starves nobody: a goroutine that keeps waiting for a.mu gets it.
Fairness ==
    \A c \in Callers :
        /\ WF_vars(CheckContext(c) \/ Hook(c) \/ Notify(c) \/ Release(c))
        /\ SF_vars(StopIfTerminal(c) \/ requireState(c)
                   \/ Accept(c) \/ Refuse(c))

FairSpec == Spec /\ Fairness

-----------------------------------------------------------------------------
(* What readers see: State and Info take the read lock. *)

Readable == mu = NoCaller

\* AgentInfo.StartedAt: reported only while the agent runs.
InfoStartedAt == IF state = "running" THEN startedAt ELSE "nil"

-----------------------------------------------------------------------------
(* Properties. *)

TypeOK ==
    /\ state \in States
    /\ startedAt \in {"nil", "current", "earlier"}
    /\ mu \in Callers \cup {NoCaller}
    /\ from \in States
    /\ notified \in 0..NumHandlers
    /\ seen \in [Handlers -> States]
    /\ pc \in [Callers -> Locations]
    /\ op \in [Callers -> Operations \cup SetStateTargets \cup {"none"}]
    /\ result \in [Callers -> Results]

\* Under a.mu, and whatever goroutines race for it, handlers are told of the
\* changes in the order they happen and none is skipped: those the critical
\* section in progress has called know the new state, the others the state
\* before it, and once a.mu is free all of them know the agent's state
\* (agent.go:377, "to guarantee ordering").
NotifiedInOrder ==
    \A h \in Handlers : seen[h] = IF h <= notified THEN state ELSE from

\* BaseAgent implements AgentLifecycle: no interleaving of calls shows a
\* handler a step the life cycle does not have, skips a handler, or tells one
\* of the next transition before all were told of this one (agent.go:212-216).
Observed == INSTANCE AgentLifecycle WITH NumObservers <- NumHandlers,
                                         told <- seen
ObserversSeeLifecycle == Observed!Spec

\* The agent is Starting or Stopping only while a Start or Stop call is still
\* there to move it on: however calls overlap, none of them returns and leaves
\* the agent in a transient state for ever.  (Needs hooks that do not panic,
\* and SetState not used to enter these two states.)
MovesOn(c, o) ==
    /\ op[c] = o
    /\ \/ pc[c] \in {"hook", "settling", "failing"}
       \/ pc[c] = "requesting" /\ mu = c
TransientStateIsOwned ==
    /\ state = "starting" => \E c \in Callers : MovesOn(c, "Start")
    /\ state = "stopping" => \E c \in Callers : MovesOn(c, "Stop")

\* A stopped agent reports no start time: Stop clears startedAt under the lock
\* it changed the state with, so no reader and no later call finds the time of
\* an earlier life (agent.go:554, AgentInfo.StartedAt agent.go:195-196).
StoppedHasNoStartTime ==
    Readable /\ state = "stopped" => startedAt = "nil"

\* A running agent reports the time of its present life.
StartedThisLife ==
    Readable /\ state = "running" => InfoStartedAt = "current"

\* A running agent reports some start time: there is no window in which Info
\* sees Running and no startedAt (agent.go:473-475).
RunningHasStartTime ==
    Readable /\ state = "running" => InfoStartedAt # "nil"

\* When a hook fails, the agent is Failed by the time the call returns
\* (agent.go:219-221).
FailedHookFailsAgent ==
    [][\A c \in Drivers :
          pc[c] = "failing" /\ pc'[c] = "idle" => state = "failed"]_vars

\* Every call returns: no goroutine waits for a.mu, or holds it, for ever.
EveryCallReturns ==
    \A c \in Callers : pc[c] # "idle" ~> pc[c] = "idle"

\* An agent does not stay in a transient state.
TransientStatesEnd ==
    state \in {"starting", "stopping"} ~> state \notin {"starting", "stopping"}
=============================================================================
