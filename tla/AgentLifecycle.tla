--------------------------- MODULE AgentLifecycle ---------------------------
(***************************************************************************)
(* What BaseAgent promises to those who observe its state.  The observers  *)
(* are numbered in the order in which they registered; told[h] is the      *)
(* state observer h was told last.  The first one hears of a transition of *)
(* the matrix, the others hear of the same transition one after the other, *)
(* and the next transition is announced only when all of them have heard.  *)
(* Threads, locks, hooks and calls that are refused do not appear.         *)
(***************************************************************************)
EXTENDS LifecycleStates, Naturals

CONSTANT NumObservers  \* a natural number

Observers == 1..NumObservers

VARIABLE told

Init == told = [h \in Observers |-> "unknown"]

\* The agent moves on: the first observer is told.
Announce(s) ==
    /\ 1 \in Observers
    /\ \A h \in Observers : told[h] = told[1]
    /\ ValidTransition(told[1], s)
    /\ told' = [told EXCEPT ![1] = s]

\* The news reaches observer h after it reached all those before it.
Relay(h) ==
    /\ h > 1
    /\ \A k \in 1..(h - 1) : told[k] = told[1]
    /\ told[h] # told[1]
    /\ told' = [told EXCEPT ![h] = told[1]]

Next == (\E s \in States : Announce(s)) \/ (\E h \in Observers : Relay(h))

Spec == Init /\ [][Next]_told
=============================================================================
