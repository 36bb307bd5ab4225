---------------------------- MODULE DriverHandle ----------------------------
(***************************************************************************)
(* What a database client promises about its driver: it is opened once,    *)
(* published to the operations once and with room for at least one of      *)
(* them, and closed once, for good.  What the operations borrow of it      *)
(* stays within its limit and is all given back before it is closed; a     *)
(* driver that was not published is closed without anybody having seen it. *)
(* Configurations, contexts, operations and errors do not appear.          *)
(***************************************************************************)
EXTENDS Naturals

VARIABLES
    handle,     \* "none", "open", "closing" or "closed"
    limit,      \* how many connections it may lend; 0 until it is published
    lent        \* how many it has lent

Init == handle = "none" /\ limit = 0 /\ lent = 0

Open ==
    /\ handle = "none"
    /\ handle' = "open"
    /\ UNCHANGED <<limit, lent>>

Abandon ==
    /\ handle = "open" /\ limit = 0
    /\ handle' = "closed"
    /\ UNCHANGED <<limit, lent>>

\* The driver is NewClient's own, or comes from the caller.
Publish ==
    /\ handle \in {"none", "open"} /\ limit = 0
    /\ handle' = "open" /\ limit' \in Nat \ {0}
    /\ UNCHANGED lent

Lend ==
    /\ handle = "open" /\ lent < limit
    /\ lent' = lent + 1
    /\ UNCHANGED <<handle, limit>>

GiveBack ==
    /\ lent > 0
    /\ lent' = lent - 1
    /\ UNCHANGED <<handle, limit>>

BeginClose ==
    /\ handle = "open" /\ limit > 0
    /\ handle' = "closing"
    /\ UNCHANGED <<limit, lent>>

Close ==
    /\ handle \in {"open", "closing"} /\ limit > 0 /\ lent = 0
    /\ handle' = "closed"
    /\ UNCHANGED <<limit, lent>>

Next == Open \/ Abandon \/ Publish \/ Lend \/ GiveBack \/ BeginClose \/ Close

Spec == Init /\ [][Next]_<<handle, limit, lent>>
=============================================================================
