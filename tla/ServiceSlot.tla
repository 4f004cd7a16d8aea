----------------------------- MODULE ServiceSlot -----------------------------
(***************************************************************************)
(* What a service and environment promise about their deploys: a lock that *)
(* each deploy takes at most once, before its operation is queued, and     *)
(* never again after it gave it up or was refused.                         *)
(***************************************************************************)
CONSTANT Op

VARIABLES
    stage,   \* how far each deploy is with the slot
    queued   \* the deploys whose operation exists

vars == <<stage, queued>>
-----------------------------------------------------------------------------
Init == stage = [o \in Op |-> "waiting"] /\ queued = {}

Take(o) ==
    /\ stage[o] = "waiting"
    /\ \A d \in Op : stage[d] # "holding"
    /\ stage' = [stage EXCEPT ![o] = "holding"]
    /\ UNCHANGED queued

Refuse(o) ==
    /\ stage[o] = "waiting"
    /\ stage' = [stage EXCEPT ![o] = "over"]
    /\ UNCHANGED queued

Queue(o) ==
    /\ stage[o] = "holding" /\ o \notin queued
    /\ queued' = queued \cup {o}
    /\ UNCHANGED stage

Free(o) ==
    /\ stage[o] = "holding"
    /\ stage' = [stage EXCEPT ![o] = "over"]
    /\ UNCHANGED queued

Next == \E o \in Op : Take(o) \/ Refuse(o) \/ Queue(o) \/ Free(o)

Spec == Init /\ [][Next]_vars
=============================================================================
