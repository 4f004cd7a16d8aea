---------------------------- MODULE KeyedHandlers ----------------------------
(***************************************************************************)
(* What RequireIdempotencyKey promises the handlers behind it, for one     *)
(* key: a request runs its handler alone and once, or it does not run it   *)
(* and is given the response of a success or none.  As long as a success   *)
(* is not old, and keys outlive the process, no handler runs again.        *)
(***************************************************************************)
CONSTANTS Req, NoReq

VARIABLES
    durable,   \* whether keys outlive the process
    phase,     \* how far each request is
    result,    \* what its handler returned
    answer,    \* the request whose response it was given
    old        \* the requests that began TTL ago

vars == <<durable, phase, result, answer, old>>
-----------------------------------------------------------------------------
Successes == {r \in Req : result[r] = "ok"}

Init ==
    /\ durable \in BOOLEAN
    /\ phase = [r \in Req |-> "waiting"]
    /\ result = [r \in Req |-> "none"]
    /\ answer = [r \in Req |-> NoReq]
    /\ old = {}

Start(r) ==
    /\ phase[r] = "waiting"
    /\ \A q \in Req : phase[q] # "running"
    /\ durable => Successes \subseteq old
    /\ phase' = [phase EXCEPT ![r] = "running"]
    /\ UNCHANGED <<result, answer, old>>

Return(r) ==
    /\ phase[r] = "running" /\ result[r] = "none"
    /\ \E outcome \in {"ok", "error"} : result' = [result EXCEPT ![r] = outcome]
    /\ UNCHANGED <<phase, answer, old>>

Finish(r) ==
    /\ phase[r] = "running" /\ result[r] # "none"
    /\ phase' = [phase EXCEPT ![r] = "ended"]
    /\ UNCHANGED <<result, answer, old>>

\* The handler does not run: the request gets a recorded response or a refusal.
Replay(r) ==
    /\ phase[r] = "waiting"
    /\ phase' = [phase EXCEPT ![r] = "ended"]
    /\ \E given \in Successes \cup {NoReq} : answer' = [answer EXCEPT ![r] = given]
    /\ UNCHANGED <<result, old>>

\* Some requests are cut short, by an error or a crash.
Lose ==
    /\ \E lost \in SUBSET Req :
         phase' = [r \in Req |-> IF r \in lost THEN "ended" ELSE phase[r]]
    /\ UNCHANGED <<result, answer, old>>

Age ==
    /\ UNCHANGED <<phase, result, answer>>
    /\ old \subseteq old' /\ old' \subseteq Req

Next ==
    /\ \/ Age
       \/ \E r \in Req : Start(r) \/ Return(r) \/ Finish(r) \/ Replay(r)
       \/ Lose
    /\ UNCHANGED durable

Spec == Init /\ [][Next]_vars
=============================================================================
