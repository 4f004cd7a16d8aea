----------------------------- MODULE TrafficSwitch -----------------------------
(***************************************************************************)
(* Blue-green switches and canary promotions of a service.  SwitchBlueGreen *)
(* and PromoteCanary look for an unfinished operation of their kind, take   *)
(* the slots from the latest deploy or the service, mark that deploy and    *)
(* queue an operation.  The worker moves the traffic, records the new slot  *)
(* with UpdateBlueGreenPrimary, which rewrites the whole strategy it read,  *)
(* and reports; the effects of deploys and switches update the latest       *)
(* deploy.  Clients save strategies they read earlier.  The traffic itself  *)
(* is the worker's: it is modelled from what the operations carry.          *)
(***************************************************************************)
EXTENDS Integers, Sequences

CONSTANTS SwitchEnv,    \* environments
          SwitchReq,    \* requests, each made once
          MaxRollouts   \* bound on the deploys of an environment

ASSUME SwitchAssumption == MaxRollouts \in Nat \ {0}

VARIABLES
    strategy,   \* deploymentStrategy of the service
    latest,     \* the latest deploy of each environment by startedAt, its strategyStatus
                \* and, while it is under way, the strategy it was asked for
    effect,     \* applyOperationSuccess of a deploy, between its read and its write
    switching,  \* the requests
    moves,      \* the operations, in the order they were queued
    traffic,    \* the slot that receives the traffic of each environment
    form,       \* a strategy that a client read and has not saved yet
    orderly     \* history: see Disorder

switchVars == <<strategy, latest, effect, switching, moves, traffic, form, orderly>>
-----------------------------------------------------------------------------
Slot == {"blue", "green"}
Other(slot) == IF slot = "blue" THEN "green" ELSE "blue"
Strategy == [type : {"canary", "blue-green"}, primary : Slot, slots : [SwitchEnv -> Slot \cup {"unset"}]]

\* strategyStatus.details of a deploy; slots that are not recorded are "unset".
Details(step, pending, active) == [step |-> step, pending |-> pending, active |-> active]
DeployDetails ==
    [step : {"none", "queued", "shift", "failed"}, pending : BOOLEAN, active : Slot \cup {"unset"}]

NoStrategy == [type |-> "none", primary |-> "blue", slots |-> [e \in SwitchEnv |-> "unset"]]

\* A switch or a promotion: kind and environment, the deploy it was queued for,
\* the slot it calls active, and the strategy its worker has read.
Move == [kind : {"none", "promote", "switch"}, env : SwitchEnv \cup {"none"},
         deploy : 0 .. MaxRollouts, active : Slot \cup {"unset"},
         status : {"none", "queued", "shifted", "recording", "recorded", "succeeded", "failed"},
         copy : Strategy \cup {NoStrategy}]

NoMove == [kind |-> "none", env |-> "none", deploy |-> 0, active |-> "unset",
           status |-> "none", copy |-> NoStrategy]
IdleSwitch == [pc |-> "new", move |-> NoMove]

SwitchInit ==
    /\ strategy \in {[type |-> t, primary |-> "blue", slots |-> NoStrategy.slots] :
                       t \in {"canary", "blue-green"}}
    /\ latest = [e \in SwitchEnv |-> [number |-> 1, running |-> "none",
                                      details |-> Details("none", FALSE, "unset")]]
    /\ effect = [e \in SwitchEnv |-> "unset"]
    /\ switching = [r \in SwitchReq |-> IdleSwitch]
    /\ moves = <<>>
    /\ traffic = [e \in SwitchEnv |-> "blue"]
    /\ form = NoStrategy
    /\ orderly = TRUE

\* Mutated form: the slots of the environments are not looked at.
EnvironmentSlot_Primary(s, e) == s.primary

\* environmentBlueGreenSlot, blueGreenSlots
EnvironmentSlot(s, e) == IF s.slots[e] \in Slot THEN s.slots[e] ELSE s.primary

\* An update of a deploy that is no longer the latest one is not looked at any more.
SetDetails(e, number, details) ==
    latest' = IF latest[e].number = number THEN [latest EXCEPT ![e].details = details] ELSE latest
-----------------------------------------------------------------------------
(* Deploys *)

\* CreateDeploy: from its insert the new deploy is the latest one, whatever becomes of it.
StartDeploy(e) ==
    /\ latest[e].running = "none" /\ latest[e].number < MaxRollouts
    /\ latest' = [latest EXCEPT ![e] =
          [number |-> @.number + 1, running |-> strategy.type,
           details |-> Details("none", FALSE, IF strategy.type = "blue-green" THEN strategy.primary
                                              ELSE "unset")]]
    /\ UNCHANGED <<strategy, effect, switching, moves, traffic, form>>

\* The effect reads the service, again after a recovery ...
BeginEffect(e) ==
    /\ latest[e].running # "none"
    /\ effect' = [effect EXCEPT ![e] = EnvironmentSlot(strategy, e)]
    /\ UNCHANGED <<strategy, latest, switching, moves, traffic, form>>

\* ... and records the slots as they were read; a canary deploy keeps its details.
EndEffect(e) ==
    /\ latest[e].running # "none" /\ effect[e] # "unset"
    /\ latest' = [latest EXCEPT ![e].running = "none",
          ![e].details = IF latest[e].running = "blue-green" THEN Details("none", TRUE, effect[e])
                         ELSE @]
    /\ effect' = [effect EXCEPT ![e] = "unset"]
    /\ UNCHANGED <<strategy, switching, moves, traffic, form>>

\* A deploy that fails, or is given up after a crash in its effect, stays the latest one.
FailDeploy(e) ==
    /\ latest[e].running # "none"
    /\ latest' = [latest EXCEPT ![e].running = "none"]
    /\ effect' = [effect EXCEPT ![e] = "unset"]
    /\ UNCHANGED <<strategy, switching, moves, traffic, form>>
-----------------------------------------------------------------------------
(* SwitchBlueGreen, PromoteCanary *)

SwitchStep(r) == UNCHANGED <<strategy, effect, traffic, form>>
SwitchGoes(r, pc) == switching' = [switching EXCEPT ![r].pc = pc]
KindOf(type) == IF type = "canary" THEN "promote" ELSE "switch"
UnfinishedMove(i) == moves[i].status \notin {"succeeded", "failed"}

\* respondIfSwitchBlueGreenBlocked, respondIfPromoteCanaryBlocked
CheckMoves(r, e) ==
    /\ SwitchStep(r) /\ UNCHANGED <<latest, moves>>
    /\ switching[r].pc = "new"
    /\ LET kind == KindOf(strategy.type)
           busy == \E i \in DOMAIN moves :
                      UnfinishedMove(i) /\ moves[i].env = e /\ moves[i].kind = kind
       IN  switching' = [switching EXCEPT ![r] =
              [pc |-> IF busy THEN "done" ELSE "plan",
               move |-> [NoMove EXCEPT !.kind = kind, !.env = e, !.status = "queued"]]]

\* The slots of the deploy when its switch is pending; otherwise those of the service.
PlanMove(r) ==
    /\ SwitchStep(r) /\ UNCHANGED <<latest, moves>>
    /\ switching[r].pc = "plan"
    /\ LET e == switching[r].move.env
           d == latest[e].details
           active == IF d.pending /\ d.active \in Slot THEN d.active
                     ELSE EnvironmentSlot(strategy, e)
       IN  switching' = [switching EXCEPT ![r].pc = "mark", ![r].move.deploy = latest[e].number,
              ![r].move.active = IF switching[r].move.kind = "switch" THEN active ELSE "unset"]

MarkQueued(r) ==
    /\ SwitchStep(r) /\ UNCHANGED moves
    /\ switching[r].pc = "mark"
    /\ LET m == switching[r].move IN SetDetails(m.env, m.deploy, Details("queued", FALSE, m.active))
    /\ SwitchGoes(r, "insert")

InsertMove(r) ==
    /\ SwitchStep(r) /\ UNCHANGED latest
    /\ switching[r].pc = "insert"
    /\ moves' = Append(moves, switching[r].move)
    /\ SwitchGoes(r, "done")

\* A database error: the deploy keeps its mark.
StopSwitch(r) ==
    /\ SwitchStep(r) /\ UNCHANGED <<latest, moves>>
    /\ switching[r].pc \in {"plan", "mark", "insert"}
    /\ SwitchGoes(r, "done")
-----------------------------------------------------------------------------
(* The worker and the effects of its reports *)

MoveAt(i, status) == moves[i].status = status /\ UNCHANGED <<effect, switching, form>>
MoveGoes(i, status) == moves' = [moves EXCEPT ![i].status = status]

\* The worker moves the traffic and reports its step with the deploy's log.
ShiftTraffic(i) ==
    /\ MoveAt(i, "queued")
    /\ MoveGoes(i, "shifted")
    /\ LET m == moves[i]
       IN  /\ traffic' = IF m.kind = "switch" THEN [traffic EXCEPT ![m.env] = Other(m.active)]
                         ELSE traffic
           /\ SetDetails(m.env, m.deploy, Details("shift", FALSE, m.active))
    /\ UNCHANGED strategy

\* UpdateBlueGreenPrimary reads the service ...
ReadStrategy(i) ==
    /\ MoveAt(i, "shifted") /\ moves[i].kind = "switch"
    /\ moves' = [moves EXCEPT ![i].copy = strategy,
                              ![i].status = IF strategy.type = "blue-green" THEN "recording"
                                            ELSE "recorded"]
    /\ UNCHANGED <<strategy, latest, traffic>>

\* ... and writes its whole strategy with the slot of one environment changed.
RecordSlot(i) ==
    /\ MoveAt(i, "recording")
    /\ LET m == moves[i] IN strategy' = [m.copy EXCEPT !.slots[m.env] = Other(m.active)]
    /\ moves' = [moves EXCEPT ![i].status = "recorded", ![i].copy = NoStrategy]
    /\ UNCHANGED <<latest, traffic>>

\* markLatestBlueGreenSwitched, markLatestCanaryDeployPromoted: the latest
\* deploy at this moment, with the slot of the service.
MoveSucceeded(i) ==
    /\ \/ MoveAt(i, "recorded")
       \/ MoveAt(i, "shifted") /\ moves[i].kind = "promote"
    /\ MoveGoes(i, "succeeded")
    /\ LET m == moves[i]
           slot == IF m.kind = "switch" THEN EnvironmentSlot(strategy, m.env) ELSE "unset"
       IN  SetDetails(m.env, latest[m.env].number, Details("none", FALSE, slot))
    /\ UNCHANGED <<strategy, traffic>>

\* applyOperationFailure looks at the step the deploy has reached.
FailDetails(m) ==
    SetDetails(m.env, m.deploy,
        Details("failed", m.kind = "switch" /\ latest[m.env].details.step # "shift", "unset"))

MoveFailed(i) ==
    /\ MoveAt(i, "queued") \/ MoveAt(i, "recorded")
    /\ MoveGoes(i, "failed")
    /\ FailDetails(moves[i])
    /\ UNCHANGED <<strategy, traffic>>

\* A worker dies between moving the traffic and recording it.
MoveLost(i) ==
    /\ MoveAt(i, "shifted") \/ MoveAt(i, "recording")
    /\ moves' = [moves EXCEPT ![i].status = "failed", ![i].copy = NoStrategy]
    /\ FailDetails(moves[i])
    /\ UNCHANGED <<strategy, traffic>>
-----------------------------------------------------------------------------
(* Clients that save a strategy *)

OpenForm ==
    /\ form = NoStrategy
    /\ form' = strategy
    /\ UNCHANGED <<strategy, latest, effect, switching, moves, traffic>>

\* UpdateService with the deploymentStrategy that was read: sanitizeStrategy keeps its slots.
SaveStrategy ==
    /\ form # NoStrategy
    /\ strategy' = form
    /\ form' = NoStrategy
    /\ UNCHANGED <<latest, effect, switching, moves, traffic>>

\* UpdateService with deployStrategyType: a new strategy without slots.
SaveStrategyType(type, primary) ==
    /\ form # NoStrategy
    /\ strategy' = [type |-> type, primary |-> primary, slots |-> NoStrategy.slots]
    /\ form' = NoStrategy
    /\ UNCHANGED <<latest, effect, switching, moves, traffic>>
-----------------------------------------------------------------------------
\* What is going on in an environment, and what holds a copy of the strategy.
Activity(e) ==
    {<<"request", r>> : r \in {q \in SwitchReq : /\ switching[q].pc \in {"plan", "mark", "insert"}
                                                /\ switching[q].move.env = e}}
    \cup {<<"move", i>> : i \in {j \in DOMAIN moves : UnfinishedMove(j) /\ moves[j].env = e}}
    \cup {<<"effect", e>> : x \in {"unset"} \ {effect[e]}}

Copies ==
    {<<"move", i>> : i \in {j \in DOMAIN moves : moves[j].status = "recording"}}
    \cup {<<"form", 0>> : x \in {NoStrategy} \ {form}}

Disorder ==
    \/ \E a, b \in Copies : a # b
    \/ \E e \in SwitchEnv : \E a, b \in Activity(e) : a # b

SwitchNext ==
    \/ /\ \/ \E e \in SwitchEnv : \/ StartDeploy(e) \/ BeginEffect(e) \/ EndEffect(e)
                                \/ FailDeploy(e)
          \/ \E r \in SwitchReq : \/ \E e \in SwitchEnv : CheckMoves(r, e)
                                  \/ PlanMove(r) \/ MarkQueued(r) \/ InsertMove(r) \/ StopSwitch(r)
          \/ \E i \in DOMAIN moves : \/ ShiftTraffic(i) \/ ReadStrategy(i) \/ RecordSlot(i)
                                     \/ MoveSucceeded(i) \/ MoveFailed(i)
          \/ OpenForm \/ SaveStrategy
       /\ orderly' = (orderly /\ ~Disorder')
    \/ /\ \/ \E i \in DOMAIN moves : MoveLost(i)
          \/ \E t \in {"canary", "blue-green"}, p \in Slot : SaveStrategyType(t, p)
       /\ orderly' = FALSE

SwitchSpec == SwitchInit /\ [][SwitchNext]_switchVars
-----------------------------------------------------------------------------
SwitchTypeOK ==
    /\ strategy \in Strategy
    /\ latest \in [SwitchEnv -> [number : 1 .. MaxRollouts, details : DeployDetails,
                              running : {"none", "canary", "blue-green"}]]
    /\ effect \in [SwitchEnv -> Slot \cup {"unset"}]
    /\ switching \in [SwitchReq -> [pc : {"new", "plan", "mark", "insert", "done"}, move : Move]]
    /\ moves \in Seq(Move)
    /\ \A i \in DOMAIN moves : /\ moves[i].kind # "none" /\ moves[i].env \in SwitchEnv
                               /\ moves[i].kind = "switch" => moves[i].active \in Slot
    /\ traffic \in [SwitchEnv -> Slot]
    /\ form \in Strategy \cup {NoStrategy}

\* The slot a switch calls active is the one the traffic of its environment is
\* on, so that it moves the traffic, as long as (1) at most one switch or
\* deploy effect is under way in each environment, (2) no two copies of the
\* strategy are held at once, be they of workers for different environments or
\* of clients, (3) no worker dies between moving the traffic and recording it
\* and (4) no client saves a strategy without its slots.
SwitchNamesLiveSlot ==
    orderly => \A i \in DOMAIN moves :
        moves[i].kind = "switch" /\ moves[i].status = "queued" => moves[i].active = traffic[moves[i].env]
=============================================================================
