---------------------------- MODULE ServiceSettings ----------------------------
(***************************************************************************)
(* The settings of a service.  UpdateService reads the service, normalises *)
(* the payload, refuses what an observed service may not change, writes    *)
(* the given fields, reads the service again and queues what follows: rule *)
(* publications, a scale operation, deploys of a changed schedule.  The    *)
(* operations write the availability of the service when they end, and     *)
(* workers report its runtime.  What workers do to the workload is theirs: *)
(* it is modelled from what the operations carry.                          *)
(*                                                                         *)
(* A payload is a function on the fields it gives.  "source" stands for    *)
(* all restricted text fields, "size" for profile, cpu and memory; 0 is a  *)
(* number that was never set.                                              *)
(***************************************************************************)
EXTENDS Integers, Sequences, FiniteSets

CONSTANTS Update,           \* UpdateService requests
          Settings,         \* payloads they may carry
          InitialService,   \* the service CreateService inserted
          Environment       \* environments it was deployed to

VARIABLES
    service,   \* the document
    update,    \* the requests
    scales,    \* the scale operations, in the order they were queued
    rollout,   \* per environment: the deploy of a changed schedule
    rules,     \* the rules of the service: the port they name, the one they were
               \* last published with, and the operations that are to publish them
    workload,  \* what runs
    report,    \* a runtime report of a worker
    calm,      \* history: nothing overlapped so far
    unapplied  \* history: what failures and stops may have left undone

settingsVars == <<service, update, scales, rollout, rules, workload, report, calm, unapplied>>
-----------------------------------------------------------------------------
(* Normalisation *)

Given(payload, field) == field \in DOMAIN payload
Or(value, fallback) == IF value > 0 THEN value ELSE fallback

\* UpdateByID: the given fields replace those of the document.
Overlay(document, payload) ==
    [f \in DOMAIN document |-> IF Given(payload, f) THEN payload[f] ELSE document[f]]

With(payload, field, value) ==
    [f \in DOMAIN payload \cup {field} |-> IF f = field THEN value ELSE payload[f]]

AtLeastOne(payload, field) ==
    IF Given(payload, field) THEN With(payload, field, Or(payload[field], 1)) ELSE payload

\* The bounds are compared within one payload; minReplicas resets replicas.
NormalizeReplicaBounds(payload) ==
    LET p == AtLeastOne(AtLeastOne(payload, "minReplicas"), "maxReplicas")
        q == IF /\ Given(p, "minReplicas") /\ Given(p, "maxReplicas")
                /\ p["maxReplicas"] < p["minReplicas"]
             THEN With(p, "maxReplicas", p["minReplicas"]) ELSE p
    IN  IF Given(q, "minReplicas") /\ ~Given(q, "replicas")
        THEN With(q, "replicas", q["minReplicas"]) ELSE q

Normalize(payload) ==
    LET p == NormalizeReplicaBounds(payload)
    IN  IF Given(p, "mode") /\ p["mode"] = "observed" THEN With(p, "autoDeploy", FALSE) ELSE p

MinReplicas(s) == Or(s.minReplicas, Or(s.replicas, 1))

MaxReplicas(s) ==
    LET least == MinReplicas(s)
    IN  IF s.maxReplicas > 0 THEN IF s.maxReplicas < least THEN least ELSE s.maxReplicas
        ELSE IF s.replicas > least THEN s.replicas ELSE IF least > 3 THEN least ELSE 3
-----------------------------------------------------------------------------
(* Observed services *)

Changes(before, payload, field) == Given(payload, field) /\ payload[field] # before[field]

ChangesNumber(before, payload, field, fallback) ==
    Given(payload, field) /\ Or(payload[field], fallback) # Or(before[field], fallback)

\* normalizeServiceManagementMode: no mode means managed.
NextMode(payload) == IF Given(payload, "mode") THEN payload["mode"] ELSE "managed"

DetectObservedRestrictedMutation(before, payload) ==
    /\ before.mode = "observed" /\ NextMode(payload) = "observed"
    /\ \/ \E f \in {"source", "size", "schedule", "strategy"} : Changes(before, payload, f)
       \/ ChangesNumber(before, payload, "port", before.port)
       \/ ChangesNumber(before, payload, "minReplicas", MinReplicas(before))
       \/ ChangesNumber(before, payload, "maxReplicas", MaxReplicas(before))
-----------------------------------------------------------------------------
\* The documents; Bound is what the numbers of replicas are taken from.
ServiceOf(Bound) ==
    [mode : {"managed", "observed"}, source : STRING, size : STRING, port : Int,
     minReplicas : Bound, maxReplicas : Bound, replicas : Int, schedule : STRING,
     strategy : STRING, active : BOOLEAN, autoDeploy : BOOLEAN,
     status : {"created", "running", "pending", "idle", "error"}]
ServiceDoc == ServiceOf(Nat)

\* The handlers read the fields they know as numbers, texts and switches.
ASSUME SettingsAssumption ==
    /\ IsFiniteSet(Update)
    /\ InitialService \in ServiceDoc
    /\ ~InitialService.active => InitialService.status # "running"
    /\ \A p \in Settings : Overlay(InitialService, p) \in ServiceOf(Int)

NewUpdate == [pc |-> "new", payload |-> <<>>, before |-> InitialService,
              after |-> InitialService, todo |-> {}]
Ended == [NewUpdate EXCEPT !.pc = "done"]
NoReport == [pc |-> "idle", status |-> "none", active |-> FALSE, next |-> "none"]

SettingsInit ==
    /\ service = InitialService
    /\ update = [u \in Update |-> NewUpdate]
    /\ scales = <<>>
    /\ rollout = [e \in Environment |-> "ended"]
    /\ rules = [port |-> InitialService.port, published |-> InitialService.port, pending |-> 0]
    /\ workload = [active |-> InitialService.active, size |-> InitialService.size,
                   schedule |-> [e \in Environment |-> InitialService.schedule]]
    /\ report = NoReport
    /\ calm = TRUE
    /\ unapplied = {}

UpdateAt(u, pc) == update[u].pc = pc /\ UNCHANGED <<rollout, workload, report>>
UpdateGoes(u, pc) == update' = [update EXCEPT ![u].pc = pc]
-----------------------------------------------------------------------------
(* UpdateService *)

LoadService(u, payload) ==
    /\ UpdateAt(u, "new")
    /\ update' = [update EXCEPT ![u] = [pc |-> "write", payload |-> Normalize(payload),
                                        before |-> service, after |-> service, todo |-> {}]]
    /\ UNCHANGED <<service, scales, rules>>

Refuse(u) ==
    /\ UpdateAt(u, "write")
    /\ DetectObservedRestrictedMutation(update[u].before, update[u].payload)
    /\ update' = [update EXCEPT ![u] = Ended]
    /\ UNCHANGED <<service, scales, rules>>

WriteService(u) ==
    /\ UpdateAt(u, "write")
    /\ ~DetectObservedRestrictedMutation(update[u].before, update[u].payload)
    /\ service' = Overlay(service, update[u].payload)
    /\ UpdateGoes(u, "reload")
    /\ UNCHANGED <<scales, rules>>

ReloadService(u) ==
    /\ UpdateAt(u, "reload")
    /\ update' = [update EXCEPT ![u].pc = "republish", ![u].after = service]
    /\ UNCHANGED <<service, scales, rules>>

ChangesPort(u) ==
    /\ Given(update[u].payload, "port") /\ update[u].payload["port"] > 0
    /\ update[u].payload["port"] \notin {update[u].before.port, rules.port}

ChangesStrategy(u) == Changes(update[u].before, update[u].payload, "strategy")

\* RepublishRulesForServicePortChange; a changed strategy republishes the
\* rules as they are, unless they are queued already.
RepublishRules(u) ==
    /\ UpdateAt(u, "republish")
    /\ rules' = CASE ChangesPort(u) -> [rules EXCEPT !.port = update[u].payload["port"],
                                                    !.pending = @ + 1]
                  [] ~ChangesPort(u) /\ ChangesStrategy(u) /\ rules.pending = 0 ->
                        [rules EXCEPT !.pending = 1]
                  [] OTHER -> rules
    /\ UpdateGoes(u, "scale")
    /\ UNCHANGED <<service, scales>>

\* A rule that cannot be read or written is skipped, as is one whose operation
\* cannot be inserted; the request logs it at most, and goes on.
SkipRules(u) ==
    /\ UpdateAt(u, "republish")
    /\ ChangesPort(u)
    /\ rules' \in {rules, [rules EXCEPT !.port = update[u].payload["port"]]}
    /\ UpdateGoes(u, "scale")
    /\ UNCHANGED <<service, scales>>

\* replicasOrInstanceChanged, or the availability changed.
NeedsScale(before, payload) ==
    \E f \in {"size", "minReplicas", "maxReplicas", "active"} : Changes(before, payload, f)

\* Mutated form: a failure shall restore what was asked for.
ScaleOperation_NoPrevious(before, after) ==
    [active |-> after.active, previousActive |-> after.active, size |-> after.size, status |-> "queued"]

\* queueImmediateScale carries the service as it was read again, and the
\* availability the request found.
ScaleOperation(before, after) ==
    [active |-> after.active, previousActive |-> before.active, size |-> after.size, status |-> "queued"]

\* The environments whose last successful deploy ran another schedule.
ScheduleTargets(u) ==
    IF Changes(update[u].before, update[u].payload, "schedule") THEN Environment ELSE {}

QueueImmediateScale(u) ==
    /\ UpdateAt(u, "scale")
    /\ scales' = IF NeedsScale(update[u].before, update[u].payload)
                 THEN Append(scales, ScaleOperation(update[u].before, update[u].after)) ELSE scales
    /\ update' = [update EXCEPT ![u].pc = "schedule", ![u].todo = ScheduleTargets(u)]
    /\ UNCHANGED <<service, rules>>

\* The insert fails; the request goes on.
QueueImmediateScaleFails(u) ==
    /\ UpdateAt(u, "scale")
    /\ NeedsScale(update[u].before, update[u].payload)
    /\ update' = [update EXCEPT ![u].pc = "schedule", ![u].todo = ScheduleTargets(u)]
    /\ UNCHANGED <<service, scales, rules>>

\* queueServiceDeployOperation: an environment with an active deploy is skipped.
QueueScheduleDeploy(u, e) ==
    /\ update[u].pc = "schedule" /\ e \in update[u].todo
    /\ rollout' = [rollout EXCEPT ![e] = IF @ = "ended" THEN "queued" ELSE @]
    /\ update' = [update EXCEPT ![u].todo = @ \ {e}]
    /\ UNCHANGED <<service, scales, rules, workload, report>>

FinishUpdate(u) ==
    /\ UpdateAt(u, "schedule")
    /\ update[u].todo = {}
    /\ update' = [update EXCEPT ![u] = Ended]
    /\ UNCHANGED <<service, scales, rules>>

\* A database error, no worker for a schedule deploy, or the process stops.
StopUpdate(u) ==
    /\ update[u].pc \in {"reload", "republish", "scale", "schedule"}
    /\ update' = [update EXCEPT ![u] = Ended]
    /\ UNCHANGED <<service, scales, rules, rollout, workload, report>>

\* What it has not queued by then.
Unqueued(u) ==
    {"schedule"} \cup (IF update[u].pc = "schedule" THEN {} ELSE {"availability"})
                \cup (IF update[u].pc \in {"reload", "republish"} THEN {"port"} ELSE {})
-----------------------------------------------------------------------------
(* The operations *)

\* The worker publishes the rules with the port they name when it gets to them.
PublishRules ==
    /\ rules.pending > 0
    /\ rules' = [rules EXCEPT !.published = rules.port, !.pending = @ - 1]
    /\ UNCHANGED <<service, update, scales, rollout, workload, report>>

PublishRulesFails ==
    /\ rules.pending > 0
    /\ rules' = [rules EXCEPT !.pending = @ - 1]
    /\ UNCHANGED <<service, update, scales, rollout, workload, report>>

SetScale(i, status) == scales' = [scales EXCEPT ![i].status = status]

\* The worker scales the workload ...
Scale(i) ==
    /\ scales[i].status = "queued"
    /\ SetScale(i, "performed")
    /\ workload' = [workload EXCEPT !.active = scales[i].active, !.size = scales[i].size]
    /\ UNCHANGED <<service, update, rollout, rules, report>>

\* ... and reports success ...
ScaleSucceeded(i) ==
    /\ scales[i].status = "performed"
    /\ SetScale(i, "succeeded")
    /\ service' = [service EXCEPT !.active = scales[i].active,
                                  !.status = IF scales[i].active THEN "pending" ELSE "idle"]
    /\ UNCHANGED <<update, rollout, rules, workload, report>>

\* ... or failure, before or after it scaled; the sweep that gives an operation
\* up applies the same failure.
ScaleFailed(i, before) ==
    /\ scales[i].status = before
    /\ SetScale(i, "failed")
    /\ service' = [service EXCEPT !.active = scales[i].previousActive, !.status = "error"]
    /\ UNCHANGED <<update, rollout, rules, workload, report>>

\* A worker that lost its claim to a sweep scales all the same.
ScaleLate(i) ==
    /\ scales[i].status = "failed"
    /\ workload' = [workload EXCEPT !.active = scales[i].active, !.size = scales[i].size]
    /\ UNCHANGED <<service, update, scales, rollout, rules, report>>

RolloutAt(e, pc, next) ==
    /\ rollout[e] = pc
    /\ rollout' = [rollout EXCEPT ![e] = next]
    /\ UNCHANGED <<update, scales, rules, report>>

RolloutStarts(e) ==
    /\ RolloutAt(e, "queued", "running")
    /\ service' = [service EXCEPT !.active = FALSE, !.status = "pending"]
    /\ UNCHANGED workload

\* The worker reads the service when it deploys.
RolloutRuns(e) ==
    /\ RolloutAt(e, "running", "performed")
    /\ workload' = [active |-> TRUE, size |-> service.size,
                    schedule |-> [workload.schedule EXCEPT ![e] = service.schedule]]
    /\ UNCHANGED service

RolloutSucceeded(e) ==
    /\ RolloutAt(e, "performed", "ended")
    /\ service' = [service EXCEPT !.active = TRUE, !.status = "created"]
    /\ UNCHANGED workload

\* A deploy that was rolled back leaves the service active.
RolloutFailed(e) ==
    /\ \E pc \in {"running", "performed"} : RolloutAt(e, pc, "ended")
    /\ \E active \in BOOLEAN :
         service' = [service EXCEPT !.active = active, !.status = IF active THEN "running" ELSE "error"]
    /\ UNCHANGED workload
-----------------------------------------------------------------------------
(* UpdateServiceRuntime *)

\* Mutated form: the status of the runtime is taken over.
ServiceStatusOf_Raw(runtime) == runtime

\* mapRuntimeToServiceStatus
ServiceStatusOf(runtime) ==
    CASE runtime = "healthy" -> "running"
      [] runtime = "idle" -> "idle"
      [] runtime \in {"pending", "unknown"} -> "pending"
      [] runtime \in {"degraded", "crashloop", "error"} -> "error"

ReportRuntime(runtime) ==
    /\ report.pc = "idle"
    /\ report' = [pc |-> "write", status |-> service.status, active |-> service.active,
                  next |-> ServiceStatusOf(runtime)]
    /\ UNCHANGED <<service, update, scales, rollout, rules, workload>>

ShouldUpdateServiceStatus(status, active, next) ==
    active /\ status # "created" /\ status # next

WriteRuntime ==
    /\ report.pc = "write"
    /\ report' = NoReport
    /\ service' = IF ShouldUpdateServiceStatus(report.status, report.active, report.next)
                  THEN [service EXCEPT !.status = report.next] ELSE service
    /\ UNCHANGED <<update, scales, rollout, rules, workload>>
-----------------------------------------------------------------------------
UpdatesInFlight == {u \in Update : update[u].pc \notin {"new", "done"}}
Reading == {u \in UpdatesInFlight : update[u].pc \in {"write", "reload"}}
Scaling == {i \in DOMAIN scales : scales[i].status \in {"queued", "performed"}}
RollingOut == {e \in Environment : rollout[e] # "ended"}
Reporting == report.pc # "idle"
Working == Scaling # {} \/ RollingOut # {}

\* Updates, operations and reports overlap; or an update brings the status
\* with it, which UpdateService takes over like any field.
Overlap ==
    \/ \E u \in Reading : Given(update[u].payload, "status")
    \/ \E u, v \in UpdatesInFlight : u # v
    \/ \E i, j \in Scaling : i # j
    \/ \E e, f \in RollingOut : e # f
    \/ Scaling # {} /\ RollingOut # {}
    \/ Reporting /\ (Working \/ UpdatesInFlight # {})
    \/ Working /\ Reading # {}

Leaves(what) == unapplied' = unapplied \cup what

SettingsNext ==
    /\ \/ /\ \/ \E u \in Update : \/ \E p \in Settings : LoadService(u, p)
                                  \/ Refuse(u) \/ WriteService(u) \/ ReloadService(u)
                                  \/ RepublishRules(u) \/ QueueImmediateScale(u) \/ FinishUpdate(u)
                                  \/ \E e \in Environment : QueueScheduleDeploy(u, e)
             \/ PublishRules
             \/ \E i \in DOMAIN scales : Scale(i) \/ ScaleSucceeded(i) \/ ScaleFailed(i, "queued")
             \/ \E e \in Environment : RolloutStarts(e) \/ RolloutRuns(e) \/ RolloutSucceeded(e)
             \/ \E s \in {"healthy", "idle", "unknown", "crashloop"} : ReportRuntime(s)
             \/ WriteRuntime
          /\ Leaves({})
       \/ /\ PublishRulesFails \/ \E u \in Update : SkipRules(u)
          /\ Leaves({"port"})
       \/ /\ \/ \E u \in Update : QueueImmediateScaleFails(u)
             \/ \E i \in DOMAIN scales : ScaleFailed(i, "performed") \/ ScaleLate(i)
          /\ Leaves({"availability"})
       \/ \E e \in Environment : RolloutFailed(e) /\ Leaves({"availability", "schedule"})
       \/ \E u \in Update : StopUpdate(u) /\ Leaves(Unqueued(u))
    /\ calm' = (calm /\ ~Overlap')

SettingsSpec == SettingsInit /\ [][SettingsNext]_settingsVars
-----------------------------------------------------------------------------
SettingsTypeOK ==
    /\ service \in ServiceDoc
    /\ rollout \in [Environment -> {"ended", "queued", "running", "performed"}]
    /\ \A i \in DOMAIN scales : scales[i].status \in {"queued", "performed", "succeeded", "failed"}
    /\ Len(scales) <= Cardinality(Update)
    /\ rules \in [port : Int, published : Int, pending : Nat]
    /\ unapplied \subseteq {"port", "availability", "schedule"}

\* Updates that do not overlap with each other, with operations or with
\* reports leave the service as it runs, once everything has settled, and what
\* one of them loses costs nothing else.  Unless a scale operation was lost, or
\* failed after it had scaled, the service is active just when the workload is,
\* a stopped service is not shown as running, and if no scale operation failed
\* the workload has its size.  Unless a rollout was lost or failed its schedules
\* are those that run.  Unless a rule was skipped or not published, the rules
\* lead to its port.
SettledMeansApplied ==
    calm /\ UpdatesInFlight = {} /\ ~Working /\ ~Reporting =>
        /\ "availability" \notin unapplied =>
             /\ service.active = workload.active
             /\ ~service.active => service.status # "running"
             /\ (\A i \in DOMAIN scales : scales[i].status = "succeeded") => service.size = workload.size
        /\ "schedule" \notin unapplied => \A e \in Environment : service.schedule = workload.schedule[e]
        /\ "port" \notin unapplied /\ rules.pending = 0 /\ service.port > 0 => rules.published = service.port
=============================================================================
