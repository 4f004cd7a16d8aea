# releasea-api in TLA+

A verification project for the control plane API of Releasea (`src/`, Go): TLA+ modules that
model the parts of the API where several requests, workers and sweeps meet in the same
documents, TLC configurations that model-check them on small instances, and theorems about them
that TLAPS checks for every value of the constants.

Every operator is translated from the code under `src/internal/`. `PROJECT.json` maps each
definition to its lines, and lists the runs, the findings, the hazards and the theorems.

Contents: [1 The system](#1-the-system) · [2 Plan](#2-plan) · [3 Modules](#3-modules) ·
[4 Runs](#4-runs) · [5 Fairness](#5-fairness) · [6 Proofs](#6-proofs) · [7 Findings](#7-findings) ·
[8 Not modelled](#8-not-modelled) · [9 Running it](#9-running-it)

## 1 The system

The API is a Gin server over MongoDB and RabbitMQ. Users (a web client) create services, deploys,
rules and approvals; **workers**, one or more per environment, receive *operations*: they hear of
them from a queue or by polling, claim one, do the work in the cluster, report phases and logs on
the way and a terminal status in the end. The API processes keep no state of their own that
matters (several replicas may run); everything meets in the database, one document at a time and
**without transactions**. Handlers are sequences of `FindOne`, `InsertOne`, `UpdateOne`, and other
handlers run between any two of them. Each runs under `context.WithTimeout(requestContext,
DBTimeout)` (15 s), so it may also stop between any two of them.

### 1.1 Inventory

| component | state | operations | what is hard | what makes it correct |
|---|---|---|---|---|
| **Operations: claims and recovery** `features/operations/api` (`handlers.go`, `claim_lease.go`, `stale_claim_recovery.go`) | `operations`: status, workerRegistrationId, claim (ttl, leaseExpiresAt), finalization, recoveryCount | create; claim, renew, report (`UpdateOperationStatus`); recover expired claims (`RecoverStaleOperationClaims`); list queued ones | two reports, or a report and a sweep, on one claim; leases that end while effects run; sweeps that act on old scans | one owner, one terminal status; every recovery counted once; effects only under a live claim; abandoned operations end; a fair list |
| **Operations: effects** (`apply.go`, `deploy_states.go`) | `deploys`, `services`, `rules` | start, success and failure effects by operation type | effects span several documents, precede (workers) or follow (sweeps) the publication of the status | a published end always released what the operation held; a deploy that ended stays ended |
| **Services: deploy creation** `features/services/api` (`actions.go`, `actions_deploy_helpers.go`) | `deploys` (status, unique sparse `activeKey`), `operations` | policy gate, resolution of version and image, check for an active deploy, insert deploy, insert operation, compensate, publish | two creations at once; a failure between the inserts; compensation on a dead context; settings, credentials and builds that change between two reads | at most one active deploy per service and environment; no deploy without its operation; the image is the one the version names |
| **Services: strategies** (`actions.go`, `runtime.go`, `apply.go`) | `deploymentStrategy` of the service, `strategyStatus` of the latest deploy | switch blue and green, promote a canary, record the slot | whole strategies written back from old reads; effects on a deploy that is no longer the one meant | the slot on record is the one with the traffic |
| **Services: catalogue, deletion** (`handlers.go`, `delete_helpers.go`) | `services`, cleanup `operations` with a deletion request id | create, edit, list; updates queue scale operations, rule publications and rollouts; delete: one cleanup operation per environment, the last one removes the service | operations inserted one by one and finished concurrently; failures that restore saved values | when all has settled, what runs is what is recorded; the service goes after every cleanup that was counted |
| **Services: desired state and GitOps** | none (repository host) | render YAML, open pull requests, drift | – | conversions |
| **Services: status stream** (`status_stream.go`) | per connection: last snapshot | poll, diff, send, heartbeat | slow clients | every change is eventually sent |
| **Deploys: reports** `features/deploys/api/handlers.go` | `deploys`: status, logs, applied log batches | `AppendDeployLogs` | repeated delivery, concurrent batches, other writers of the status | a batch enters once, none is lost, the phase never goes back |
| **HTTP idempotency** `platform/http/security/idempotency.go` | `idempotency_keys` or a map in memory: state, expiresAt, response | start, complete, fail, lookup; TTL index | repeated requests that overlap, expiry and eviction, a client that goes away, restarts | one handler at a time per key; a success is not repeated while the key lives; replays are responses |
| **Governance** `features/governance/api`, `platform/shared/governance.go` | `governance_approvals`: status, reviews, execution; settings; exceptions | create or find pending, review, execute, delete; save settings; grant and revoke exceptions; evaluate the policy | concurrent reviews of one approval; the execution precedes the update; stored arrays that the readers do not recognise (section 7) | a decision is final; one deploy at a time; what is recorded of the execution is true |
| **Rules** `features/rules/api`, `features/ruledeploys/api` | `rules` (status, gateways, prevGateways), `rule_deploys` | create, publish, unpublish, republish, delete; effects of rule operations | a failed operation restores saved gateways over later ones; approvals that were granted for something else | no external exposure without an approval; a published rule has gateways |
| **Workers** `features/workers/api`, `platform/shared/worker_availability.go` | `workers` (status, heartbeat), registrations, pool switches | register, authenticate, heartbeat, mark stale, delete, maintenance and drain, restart | a heartbeat that recreates what was deleted; two views of one pool | the views agree; what was deleted falls silent |
| **Auto-deploy lease** `features/workers/api/auto_deploy_lease.go` | `worker_leases`: holder, expiry | acquire or renew | two workers at the second of the expiry | one holder at a time |
| **Queue dispatch** `platform/queue/operations.go` | RabbitMQ, dispatch status of the operation | publish with confirm, record dispatch or error | lost or late confirmations | what the dispatch status says is true |
| **Sessions** `platform/auth`, `features/auth/api` | `auth_sessions`, `users`, `password_resets` | signup, login, refresh, logout, reset | concurrent refreshes of one token, refreshes next to revocations | what was revoked is over; what is to be used once is |
| **Identity/SSO** `features/identity/api` | states and tickets | start, callback, exchange of the ticket | read as unused, marked as used in two calls | likewise |
| **Credentials, providers, settings, AI, catalogues, observability, bootstrap** | single documents, external services | CRUD, probes, encryption, proxying | – | – |

Interactions: creations (users, approved reviews, rules, updates of services, worker restarts) insert
operations; the queue only tells workers to look; claims gate effects, effects write deploys, services
and rules; phase reports write deploys next to the effects; the idempotency filter wraps every
mutating user request, and therefore the creations; governance stands between requests for deploys
or publications and their creations; pool switches and heartbeats decide whether they are admitted.

## 2 Plan

The order follows the importance of the behaviour: the claim protocol decides everything else.

1. `OperationLifecycle` (abstract), `OperationClaims` implementing it, with liveness. **done**
2. `DeployStates` (the transition function), `ServiceDeploy` composing claims with deploys. **done**
3. `DeployLogs`: the report handler in full. **done**
4. `IdempotencyKeys`. **done**
5. `GovernanceApproval` (approvals and their execution). **done**
6. `OperationRuns`: the claim protocol as the components see it, and on it `ServiceDeletion` and
   `RulePublishing`. **done**
7. `AutoDeployLease`, `OperationDispatch` (broker, confirmations, polling, restarts). **done**
8. `WorkerPools`, `DeployResolution`, `ServiceSettings`, `TrafficSwitch`. **done**
9. `AccountSessions`: sessions, password resets, single sign-on. **done**
10. `ClaimsAsRuns`: the claim protocol implements the positions of `OperationRuns`. **done**
11. A theorem for every property of the passing runs that is not liveness. **done**
12. Abstract specifications of what handlers promise: `ServiceSlot`, `DeployReports`,
    `KeyedHandlers`, with proofs that the detailed modules implement them. **done**
13. Left: the rate limiter and `StatusStream`; liveness of a queued operation through broker or poll.

## 3 Modules

Modules named `MC...` only instantiate a module for TLC (symmetry, model values). Modules named
`...Proofs` hold its theorems.

**Mutated forms.** An operator `X_Something`, placed before `X` and commented "Mutated form", is
not part of the specification: it is `X` with a plausible bug. Replacing the body of `X` by it must
make TLC report the property it is listed for in `PROJECT.json`; this is how each property is known
to depend on the code.

### OperationLifecycle, OperationClaims

`OperationLifecycle` is the promise: an operation is created, owned by at most one worker, reported
by its owner, or taken back by recovery, which counts, and ends exactly once.

`OperationClaims` is the code: `op[o]` is a document of the `operations` collection, `upd[r]` a
running `UpdateOperationStatus`, `rec[s]` a running sweep. A request is split at its database calls:

| code (`handlers.go`) | actions |
|---|---|
| 125–197 load, ownership and status checks | `BeginClaim`, `BeginRenew`, `BeginReport` |
| 199–226, 284–330 conditional update of a claim or renewal | `ClaimWrite`, `RenewWrite` |
| 239–266 reservation: extends exactly the lease that was read | `Reserve` |
| 268–282 effects | `Apply` |
| 303–330 publication under the reservation | `Finish` |
| `apply.go` 15–50 start effects after a claim | `StartEffect` |
| any early end | `Abort` |

The sweep (`stale_claim_recovery.go`) is `RecoverScan` (the cursor, sorted and limited),
`RecoverWrite` (the conditional update for one scanned operation), `RecoverSettle` (what follows a
successful write), `RecoverEnd`.

Time is discrete and relative: `lease` is `leaseExpiresAt` minus now. It is floored at `-DBTimeout`:
nobody compares older values, except with the value a request remembers, and a request lives at
most `DBTimeout`. `Tick` requires every request older than that to be over. A lease is computed at
some moment between the start of the request and its write (`NewLease`).

### DeployStates, ServiceDeploy, ServiceSlot

`CanTransitionDeployStatus` is the function of `deploy_states.go`, table and ranks.
`ServiceDeploy` is one (service, environment) pair with the deploys that are created for it:
operation `o` belongs to deploy `o`. It EXTENDS `OperationClaims`, adds `deploy`, `cre` (the
creation request of each deploy, with the liveness of its context) and `decision` (the status
`applyOperationFailure` chose from the deploy it read), and refines `StartEffect`, `Apply` and
`RecoverSettle` with their effects. `PersistDeploy` and `PersistOperation` are the two inserts of
`CreateDeploy`, `Compensate` its compensating delete. `ReportPhase` abstracts `AppendDeployLogs` to
its effect on the status.

A sweep publishes a failure and applies it to the deploy in separate calls, and ignores errors of the
second. `Failing(s, o)` is the state in between, and the history variable `orphaned` the operations
whose failure a sweep published and left unapplied (`LeaveUnsettled`).

`ServiceSlot` is the promise about the slot of a service and environment: a lock. A deploy waits, holds
it, and is over; it takes a free slot at most once or is refused; its operation is queued while it
holds the slot; nothing hands the slot back to a deploy that is over. `ServiceDeploy` implements it
(`ImplementsSlot`) with the key of the deploy and the position of its creation for the stage.

### DeployLogs, DeployReports

One deploy, the requests of `AppendDeployLogs` (read, compare-and-set, recheck and answer) and the
other writers of the status. A batch is numbered (it carries a batch id and is entered in
`appliedLogBatches`) or plain, and may report a phase. `DeployReports` is the promise: each accepted
batch takes effect at one moment, at which its phase was a legal successor of the status and, if it
is numbered, its lines were not in the log yet. `ImplementsReports` states that the requests of
`DeployLogs` implement it.

### IdempotencyKeys, KeyedHandlers

One key and the requests that carry it, with either backend (`durable`, which Init chooses). Mongo's `start` is three
calls (`Insert`, `Evict`, `Reinsert`), memory's is one critical section (`Start`). A request keeps
the `now` it computed at its beginning, and every comparison and expiry is relative to it
(`LeftFor`). `Disconnect` ends the request's context while its handler goes on; `Restart` is a crash
of the process, which loses the memory backend; `TTLMonitor` is the TTL index.

`KeyedHandlers` is what the handlers behind the filter see: a request runs its handler alone and once,
or is given the response of a success or none; while no success is older than TTL, and the backend is the
database, no handler runs again. `ImplementsHandlers` maps `Phases`, `Results`, `Answers` and `Old` to it.

### GovernanceApproval

The approvals of one gated deployment. A gated request is `FindPending` and `InsertApproval`. A
review is `Load` (the read and everything computed from it), the calls of `executeApprovedDeploy`
for the deciding review (`CheckDeploy`, `InsertDeploy`, `QueueOperation` and their failures) and
`Record`, the unconditional update at the end. `ExtractApprovalReviews` yields nothing, whatever is
stored: an array read from the database is a `primitive.A`, for which the code has no case. So a
review finds no earlier one, `HasReviewed` refuses nobody, `FinalStatus` counts the new review alone,
and `Record` overwrites the list. The list of reviews is the set of the requests whose
entries it holds; `after` is a history variable, the reviews that had been answered when this one
began. A worker's part in the deploy is reduced to `DeployEnds`, which frees the slot;
that an ended deploy frees it is what `ServiceDeploy` is about.

### OperationRuns, ClaimsAsRuns

`OperationRuns` is what `OperationClaims` promises the components whose operations it carries: an
operation has one position at a time (queued, claimed, reserved by a terminal report, ended; or
given up by recovery, whose effects follow and may be lost). `ServiceDeletion`, `RulePublishing` and
`OperationDispatch` EXTEND it and conjoin their effects to its actions. Two requests of one worker
about one operation may overlap: then the effects of a claim, or of a report that was given up, run
during or after a later report. For the operations in `Overlapping`, `starting`, `reported` and
`applied` remember such effects; for the others they are dropped, which is the bound the runs use
(`Overlapping = {}`). The proofs hold for any.

That one position is enough rests on no request acting in its last tick under a lease of only two
timeouts (`Prompt`, see section 4).
`ClaimsAsRuns` makes this precise. `run` is a history variable of `OperationClaims`: every step of the
protocol determines its next value and none is prevented by it (`RunsNext` is `Next`, action by
action). `Runs` is `OperationRuns` with `Overlapping <- Op`, and `ImplementsRuns` says that `run`
follows its specification and that the status in the document is the status of the position.

`OperationDispatch` has one step that `OperationRuns` has not, and no refinement to it: the
failure of a publication sets a restart to failed, wherever a worker is with it.

### ServiceDeletion

One service, its rollouts (one per environment) and its deletions. `BeginDelete` is the check for
work in progress, `MarkDeleting` the write of the status, `QueueCleanup` one insert of the loop,
`DeleteNow` the case without anything to clean up, `StopDelete` an early end. The operation that request
`d` queues for environment `e` is the pair `<<d, e>>` (`CleanupOp`). The success effects of
a cleanup are `CountPending` (the count of the other cleanups of the request) and `RemoveService`
(what follows a count of zero).

### RulePublishing

One rule, up to a few requests about it, and the operations they queue. The gateways and status of a
rule, the approval of a publication and the operations are separate documents; a request goes from
call to call (`CheckRuleOps`, `MarkRule`, `QueuePublish`, ...) and may stop anywhere (`StopRule`).
`PromoteRule` and `RejectRule` are the decisions on the approval, `ApproveRule` begins its execution.
`CompleteRule` and `FailRule` are the effects, with the restoration of saved gateways.

### OperationDispatch

From the insert of an operation to its claim: `InsertOperation`, `MarkAttempt`, `SendMessage`, the
broker's answer and its reception, `MarkDispatched` or `RecordFailure` (which fails a restart). The backlog is
sorted by a second and then by a random identifier, so an insert may land anywhere in it. The
request may be cut off anywhere. A worker claims whatever is queued, told by a message or by a poll;
`Queued` and `Fair` are the list `GetOperations` offers a polling worker; `Fair` sorts pairs of a turn
and a position, as the round-robin of the code takes the n-th operation of every resource before the
n+1-st of any.

### AutoDeployLease

The three calls of `AcquireAutoDeployLease` (`UpdateLease`, `InsertLease`, `ReadLease`), all with the
time at which the request began, and what each worker believes afterwards. Time is relative, as in
the claims.

### WorkerPools

Registrations, replicas and the switches of one pool; heartbeats as sequences of calls; the listing
that marks registrations inactive; and the two views computed from all that: the inventory
(`CapacityState`, `Saturation`) and the admission check (`HasActiveWorker`). Sums over groups are the
sizes of unions. A heartbeat or an update stores any status: the inventory reads it in lower case
(`ToLower`) and takes all but "offline" for an agent that is there, admission knows three names in
lower case. `Misread` are the workers about which the views disagree for that reason, and
`AdmissionAgreesWithInventory` says that there is no other reason. Between the registration check of
the middleware and the time a heartbeat writes lies the reading of its body, up to the server's
`ReadTimeout` of 30 s (`BeatLimit`).

### DeployResolution

The lookups of a deploy, a promotion or a build: commit, builds of the environment, builds of any,
the image of the service, the releases of another environment. A version that is an image reference
needs no lookup, unless it ends in `:latest` and is an alias (`ReferenceOf`, `Aliases`). Records are kept in the order they were
inserted, so the newest of a set of them is its greatest position. `before` remembers what was there
when the request began.

### ServiceSettings, TrafficSwitch

`ServiceSettings`: normalisation and merge of an update, the refusal for observed services, and what
it queues (scale operations, rule publications, rollouts of a changed schedule), runtime reports,
and the restoration by a failed scale operation, which may come after the workload was scaled
(`ScaleFailed`, `ScaleLate`). Rules that cannot be read, written or queued are skipped (`SkipRules`), and a
publication may fail. `TrafficSwitch`: blue-green switches and canary
promotions, their effects on the latest deploy, the worker's record of the new slot, clients that
save a strategy read earlier. A switch or promotion is a record of `moves`: what the operation
carries and how far its worker is. A deploy is the latest from its insert, failed ones included; one is under
way per environment at a time, which is what `ServiceDeploy` shows. The workload and the traffic are the worker's; they follow from
what the operations carry. Both modules have a history variable, and their properties are about
behaviours that keep it. `calm` is lost once updates, operations and reports overlap or an update
brings the status with it; what failures and stops may have left undone is collected in `unapplied`,
and the property says what remains true without it. `orderly` is lost once two
activities meet in one environment (`Activity`), two copies of the strategy are held at once
(`Copies`), a worker dies half-way through a move, or a client changes the type and drops the slots.

### AccountSessions

The sessions and grants (password resets, sign-on states, sign-on tickets) of one email address, whose
users follow each other when an account is deleted and signed up again. A request goes from call to
call (`authReq[r].pc`). `epoch` counts the revocations of all sessions of a user; a session has the
epoch of the login it descends from, and `late` says that a revocation overlapped a request of its line.

### Modules that host several parts

`MCDeployScenarios` runs `ServiceDeploy` in one of two scenarios. `MCLogsAndServices`,
`MCKeysAndDispatch`, `MCGovernanceAndRules` and `MCServiceParts` each hold parts that share no
variable: `part` chooses one in `MCInit`, the others stay as they began. As no action of a part
reads a variable of another, the behaviours of the run are exactly those of its parts, one after the
other, and an invariant of a part is checked on all of them. That a composed run follows the
specification of each of its parts is the theorem `PartsFollowTheirSpecs` of each of the four, and `PartsTypeOK`
conjoins the type invariants of the parts. In the scenario of two creations, the
one whose insert ends first is called `o1`, no sweep runs, time only passes for operations that ended, and
no phase rolls back; in the other scenario the context of the creation lives on. `MCServiceParts` follows the settings
and the switches only as long as `calm` or `orderly` holds: neither ever becomes true again, and the
properties that mention them hold of every state without.

## 4 Runs

| run | instance | shows |
|---|---|---|
| `claims` | 1 operation, 2 workers, 2 requests, 2 sweeps, leases of 3 timeouts, limit 3 | types; the protocol implements `OperationLifecycle` and `OperationRuns`; no recovery between a claim or reservation and its last write |
| `claims_live` | 1 worker, 2 requests, 1 sweep, leases of 2 timeouts, limit 2 | abandoned operations end; expired claims move; effects are fenced up to the last tick of a request |
| `deploys` | 2 creations racing for a slot with one request; or 1 deploy, 2 requests, 1 sweep, phase reports | the slot has one holder, an active one, and is a lock (`ServiceSlot`); an end that was published released it, unless a sweep left the failure it published unapplied |
| `deploys_ended` | 1 deploy, 1 request, 1 sweep | **violation**: a late mark revives a completed deploy |
| `deploys_compensation` | 1 creation | **violation**: the compensation deletes nothing |
| `deploy_logs`: logs | 3 batches (2 numbered), 2 requests, 2 deliveries each | at most one append; phases do not regress; reports are atomic (`DeployReports`) |
| `deploy_logs`: deletion | 2 deletions, 2 environments, recovery gives up at once | a removed service stays removed; removal follows the cleanups that were counted; a lone cleanup removes |
| `deploy_logs`: pools | 1 registration, 2 replicas, 4 reported statuses, ages up to the stale age | admission agrees with the inventory unless a worker is misread; what was deleted falls silent |
| `deploy_logs_accepted` | 2 batches of one phase | **violation**: an accepted batch is dropped |
| `idempotency`: keys | 3 requests, either backend, TTL 4, requests live 2 ticks | exclusion, separation of successes, faithful replays; one handler, called once (`KeyedHandlers`) |
| `idempotency`: dispatch | 3 operations of 2 resources, one a restart | the dispatch status is true; polls are fair |
| `idempotency`: lease | 2 workers with different durations, 3 requests | one auto-deployer, but for overlapping requests of one worker |
| `idempotency_stuck` | the keys | **violation**: a key stays "processing" |
| `governance`: approvals | 2 gated requests, 3 reviews, 1 or 2 approvers required | an answered decision is final; where several approvers are required nothing is approved; executions exclude each other; the execution record is true |
| `governance`: rules | 3 requests about a rule, 2 operations | external exposure is approved; a published rule has gateways |
| `governance_rejected` | 1 gated request, 3 reviews, 1 approver required | **violation**: a rejected approval was executed |
| `services`: resolution | 3 builds and releases recorded meanwhile, 9 kinds of request | the image is as named |
| `services`: settings | 2 updates from 7 payloads, 1 environment | settled means applied, up to what failed or was skipped |
| `services`: switch | 2 switches or promotions, 2 environments, 2 deploys each | a switch names the live slot |
| `services`: account | 3 requests of an account | revocation ends sessions; grants and refresh tokens are used once |

Why the bounds suffice. Operations are independent of each other except through a sweep's batch
and a slot; one operation shows every race on a document, two every race for a slot. Two requests
and one sweep give every pair of concurrent writers, the second sweep two sweeps with the same scan.
Durations only matter by their order
(against `DBTimeout`, twice `DBTimeout`, and each other), which the small instances keep: `claims`
grants leases of 3 timeouts, as the default of the code (120 s, 8 timeouts) is longer than two, and
`claims_live` leases of exactly two, the smallest the code grants (30 s,
`minOperationClaimLeaseTTLSeconds`). There is one difference: under the short lease, a request may still
act in its last tick, at its own timeout, when its operation is taken back. It takes a renewal as slow as
the request itself, which read the claim before the reservation and writes after it: the lease of the
reservation is replaced by one that was computed earlier. `EffectsFenced` excepts that tick, and only
for such leases; without the exception TLC finds the violation in `claims_live`. `claims_live` has a timeout of
one tick, so it fences the first tick of a request; the theorem covers any timeout. A recovery limit of 2 or 3 has a requeue
before a failure. In the runs on `OperationRuns`, requests of one worker about one operation do not
overlap (`Overlapping = {}`). For keys, three requests are an owner, a
rival that evicts, and one that replays; `MaxAge < TTL` stands for requests that are shorter than
the 10 minutes of the key (`idempotency.go:22`). In governance three reviews are a decision, a rival and a late
one; who reviews makes no difference, since no earlier review is found. Two
deletions of two environments are the smallest instance in which a count has something to count and
something to overlook. For a rule, three requests are two that publish different gateways and one
that takes them back, two operations one that fails after the other. Two replicas are one that beats
while the other is deleted, and the four statuses are two that both views know, one in another case, and
one that neither knows. For the lease, three requests are two of one worker that overlap and one
of its rival. Three requests
of an account are a refresh, a rival and a revocation; sessions and grants given before are chosen
initially. Where parts have a choice in `Init`, the parts that are not run are pinned to one. The
proofs of section 6 hold for all values of these constants, overlapping requests included.

Deadlock checking is switched off where the model really may stop: bounded deliveries, requests that
each happen once, services that are gone. Elsewhere (`claims`, `claims_live`, `deploys`) TLC checks it.

## 5 Fairness

Only `claims_live` uses fairness (`LiveSpec`). Safety needs none. It assumes
- time passes, and a request is driven to its next call or to its end: a running handler always
  returns, because its context ends after `DBTimeout`;
- a sweep that runs goes on or ends;
- workers keep claiming queued operations and keep calling the recovery endpoint (they do both on a
  timer), and again and again such a call gets through (strong fairness): a rival's write or an
  aborted request may beat it any number of times, but not for ever.

Nothing is assumed of workers once they have claimed: they need not renew or report.
`AbandonedOperationsEnd` is about runs in which, from some point on, they do not (`WorkersSilent`).

## 6 Proofs

| module | theorem | says |
|---|---|---|
| `OperationClaimsProofs` | `ClaimsInvariant`, `ClaimsTypeCorrect` | the inductive invariant; types |
| | `EffectsAreFenced` | `EffectsFenced`, for every lease the API grants |
| | `ClaimsImplementLifecycle` | `OperationClaims` implements `OperationLifecycle` |
| | `ClaimsImplementRuns` | as long as `Prompt` holds, it implements `OperationRuns` (`ImplementsRuns`); `LongLeases` implies `Prompt` |
| `OperationRunsProofs` | `RunsImplementLifecycle` | `OperationRuns` implements `OperationLifecycle`, with late effects and without |
| | `DeletionsFollowRuns`, `RulesFollowRuns` | `ServiceDeletion` and `RulePublishing` implement `OperationRuns` |
| | `DispatchTypeCorrect`, `DispatchTells`, `PollsAreFair` | types; what the dispatch status says is true; polls are fair |
| | `DeletionTypeCorrect`, `LoneCleanupSuffices`, `RemovalIsFinal`, `RemovalComesLast` | types; a lone cleanup removes; a removed service stays removed; the removal follows the cleanups that were counted |
| | `RuleTypeCorrect`, `PublishedIsAttached`, `ExposureNeedsApproval` | types; a published rule has gateways; no external exposure without an approval |
| `ServiceDeployProofs` | `DeploysFollowClaims`, `DeploysImplementLifecycle` | every step of `ServiceDeploy` is a step of `OperationClaims` or leaves its variables alone, so operations still live the abstract life |
| | `DeployTypeCorrect`, `SlotIsExclusive`, `PublishedAfterRelease` | types; the slot; the order of release and publication |
| | `DeploysImplementSlot` | `ServiceDeploy` implements `ServiceSlot` |
| `DeployPartsProofs` | `ResolutionTypeCorrect`, `VersionsAreAsNamed` | types; the image is as named |
| | `SettingsTypeCorrect`, `UpdatesTakeEffect` | types; settled means applied, up to what was lost |
| | `SwitchTypeCorrect`, `SwitchesAreLive` | types; a switch names the live slot |
| `WorkersProofs` | `LogsInvariant`, `LogsTypeCorrect`, `DeliveredAtMostOnce`, `ReportsProgress` | the inductive invariant; types; a numbered batch enters once; reports do not regress |
| | `ReportsAreAtomic` | `DeployLogs` implements `DeployReports` |
| | `PoolTypeCorrect`, `DeletedWorkersGoQuiet`, `InventoryAgrees` | types; what was deleted falls silent; admission agrees with the inventory unless a worker is misread |
| `IdempotencyKeysProofs` | `KeysTypeCorrect`, `HandlersExclude`, `SuccessesAreApart`, `ReplaysAreFaithful` | types; exclusion; separation; replays |
| | `KeysImplementHandlers` | `IdempotencyKeys` implements `KeyedHandlers` |
| | `LeaseInvariant`, `LeaseTypeCorrect`, `LeaseIsExclusive` | the inductive invariant of the lease; types; one auto-deployer |
| `GovernanceApprovalProofs` | `ApprovalInvariant`, `ApprovalsTypeCorrect`, `DecisionsFinal`, `SeveralApproversNeverDecide`, `OneActiveExecution`, `QueuedMeansQueued` | the inductive invariant; types; a decision is final; several approvers never decide; exclusion; the record of the execution |
| `DeployPartsProofs`, `WorkersProofs`, `IdempotencyKeysProofs`, `GovernanceApprovalProofs` | `PartsFollowTheirSpecs`, `PartsTypeCorrect` | the parts of a composed run follow their specifications; all of them keep their types |
| `AccountSessionsProofs` | `AccountTypeCorrect`, `RevocationIsFinal`, `GrantsAreUsedOnce` | types; a revocation ends every session it did not overlap; what is to be used once is |

The assumptions are those the modules state on their constants (`ASSUME`): an idle worker id is
not a worker, `2 * DBTimeout <= MinTTL <= DefaultTTL <= MaxTTL` (15 s, 30 s, 120 s and 600 s in the code),
`MaxAge < TTL`, and so on. TLC
evaluates them in every run.

**Claims.** `EffectsFenced` is not inductive: that nobody takes the operation away follows from the
lease, and the lease from what the request established. The invariant relates a request that has
written to the stored claim: while the claim is the request's own, the lease has at least
`ttl - age` left, where the age is at most `DBTimeout`, so it cannot expire before the request
must end. A sweep's snapshot was expired when it was taken, so as long as its lease is the stored
one, the stored one is expired; a reservation or a renewal makes them differ for as long as the
sweep can live. A lease of two timeouts lasts one for the slow renewal that writes it and one for the
request it has to outlive, but for the last tick (`Protected`; `Margin` is the tick that longer leases add).
For the refinement, a scanned recovery count equals the stored one whenever the lease does:
otherwise two sweeps could count one expiry twice.

**From claims to runs.** `RunsInv` relates each document to its position: status, count of recoveries,
the finalization of a reservation, and that the effects a request is about to run, or has run, are in
`starting`, `reported` or `applied`. A recovery resets a position, which must not have such effects
left: that is `EffectsFenced` together with `Prompt`, and the only use of `Prompt`. That one sweep at a time settles an
operation it gave up follows from the conditional write, which leaves nothing for the other to match.
With `ClaimsImplementRuns` above and `DeletionsFollowRuns` and `RulesFollowRuns` below, deletions and
rules need to know nothing of leases.

**Deploys.** `SlotIsExclusive` follows from: a key is only inserted when nobody has one, and only
kept by writes of blocking statuses. `PublishedAfterRelease` needs that a request past its effects
has released the slot (`Released`) and that only a creation before its operation exists can set the key
(`Existence`). What is left are failures that sweeps published: their operation has no owner, and
the sweep either is between publication and effect (`Failing`) or has left it there (`orphaned`).
The failing sweep frees the slot when it writes, whatever came in between.

**The slot as a lock.** `DeploysImplementSlot` needs two more facts. `Staged`: a creation holds no key
before its insert, and between its inserts holds the key of a deploy whose operation does not exist.
`Backing`: what is leased or being recovered exists. With it, every write that may free a slot is about
a deploy whose operation exists, so never about one between its inserts. Each step then frees
at most one slot (`SlotEnds`) and is a `Free` or a stutter; the steps of a creation are `Take`, `Refuse`,
`Queue` and, for its compensation, `Free`.

**Deletions.** `LoneCleanupRemoves` speaks of a published success; inductive is that the service is
gone from the effects on (`LoneSuccessRemoves`), whichever request applied them, since later cleanups
only make the count larger. What a cleanup counted had succeeded (`CountedSucceeded`), and a
published success is final, late effects or not.

**Rules.** A failed operation restores what its request had read, so the properties hold of the
document only because the same is true of every copy of it: in a request, in the payload of an operation,
and of the gateways on their way into it (`SoundRule`, `MayAttach`). `granted` only grows.

**Polls.** `Sorted` counts how many members of a finite set come before each; that this is a
permutation follows by cardinality from the order being total (`SortedMembers`). `BacklogInv` says
that the backlog has no repetition, because a request inserts once, after its check. Fairness is then about
ranks: what precedes the n-th of the list has at most its rank k, so at most k operations of any other
resource do, and of its own resource all k (`RoundsAreFair`).

**Pools.** A registration counts from its deletion. A heartbeat passed the middleware before, waits at
most `ReadTimeout` for its body, and what it writes is no younger than its handler, whose context ends after
`BeatTimeout`: so the deletion is at most a `ReadTimeout` older than the beat of a worker that is still
listed (`BeatsLinger`). The agreement of the views needs no invariant beyond types: both are functions of one
state, and the proof compares their case distinctions, with the cardinalities of the groups they count
(`IdlePoolScores`, `BusyGroup`: capacity or saturation shown means a worker that is not offline).

**Logs.** Between read and compare-and-set a request knows what it read; the set of applied batches
and the status in the filter make the update a no-op if a rival came first. An update that matched is
therefore the atomic `Append` of `DeployReports`, every other step of a request a stutter (`WriteIsAppend`).

**Keys.** The owner of a key is the request that inserted the entry and still runs; the invariant
says that whenever a request runs, the entry is there, is its own, is in state processing and has
at least `TTL - age` left. As `age <= MaxAge < TTL`, nobody may evict it and the TTL index leaves it
alone. After a success, an entry with enough left remains until every rival that compares with an
older `now` is over. For `KeysImplementHandlers`, an insert or eviction that succeeds is a `Start`:
the invariant excludes a running handler and, with the database, a success that is not old.

**Approvals.** An answered review that decided left an approval that is not pending, and nothing makes
it pending again (`DecidedInv`): what loads afterwards is refused, whatever the reviews that loaded before
still write. A review counts itself alone (`CountsItselfOnly`), so it approves only where one approver
is required (`ApprovesAlone`), and only an approving review executes (`DeployInv`). Where several are
required, no approval is therefore ever approved.

**Lease.** What a worker believes is at most what is left of the stored lease, and a request that has
been granted it finds it still there, because it is over before the lease is (`LeaseTimeout <
MinLeaseTTL`). The worker's own requests spoil this when they overlap: the slower one writes the
expiry computed from its earlier start (`overlapped`).

**Resolution.** Records are only added, so a release without images when it is tried had none
when the request began: every release it found then is still to be tried or was `Lost` already.

**Settings and switches.** Both invariants are implications from the history variable. In a calm
behaviour, what does not agree yet between document and workload is the work of one operation, or
of rollouts still to be queued; between a write and its operations, what the request had found
agreed (`ApplyKnows`, `Settling`), and a step that fails adds what it leaves behind to `unapplied`. In an
orderly one, the slot on record is the one
of the traffic unless a move is between the two (`EnvInOrder`), and whoever holds a copy of the
strategy holds the current one.

**Dispatch.** The position of a request tells what it has recorded and what the broker has answered
(`SenderKnows`); nobody else writes the dispatch status.

**Sessions.** A revocation raises the epoch of its user and revokes what is there. The invariant says
what a refresh that has read its session knows: unless the epoch rose since, the session is of this
epoch; if it rose, the session the refresh issues is late. Signups, resets and sign-ons issue
sessions of the epoch at which they began. For `UsedOnce` (`OnceInv`), a refresh remembers how many
sessions there were when it read: none of these descends from its token, or the mark of the token was
lost. The types need that a parent is older than its child and `since` no later than the epoch
(`LineInv`).

Only model-checked:
- liveness (`AbandonedOperationsEnd`, `ExpiredClaimsMove`), which needs fairness and ENABLED and is out
  of the prover's reach;
- the violations, which are counterexamples.

Every other property of every passing run is a theorem. No module declares a recursive operator.

## 7 Findings

Runs marked **violation** exhibit a disagreement between the code and what its own comments, tests
or messages say; `PROJECT.json` quotes them.

- `deploys_ended`: the `retrying` mark that follows a recovery is unconditional and may be late; it
  revives a completed deploy for good. The same write can make two deploys of a service and
  environment active (a phase report ends the first, recovery marks it after the second was created).
- `deploys_compensation`: the compensating delete of a creation runs on the context whose end made
  it necessary.
- `deploy_logs_accepted`: a batch that lost the race to a different batch of the same phase is
  answered 204 and dropped.
- `idempotency_stuck`: the key of a request whose client went away stays in state processing.
- `governance_rejected`: the update of a review is unconditional; a rejection overwrites an executed
  approval. For the same reason, concurrent reviews drop each other's entries.

Not a contradiction of a stated promise, but worth knowing: recovery publishes a failure before its
effects, so a sweep that stops in between, or whose effects fail, leaves a failed operation with an
active deploy that no later sweep revisits. `PublishedOperationFreesSlot` says that nothing else does.

**Arrays read from the database.** The driver decodes an array inside a `bson.M` as a `primitive.A`, which a
`case []interface{}` does not match; the comment at `platform/utils/helpers.go:65` says so, and some readers
have a case for it. Three have not, and their unit tests pass slices of another type:
- `extractApprovalReviews` (`approval_execution.go:18-36`) finds no stored reviews. An approval that
  requires two approvers or more never leaves pending by approval, although each review is answered
  "Approval recorded. %d more approval(s) required." (`handlers.go:608`); one person may review twice; each review
  overwrites the list. `SeveralNeverDecide` shows it; as a property of every state it needs no
  counterexample, so there is no violation run of its own.
- `ToInterfaceSlice` (`helpers.go:82-92`) returns nil for the stored rules of the deploy policy, so
  `NormalizeDeployPolicyRules` (`governance.go:191-195`) yields none and the loops over rules (`:455`, `:649`) block nothing.
  The policy gate is therefore not modelled: with stored settings there is no decision to state anything about.
- `extractActionResources` (`approval_execution.go:373-392`) drops the resources of an approved deploy from the
  payload of its operation; the rendered `resourcesYaml` is kept.

More that the modelling showed, without a run, because no comment, message or test states the opposite:
- Any status a worker reports is stored (`workers/api/handlers.go:459`, `:508`): "Online" or "draining" counts as an
  agent in the inventory (`:671`, `:758`) and not for admission (`worker_availability.go:21`, `:151`).
- A scale operation that fails after it scaled, or is given up by a sweep while its worker goes on, gives the
  document the availability of before (`apply.go:657-668`); rules that cannot be rewritten for a new port are
  skipped and the error at most logged (`:325-369`).
- A worker that asks for the shortest lease, renews slowly and reports at the same time can have its operation
  requeued in the last instant of the report's effects (section 4).
- Observed services: `handlers.go:373-380` of `features/services/api` decides from the payload's mode; a payload without one
  is taken as managed, so the fields that are refused for observed services pass. The tests
  (`actions_unit_test.go:203-256`) always send the mode.
- `handlers.go:406` announces a scale operation "when replicas or instance type change"; `replicas`
  alone queues none. A change of the schedule is skipped while a deploy is active (`:1149`). An
  update that names the strategy type drops the slots of the environments (`:690`).
- Two switches of one environment are checked and then inserted (`actions_deploy_helpers.go:1195`);
  the promotion of a release without commit may pick a build that was never deployed (`:218`).
- Two cleanups that finish together count each other and leave the service in place; a rule whose
  publication was cut off stays queued, and its deletion is refused (`rules/api/handlers.go:598`).
- Maintenance and drain of a pool exclude each other only by a check before the write
  (`pool_controls.go:196`), so both may be on.
- A restart is set to failed although a worker may have claimed it; a confirmation that comes late
  counts as a failure.
- Two refreshes of one token both succeed when they overlap. A refresh that was under way survives a
  logout or reset. A password changed in the profile revokes no session (`profile/api/handlers.go:113`). A reset token
  is spent even if the steps after it fail.

## 8 Not modelled

`PROJECT.json` lists every component with its status. What is left of the plan is in section 2. Left
out for good: the deploy policy and its exceptions (section 7), rendering (desired state, GitOps, resources), encryption, cookies and access tokens,
probes and proxies of external services (providers, AI, settings health), the protocol with an
identity provider and `idp_sessions`, plain create-read-update-delete handlers on single documents,
read-only observability, and start-up, which runs before any request. In `AccountSessions`: the
password change of the profile, refreshes with a hash that does not match, CSRF tokens, the rate limiter. Abstracted
inside the models: payloads, wording, audit records and notifications; the validation of requests
that are refused before they read shared state; several services, accounts, rules and pools (documents
of different ones do not meet).

## 9 Running it

In this directory: `tlc -workers 2 -config claims.cfg MCClaimsAsRuns.tla` (any cfg with
the module `PROJECT.json` names for it) and `tlapm OperationClaimsProofs.tla`. No run takes more
than three or four minutes; the proofs take a few minutes per module from nothing.
