------------------------- MODULE ServiceDeployProofs -------------------------
(***************************************************************************)
(* Proofs about ServiceDeploy, for any number of deploys, workers,         *)
(* requests and sweeps and any phases workers report.  The facts about the *)
(* operations collection come from OperationClaimsProofs, because every    *)
(* step of ServiceDeploy is a step of OperationClaims or a stutter; the    *)
(* slot of the deploys implements the lock of ServiceSlot.                 *)
(***************************************************************************)
EXTENDS ServiceDeploy, OperationClaimsProofs

\* The steps of the claim protocol on behalf of requests, sweeps and time.
ClaimStep ==
    \/ \E r \in Req : Begin(r) \/ Advance(r) \/ Abort(r)
    \/ \E s \in Sweep : RecoverScan(s) \/ RecoverStep(s) \/ RecoverEnd(s)
    \/ Tick

\* An operation exists once its creation queued it, and a request only ever
\* works on an operation that exists.
Existence ==
    /\ \A o \in Op : cre[o].pc \in {"new", "insert"} => op[o].status = "absent"
    /\ \A r \in Req : upd[r].pc # "idle" => op[upd[r].op].status # "absent"

\* The failure of o was published by a sweep that has not applied it.
Unapplied(o) == o \in orphaned \/ \E s \in Sweep : Failing(s, o)

\* A request about to publish a terminal status has freed the slot.
Released == \A r \in Req : upd[r].pc = "finish" => ~ deploy[upd[r].op].key

SlotInv == /\ DeployTypeOK /\ Existence /\ Released
           /\ SlotHeldByActiveDeploy /\ PublishedOperationFreesSlot
-----------------------------------------------------------------------------
(* Refinement *)

\* A step on the deploys is a step of the claim protocol, or a stutter.
LEMMA DeployStepIsClaimStep == ASSUME [DeployNext]_allVars PROVE [Next]_vars
BY DEF DeployNext, SettledNext, LeaveUnsettled, allVars, vars, Next, Advance, RecoverStep,
       CheckActive, Disconnect, PersistDeploy, PersistDeployFails, PersistOperation, PersistOperationFails, Compensate,
       ReportPhase, StartDeploy, CompleteDeploy, FailDeploy, DecideFailure, MarkRetrying,
       FailRecovered

\* The deploys of a service leave the claim protocol as it is: whatever is
\* proved of OperationClaims holds with deploys, their creations and reports.
THEOREM DeploysFollowClaims == DeploySpec => Spec
<1>1. DeployInit => Init
  BY DEF DeployInit
<1>2. [DeployNext]_allVars => [Next]_vars
  BY DeployStepIsClaimStep
<1> QED
  BY <1>1, <1>2, PTL DEF DeploySpec, Spec

\* With deploys, their creations, their compensation and their reports around
\* them, operations still live the life OperationLifecycle promises: one owner,
\* one end, every recovery counted.
THEOREM DeploysImplementLifecycle == DeploySpec => ImplementsLifecycle
BY DeploysFollowClaims, ClaimsImplementLifecycle
-----------------------------------------------------------------------------
(* What a step of the claim protocol does to operations and requests *)

\* What may happen to one operation: nothing that matters here, a claim, the
\* publication of a terminal status by a request that was about to finish, or a
\* recovery that takes the operation away from its worker.
Moves(o) ==
    \/ op'[o].status = op[o].status /\ op'[o].reg = op[o].reg
    \/ op[o].status = "queued" /\ op'[o].status = "in-progress"
    \/ /\ op[o].status = "in-progress" /\ op'[o].status \in Terminal
       /\ \E r \in Req : upd[r].pc = "finish" /\ upd[r].op = o
    \/ op[o].status = "in-progress" /\ op'[o].status = "queued"
    \/ /\ op[o].status = "in-progress" /\ op'[o].status = "failed" /\ op'[o].reg = NoWorker
       /\ \E s \in Sweep : Failing(s, o)'

LEMMA ClaimStepMoves == ASSUME ClaimInv, ClaimStep, NEW o \in Op PROVE Moves(o)
<1> USE DEF ClaimInv, Moves
<1>0. op[o] \in Operation /\ op \in [Op -> Operation]
  BY DEF TypeOK
<1>1. ASSUME op' = op PROVE Moves(o)
  BY <1>1
<1>2. ASSUME NEW r \in Req, ClaimWrite(r) PROVE Moves(o)
  <2>1. CASE Claimable(r)
    <3>0. PICK lease \in NewLease(r) :
            op' = [op EXCEPT ![upd[r].op].status = "in-progress",
                             ![upd[r].op].reg = upd[r].worker,
                             ![upd[r].op].ttl = upd[r].ttl, ![upd[r].op].lease = lease]
      BY <1>2, <2>1 DEF ClaimWrite
    <3>1. o # upd[r].op => op'[o] = op[o]
      BY <3>0, <1>0
    <3>2. o = upd[r].op => op'[o].status = "in-progress"
      BY <3>0, <1>0 DEF Operation
    <3> QED
      BY <2>1, <3>1, <3>2 DEF Claimable
  <2> QED
    BY <1>1, <1>2, <2>1 DEF ClaimWrite
<1>3. ASSUME NEW r \in Req, RenewWrite(r) \/ Reserve(r) PROVE Moves(o)
  <2>1. CASE \E lease \in NewLease(r) :
               op' = [op EXCEPT ![upd[r].op].ttl = upd[r].ttl, ![upd[r].op].lease = lease]
    BY <1>0, <2>1 DEF Operation
  <2>2. CASE \E lease \in NewLease(r) :
               op' = [op EXCEPT ![upd[r].op].finalization = upd[r].result, ![upd[r].op].lease = lease]
    BY <1>0, <2>2 DEF Operation
  <2> QED
    BY <1>1, <1>3, <2>1, <2>2 DEF RenewWrite, Reserve
<1>4. ASSUME NEW r \in Req, Finish(r) PROVE Moves(o)
  <2>0. upd[r].pc = "finish" /\ upd[r].result \in Terminal
    BY <1>4 DEF Finish, Prepared
  <2>1. CASE op' = [op EXCEPT ![upd[r].op].status = upd[r].result] /\ Owns(r)
    <3>1. o # upd[r].op => op'[o] = op[o]
      BY <1>0, <2>1
    <3>2. o = upd[r].op => op'[o].status = upd[r].result
      BY <1>0, <2>1 DEF Operation
    <3> QED
      BY <2>0, <2>1, <3>1, <3>2 DEF Owns
  <2> QED
    BY <1>1, <1>4, <2>1 DEF Finish
<1>5. ASSUME NEW s \in Sweep, NEW stale \in rec[s].batch, RecoverWrite(s, stale) PROVE Moves(o)
  <2>1. CASE StillStale(stale)
    <3>0. op' = [op EXCEPT ![stale.op].status = Disposition(stale), ![stale.op].reg = NoWorker,
                           ![stale.op].finalization = "none",
                           ![stale.op].recoveries = stale.recoveries + 1]
      BY <1>5, <2>1 DEF RecoverWrite
    <3>1. o # stale.op => op'[o] = op[o]
      BY <1>0, <3>0
    <3>2. o = stale.op => op'[o].status = Disposition(stale) /\ op'[o].reg = NoWorker
      BY <1>0, <3>0 DEF Operation
    <3>3. /\ rec[s].pc = "sweep" /\ rec \in [Sweep -> Recovery]
          /\ rec' = [rec EXCEPT ![s].pc = "settle", ![s].op = stale.op,
                               ![s].batch = rec[s].batch \ {stale},
                               ![s].outcome = Disposition(stale)]
      BY <1>5, <2>1 DEF RecoverWrite, TypeOK
    <3>4. o = stale.op /\ Disposition(stale) = "failed" => Failing(s, o)'
      BY <3>3 DEF Failing, Recovery
    <3> QED
      BY <2>1, <3>1, <3>2, <3>4 DEF StillStale, Disposition
  <2> QED
    BY <1>1, <1>5, <2>1 DEF RecoverWrite
<1>6. CASE Tick
  BY <1>0, <1>6 DEF Tick, Operation
<1>7. CASE \E r \in Req : Begin(r) \/ StartEffect(r) \/ Apply(r) \/ Abort(r)
  BY <1>1, <1>7 DEF Begin, BeginClaim, BeginRenew, BeginReport, Arrive, StartEffect, Apply, Abort
<1>8. CASE \E s \in Sweep : RecoverScan(s) \/ RecoverSettle(s) \/ RecoverEnd(s)
  BY <1>1, <1>8 DEF RecoverScan, RecoverSettle, RecoverEnd
<1> QED
  BY <1>2, <1>3, <1>4, <1>5, <1>6, <1>7, <1>8 DEF ClaimStep, Advance, RecoverStep

\* Operations neither appear nor vanish, and a status becomes terminal by a
\* request that was about to publish it, or by a sweep that is to settle it next.
LEMMA ClaimStepOperations ==
    ASSUME ClaimInv, ClaimStep, NEW o \in Op
    PROVE  /\ op'[o].status = "absent" <=> op[o].status = "absent"
           /\ op'[o].status \in Terminal =>
                \/ op[o].status \in Terminal /\ op'[o].reg = op[o].reg
                \/ \E r \in Req : upd[r].pc = "finish" /\ upd[r].op = o
                \/ op'[o].reg = NoWorker /\ \E s \in Sweep : Failing(s, o)'
BY ClaimStepMoves DEF Moves, Terminal

\* A request that is under way works on an operation that exists.
LEMMA ClaimStepRequests ==
    ASSUME ClaimInv, ClaimStep, NEW r \in Req, upd'[r].pc # "idle"
    PROVE  \/ op[upd'[r].op].status # "absent"
           \/ upd[r].pc # "idle" /\ upd'[r].op = upd[r].op
<1> DEFINE Kept == upd[r].pc # "idle" /\ upd'[r].op = upd[r].op
<1> USE DEF ClaimInv, TypeOK, Request, Done, GoTo
<1>i. IdleRequest.pc = "idle"
  BY DEF IdleRequest
<1>1. ASSUME NEW q \in Req, Begin(q) PROVE op[upd'[r].op].status # "absent" \/ Kept
  BY <1>1 DEF Begin, BeginClaim, BeginRenew, BeginReport, Arrive
<1>2. ASSUME NEW q \in Req, ClaimWrite(q) \/ Reserve(q) \/ Apply(q) PROVE Kept
  BY <1>2, <1>i DEF ClaimWrite, Reserve, Apply
<1>3. ASSUME NEW q \in Req, StartEffect(q) \/ RenewWrite(q) \/ Finish(q) \/ Abort(q) PROVE Kept
  BY <1>3, <1>i DEF StartEffect, RenewWrite, Finish, Abort
<1>5. ASSUME NEW s \in Sweep, RecoverScan(s) \/ RecoverStep(s) \/ RecoverEnd(s) PROVE Kept
  BY <1>5 DEF RecoverScan, RecoverStep, RecoverWrite, RecoverSettle, RecoverEnd
<1>6. CASE Tick
  BY <1>6 DEF Tick
<1> QED
  BY <1>1, <1>2, <1>3, <1>5, <1>6 DEF ClaimStep, Advance

\* The claim steps that do not end the effects of a report.
QuietStep ==
    \/ \E r \in Req : \/ Begin(r) \/ ClaimWrite(r) \/ StartEffect(r) \/ RenewWrite(r)
                      \/ Reserve(r) \/ Finish(r) \/ Abort(r)
    \/ \E s \in Sweep : RecoverScan(s) \/ RecoverStep(s) \/ RecoverEnd(s)
    \/ Tick

\* Only the end of its effects lets a request publish.
LEMMA QuietStepRequests ==
    ASSUME ClaimInv, QuietStep, NEW r \in Req, upd'[r].pc = "finish"
    PROVE  upd[r].pc = "finish" /\ upd'[r].op = upd[r].op
<1> DEFINE Kept == upd[r].pc = "finish" /\ upd'[r].op = upd[r].op
<1> USE DEF ClaimInv, TypeOK, Request, Done, GoTo
<1>i. IdleRequest.pc = "idle"
  BY DEF IdleRequest
<1>1. ASSUME NEW q \in Req, Begin(q) PROVE Kept
  BY <1>1 DEF Begin, BeginClaim, BeginRenew, BeginReport, Arrive
<1>2. ASSUME NEW q \in Req, ClaimWrite(q) \/ Reserve(q) PROVE Kept
  BY <1>2, <1>i DEF ClaimWrite, Reserve
<1>3. ASSUME NEW q \in Req, StartEffect(q) \/ RenewWrite(q) \/ Finish(q) \/ Abort(q) PROVE Kept
  BY <1>3, <1>i DEF StartEffect, RenewWrite, Finish, Abort
<1>4. ASSUME NEW s \in Sweep, RecoverScan(s) \/ RecoverStep(s) \/ RecoverEnd(s) PROVE Kept
  BY <1>4 DEF RecoverScan, RecoverStep, RecoverWrite, RecoverSettle, RecoverEnd
<1>5. CASE Tick
  BY <1>5 DEF Tick
<1> QED
  BY <1>1, <1>2, <1>3, <1>4, <1>5 DEF QuietStep

\* The claim steps with which no sweep leaves an operation it recovered.
UnsettledStep ==
    \/ \E r \in Req : Begin(r) \/ Advance(r) \/ Abort(r)
    \/ \E s \in Sweep : RecoverScan(s) \/ \E stale \in rec[s].batch : RecoverWrite(s, stale)
    \/ Tick

LEMMA UnsettledStepUnapplied ==
    ASSUME ClaimInv, UnsettledStep, UNCHANGED orphaned, NEW o \in Op, Unapplied(o)
    PROVE  Unapplied(o)'
<1>0. rec \in [Sweep -> Recovery]
  BY DEF ClaimInv, TypeOK
<1> SUFFICES ASSUME NEW s \in Sweep, Failing(s, o) PROVE Failing(s, o)'
  BY DEF Unapplied
<1>1. CASE UNCHANGED rec
  BY <1>1 DEF Failing
<1>2. ASSUME NEW t \in Sweep, RecoverScan(t) PROVE Failing(s, o)'
  BY <1>0, <1>2 DEF RecoverScan, Failing, Recovery
<1>3. ASSUME NEW t \in Sweep, NEW stale \in rec[t].batch, RecoverWrite(t, stale)
      PROVE  Failing(s, o)'
  <2>1. s # t
    BY <1>3 DEF RecoverWrite, Failing
  <2>2. rec'[s] = rec[s]
    BY <1>0, <1>3, <2>1 DEF RecoverWrite
  <2> QED
    BY <2>2 DEF Failing
<1>4. CASE Tick
  <2>1. rec'[s] = [rec[s] EXCEPT !.age = rec[s].age + 1,
                                 !.batch = {[x EXCEPT !.lease = Earlier(x.lease)] : x \in rec[s].batch}]
    BY <1>4 DEF Tick, Failing
  <2>2. rec'[s].pc = rec[s].pc /\ rec'[s].outcome = rec[s].outcome /\ rec'[s].op = rec[s].op
    BY <1>0, <2>1 DEF Recovery
  <2> QED
    BY <2>2 DEF Failing
<1>5. ASSUME NEW r \in Req, Begin(r) \/ Advance(r) \/ Abort(r) PROVE UNCHANGED rec
  <2>1. CASE Begin(r)
    BY <2>1 DEF Begin, BeginClaim, BeginRenew, BeginReport, Arrive
  <2>2. CASE Advance(r) \/ Abort(r)
    BY <2>2 DEF Advance, ClaimWrite, StartEffect, RenewWrite, Reserve, Apply, Finish, Abort
  <2> QED
    BY <1>5, <2>1, <2>2
<1> QED
  BY <1>1, <1>2, <1>3, <1>4, <1>5 DEF UnsettledStep

\* A sweep that leaves the operation it recovered leaves those of others alone.
LEMMA SettleUnapplied ==
    ASSUME ClaimInv, NEW s \in Sweep, RecoverSettle(s) \/ RecoverEnd(s),
           orphaned \subseteq orphaned',
           NEW o \in Op, Unapplied(o), Failing(s, o) => o \in orphaned'
    PROVE  Unapplied(o)'
<1>0. rec \in [Sweep -> Recovery]
  BY DEF ClaimInv, TypeOK
<1> SUFFICES ASSUME NEW t \in Sweep, t # s, Failing(t, o) PROVE Failing(t, o)'
  BY DEF Unapplied
<1>1. rec'[t] = rec[t]
  BY <1>0 DEF RecoverSettle, RecoverEnd
<1> QED
  BY <1>1 DEF Failing
-----------------------------------------------------------------------------
(* The slot *)

LEMMA SlotInit == DeployInit => SlotInv
BY SlotAssumption
   DEF DeployInit, Init, SlotInv, DeployTypeOK, Deploy, Creation, Decision, Existence, Released,
       SlotHeldByActiveDeploy, PublishedOperationFreesSlot, NewOp, IdleRequest

\* A write that sets no key: it keeps the slot with the deploy that has it, or
\* frees it.
LEMMA SetDeployKeepsSlot ==
    ASSUME DeployTypeOK, SlotHeldByActiveDeploy,
           NEW o \in Op, NEW status \in DeployStatus, NEW key \in BOOLEAN,
           key => deploy[o].key /\ status \in BlockingStatus,
           SetDeploy(o, status, key)
    PROVE  /\ deploy' \in [Op -> Deploy] /\ SlotHeldByActiveDeploy'
           /\ \A d \in Op : deploy'[d].key => deploy[d].key
           /\ ~ key => ~ deploy'[o].key
<1>0. deploy \in [Op -> Deploy] /\ "absent" \notin BlockingStatus
  BY DEF DeployTypeOK, BlockingStatus, DeployStatus, Phase, TerminalDeploy, deployProgressRank
<1>1. CASE deploy[o].status = "absent"
  BY <1>0, <1>1 DEF SetDeploy, SlotHeldByActiveDeploy
<1>2. CASE deploy[o].status # "absent"
  <2>1. deploy' = [deploy EXCEPT ![o] = [status |-> status, key |-> key]]
    BY <1>2 DEF SetDeploy
  <2>2. deploy' \in [Op -> Deploy]
    BY <1>0, <2>1 DEF Deploy
  <2>3. \A d \in Op : d # o => deploy'[d] = deploy[d]
    BY <1>0, <2>1
  <2>4. deploy'[o].status = status /\ deploy'[o].key = key
    BY <1>0, <2>1
  <2> QED
    BY <2>2, <2>3, <2>4 DEF SlotHeldByActiveDeploy
<1> QED
  BY <1>1, <1>2

\* A step of the claim protocol whose writes to deploys set no key.
LEMMA ClaimStepInv ==
    ASSUME ClaimInv, SlotInv, ClaimStep, DeployTypeOK', SlotHeldByActiveDeploy', UNCHANGED cre,
           \A d \in Op : deploy'[d].key => deploy[d].key, Released',
           \A d \in Op : Unapplied(d) /\ deploy'[d].key => Unapplied(d)'
    PROVE  SlotInv'
<1>0. upd' \in [Req -> Request] => \A r \in Req : upd'[r].op \in Op
  BY DEF Request
<1>1. upd \in [Req -> Request] /\ \A r \in Req : upd[r].op \in Op
  BY DEF ClaimInv, TypeOK, Request
<1>2. \A o \in Op : cre'[o].pc \in {"new", "insert"} => op'[o].status = "absent"
  BY ClaimStepOperations DEF SlotInv, Existence
<1>3. ASSUME NEW r \in Req, upd'[r].pc # "idle", TypeOK' PROVE op'[upd'[r].op].status # "absent"
  <2>1. op[upd'[r].op].status # "absent"
    BY <1>3, ClaimStepRequests DEF SlotInv, Existence
  <2>2. upd'[r].op \in Op
    BY <1>0, <1>3 DEF TypeOK
  <2>3. PICK o \in Op : o = upd'[r].op
    BY <2>2
  <2> QED
    BY <2>1, <2>3, ClaimStepOperations
<1>4. TypeOK'
  <2>1. [Next]_vars
    BY DEF ClaimStep, Next
  <2> QED
    BY <2>1, NextInv DEF ClaimInv
<1>5. PublishedOperationFreesSlot'
  <2> SUFFICES ASSUME NEW o \in Op, op'[o].status \in Terminal, deploy'[o].key
               PROVE  op'[o].reg = NoWorker /\ Unapplied(o)'
    BY DEF PublishedOperationFreesSlot, Unapplied
  <2>0. deploy[o].key
    OBVIOUS
  <2>1. CASE op[o].status \in Terminal /\ op'[o].reg = op[o].reg
    <3>1. op[o].reg = NoWorker /\ Unapplied(o)
      BY <2>0, <2>1 DEF SlotInv, PublishedOperationFreesSlot, Unapplied
    <3> QED
      BY <2>1, <3>1
  <2>2. CASE \E r \in Req : upd[r].pc = "finish" /\ upd[r].op = o
    BY <2>0, <2>2 DEF SlotInv, Released
  <2>3. CASE op'[o].reg = NoWorker /\ \E s \in Sweep : Failing(s, o)'
    BY <2>3 DEF Unapplied
  <2> QED
    BY <2>1, <2>2, <2>3, ClaimStepOperations
<1> QED
  BY <1>2, <1>3, <1>4, <1>5 DEF SlotInv, Existence

LEMMA QuietStepInv ==
    ASSUME ClaimInv, SlotInv, QuietStep, DeployTypeOK', SlotHeldByActiveDeploy', UNCHANGED cre,
           \A d \in Op : deploy'[d].key => deploy[d].key,
           \A d \in Op : Unapplied(d) /\ deploy'[d].key => Unapplied(d)'
    PROVE  SlotInv'
<1>1. ClaimStep
  BY DEF QuietStep, ClaimStep, Advance
<1>2. \A r \in Req : upd[r].op \in Op
  BY DEF ClaimInv, TypeOK, Request
<1>3. ASSUME NEW r \in Req, upd'[r].pc = "finish" PROVE ~ deploy'[upd'[r].op].key
  BY <1>2, <1>3, QuietStepRequests DEF SlotInv, Released
<1> QED
  BY <1>1, <1>3, ClaimStepInv DEF Released

LEMMA SilentInv ==
    ASSUME ClaimInv, SlotInv, QuietStep, UnsettledStep, UNCHANGED <<deployVars, orphaned>>
    PROVE  SlotInv'
BY QuietStepInv, UnsettledStepUnapplied DEF deployVars, SlotInv, DeployTypeOK, SlotHeldByActiveDeploy

LEMMA ForgetInv ==
    ASSUME ClaimInv, SlotInv, NEW r \in Req, Abort(r), Forget(r), UNCHANGED orphaned
    PROVE  SlotInv'
<1>1. QuietStep /\ UnsettledStep
  BY DEF QuietStep, UnsettledStep
<1> QED
  BY <1>1, QuietStepInv, UnsettledStepUnapplied
     DEF Forget, SlotInv, DeployTypeOK, Decision, SlotHeldByActiveDeploy

\* A failure that is left unapplied is remembered.
LEMMA LeaveUnsettledInv ==
    ASSUME ClaimInv, SlotInv, NEW s \in Sweep, LeaveUnsettled(s)
    PROVE  SlotInv'
<1>1. QuietStep
  BY DEF LeaveUnsettled, QuietStep, RecoverStep
<1>2. \A d \in Op : Unapplied(d) => Unapplied(d)'
  BY SettleUnapplied DEF LeaveUnsettled
<1>3. DeployTypeOK' /\ SlotHeldByActiveDeploy' /\ UNCHANGED <<cre, deploy>>
  BY DEF LeaveUnsettled, Forget, SlotInv, DeployTypeOK, Decision, SlotHeldByActiveDeploy
<1> QED
  BY <1>1, <1>2, <1>3, QuietStepInv

\* The effect of a claim: a deploy that is there becomes scheduled.
LEMMA StartDeployInv ==
    ASSUME ClaimInv, SlotInv, NEW r \in Req, StartDeploy(r), UNCHANGED orphaned
    PROVE  SlotInv'
<1>0. PICK o \in Op : o = upd[r].op
  BY DEF ClaimInv, TypeOK, Request
<1>1. deploy \in [Op -> Deploy] /\ deploy[o].key \in BOOLEAN
  BY DEF SlotInv, DeployTypeOK, Deploy
<1>2. "scheduled" \in DeployStatus /\ "scheduled" \in BlockingStatus
  BY DEF DeployStatus, BlockingStatus, TerminalDeploy, Phase, deployProgressRank
<1>3. SetDeploy(o, "scheduled", deploy[o].key) /\ UNCHANGED <<cre, decision>>
  BY <1>0 DEF StartDeploy
<1>4. /\ deploy' \in [Op -> Deploy] /\ SlotHeldByActiveDeploy'
      /\ \A d \in Op : deploy'[d].key => deploy[d].key
  BY <1>1, <1>2, <1>3, SetDeployKeepsSlot DEF SlotInv
<1>5. QuietStep /\ UnsettledStep
  BY DEF StartDeploy, QuietStep, UnsettledStep, Advance
<1> QED
  BY <1>3, <1>4, <1>5, QuietStepInv, UnsettledStepUnapplied DEF SlotInv, DeployTypeOK

\* The mark of a requeued operation.
LEMMA MarkRetryingInv ==
    ASSUME ClaimInv, SlotInv, NEW s \in Sweep, MarkRetrying(s), UNCHANGED orphaned
    PROVE  SlotInv'
<1>0. PICK o \in Op : o = rec[s].op
  BY DEF ClaimInv, TypeOK, Recovery
<1>1. deploy \in [Op -> Deploy] /\ deploy[o].key \in BOOLEAN
  BY DEF SlotInv, DeployTypeOK, Deploy
<1>2. "retrying" \in DeployStatus /\ "retrying" \in BlockingStatus
  BY DEF DeployStatus, BlockingStatus, TerminalDeploy
<1>3. SetDeploy(o, "retrying", deploy[o].key) /\ UNCHANGED <<cre, decision>>
  BY <1>0 DEF MarkRetrying
<1>4. /\ deploy' \in [Op -> Deploy] /\ SlotHeldByActiveDeploy'
      /\ \A d \in Op : deploy'[d].key => deploy[d].key
  BY <1>1, <1>2, <1>3, SetDeployKeepsSlot DEF SlotInv
<1>5. QuietStep
  BY DEF MarkRetrying, QuietStep, RecoverStep
<1>6. \A d \in Op : Unapplied(d) => Unapplied(d)'
  BY SettleUnapplied DEF MarkRetrying, Failing
<1> QED
  BY <1>3, <1>4, <1>5, <1>6, QuietStepInv DEF SlotInv, DeployTypeOK

\* The end of the effects of a report: the slot is free afterwards.
LEMMA AppliedInv ==
    ASSUME ClaimInv, SlotInv, NEW r \in Req, Apply(r), DeployTypeOK', SlotHeldByActiveDeploy',
           UNCHANGED <<cre, orphaned>>, \A d \in Op : deploy'[d].key => deploy[d].key,
           ~ deploy'[upd[r].op].key
    PROVE  SlotInv'
<1>1. ClaimStep /\ UnsettledStep
  BY DEF ClaimStep, UnsettledStep, Advance
<1>2. upd' = [upd EXCEPT ![r].pc = "finish"] /\ upd \in [Req -> Request]
  BY DEF Apply, GoTo, ClaimInv, TypeOK
<1>3. \A q \in Req : upd'[q].op = upd[q].op /\ upd[q].op \in Op
                     /\ (q # r => upd'[q].pc = upd[q].pc)
  BY <1>2 DEF Request
<1>4. ASSUME NEW q \in Req, upd'[q].pc = "finish" PROVE ~ deploy'[upd'[q].op].key
  BY <1>3, <1>4 DEF SlotInv, Released
<1> QED
  BY <1>1, <1>4, ClaimStepInv, UnsettledStepUnapplied DEF Released

LEMMA CompleteDeployInv ==
    ASSUME ClaimInv, SlotInv, NEW r \in Req, CompleteDeploy(r), UNCHANGED orphaned
    PROVE  SlotInv'
<1>0. PICK o \in Op : o = upd[r].op
  BY DEF ClaimInv, TypeOK, Request
<1>1. "completed" \in DeployStatus
  BY DEF DeployStatus, TerminalDeploy
<1>2. SetDeploy(o, "completed", FALSE) /\ UNCHANGED <<cre, decision>> /\ Apply(r)
  BY <1>0 DEF CompleteDeploy
<1>3. /\ deploy' \in [Op -> Deploy] /\ SlotHeldByActiveDeploy'
      /\ \A d \in Op : deploy'[d].key => deploy[d].key
      /\ ~ deploy'[o].key
  BY <1>1, <1>2, SetDeployKeepsSlot DEF SlotInv
<1> QED
  BY <1>0, <1>2, <1>3, AppliedInv DEF SlotInv, DeployTypeOK

\* Reading the deploy changes nothing but what the request or sweep remembers.
LEMMA DecideFailureInv ==
    ASSUME SlotInv, NEW x \in Req \cup Sweep, NEW o \in Op, DecideFailure(x, o),
           UNCHANGED orphaned
    PROVE  SlotInv'
<1>1. FailureStatus(o) \in Decision
  BY DEF FailureStatus, Decision
<1>2. decision' \in [Req \cup Sweep -> Decision]
  BY <1>1 DEF DecideFailure, SlotInv, DeployTypeOK
<1> QED
  BY <1>2 DEF DecideFailure, SlotInv, DeployTypeOK, Existence, Released, SlotHeldByActiveDeploy,
              PublishedOperationFreesSlot, Failing

LEMMA WriteFailureFreesSlot ==
    ASSUME SlotInv, NEW x \in Req \cup Sweep, NEW o \in Op, WriteFailure(x, o),
           UNCHANGED orphaned
    PROVE  /\ DeployTypeOK' /\ SlotHeldByActiveDeploy' /\ UNCHANGED cre
           /\ \A d \in Op : deploy'[d].key => deploy[d].key
           /\ ~ deploy'[o].key
<1>1. decision \in [Req \cup Sweep -> Decision] /\ decision[x] \in {"failed", "rolled-back"}
  BY DEF SlotInv, DeployTypeOK, Decision, WriteFailure
<1>2. decision[x] \in DeployStatus
  BY <1>1 DEF DeployStatus, TerminalDeploy
<1>3. PICK status \in DeployStatus : status = decision[x]
  BY <1>2
<1>4. /\ deploy' \in [Op -> Deploy] /\ SlotHeldByActiveDeploy'
      /\ \A d \in Op : deploy'[d].key => deploy[d].key
      /\ ~ deploy'[o].key
  BY <1>3, SetDeployKeepsSlot DEF SlotInv, WriteFailure
<1>5. decision' \in [Req \cup Sweep -> Decision]
  BY <1>1 DEF WriteFailure, Decision
<1> QED
  BY <1>4, <1>5 DEF SlotInv, DeployTypeOK, WriteFailure

LEMMA FailDeployInv ==
    ASSUME ClaimInv, SlotInv, NEW r \in Req, FailDeploy(r), UNCHANGED orphaned
    PROVE  SlotInv'
<1>0. PICK o \in Op : o = upd[r].op
  BY DEF ClaimInv, TypeOK, Request
<1>1. CASE DecideFailure(r, o)
  BY <1>1, DecideFailureInv
<1>2. CASE Apply(r) /\ WriteFailure(r, o)
  BY <1>0, <1>2, WriteFailureFreesSlot, AppliedInv
<1> QED
  BY <1>0, <1>1, <1>2 DEF FailDeploy

LEMMA FailRecoveredInv ==
    ASSUME ClaimInv, SlotInv, NEW s \in Sweep, FailRecovered(s), UNCHANGED orphaned
    PROVE  SlotInv'
<1>0. PICK o \in Op : o = rec[s].op
  BY DEF ClaimInv, TypeOK, Recovery
<1>1. CASE DecideFailure(s, o)
  BY <1>1, DecideFailureInv
<1>2. CASE RecoverSettle(s) /\ WriteFailure(s, o)
  <2>1. QuietStep
    BY <1>2 DEF QuietStep, RecoverStep
  <2>2. ~ deploy'[o].key
    BY <1>2, WriteFailureFreesSlot
  <2>3. ASSUME NEW d \in Op, Unapplied(d), deploy'[d].key PROVE Unapplied(d)'
    <3>1. ~ Failing(s, d)
      BY <1>0, <2>2, <2>3 DEF Failing
    <3> QED
      BY <1>2, <2>3, <3>1, SettleUnapplied
  <2> QED
    BY <1>2, <2>1, <2>3, WriteFailureFreesSlot, QuietStepInv
<1> QED
  BY <1>0, <1>1, <1>2 DEF FailRecovered

\* A phase report is conditional on the stored status and releases the key with
\* a terminal status.
LEMMA ReportPhaseInv ==
    ASSUME ClaimInv, SlotInv, NEW o \in Op, NEW next \in ReportedPhase, ReportPhase(o, next),
           UNCHANGED orphaned
    PROVE  SlotInv'
<1> DEFINE key == deploy[o].key /\ next \notin TerminalDeploy
<1>1. next \in DeployStatus /\ key \in BOOLEAN
  BY PhaseAssumption
<1>2. key => deploy[o].key /\ next \in BlockingStatus
  BY <1>1 DEF BlockingStatus
<1>3. SetDeploy(o, next, key) /\ UNCHANGED <<op, upd, rec, cre, decision>>
  BY DEF ReportPhase
<1> HIDE DEF key
<1>4. /\ deploy' \in [Op -> Deploy] /\ SlotHeldByActiveDeploy'
      /\ \A d \in Op : deploy'[d].key => deploy[d].key
  BY <1>1, <1>2, <1>3, SetDeployKeepsSlot DEF SlotInv
<1>5. \A d \in Op : ~ deploy[d].key => ~ deploy'[d].key
  BY <1>4
<1>6. DeployTypeOK' /\ Existence'
  BY <1>3, <1>4 DEF SlotInv, DeployTypeOK, Existence
<1>7. PublishedOperationFreesSlot'
  BY <1>3, <1>5 DEF SlotInv, PublishedOperationFreesSlot, Failing
<1>8. \A r \in Req : upd[r].op \in Op
  BY DEF ClaimInv, TypeOK, Request
<1>9. Released'
  BY <1>3, <1>5, <1>8 DEF SlotInv, Released
<1> QED
  BY <1>4, <1>6, <1>7, <1>9 DEF SlotInv
-----------------------------------------------------------------------------
(* Creations *)

\* The steps of a creation that write neither deploys nor operations.
LEMMA CreationGoesInv ==
    ASSUME ClaimInv, SlotInv, NEW o \in Op, NEW pc, CreationGoes(o, pc),
           pc \in {"insert", "enqueue", "cleanup", "compensated", "done"},
           pc = "insert" => cre[o].pc \in {"new", "insert"},
           UNCHANGED <<op, upd, rec, deploy, decision, orphaned>>
    PROVE  SlotInv'
<1>1. cre' \in [Op -> Creation]
  BY DEF CreationGoes, SlotInv, DeployTypeOK, Creation
<1>2. Existence'
  BY DEF CreationGoes, SlotInv, DeployTypeOK, Creation, Existence
<1> QED
  BY <1>1, <1>2 DEF SlotInv, DeployTypeOK, Released, SlotHeldByActiveDeploy,
                    PublishedOperationFreesSlot, Failing

LEMMA DisconnectInv ==
    ASSUME SlotInv, NEW o \in Op, Disconnect(o), UNCHANGED orphaned
    PROVE  SlotInv'
<1>1. cre' \in [Op -> Creation]
  BY DEF Disconnect, SlotInv, DeployTypeOK, Creation
<1>2. Existence'
  BY DEF Disconnect, SlotInv, DeployTypeOK, Creation, Existence
<1> QED
  BY <1>1, <1>2 DEF Disconnect, SlotInv, DeployTypeOK, Released, SlotHeldByActiveDeploy,
                    PublishedOperationFreesSlot, Failing

\* The insert of a deploy: the index lets it in only when no other deploy holds
\* the key, and nothing works on its operation yet.
LEMMA InsertDeployInv ==
    ASSUME ClaimInv, SlotInv, NEW o \in Op, NEW pc, cre[o].pc = "insert", KeyFree, InsertDeploy(o),
           CreationGoes(o, pc), pc \in {"enqueue", "done"},
           UNCHANGED <<op, upd, rec, decision, orphaned>>
    PROVE  SlotInv'
<1>0. "requested" \in DeployStatus /\ "requested" \in BlockingStatus
  BY DEF DeployStatus, BlockingStatus, TerminalDeploy, Phase, deployProgressRank
<1>1. deploy' = [deploy EXCEPT ![o] = [status |-> "requested", key |-> TRUE]]
  BY DEF InsertDeploy
<1>2. DeployTypeOK'
  BY <1>0, <1>1 DEF CreationGoes, SlotInv, DeployTypeOK, Creation, Deploy
<1>3. Existence'
  BY DEF CreationGoes, SlotInv, DeployTypeOK, Creation, Existence
<1>4. SlotHeldByActiveDeploy'
  BY <1>0, <1>1 DEF SlotInv, DeployTypeOK, SlotHeldByActiveDeploy, KeyFree
<1>5. op[o].status = "absent" /\ \A r \in Req : upd[r].pc = "finish" => upd[r].op # o
  BY DEF SlotInv, Existence
<1>6. \A d \in Op : d # o => deploy'[d] = deploy[d]
  BY <1>1 DEF SlotInv, DeployTypeOK
<1>7. Released'
  BY <1>5, <1>6 DEF SlotInv, Released, ClaimInv, TypeOK, Request
<1>8. PublishedOperationFreesSlot'
  BY <1>5, <1>6 DEF SlotInv, PublishedOperationFreesSlot, Terminal, Failing
<1> QED
  BY <1>2, <1>3, <1>4, <1>7, <1>8 DEF SlotInv

\* The insert of the operation comes after that of its deploy.
LEMMA CreateOperationInv ==
    ASSUME ClaimInv, SlotInv, NEW o \in Op, NEW pc, cre[o].pc = "enqueue", Create(o),
           CreationGoes(o, pc), pc \in {"done", "cleanup"}, UNCHANGED <<deploy, decision, orphaned>>
    PROVE  SlotInv'
<1>0. op \in [Op -> Operation] /\ \A r \in Req : upd[r].op \in Op
  BY DEF ClaimInv, TypeOK, Request
<1>1. \A d \in Op : d # o => op'[d] = op[d]
  BY <1>0 DEF Create
<1>2. op'[o].status = "queued"
  BY <1>0 DEF Create, Operation
<1>3. Existence'
  BY <1>0, <1>1, <1>2 DEF CreationGoes, SlotInv, DeployTypeOK, Creation, Existence, Create
<1>4. PublishedOperationFreesSlot'
  BY <1>1, <1>2 DEF SlotInv, PublishedOperationFreesSlot, Terminal, Failing, Create
<1>5. DeployTypeOK' /\ SlotHeldByActiveDeploy' /\ Released'
  BY DEF CreationGoes, Create, SlotInv, DeployTypeOK, Creation, SlotHeldByActiveDeploy, Released
<1> QED
  BY <1>3, <1>4, <1>5 DEF SlotInv

\* The compensation only ever removes a deploy.
LEMMA CompensateInv ==
    ASSUME ClaimInv, SlotInv, NEW o \in Op, Compensate(o), UNCHANGED orphaned
    PROVE  SlotInv'
<1>0. upd \in [Req -> Request] /\ \A r \in Req : upd[r].op \in Op
  BY DEF ClaimInv, TypeOK, Request
<1>1. CASE UNCHANGED deploy
  BY <1>1, CreationGoesInv DEF Compensate
<1>2. CASE deploy' = [deploy EXCEPT ![o] = [status |-> "absent", key |-> FALSE]]
  <2>1. \A d \in Op : deploy'[d].key => deploy[d].key /\ deploy'[d] = deploy[d]
    BY <1>2 DEF SlotInv, DeployTypeOK, Deploy
  <2>2. DeployTypeOK'
    BY <1>2 DEF Compensate, CreationGoes, SlotInv, DeployTypeOK, Creation, Deploy
  <2>3. Existence'
    BY DEF Compensate, CreationGoes, SlotInv, DeployTypeOK, Creation, Existence
  <2>4. SlotHeldByActiveDeploy'
    BY <2>1 DEF SlotInv, SlotHeldByActiveDeploy
  <2>5. PublishedOperationFreesSlot' /\ Released'
    BY <1>0, <2>1 DEF Compensate, SlotInv, PublishedOperationFreesSlot, Released, Failing
  <2> QED
    BY <2>2, <2>3, <2>4, <2>5 DEF SlotInv
<1> QED
  BY <1>1, <1>2 DEF Compensate

LEMMA CreationInv ==
    ASSUME ClaimInv, SlotInv, NEW o \in Op,
           \/ CheckActive(o) \/ Disconnect(o) \/ PersistDeploy(o) \/ PersistDeployFails(o)
           \/ PersistOperation(o) \/ PersistOperationFails(o) \/ Compensate(o),
           UNCHANGED orphaned
    PROVE  SlotInv'
<1>1. CASE CheckActive(o)
  BY <1>1, CreationGoesInv DEF CheckActive
<1>2. CASE PersistDeploy(o)
  <2>1. CASE KeyFree
    BY <1>2, <2>1, InsertDeployInv DEF PersistDeploy
  <2>2. CASE ~ KeyFree
    BY <1>2, <2>2, CreationGoesInv DEF PersistDeploy
  <2> QED
    BY <2>1, <2>2
<1>3. CASE PersistDeployFails(o)
  <2>1. CASE UNCHANGED deploy
    BY <1>3, <2>1, CreationGoesInv DEF PersistDeployFails
  <2>2. CASE KeyFree /\ InsertDeploy(o)
    BY <1>3, <2>2, InsertDeployInv DEF PersistDeployFails
  <2> QED
    BY <1>3, <2>1, <2>2 DEF PersistDeployFails
<1>4. CASE PersistOperation(o)
  BY <1>4, CreateOperationInv DEF PersistOperation
<1>5. CASE PersistOperationFails(o)
  <2>1. CASE UNCHANGED <<op, upd, rec>>
    BY <1>5, <2>1, CreationGoesInv DEF PersistOperationFails
  <2>2. CASE Create(o)
    BY <1>5, <2>2, CreateOperationInv DEF PersistOperationFails
  <2> QED
    BY <1>5, <2>1, <2>2 DEF PersistOperationFails
<1> QED
  BY <1>1, <1>2, <1>3, <1>4, <1>5, DisconnectInv, CompensateInv
-----------------------------------------------------------------------------
(* Theorems *)

LEMMA SlotNext == ASSUME ClaimInv, SlotInv, [DeployNext]_allVars PROVE SlotInv'
<1>1. CASE SettledNext /\ UNCHANGED orphaned
  <2>1. CASE \E r \in Req : /\ Begin(r) \/ ClaimWrite(r) \/ RenewWrite(r) \/ Reserve(r) \/ Finish(r)
                            /\ UNCHANGED deployVars
    BY <1>1, <2>1, SilentInv DEF QuietStep, UnsettledStep, Advance
  <2>2. CASE \E s \in Sweep : /\ RecoverScan(s) \/ \E stale \in rec[s].batch : RecoverWrite(s, stale)
                              /\ UNCHANGED deployVars
    BY <1>1, <2>2, SilentInv DEF QuietStep, RecoverStep, UnsettledStep
  <2>3. CASE Tick /\ UNCHANGED deployVars
    BY <1>1, <2>3, SilentInv DEF QuietStep, UnsettledStep
  <2>4. CASE \E r \in Req : Abort(r) /\ Forget(r)
    BY <1>1, <2>4, ForgetInv
  <2> QED
    BY <1>1, <2>1, <2>2, <2>3, <2>4, CreationInv, ReportPhaseInv, StartDeployInv,
       CompleteDeployInv, FailDeployInv, MarkRetryingInv, FailRecoveredInv DEF SettledNext
<1>2. CASE \E s \in Sweep : LeaveUnsettled(s)
  BY <1>2, LeaveUnsettledInv
<1>3. CASE UNCHANGED allVars
  BY <1>3 DEF allVars, SlotInv, DeployTypeOK, Existence, Released, SlotHeldByActiveDeploy,
              PublishedOperationFreesSlot, Failing
<1> QED
  BY <1>1, <1>2, <1>3 DEF DeployNext

\* Every reachable state of the deploys satisfies the invariant below.
THEOREM SlotInvariant == DeploySpec => []SlotInv
<1>1. DeployInit => SlotInv
  BY SlotInit
<1>2. ClaimInv /\ SlotInv /\ [DeployNext]_allVars => SlotInv'
  BY SlotNext
<1>3. DeploySpec => []ClaimInv
  BY DeploysFollowClaims, ClaimsInvariant, PTL
<1> QED
  BY <1>1, <1>2, <1>3, PTL DEF DeploySpec

\* Deploys, creations and decisions keep their types.
THEOREM DeployTypeCorrect == DeploySpec => []DeployTypeOK
<1>1. SlotInv => DeployTypeOK
  BY DEF SlotInv
<1> QED
  BY <1>1, SlotInvariant, PTL

\* The slot of a service and environment has at most one holder, a deploy that
\* has not ended.
THEOREM SlotIsExclusive == DeploySpec => []SlotHeldByActiveDeploy
<1>1. SlotInv => SlotHeldByActiveDeploy
  BY DEF SlotInv
<1> QED
  BY <1>1, SlotInvariant, PTL

\* A finished operation blocks its service and environment only when a sweep
\* failed it and left that failure unapplied; no worker publishes the end of an
\* operation before its deploy freed the slot.
THEOREM PublishedAfterRelease == DeploySpec => []PublishedOperationFreesSlot
<1>1. SlotInv => PublishedOperationFreesSlot
  BY DEF SlotInv
<1> QED
  BY <1>1, SlotInvariant, PTL
-----------------------------------------------------------------------------
(* The slot as a lock *)

\* What a lease or a recovery is recorded for exists.
Backing ==
    /\ \A o \in Op : op[o].ttl # 0 => op[o].status # "absent"
    /\ \A s \in Sweep : rec[s].pc = "settle" => op[rec[s].op].status # "absent"

\* A creation takes the slot before it queues the operation, and holds it until
\* then.
Staged ==
    \A o \in Op : /\ cre[o].pc \in {"new", "insert"} => ~ deploy[o].key
                  /\ cre[o].pc = "enqueue" => deploy[o].key /\ op[o].status = "absent"

\* The time an operation is leased for is set when it is claimed or renewed.
LEMMA ClaimStepTTL ==
    ASSUME ClaimInv, ClaimStep, NEW o \in Op, op'[o].ttl # op[o].ttl
    PROVE  op[o].status # "absent"
<1> USE DEF ClaimInv
<1>0. op \in [Op -> Operation]
  BY DEF TypeOK
<1>1. op' # op
  OBVIOUS
<1>2. ASSUME NEW r \in Req, ClaimWrite(r) PROVE op[o].status # "absent"
  <2>0. Claimable(r)
    BY <1>1, <1>2 DEF ClaimWrite
  <2>1. PICK lease \in NewLease(r) :
          op' = [op EXCEPT ![upd[r].op].status = "in-progress",
                           ![upd[r].op].reg = upd[r].worker,
                           ![upd[r].op].ttl = upd[r].ttl, ![upd[r].op].lease = lease]
    BY <1>2, <2>0 DEF ClaimWrite
  <2>2. o = upd[r].op
    BY <1>0, <2>1
  <2> QED
    BY <2>0, <2>2 DEF Claimable
<1>3. ASSUME NEW r \in Req, RenewWrite(r) PROVE op[o].status # "absent"
  <2>0. Owns(r)
    BY <1>1, <1>3 DEF RenewWrite
  <2>1. PICK lease \in NewLease(r) :
          op' = [op EXCEPT ![upd[r].op].ttl = upd[r].ttl, ![upd[r].op].lease = lease]
    BY <1>3, <2>0 DEF RenewWrite
  <2>2. o = upd[r].op
    BY <1>0, <2>1
  <2> QED
    BY <2>0, <2>2 DEF Owns
<1>4. ASSUME NEW r \in Req, Reserve(r) PROVE FALSE
  <2>1. PICK lease \in NewLease(r) :
          op' = [op EXCEPT ![upd[r].op].finalization = upd[r].result, ![upd[r].op].lease = lease]
    BY <1>1, <1>4 DEF Reserve
  <2> QED
    BY <1>0, <2>1 DEF Operation
<1>5. ASSUME NEW r \in Req, Finish(r) PROVE FALSE
  <2>1. op' = [op EXCEPT ![upd[r].op].status = upd[r].result]
    BY <1>1, <1>5 DEF Finish
  <2> QED
    BY <1>0, <2>1 DEF Operation
<1>6. ASSUME NEW s \in Sweep, NEW stale \in rec[s].batch, RecoverWrite(s, stale) PROVE FALSE
  <2>1. op' = [op EXCEPT ![stale.op].status = Disposition(stale), ![stale.op].reg = NoWorker,
                         ![stale.op].finalization = "none",
                         ![stale.op].recoveries = stale.recoveries + 1]
    BY <1>1, <1>6 DEF RecoverWrite
  <2> QED
    BY <1>0, <2>1 DEF Operation
<1>7. CASE Tick
  BY <1>0, <1>7 DEF Tick, Operation
<1>8. CASE \E r \in Req : Begin(r) \/ StartEffect(r) \/ Apply(r) \/ Abort(r)
  BY <1>1, <1>8 DEF Begin, BeginClaim, BeginRenew, BeginReport, Arrive, StartEffect, Apply, Abort
<1>9. CASE \E s \in Sweep : RecoverScan(s) \/ RecoverSettle(s) \/ RecoverEnd(s)
  BY <1>1, <1>9 DEF RecoverScan, RecoverSettle, RecoverEnd
<1> QED
  BY <1>2, <1>3, <1>4, <1>5, <1>6, <1>7, <1>8, <1>9 DEF ClaimStep, Advance, RecoverStep

\* A sweep settles the operation it has just taken from its worker.
LEMMA ClaimStepSettles ==
    ASSUME ClaimInv, ClaimStep, NEW s \in Sweep, rec'[s].pc = "settle"
    PROVE  \/ rec[s].pc = "settle" /\ rec'[s].op = rec[s].op
           \/ rec'[s].op \in Op /\ op[rec'[s].op].status # "absent"
<1> DEFINE Kept == rec[s].pc = "settle" /\ rec'[s].op = rec[s].op
<1>0. rec \in [Sweep -> Recovery] /\ IdleRecovery.pc = "idle"
  BY DEF ClaimInv, TypeOK, IdleRecovery
<1>1. CASE UNCHANGED rec
  BY <1>1
<1>2. ASSUME NEW t \in Sweep, RecoverScan(t) \/ RecoverSettle(t) \/ RecoverEnd(t) PROVE Kept
  <2>1. s # t
    BY <1>0, <1>2 DEF RecoverScan, RecoverSettle, RecoverEnd, Recovery
  <2>2. rec'[s] = rec[s]
    BY <1>0, <1>2, <2>1 DEF RecoverScan, RecoverSettle, RecoverEnd
  <2> QED
    BY <2>2
<1>3. ASSUME NEW t \in Sweep, NEW stale \in rec[t].batch, RecoverWrite(t, stale)
      PROVE  Kept \/ (rec'[s].op \in Op /\ op[rec'[s].op].status # "absent")
  <2>0. rec[t].pc = "sweep" /\ stale \in Stale
    BY <1>0, <1>3 DEF RecoverWrite, Recovery
  <2>1. CASE s # t
    <3>1. rec'[s] = rec[s]
      BY <1>0, <1>3, <2>1 DEF RecoverWrite
    <3> QED
      BY <3>1
  <2>2. CASE s = t /\ StillStale(stale)
    <3>1. rec' = [rec EXCEPT ![t].pc = "settle", ![t].op = stale.op,
                             ![t].batch = rec[t].batch \ {stale},
                             ![t].outcome = Disposition(stale)]
      BY <1>3, <2>2 DEF RecoverWrite
    <3>2. rec'[s].op = stale.op
      BY <1>0, <2>2, <3>1 DEF Recovery
    <3> QED
      BY <2>0, <2>2, <3>2 DEF StillStale, Stale
  <2>3. CASE s = t /\ ~ StillStale(stale)
    <3>1. rec' = [rec EXCEPT ![t].batch = rec[t].batch \ {stale}]
      BY <1>3, <2>3 DEF RecoverWrite
    <3> QED
      BY <1>0, <2>0, <2>3, <3>1 DEF Recovery
  <2> QED
    BY <2>1, <2>2, <2>3
<1>4. CASE Tick
  <2>1. rec'[s] = IF rec[s].pc = "idle" THEN rec[s]
                  ELSE [rec[s] EXCEPT !.age = rec[s].age + 1,
                          !.batch = {[x EXCEPT !.lease = Earlier(x.lease)] : x \in rec[s].batch}]
    BY <1>4 DEF Tick
  <2> QED
    BY <1>0, <2>1 DEF Recovery
<1>5. ASSUME NEW r \in Req, Begin(r) \/ Advance(r) \/ Abort(r) PROVE UNCHANGED rec
  <2>1. CASE Begin(r)
    BY <2>1 DEF Begin, BeginClaim, BeginRenew, BeginReport, Arrive
  <2>2. CASE Advance(r) \/ Abort(r)
    BY <2>2 DEF Advance, ClaimWrite, StartEffect, RenewWrite, Reserve, Apply, Finish, Abort
  <2> QED
    BY <1>5, <2>1, <2>2
<1> QED
  BY <1>1, <1>2, <1>3, <1>4, <1>5 DEF ClaimStep, RecoverStep

LEMMA BackingNext == ASSUME ClaimInv, Backing, [Next]_vars PROVE Backing'
<1>1. CASE ClaimStep
  <2>1. ASSUME NEW o \in Op, op'[o].ttl # 0 PROVE op'[o].status # "absent"
    <3>1. op[o].status # "absent"
      BY <1>1, <2>1, ClaimStepTTL DEF Backing
    <3> QED
      BY <1>1, <3>1, ClaimStepOperations
  <2>2. ASSUME NEW s \in Sweep, rec'[s].pc = "settle" PROVE op'[rec'[s].op].status # "absent"
    <3>1. rec'[s].op \in Op /\ op[rec'[s].op].status # "absent"
      BY <1>1, <2>2, ClaimStepSettles DEF Backing, ClaimInv, TypeOK, Recovery
    <3>2. PICK o \in Op : o = rec'[s].op
      BY <3>1
    <3> QED
      BY <1>1, <3>1, <3>2, ClaimStepOperations
  <2> QED
    BY <2>1, <2>2 DEF Backing
<1>2. ASSUME NEW o \in Op, Create(o) PROVE Backing'
  BY <1>2 DEF Create, Backing, ClaimInv, TypeOK, Operation, Recovery
<1>3. CASE UNCHANGED vars
  BY <1>3 DEF vars, Backing
<1> QED
  BY <1>1, <1>2, <1>3 DEF Next, ClaimStep

\* A step that frees at most the slot of o, whose operation exists.
SlotEnds(o) ==
    /\ UNCHANGED cre
    /\ \A d \in Op : op'[d].status = "absent" <=> op[d].status = "absent"
    /\ \A d \in Op : d # o => deploy'[d].key = deploy[d].key
    /\ deploy'[o].key => deploy[o].key
    /\ deploy'[o].key = deploy[o].key \/ op[o].status # "absent"

\* The stage of a deploy is what its key and its creation say.
LEMMA StageOf ==
    ASSUME NEW o \in Op
    PROVE  /\ Stage[o] = IF deploy[o].key THEN "holding"
                         ELSE IF cre[o].pc \in {"new", "insert"} THEN "waiting" ELSE "over"
           /\ Stage'[o] = IF deploy'[o].key THEN "holding"
                          ELSE IF cre'[o].pc \in {"new", "insert"} THEN "waiting" ELSE "over"
BY DEF Stage

\* Two slots are the same when every deploy is at the same stage in both, and
\* one deploy moves when only its stage differs.
LEMMA StageMoves ==
    /\ (\A d \in Op : Stage'[d] = Stage[d]) => Stage' = Stage
    /\ \A o \in Op : \A stage : (\A d \in Op : Stage'[d] = IF d = o THEN stage ELSE Stage[d])
                                => Stage' = [Stage EXCEPT ![o] = stage]
BY DEF Stage

LEMMA SlotEndsSteps ==
    ASSUME SlotInv, DeployTypeOK', Staged, NEW o \in Op, SlotEnds(o)
    PROVE  Staged' /\ [Slot!Next]_(Slot!vars)
<1>0. \A d \in Op : deploy[d].key \in BOOLEAN /\ deploy'[d].key \in BOOLEAN
  BY DEF SlotInv, DeployTypeOK, Deploy
<1>1. Existing' = Existing
  BY DEF SlotEnds, Existing
<1>2. \A d \in Op : d # o => Stage'[d] = Stage[d]
  BY StageOf DEF SlotEnds
<1>3. CASE deploy'[o].key = deploy[o].key
  <2>1. \A d \in Op : Stage'[d] = Stage[d]
    BY <1>2, <1>3, StageOf DEF SlotEnds
  <2>2. Stage' = Stage
    BY <2>1, StageMoves
  <2>3. Staged'
    BY <1>3 DEF SlotEnds, Staged
  <2> QED
    BY <1>1, <2>2, <2>3 DEF Slot!vars
<1>4. CASE deploy'[o].key # deploy[o].key
  <2>1. deploy[o].key /\ ~ deploy'[o].key /\ op[o].status # "absent"
    BY <1>0, <1>4 DEF SlotEnds
  <2>2. cre[o].pc \notin {"new", "insert", "enqueue"}
    BY <2>1 DEF Staged
  <2>3. Stage[o] = "holding" /\ Stage'[o] = "over"
    BY <2>1, <2>2, StageOf DEF SlotEnds
  <2>4. Stage' = [Stage EXCEPT ![o] = "over"]
    BY <1>2, <2>3, StageMoves
  <2>5. Slot!Free(o)
    BY <1>1, <2>3, <2>4 DEF Slot!Free
  <2>6. Staged'
    BY <2>1, <2>2 DEF SlotEnds, Staged
  <2> QED
    BY <2>5, <2>6 DEF Slot!Next
<1> QED
  BY <1>3, <1>4

\* A write to one deploy that sets no key ends its slot or none.
LEMMA SetDeployEnds ==
    ASSUME DeployTypeOK, NEW o \in Op, NEW status, NEW key \in BOOLEAN, key => deploy[o].key,
           SetDeploy(o, status, key), UNCHANGED cre, op[o].status # "absent",
           \A d \in Op : op'[d].status = "absent" <=> op[d].status = "absent"
    PROVE  SlotEnds(o)
<1>1. CASE deploy[o].status = "absent"
  BY <1>1 DEF SetDeploy, SlotEnds
<1>2. CASE deploy[o].status # "absent"
  <2>1. deploy' = [deploy EXCEPT ![o] = [status |-> status, key |-> key]]
    BY <1>2 DEF SetDeploy
  <2>2. deploy'[o].key = key /\ \A d \in Op : d # o => deploy'[d] = deploy[d]
    BY <2>1 DEF DeployTypeOK
  <2> QED
    BY <2>2 DEF SlotEnds
<1> QED
  BY <1>1, <1>2

\* The steps on deploys other than those of creations end one slot or none.
LEMMA OtherStepsEnd ==
    ASSUME ClaimInv, SlotInv, Backing, SettledNext,
           ~ \E o \in Op : \/ CheckActive(o) \/ Disconnect(o)
                           \/ PersistDeploy(o) \/ PersistDeployFails(o)
                           \/ PersistOperation(o) \/ PersistOperationFails(o) \/ Compensate(o)
    PROVE  \E o \in Op : SlotEnds(o)
<1> DEFINE Same == \A d \in Op : op'[d].status = "absent" <=> op[d].status = "absent"
<1>0. /\ DeployTypeOK /\ deploy \in [Op -> Deploy] /\ AnyOp \in Op
      /\ \A d \in Op : deploy[d].key \in BOOLEAN
  BY ActorAssumption DEF SlotInv, DeployTypeOK, Deploy, AnyOp
<1>1. ClaimStep => Same
  BY ClaimStepOperations
<1>2. ASSUME Same, UNCHANGED <<deploy, cre>> PROVE SlotEnds(AnyOp)
  BY <1>2 DEF SlotEnds
<1>3. ASSUME NEW o \in Op, NEW next \in ReportedPhase, ReportPhase(o, next) PROVE SlotEnds(o)
  <2>1. op[o].status # "absent" /\ Same
    BY <1>3 DEF ReportPhase, Backing
  <2>2. (deploy[o].key /\ next \notin TerminalDeploy) \in BOOLEAN
    OBVIOUS
  <2> QED
    BY <1>0, <1>3, <2>1, <2>2, SetDeployEnds DEF ReportPhase
<1>4. ASSUME NEW r \in Req,
             \/ (Begin(r) \/ ClaimWrite(r) \/ RenewWrite(r) \/ Reserve(r) \/ Finish(r)) /\ UNCHANGED deployVars
             \/ Abort(r) /\ Forget(r)
      PROVE  SlotEnds(AnyOp)
  <2>1. ClaimStep /\ UNCHANGED <<deploy, cre>>
    BY <1>4 DEF ClaimStep, Advance, deployVars, Forget
  <2> QED
    BY <1>1, <1>2, <2>1
<1>5. ASSUME NEW r \in Req, StartDeploy(r) \/ CompleteDeploy(r) \/ FailDeploy(r)
      PROVE  \E o \in Op : SlotEnds(o)
  <2>0. PICK o \in Op : o = upd[r].op
    BY DEF ClaimInv, TypeOK, Request
  <2>1. op[o].status # "absent"
    BY <1>5, <2>0 DEF StartDeploy, CompleteDeploy, FailDeploy, StartEffect, Apply, SlotInv, Existence
  <2>2. CASE StartDeploy(r)
    <3>1. ClaimStep /\ SetDeploy(o, "scheduled", deploy[o].key) /\ UNCHANGED cre
      BY <2>0, <2>2 DEF StartDeploy, ClaimStep, Advance
    <3> QED
      BY <1>0, <1>1, <2>1, <3>1, SetDeployEnds
  <2>3. CASE CompleteDeploy(r)
    <3>1. ClaimStep /\ SetDeploy(o, "completed", FALSE) /\ UNCHANGED cre
      BY <2>0, <2>3 DEF CompleteDeploy, ClaimStep, Advance
    <3> QED
      BY <1>0, <1>1, <2>1, <3>1, SetDeployEnds
  <2>4. CASE DecideFailure(r, o)
    BY <1>2, <1>0, <2>4 DEF DecideFailure
  <2>5. CASE Apply(r) /\ WriteFailure(r, o)
    <3>1. ClaimStep /\ SetDeploy(o, decision[r], FALSE) /\ UNCHANGED cre
      BY <2>5 DEF WriteFailure, ClaimStep, Advance
    <3> QED
      BY <1>0, <1>1, <2>1, <3>1, SetDeployEnds
  <2> QED
    BY <1>5, <2>0, <2>2, <2>3, <2>4, <2>5 DEF FailDeploy
<1>6. ASSUME NEW s \in Sweep,
             RecoverScan(s) \/ \E stale \in rec[s].batch : RecoverWrite(s, stale),
             UNCHANGED deployVars
      PROVE  SlotEnds(AnyOp)
  <2>1. ClaimStep /\ UNCHANGED <<deploy, cre>>
    BY <1>6 DEF ClaimStep, RecoverStep, deployVars
  <2> QED
    BY <1>1, <1>2, <2>1
<1>7. ASSUME NEW s \in Sweep, MarkRetrying(s) \/ FailRecovered(s)
      PROVE  \E o \in Op : SlotEnds(o)
  <2>0. PICK o \in Op : o = rec[s].op
    BY DEF ClaimInv, TypeOK, Recovery
  <2>1. op[o].status # "absent"
    BY <1>7, <2>0 DEF MarkRetrying, FailRecovered, RecoverSettle, Backing
  <2>2. CASE MarkRetrying(s)
    <3>1. ClaimStep /\ SetDeploy(o, "retrying", deploy[o].key) /\ UNCHANGED cre
      BY <2>0, <2>2 DEF MarkRetrying, ClaimStep, RecoverStep
    <3> QED
      BY <1>0, <1>1, <2>1, <3>1, SetDeployEnds
  <2>3. CASE DecideFailure(s, o)
    BY <1>2, <1>0, <2>3 DEF DecideFailure
  <2>4. CASE RecoverSettle(s) /\ WriteFailure(s, o)
    <3>1. ClaimStep /\ SetDeploy(o, decision[s], FALSE) /\ UNCHANGED cre
      BY <2>4 DEF WriteFailure, ClaimStep, RecoverStep
    <3> QED
      BY <1>0, <1>1, <2>1, <3>1, SetDeployEnds
  <2> QED
    BY <1>7, <2>0, <2>2, <2>3, <2>4 DEF FailRecovered
<1>8. CASE Tick /\ UNCHANGED deployVars
  <2>1. ClaimStep /\ UNCHANGED <<deploy, cre>>
    BY <1>8 DEF ClaimStep, deployVars
  <2>2. SlotEnds(AnyOp)
    BY <1>1, <1>2, <2>1
  <2> QED
    BY <1>0, <2>2
<1> QED
  BY <1>0, <1>3, <1>4, <1>5, <1>6, <1>7, <1>8 DEF SettledNext

\* A creation that goes on without an effect on deploys or operations: it waits
\* as before, has been refused, or has taken or queued already.
LEMMA CreationGoesSteps ==
    ASSUME SlotInv, Staged, NEW o \in Op, NEW pc, CreationGoes(o, pc), UNCHANGED <<op, deploy>>,
           \/ cre[o].pc = "new" /\ pc = "insert"
           \/ cre[o].pc = "insert" /\ pc = "done"
           \/ cre[o].pc \in {"enqueue", "cleanup"} /\ pc \in {"cleanup", "compensated", "done"}
    PROVE  Staged' /\ [Slot!Next]_(Slot!vars)
<1>1. cre'[o].pc = pc /\ \A d \in Op : d # o => cre'[d] = cre[d]
  BY DEF CreationGoes, SlotInv, DeployTypeOK, Creation
<1>2. Staged'
  BY <1>1 DEF Staged
<1>3. Existing' = Existing /\ \A d \in Op : d # o => Stage'[d] = Stage[d]
  BY <1>1, StageOf DEF Existing
<1>4. CASE cre[o].pc = "insert"
  <2>1. Stage[o] = "waiting" /\ Stage'[o] = "over"
    BY <1>1, <1>4, StageOf DEF Staged
  <2>2. Stage' = [Stage EXCEPT ![o] = "over"]
    BY <1>3, <2>1, StageMoves
  <2>3. Slot!Refuse(o)
    BY <1>3, <2>1, <2>2 DEF Slot!Refuse
  <2> QED
    BY <1>2, <2>3 DEF Slot!Next
<1>5. CASE cre[o].pc # "insert"
  <2>1. Stage'[o] = Stage[o]
    BY <1>1, <1>5, StageOf
  <2>2. Stage' = Stage
    BY <1>3, <2>1, StageMoves
  <2> QED
    BY <1>2, <1>3, <2>2 DEF Slot!vars
<1> QED
  BY <1>4, <1>5

\* The index on the active key lets one deploy in: it takes a free slot.
LEMMA InsertSteps ==
    ASSUME SlotInv, Staged, NEW o \in Op, NEW pc, cre[o].pc = "insert", KeyFree, InsertDeploy(o),
           CreationGoes(o, pc), pc \in {"enqueue", "done"}, UNCHANGED op
    PROVE  Staged' /\ [Slot!Next]_(Slot!vars)
<1>1. cre'[o].pc = pc /\ \A d \in Op : d # o => cre'[d] = cre[d]
  BY DEF CreationGoes, SlotInv, DeployTypeOK, Creation
<1>2. deploy'[o].key /\ \A d \in Op : d # o => deploy'[d] = deploy[d]
  BY DEF InsertDeploy, SlotInv, DeployTypeOK
<1>3. op[o].status = "absent"
  BY DEF SlotInv, Existence
<1>4. Staged'
  BY <1>1, <1>2, <1>3 DEF Staged
<1>5. Existing' = Existing /\ \A d \in Op : d # o => Stage'[d] = Stage[d]
  BY <1>1, <1>2, StageOf DEF Existing
<1>6. \A d \in Op : Stage[d] # "holding"
  BY StageOf DEF KeyFree
<1>7. Stage[o] = "waiting" /\ Stage'[o] = "holding"
  BY <1>2, StageOf DEF KeyFree
<1>8. Stage' = [Stage EXCEPT ![o] = "holding"]
  BY <1>5, <1>7, StageMoves
<1>9. Slot!Take(o)
  BY <1>5, <1>6, <1>7, <1>8 DEF Slot!Take
<1> QED
  BY <1>4, <1>9 DEF Slot!Next

\* The operation is queued while its deploy holds the slot.
LEMMA CreateSteps ==
    ASSUME ClaimInv, SlotInv, Staged, NEW o \in Op, NEW pc, cre[o].pc = "enqueue", Create(o),
           CreationGoes(o, pc), pc \in {"cleanup", "done"}, UNCHANGED deploy
    PROVE  Staged' /\ [Slot!Next]_(Slot!vars)
<1>1. cre'[o].pc = pc /\ \A d \in Op : d # o => cre'[d] = cre[d]
  BY DEF CreationGoes, SlotInv, DeployTypeOK, Creation
<1>2. /\ op[o].status = "absent" /\ op'[o].status # "absent"
      /\ \A d \in Op : d # o => op'[d] = op[d]
  BY DEF Create, ClaimInv, TypeOK, Operation
<1>3. Staged'
  BY <1>1, <1>2 DEF Staged
<1>4. Existing' = Existing \cup {o} /\ o \notin Existing
  BY <1>2 DEF Existing
<1>5. \A d \in Op : Stage'[d] = Stage[d]
  BY <1>1, StageOf
<1>6. Stage' = Stage /\ Stage[o] = "holding"
  BY <1>5, StageMoves, StageOf DEF Staged
<1>7. Slot!Queue(o)
  BY <1>4, <1>6 DEF Slot!Queue
<1> QED
  BY <1>3, <1>7 DEF Slot!Next

\* The compensation frees the slot its creation still holds.
LEMMA CompensateSteps ==
    ASSUME SlotInv, Staged, NEW o \in Op, Compensate(o)
    PROVE  Staged' /\ [Slot!Next]_(Slot!vars)
<1>1. cre'[o].pc = "compensated" /\ \A d \in Op : d # o => cre'[d] = cre[d]
  BY DEF Compensate, CreationGoes, SlotInv, DeployTypeOK, Creation
<1>2. CASE UNCHANGED deploy
  BY <1>2, CreationGoesSteps DEF Compensate
<1>3. CASE deploy' = [deploy EXCEPT ![o] = [status |-> "absent", key |-> FALSE]]
  <2>1. ~ deploy'[o].key /\ \A d \in Op : d # o => deploy'[d] = deploy[d]
    BY <1>3 DEF SlotInv, DeployTypeOK
  <2>2. Staged'
    BY <1>1, <2>1 DEF Compensate, Staged
  <2>3. Existing' = Existing /\ \A d \in Op : d # o => Stage'[d] = Stage[d]
    BY <1>1, <2>1, StageOf DEF Compensate, Existing
  <2>4. Stage'[o] = "over" /\ Stage[o] \in {"holding", "over"}
    BY <1>1, <2>1, StageOf DEF Compensate
  <2>5. CASE Stage[o] = "holding"
    <3>1. Stage' = [Stage EXCEPT ![o] = "over"]
      BY <2>3, <2>4, StageMoves
    <3>2. Slot!Free(o)
      BY <2>3, <2>5, <3>1 DEF Slot!Free
    <3> QED
      BY <2>2, <3>2 DEF Slot!Next
  <2>6. CASE Stage[o] = "over"
    <3>1. \A d \in Op : Stage'[d] = Stage[d]
      BY <2>3, <2>4, <2>6
    <3>2. Stage' = Stage
      BY <3>1, StageMoves
    <3> QED
      BY <2>2, <2>3, <3>2 DEF Slot!vars
  <2> QED
    BY <2>4, <2>5, <2>6
<1> QED
  BY <1>2, <1>3 DEF Compensate

LEMMA CreationSteps ==
    ASSUME ClaimInv, SlotInv, Staged, NEW o \in Op,
           \/ CheckActive(o) \/ Disconnect(o) \/ PersistDeploy(o) \/ PersistDeployFails(o)
           \/ PersistOperation(o) \/ PersistOperationFails(o) \/ Compensate(o)
    PROVE  Staged' /\ [Slot!Next]_(Slot!vars)
<1>1. CASE CheckActive(o)
  BY <1>1, CreationGoesSteps DEF CheckActive
<1>2. CASE Disconnect(o)
  <2>1. \A d \in Op : cre'[d].pc = cre[d].pc
    BY <1>2 DEF Disconnect, SlotInv, DeployTypeOK, Creation
  <2>2. Existing' = Existing /\ \A d \in Op : Stage'[d] = Stage[d]
    BY <1>2, <2>1, StageOf DEF Disconnect, Existing
  <2>3. Staged'
    BY <1>2, <2>1 DEF Disconnect, Staged
  <2> QED
    BY <2>2, <2>3, StageMoves DEF Slot!vars
<1>3. CASE PersistDeploy(o)
  BY <1>3, InsertSteps, CreationGoesSteps DEF PersistDeploy
<1>4. CASE PersistDeployFails(o)
  BY <1>4, InsertSteps, CreationGoesSteps DEF PersistDeployFails
<1>5. CASE PersistOperation(o)
  BY <1>5, CreateSteps DEF PersistOperation
<1>6. CASE PersistOperationFails(o)
  BY <1>6, CreateSteps, CreationGoesSteps DEF PersistOperationFails
<1> QED
  BY <1>1, <1>2, <1>3, <1>4, <1>5, <1>6, CompensateSteps

LEMMA DeployStepIsSlotStep ==
    ASSUME ClaimInv, SlotInv, SlotInv', Backing, Staged, [DeployNext]_allVars
    PROVE  Staged' /\ [Slot!Next]_(Slot!vars)
<1>0. DeployTypeOK'
  BY DEF SlotInv
<1>1. ASSUME NEW s \in Sweep, LeaveUnsettled(s) PROVE Staged' /\ [Slot!Next]_(Slot!vars)
  <2>1. UNCHANGED <<op, deploy, cre>>
    BY <1>1 DEF LeaveUnsettled, Forget, RecoverSettle, RecoverEnd
  <2> QED
    BY <2>1 DEF Staged, Slot!vars, Stage, Existing
<1>2. CASE UNCHANGED allVars
  BY <1>2 DEF allVars, Staged, Slot!vars, Stage, Existing
<1>3. CASE SettledNext
  BY <1>0, <1>3, CreationSteps, OtherStepsEnd, SlotEndsSteps
<1> QED
  BY <1>1, <1>2, <1>3 DEF DeployNext

\* Creations, compensations, worker reports, reports of ends and sweeps use the
\* slot of a service and environment as a lock, whatever they interleave with:
\* it is taken when free and by a creation that never had it, the operation is
\* queued under it, and it never returns to a deploy that gave it up.
THEOREM DeploysImplementSlot == DeploySpec => ImplementsSlot
<1>1. DeployInit => Backing /\ Staged /\ Slot!Init
  BY DEF DeployInit, Init, NewOp, IdleRecovery, Backing, Staged, Slot!Init, Stage, Existing
<1>2. ClaimInv /\ Backing /\ [DeployNext]_allVars => Backing'
  BY DeployStepIsClaimStep, BackingNext
<1>3. ClaimInv /\ SlotInv /\ SlotInv' /\ Backing /\ Staged /\ [DeployNext]_allVars
         => Staged' /\ [Slot!Next]_(Slot!vars)
  BY DeployStepIsSlotStep
<1>4. DeploySpec => []ClaimInv
  BY DeploysFollowClaims, ClaimsInvariant, PTL
<1> QED
  BY <1>1, <1>2, <1>3, <1>4, SlotInvariant, PTL DEF DeploySpec, ImplementsSlot, Slot!Spec
=============================================================================
