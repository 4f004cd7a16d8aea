--------------------------- MODULE OperationClaims ---------------------------
(***************************************************************************)
(* The claim protocol of queued operations: the handler                    *)
(* UpdateOperationStatus (claim, renew, report) and the handler            *)
(* RecoverStaleOperationClaims, at the granularity of their database       *)
(* calls, so that any number of requests interleave between any two calls. *)
(*                                                                         *)
(* Time is relative and discrete: a tick is the resolution of the stored   *)
(* timestamps (RFC3339 strings), and a lease is the number of ticks until  *)
(* claim.leaseExpiresAt, floored at -DBTimeout because a request lives at  *)
(* most DBTimeout and nothing distinguishes older leases.  The lease a     *)
(* request remembers ages with the stored one, so the equality the filters *)
(* test is equality of the absolute timestamps.                            *)
(*                                                                         *)
(* A request runs under context.WithTimeout(requestContext, DBTimeout): it *)
(* may stop between any two calls (client gone, error, process crash) and  *)
(* never makes a call once it is older than DBTimeout.                     *)
(***************************************************************************)
EXTENDS Integers, FiniteSets

CONSTANTS
    Op,             \* operation identifiers
    Worker,         \* worker registrations
    NoWorker,       \* the empty workerRegistrationId
    Req,            \* slots for concurrent UpdateOperationStatus requests
    Sweep,          \* slots for concurrent RecoverStaleOperationClaims requests
    RequestedTTL,   \* the values of claim.ttlSeconds workers send (0: none)
    MinTTL,         \* minOperationClaimLeaseTTLSeconds
    DefaultTTL,     \* defaultOperationClaimLeaseTTLSeconds
    MaxTTL,         \* maxOperationClaimLeaseTTLSeconds
    DBTimeout,      \* shared.DBTimeout
    RecoveryLimit,  \* defaultStaleClaimRecoveryLimit
    BatchSize       \* defaultStaleClaimRecoveryBatchSize

ASSUME ActorAssumption == NoWorker \notin Worker /\ Op # {}
ASSUME TTLAssumption ==
    /\ DBTimeout \in Nat /\ MinTTL \in Nat /\ DefaultTTL \in Nat /\ MaxTTL \in Nat
    /\ RequestedTTL \subseteq Int
    /\ 0 < DBTimeout /\ 2 * DBTimeout <= MinTTL
    /\ MinTTL <= DefaultTTL /\ DefaultTTL <= MaxTTL
ASSUME RecoveryAssumption == RecoveryLimit \in Nat \ {0} /\ BatchSize \in Nat \ {0}

VARIABLES
    op,    \* the operations collection
    upd,   \* the UpdateOperationStatus request in each slot
    rec    \* the RecoverStaleOperationClaims request in each slot

vars == <<op, upd, rec>>
-----------------------------------------------------------------------------
Terminal == {"succeeded", "failed"}
Status   == {"absent", "queued", "in-progress"} \cup Terminal
Lease    == -DBTimeout .. MaxTTL
Age      == 0 .. DBTimeout

\* A lease duration a worker asks for, brought into [MinTTL, MaxTTL].
NormalizeTTL(value) ==
    LET v == IF value <= 0 THEN DefaultTTL ELSE value
    IN  IF v < MinTTL THEN MinTTL ELSE IF v > MaxTTL THEN MaxTTL ELSE v

GrantedTTL == {NormalizeTTL(v) : v \in RequestedTTL}

Operation == [status : Status, reg : Worker \cup {NoWorker}, lease : Lease,
              ttl : GrantedTTL \cup {0}, finalization : Terminal \cup {"none"},
              recoveries : 0 .. RecoveryLimit]

Request == [pc : {"idle", "claim", "start", "renew", "reserve", "apply", "finish"},
            worker : Worker \cup {NoWorker}, op : Op, result : Terminal \cup {"none"},
            ttl : GrantedTTL \cup {0}, seen : Lease, age : Age]

\* What the cursor of a recovery scan returned about one operation.
Stale == [op : Op, lease : Lease, recoveries : 0 .. RecoveryLimit]

Recovery == [pc : {"idle", "sweep", "settle"}, batch : SUBSET Stale,
             op : Op, outcome : {"queued", "failed"}, age : Age]

TypeOK ==
    /\ op \in [Op -> Operation]
    /\ upd \in [Req -> Request]
    /\ rec \in [Sweep -> Recovery]

AnyOp == CHOOSE o \in Op : TRUE
NewOp == [status |-> "absent", reg |-> NoWorker, lease |-> -DBTimeout, ttl |-> 0,
          finalization |-> "none", recoveries |-> 0]
IdleRequest == [pc |-> "idle", worker |-> NoWorker, op |-> AnyOp, result |-> "none",
                ttl |-> 0, seen |-> -DBTimeout, age |-> 0]
IdleRecovery == [pc |-> "idle", batch |-> {}, op |-> AnyOp, outcome |-> "queued", age |-> 0]

Init ==
    /\ op = [o \in Op |-> NewOp]
    /\ upd = [r \in Req |-> IdleRequest]
    /\ rec = [s \in Sweep |-> IdleRecovery]
-----------------------------------------------------------------------------
(* UpdateOperationStatus *)

\* The insert of a queued operation by any of the handlers that create one.
Create(o) ==
    /\ op[o].status = "absent"
    /\ op' = [op EXCEPT ![o].status = "queued"]
    /\ UNCHANGED <<upd, rec>>

\* Slot r receives a request of worker w about o; only requests that pass the
\* ownership check and the status checks go on to write.
Arrive(r, w, o, pc, result, ttl) ==
    /\ upd[r].pc = "idle"
    /\ op[o].reg \in {NoWorker, w}
    /\ upd' = [upd EXCEPT ![r] = [pc |-> pc, worker |-> w, op |-> o, result |-> result,
                                  ttl |-> ttl, seen |-> op[o].lease, age |-> 0]]
    /\ UNCHANGED <<op, rec>>

BeginClaim(r, w, o) ==
    /\ op[o].status = "queued"
    /\ \E v \in RequestedTTL : Arrive(r, w, o, "claim", "none", NormalizeTTL(v))

BeginRenew(r, w, o) ==
    /\ op[o].status = "in-progress"
    /\ op[o].reg = w
    /\ \E v \in RequestedTTL : Arrive(r, w, o, "renew", "none", NormalizeTTL(v))

\* The lease of the finalization is as long as the one the claim was given.
BeginReport(r, w, o) ==
    /\ op[o].status = "in-progress"
    /\ \E result \in Terminal :
         Arrive(r, w, o, "reserve", result, NormalizeTTL(op[o].ttl))

Done(r) == upd' = [upd EXCEPT ![r] = IdleRequest]
GoTo(r, pc) == upd' = [upd EXCEPT ![r].pc = pc]

\* nowTime was taken some time after the request began and before this write.
NewLease(r) == {upd[r].ttl - delay : delay \in 0 .. upd[r].age}

\* Mutated form: a claim that does not require the queued status.
Claimable_AnyStatus(r) == op[upd[r].op].reg \in {NoWorker, upd[r].worker}

\* The filter of a first claim.
Claimable(r) == LET o == upd[r].op IN
    op[o].status = "queued" /\ op[o].reg \in {NoWorker, upd[r].worker}

\* UpdateOne of a first claim.  A claim that matches nothing answers 409.
ClaimWrite(r) ==
    LET o == upd[r].op IN
    /\ upd[r].pc = "claim"
    /\ IF Claimable(r)
         THEN /\ \E lease \in NewLease(r) :
                   op' = [op EXCEPT ![o].status = "in-progress", ![o].reg = upd[r].worker,
                                    ![o].ttl = upd[r].ttl, ![o].lease = lease]
              /\ GoTo(r, "start")
         ELSE Done(r) /\ UNCHANGED op
    /\ UNCHANGED rec

\* applyOperationStart, after the claim is visible; then the response.
StartEffect(r) ==
    /\ upd[r].pc = "start"
    /\ Done(r)
    /\ UNCHANGED <<op, rec>>

Owns(r) == LET o == upd[r].op IN op[o].status = "in-progress" /\ op[o].reg = upd[r].worker

RenewWrite(r) ==
    /\ upd[r].pc = "renew"
    /\ IF Owns(r)
         THEN \E lease \in NewLease(r) :
                op' = [op EXCEPT ![upd[r].op].ttl = upd[r].ttl, ![upd[r].op].lease = lease]
         ELSE UNCHANGED op
    /\ Done(r)
    /\ UNCHANGED rec

\* The reservation: extends the very lease the request read, or answers 409.
Reserve(r) ==
    LET o == upd[r].op IN
    /\ upd[r].pc = "reserve"
    /\ IF Owns(r) /\ op[o].lease = upd[r].seen
         THEN /\ \E lease \in NewLease(r) :
                   op' = [op EXCEPT ![o].finalization = upd[r].result, ![o].lease = lease]
              /\ GoTo(r, "apply")
         ELSE Done(r) /\ UNCHANGED op
    /\ UNCHANGED rec

\* applyOperationSuccess or applyOperationFailure, without error.
Apply(r) ==
    /\ upd[r].pc = "apply"
    /\ GoTo(r, "finish")
    /\ UNCHANGED <<op, rec>>

\* The terminal status is published only under the reservation made for it.
Finish(r) ==
    LET o == upd[r].op IN
    /\ upd[r].pc = "finish"
    /\ op' = IF Owns(r) /\ op[o].finalization = upd[r].result
               THEN [op EXCEPT ![o].status = upd[r].result] ELSE op
    /\ Done(r)
    /\ UNCHANGED rec

\* The request ends between two calls: a database error, an error of the
\* effects, a client that went away, the context's timeout or a crash.
Abort(r) ==
    /\ upd[r].pc # "idle"
    /\ Done(r)
    /\ UNCHANGED <<op, rec>>
-----------------------------------------------------------------------------
(* RecoverStaleOperationClaims *)

\* Mutated forms: recovery leaves operations alone whose finalization has begun;
\* recovery looks for leases that expire at this very instant, or that will
\* expire while its own request lasts.
Expired_NotFinalizing(o) ==
    op[o].status = "in-progress" /\ op[o].lease <= 0 /\ op[o].finalization = "none"
Expired_JustNow(o) == op[o].status = "in-progress" /\ op[o].lease = 0
Expired_Soon(o) == op[o].status = "in-progress" /\ op[o].lease <= DBTimeout

\* The filter of the recovery scan.
Expired(o) == op[o].status = "in-progress" /\ op[o].lease <= 0
Snapshot(o) == [op |-> o, lease |-> op[o].lease, recoveries |-> op[o].recoveries]

\* The cursor: the BatchSize expired claims with the earliest leases.
RecoverScan(s) ==
    /\ rec[s].pc = "idle"
    /\ \E batch \in SUBSET {o \in Op : Expired(o)} :
         /\ \/ \A o \in Op : Expired(o) => o \in batch
            \/ Cardinality(batch) = BatchSize
         /\ Cardinality(batch) <= BatchSize
         /\ \A o \in batch : \A p \in Op \ batch : Expired(p) => op[o].lease <= op[p].lease
         /\ batch # {}
         /\ rec' = [rec EXCEPT ![s].pc = "sweep", ![s].batch = {Snapshot(o) : o \in batch}]
    /\ UNCHANGED <<op, upd>>

\* Mutated form: one recovery too many.
Disposition_Late(stale) ==
    IF stale.recoveries + 1 > RecoveryLimit THEN "failed" ELSE "queued"

\* buildStaleClaimRecoveryMutation: the status the next recovery leads to.
Disposition(stale) == IF stale.recoveries + 1 >= RecoveryLimit THEN "failed" ELSE "queued"

\* Mutated form: the lease is not compared with the scanned one.
StillStale_StatusOnly(stale) == op[stale.op].status = "in-progress"

\* The filter of a recovery: the claim is the one that was scanned.
StillStale(stale) ==
    op[stale.op].status = "in-progress" /\ op[stale.op].lease = stale.lease

\* The conditional update of one scanned operation, in lease order.  A claim
\* whose lease moved since the scan is skipped.
RecoverWrite(s, stale) ==
    LET o == stale.op IN
    /\ rec[s].pc = "sweep"
    /\ stale \in rec[s].batch
    /\ \A other \in rec[s].batch : stale.lease <= other.lease
    /\ IF StillStale(stale)
         THEN /\ op' = [op EXCEPT ![o].status = Disposition(stale), ![o].reg = NoWorker,
                                  ![o].finalization = "none",
                                  ![o].recoveries = stale.recoveries + 1]
              /\ rec' = [rec EXCEPT ![s].pc = "settle", ![s].op = o, ![s].batch = @ \ {stale},
                                    ![s].outcome = Disposition(stale)]
         ELSE /\ rec' = [rec EXCEPT ![s].batch = @ \ {stale}]
              /\ UNCHANGED op
    /\ UNCHANGED upd

\* What follows a successful recovery write: the deploy is marked retrying, or
\* the failure effects are applied and their error ignored.
RecoverSettle(s) ==
    /\ rec[s].pc = "settle"
    /\ rec' = [rec EXCEPT ![s].pc = "sweep"]
    /\ UNCHANGED <<op, upd>>

\* The sweep ends: its cursor is exhausted, or it stops between two calls.
RecoverEnd(s) ==
    /\ rec[s].pc # "idle"
    /\ rec' = [rec EXCEPT ![s] = IdleRecovery]
    /\ UNCHANGED <<op, upd>>
-----------------------------------------------------------------------------
Earlier(lease) == IF lease > -DBTimeout THEN lease - 1 ELSE lease

\* One tick passes.  A request that has lived DBTimeout must end first.
Tick ==
    /\ \A r \in Req : upd[r].pc # "idle" => upd[r].age < DBTimeout
    /\ \A s \in Sweep : rec[s].pc # "idle" => rec[s].age < DBTimeout
    /\ op' = [o \in Op |-> [op[o] EXCEPT !.lease = Earlier(@)]]
    /\ upd' = [r \in Req |-> IF upd[r].pc = "idle" THEN upd[r]
                             ELSE [upd[r] EXCEPT !.age = @ + 1, !.seen = Earlier(@)]]
    /\ rec' = [s \in Sweep |->
                 IF rec[s].pc = "idle" THEN rec[s]
                 ELSE [rec[s] EXCEPT !.age = @ + 1,
                         !.batch = {[x EXCEPT !.lease = Earlier(@)] : x \in @}]]

Begin(r) == \E w \in Worker, o \in Op :
                BeginClaim(r, w, o) \/ BeginRenew(r, w, o) \/ BeginReport(r, w, o)

Advance(r) == \/ ClaimWrite(r) \/ StartEffect(r) \/ RenewWrite(r)
              \/ Reserve(r) \/ Apply(r) \/ Finish(r)

RecoverStep(s) == (\E stale \in rec[s].batch : RecoverWrite(s, stale)) \/ RecoverSettle(s)

Next == \/ \E o \in Op : Create(o)
        \/ \E r \in Req : Begin(r) \/ Advance(r) \/ Abort(r)
        \/ \E s \in Sweep : RecoverScan(s) \/ RecoverStep(s) \/ RecoverEnd(s)
        \/ Tick

Spec == Init /\ [][Next]_vars
-----------------------------------------------------------------------------
(* Safety *)

\* Every lease the API grants outlives a slow renewal followed by a slow
\* finalization.  The defaults (120 s against 15 s) satisfy it; the smallest
\* lease a worker may ask for (30 s) does not.
LongLeases == \A ttl \in GrantedTTL : ttl > 2 * DBTimeout

Acting(r) == upd[r].pc \in {"start", "apply", "finish"}

\* Effects on deploys, services and rules run only under the claim they belong
\* to: while a request is between its claim or reservation and its last write,
\* no recovery has handed the operation back to the queue or to another worker.
\* (UpdateOperationStatus reserves the lease so that recovery stays away while
\* it materializes terminal effects.)  The one exception is the last tick of a
\* request when leases may be of exactly two timeouts: a renewal as slow as the
\* request can put such a lease in the place of the reservation's, and it ends
\* at the instant of the request's own timeout.
EffectsFenced ==
    \A r \in Req : Acting(r) /\ (LongLeases \/ upd[r].age < DBTimeout) =>
        LET o == upd[r].op IN op[o].status # "queued" /\ op[o].reg = upd[r].worker

\* No request is in that exceptional position.
Prompt == \A r \in Req : Acting(r) => LongLeases \/ upd[r].age < DBTimeout

\* Requests, sweeps, leases and time implement the plain life of an operation:
\* one owner at a time, one terminal status, at most RecoveryLimit recoveries
\* each counted once even when several sweeps scanned the same claim.
Lifecycle == INSTANCE OperationLifecycle WITH
    status     <- [o \in Op |-> op[o].status],
    owner      <- [o \in Op |-> op[o].reg],
    recoveries <- [o \in Op |-> op[o].recoveries]

ImplementsLifecycle == Lifecycle!Spec
-----------------------------------------------------------------------------
(* Liveness *)

\* A request is always driven to its end, if only by its timeout; workers keep
\* claiming queued operations and keep calling the recovery endpoint, and now
\* and then one of these calls gets through.
Fairness ==
    /\ WF_vars(Tick)
    /\ \A r \in Req : WF_vars(Advance(r) \/ Abort(r)) /\ SF_vars(ClaimWrite(r) /\ op' # op)
    /\ \A s \in Sweep : WF_vars(RecoverStep(s) \/ RecoverEnd(s)) /\ SF_vars(RecoverScan(s))
    /\ \A o \in Op :
         /\ SF_vars(\E r \in Req, w \in Worker : BeginClaim(r, w, o))
         /\ SF_vars(\E s \in Sweep : \E stale \in rec[s].batch :
                        stale.op = o /\ RecoverWrite(s, stale))

LiveSpec == Spec /\ Fairness

\* From some point on no worker renews a lease or reserves a finalization.
WorkersSilent ==
    <>[][\A o \in Op : op[o].status = "in-progress" => op'[o].lease <= op[o].lease]_vars

\* When workers only claim and then vanish, recovery ends every operation: it
\* is requeued and finally failed, never left in progress or in the queue.
AbandonedOperationsEnd ==
    WorkersSilent => \A o \in Op : op[o].status # "absent" ~> op[o].status \in Terminal

\* An expired claim never stays expired: recovery takes the operation back
\* unless its worker renews or reports after all.
Overdue(o) == op[o].status = "in-progress" /\ op[o].lease <= 0
ExpiredClaimsMove == \A o \in Op : Overdue(o) ~> ~ Overdue(o)
=============================================================================
