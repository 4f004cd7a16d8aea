------------------------ MODULE OperationClaimsProofs ------------------------
(***************************************************************************)
(* Proofs about OperationClaims, for any number of operations, workers,    *)
(* requests, sweeps and any lease durations the assumptions allow, and     *)
(* that it implements OperationRuns (ClaimsAsRuns).                        *)
(***************************************************************************)
EXTENDS ClaimsAsRuns, TLAPS

\* Who owns an operation, and that its recovery budget is not spent while it
\* is alive.
Ownership ==
    \A o \in Op :
        /\ op[o].status \in {"absent", "queued"} => op[o].reg = NoWorker
        /\ op[o].status = "in-progress" => op[o].reg \in Worker /\ op[o].ttl \in GrantedTTL
        /\ op[o].status \notin Terminal => op[o].recoveries < RecoveryLimit

\* What a request has established once it passed the checks of the handler.
Prepared ==
    \A r \in Req :
        /\ upd[r].pc # "idle" => upd[r].worker \in Worker
        /\ upd[r].pc \in {"claim", "renew", "reserve"} => upd[r].ttl \in GrantedTTL
        /\ upd[r].pc \in {"reserve", "apply", "finish"} => upd[r].result \in Terminal

\* A scanned claim had expired when its sweep began.  If the operation is in
\* progress now, either nothing moved its lease since the scan, and then its
\* recovery count is the scanned one, or its lease is newer than any expired
\* lease that sweep can hold.
SnapshotCurrent(s, stale) ==
    /\ stale.lease <= -rec[s].age
    /\ stale.recoveries < RecoveryLimit
    /\ op[stale.op].status = "in-progress" =>
         \/ /\ op[stale.op].lease = stale.lease
            /\ op[stale.op].recoveries = stale.recoveries
         \/ op[stale.op].lease > -rec[s].age

Snapshots ==
    \A s \in Sweep :
        /\ rec[s].pc = "idle" => rec[s].batch = {} /\ rec[s].age = 0
        /\ \A stale \in rec[s].batch : SnapshotCurrent(s, stale)

ClaimInv == TypeOK /\ Ownership /\ Prepared /\ Snapshots
-----------------------------------------------------------------------------
(* Lease arithmetic *)

\* NormalizeTTL brings every requested duration between the two bounds.
LEMMA GrantedBounds == \A ttl \in GrantedTTL : ttl \in MinTTL .. MaxTTL
BY TTLAssumption DEF GrantedTTL, NormalizeTTL

\* A duration that was granted once is not changed by normalizing it again, as
\* the report handler does with the stored claim.leaseTTLSeconds.
LEMMA NormalizeGranted == \A ttl \in GrantedTTL : NormalizeTTL(ttl) = ttl
BY GrantedBounds, TTLAssumption DEF NormalizeTTL

\* What a tick does to a lease.
LEMMA EarlierLease ==
    \A lease \in Lease : /\ Earlier(lease) \in Lease
                         /\ Earlier(lease) <= lease
                         /\ Earlier(lease) >= lease - 1
                         /\ lease > -DBTimeout => Earlier(lease) = lease - 1
BY TTLAssumption DEF Earlier, Lease

\* A lease written by a request is in the future, and no shorter than the
\* granted duration less the age of the request.
LEMMA NewLeaseBounds ==
    ASSUME NEW r \in Req, upd[r].ttl \in GrantedTTL, upd[r].age \in Age,
           NEW lease \in NewLease(r)
    PROVE  /\ lease \in Lease
           /\ lease > 0
           /\ lease >= upd[r].ttl - upd[r].age
<1>1. PICK delay \in 0 .. upd[r].age : lease = upd[r].ttl - delay
  BY DEF NewLease
<1>2. upd[r].ttl \in MinTTL .. MaxTTL
  BY GrantedBounds
<1> QED
  BY <1>1, <1>2, TTLAssumption DEF Lease, Age

LEMMA InitInv == Init => ClaimInv
<1> SUFFICES ASSUME Init PROVE ClaimInv
  OBVIOUS
<1>1. AnyOp \in Op
  BY ActorAssumption DEF AnyOp
<1>2. -DBTimeout \in Lease /\ 0 \in Age /\ 0 \in 0 .. RecoveryLimit /\ 0 < RecoveryLimit
  BY TTLAssumption, RecoveryAssumption DEF Lease, Age
<1>3. NewOp \in Operation
  BY <1>2 DEF NewOp, Operation, Status
<1>4. IdleRequest \in Request
  BY <1>1, <1>2 DEF IdleRequest, Request
<1>5. IdleRecovery \in Recovery
  BY <1>1, <1>2 DEF IdleRecovery, Recovery
<1>6. TypeOK
  BY <1>3, <1>4, <1>5 DEF TypeOK, Init
<1>7. Ownership
  BY <1>2 DEF Init, Ownership, NewOp, Terminal
<1>8. Prepared
  BY DEF Init, Prepared, IdleRequest
<1>9. Snapshots
  BY DEF Init, Snapshots, IdleRecovery
<1> QED
  BY <1>6, <1>7, <1>8, <1>9 DEF ClaimInv
-----------------------------------------------------------------------------
(* Steps of UpdateOperationStatus *)

LEMMA CreateInv == ASSUME NEW o \in Op, ClaimInv, Create(o) PROVE ClaimInv'
<1> USE DEF ClaimInv
<1>1. TypeOK'
  BY DEF Create, TypeOK, Operation, Status
<1>2. Ownership'
  BY DEF Create, Ownership, TypeOK, Operation, Status, Terminal
<1>3. Prepared'
  BY DEF Create, Prepared
<1>4. Snapshots'
  BY DEF Create, Snapshots, SnapshotCurrent, TypeOK, Operation, Recovery, Stale
<1> QED
  BY <1>1, <1>2, <1>3, <1>4

\* A request that arrives only fills its own slot.
LEMMA ArriveInv ==
    ASSUME ClaimInv, NEW r \in Req, NEW w \in Worker, NEW o \in Op,
           NEW pc \in {"claim", "renew", "reserve"}, NEW result \in Terminal \cup {"none"},
           NEW ttl \in GrantedTTL, pc = "reserve" => result \in Terminal,
           Arrive(r, w, o, pc, result, ttl)
    PROVE  ClaimInv'
<1> USE DEF ClaimInv
<1> DEFINE new == [pc |-> pc, worker |-> w, op |-> o, result |-> result,
                   ttl |-> ttl, seen |-> op[o].lease, age |-> 0]
<1>1. new \in Request
  BY TTLAssumption DEF Request, TypeOK, Operation, Age
<1>2. upd' = [upd EXCEPT ![r] = new] /\ UNCHANGED <<op, rec>>
  BY DEF Arrive
<1> HIDE DEF new
<1>3. TypeOK'
  BY <1>1, <1>2 DEF TypeOK
<1>4. Ownership'
  BY <1>2 DEF Ownership
<1>5. Prepared'
  BY <1>2 DEF Prepared, TypeOK, new
<1>6. Snapshots'
  BY <1>2 DEF Snapshots, SnapshotCurrent
<1> QED
  BY <1>3, <1>4, <1>5, <1>6

LEMMA BeginInv == ASSUME ClaimInv, NEW r \in Req, Begin(r) PROVE ClaimInv'
<1> PICK w \in Worker, o \in Op : BeginClaim(r, w, o) \/ BeginRenew(r, w, o) \/ BeginReport(r, w, o)
  BY DEF Begin
<1>1. CASE BeginClaim(r, w, o)
  <2> PICK v \in RequestedTTL : Arrive(r, w, o, "claim", "none", NormalizeTTL(v))
    BY <1>1 DEF BeginClaim
  <2>1. NormalizeTTL(v) \in GrantedTTL
    BY DEF GrantedTTL
  <2> QED
    BY <2>1, ArriveInv
<1>2. CASE BeginRenew(r, w, o)
  <2> PICK v \in RequestedTTL : Arrive(r, w, o, "renew", "none", NormalizeTTL(v))
    BY <1>2 DEF BeginRenew
  <2>1. NormalizeTTL(v) \in GrantedTTL
    BY DEF GrantedTTL
  <2> QED
    BY <2>1, ArriveInv
<1>3. CASE BeginReport(r, w, o)
  <2> PICK result \in Terminal : Arrive(r, w, o, "reserve", result, NormalizeTTL(op[o].ttl))
    BY <1>3 DEF BeginReport
  <2>1. op[o].ttl \in GrantedTTL
    BY <1>3 DEF BeginReport, ClaimInv, Ownership
  <2>2. NormalizeTTL(op[o].ttl) \in GrantedTTL
    BY <2>1, NormalizeGranted
  <2> QED
    BY <2>2, ArriveInv
<1> QED
  BY <1>1, <1>2, <1>3

\* The end of a request empties its slot.
LEMMA IdleRequestType == IdleRequest \in Request
<1>1. AnyOp \in Op
  BY ActorAssumption DEF AnyOp
<1> QED
  BY <1>1, TTLAssumption DEF IdleRequest, Request, Lease, Age

\* A write that renews or reserves a lease, or claims an operation, leaves the
\* snapshots of every sweep current, because the new lease lies in the future.
LEMMA FutureLease ==
    ASSUME ClaimInv, NEW o \in Op, NEW new \in Operation, new.lease > 0,
           op' = [op EXCEPT ![o] = new], UNCHANGED rec
    PROVE  Snapshots'
<1> SUFFICES ASSUME NEW s \in Sweep, NEW stale \in rec[s].batch
             PROVE  SnapshotCurrent(s, stale)'
  BY DEF Snapshots, ClaimInv
<1>1. SnapshotCurrent(s, stale) /\ stale \in Stale /\ rec[s].age \in Age
  BY DEF ClaimInv, Snapshots, TypeOK, Recovery
<1>2. CASE stale.op = o
  BY <1>1, <1>2 DEF SnapshotCurrent, ClaimInv, TypeOK, Age, Operation, Lease
<1>3. CASE stale.op # o
  BY <1>1, <1>3 DEF SnapshotCurrent, ClaimInv, TypeOK, Stale
<1> QED
  BY <1>2, <1>3

LEMMA ClaimWriteInv == ASSUME ClaimInv, NEW r \in Req, ClaimWrite(r) PROVE ClaimInv'
<1> USE DEF Claimable
<1> USE DEF ClaimInv
<1> DEFINE o == upd[r].op
<1>0. o \in Op /\ upd[r] \in Request /\ op[o] \in Operation /\ upd[r].worker \in Worker
      /\ upd[r].ttl \in GrantedTTL /\ upd[r].age \in Age
  BY DEF TypeOK, Request, Prepared, ClaimWrite
<1>1. CASE Claimable(r)
  <2> PICK lease \in NewLease(r) :
        op' = [op EXCEPT ![o].status = "in-progress", ![o].reg = upd[r].worker,
                         ![o].ttl = upd[r].ttl, ![o].lease = lease]
    BY <1>1 DEF ClaimWrite
  <2> DEFINE new == [op[o] EXCEPT !.status = "in-progress", !.reg = upd[r].worker,
                                  !.ttl = upd[r].ttl, !.lease = lease]
  <2>1. lease \in Lease /\ lease > 0
    BY <1>0, NewLeaseBounds
  <2>2. new \in Operation
    BY <1>0, <2>1 DEF Operation, Status
  <2>3. new.lease = lease /\ new.status = "in-progress" /\ new.reg = upd[r].worker
        /\ new.ttl = upd[r].ttl /\ new.recoveries = op[o].recoveries
    BY <1>0 DEF Operation
  <2>4. op' = [op EXCEPT ![o] = new]
    BY <1>0 DEF TypeOK
  <2>5. upd' = [upd EXCEPT ![r].pc = "start"] /\ rec' = rec
    BY <1>1 DEF ClaimWrite, GoTo
  <2> HIDE DEF new
  <2>6. TypeOK'
    BY <1>0, <2>2, <2>4, <2>5 DEF TypeOK, Request
  <2>7. Ownership'
    BY <1>0, <1>1, <2>3, <2>4 DEF Ownership, TypeOK, Terminal
  <2>8. Prepared'
    BY <1>0, <2>5 DEF Prepared, TypeOK
  <2>9. Snapshots'
    BY <1>0, <2>1, <2>2, <2>3, <2>4, <2>5, FutureLease
  <2> QED
    BY <2>6, <2>7, <2>8, <2>9
<1>2. CASE ~ Claimable(r)
  <2>1. upd' = [upd EXCEPT ![r] = IdleRequest] /\ UNCHANGED <<op, rec>>
    BY <1>2 DEF ClaimWrite, Done
  <2> QED
    BY <2>1, IdleRequestType DEF TypeOK, Ownership, Prepared, Snapshots, SnapshotCurrent, IdleRequest
<1> QED
  BY <1>1, <1>2

\* A step that only empties the slot of a request.
LEMMA DoneInv == ASSUME ClaimInv, NEW r \in Req, Done(r), UNCHANGED <<op, rec>> PROVE ClaimInv'
BY IdleRequestType
   DEF ClaimInv, Done, TypeOK, Ownership, Prepared, Snapshots, SnapshotCurrent, IdleRequest

\* A renewal or a reservation: only the lease data of an owned operation move.
LEMMA ExtendInv ==
    ASSUME ClaimInv, NEW r \in Req, Owns(r), upd[r].pc \in {"renew", "reserve"},
           NEW lease \in NewLease(r),
           NEW ttl \in GrantedTTL, NEW finalization \in Terminal \cup {"none"},
           op' = [op EXCEPT ![upd[r].op] = [@ EXCEPT !.ttl = ttl, !.lease = lease,
                                                     !.finalization = finalization]],
           Done(r) \/ (upd[r].pc = "reserve" /\ GoTo(r, "apply")), UNCHANGED rec
    PROVE  ClaimInv'
<1> USE DEF ClaimInv
<1> DEFINE o == upd[r].op
           new == [op[o] EXCEPT !.ttl = ttl, !.lease = lease, !.finalization = finalization]
<1>0. o \in Op /\ upd[r] \in Request /\ op[o] \in Operation /\ upd[r].worker \in Worker
      /\ upd[r].ttl \in GrantedTTL /\ upd[r].age \in Age
  BY DEF TypeOK, Request, Prepared
<1>1. lease \in Lease /\ lease > 0
  BY <1>0, NewLeaseBounds
<1>2. new \in Operation
  BY <1>0, <1>1 DEF Operation
<1>3. new.lease = lease /\ new.ttl = ttl /\ new.status = op[o].status /\ new.reg = op[o].reg
      /\ new.recoveries = op[o].recoveries
  BY <1>0 DEF Operation
<1>4. op' = [op EXCEPT ![o] = new]
  BY <1>0 DEF TypeOK
<1> HIDE DEF new
<1>5. TypeOK'
  <2>1. op' \in [Op -> Operation]
    BY <1>2, <1>4 DEF TypeOK
  <2>2. upd' \in [Req -> Request]
    BY <1>0, IdleRequestType DEF TypeOK, Request, Done, GoTo
  <2> QED
    BY <2>1, <2>2 DEF TypeOK
<1>6. Ownership'
  BY <1>0, <1>3, <1>4 DEF Ownership, TypeOK, Owns
<1>7. Prepared'
  <2>1. CASE Done(r)
    BY <2>1 DEF Prepared, TypeOK, Done, IdleRequest
  <2>2. CASE upd[r].pc = "reserve" /\ GoTo(r, "apply")
    BY <2>2 DEF Prepared, TypeOK, Request, GoTo
  <2> QED
    BY <2>1, <2>2
<1>8. Snapshots'
  BY <1>0, <1>1, <1>2, <1>3, <1>4, FutureLease
<1> QED
  BY <1>5, <1>6, <1>7, <1>8

LEMMA RenewWriteInv == ASSUME ClaimInv, NEW r \in Req, RenewWrite(r) PROVE ClaimInv'
<1> DEFINE o == upd[r].op
<1>0. o \in Op /\ op[o] \in Operation /\ upd[r].ttl \in GrantedTTL
  BY DEF ClaimInv, TypeOK, Request, Prepared, RenewWrite
<1>1. CASE Owns(r)
  <2> PICK lease \in NewLease(r) :
        op' = [op EXCEPT ![upd[r].op].ttl = upd[r].ttl, ![upd[r].op].lease = lease]
    BY <1>1 DEF RenewWrite
  <2>1. op' = [op EXCEPT ![o] = [@ EXCEPT !.ttl = upd[r].ttl, !.lease = lease,
                                          !.finalization = op[o].finalization]]
    BY <1>0 DEF Operation, ClaimInv, TypeOK
  <2>2. op[o].finalization \in Terminal \cup {"none"}
    BY <1>0 DEF Operation
  <2>3. Done(r) /\ UNCHANGED rec /\ upd[r].pc = "renew"
    BY DEF RenewWrite
  <2> QED
    BY <1>0, <1>1, <2>1, <2>2, <2>3, ExtendInv
<1>2. CASE ~ Owns(r)
  BY <1>2, DoneInv DEF RenewWrite
<1> QED
  BY <1>1, <1>2

LEMMA ReserveInv == ASSUME ClaimInv, NEW r \in Req, Reserve(r) PROVE ClaimInv'
<1> DEFINE o == upd[r].op
<1>0. o \in Op /\ op[o] \in Operation /\ upd[r].result \in Terminal
  BY DEF ClaimInv, TypeOK, Request, Prepared, Reserve
<1>1. CASE Owns(r) /\ op[o].lease = upd[r].seen
  <2> PICK lease \in NewLease(r) :
        op' = [op EXCEPT ![o].finalization = upd[r].result, ![o].lease = lease]
    BY <1>1 DEF Reserve
  <2>1. op' = [op EXCEPT ![o] = [@ EXCEPT !.ttl = op[o].ttl, !.lease = lease,
                                          !.finalization = upd[r].result]]
    BY <1>0 DEF Operation, ClaimInv, TypeOK
  <2>2. op[o].ttl \in GrantedTTL
    BY <1>0, <1>1 DEF Owns, ClaimInv, Ownership
  <2>3. GoTo(r, "apply") /\ UNCHANGED rec /\ upd[r].pc = "reserve"
    BY <1>1 DEF Reserve
  <2> QED
    BY <1>0, <1>1, <2>1, <2>2, <2>3, ExtendInv
<1>2. CASE ~ (Owns(r) /\ op[o].lease = upd[r].seen)
  BY <1>2, DoneInv DEF Reserve
<1> QED
  BY <1>1, <1>2

LEMMA ApplyInv == ASSUME ClaimInv, NEW r \in Req, Apply(r) PROVE ClaimInv'
BY DEF ClaimInv, Apply, GoTo, TypeOK, Request, Ownership, Prepared, Snapshots, SnapshotCurrent

LEMMA FinishInv == ASSUME ClaimInv, NEW r \in Req, Finish(r) PROVE ClaimInv'
<1> USE DEF ClaimInv
<1> DEFINE o == upd[r].op
<1>0. o \in Op /\ op[o] \in Operation /\ upd[r].result \in Terminal
  BY DEF TypeOK, Request, Prepared, Finish
<1>1. CASE Owns(r) /\ op[o].finalization = upd[r].result
  <2>1. op' = [op EXCEPT ![o].status = upd[r].result] /\ rec' = rec
        /\ upd' = [upd EXCEPT ![r] = IdleRequest]
    BY <1>1 DEF Finish, Done
  <2>2. TypeOK'
    BY <1>0, <2>1, IdleRequestType DEF TypeOK, Operation, Status
  <2>3. Ownership'
    BY <1>0, <1>1, <2>1 DEF Ownership, TypeOK, Operation, Terminal
  <2>4. Prepared'
    BY <2>1 DEF Prepared, TypeOK, IdleRequest
  <2>5. Snapshots'
    <3> SUFFICES ASSUME NEW s \in Sweep, NEW stale \in rec[s].batch
                 PROVE  SnapshotCurrent(s, stale)'
      BY <2>1 DEF Snapshots
    <3>1. SnapshotCurrent(s, stale) /\ stale \in Stale
      BY DEF Snapshots, TypeOK, Recovery
    <3> QED
      BY <1>0, <2>1, <3>1 DEF SnapshotCurrent, TypeOK, Operation, Terminal, Stale
  <2> QED
    BY <2>2, <2>3, <2>4, <2>5
<1>2. CASE ~ (Owns(r) /\ op[o].finalization = upd[r].result)
  BY <1>2, DoneInv DEF Finish
<1> QED
  BY <1>1, <1>2

LEMMA AdvanceInv == ASSUME ClaimInv, NEW r \in Req, Advance(r) \/ Abort(r) PROVE ClaimInv'
<1>1. CASE StartEffect(r) \/ Abort(r)
  BY <1>1, DoneInv DEF StartEffect, Abort
<1> QED
  BY <1>1, ClaimWriteInv, RenewWriteInv, ReserveInv, ApplyInv, FinishInv DEF Advance
-----------------------------------------------------------------------------
(* Steps of RecoverStaleOperationClaims, and time *)

LEMMA RecoverScanInv == ASSUME ClaimInv, NEW s \in Sweep, RecoverScan(s) PROVE ClaimInv'
<1> USE DEF ClaimInv
<1> PICK batch \in SUBSET {o \in Op : Expired(o)} :
      rec' = [rec EXCEPT ![s].pc = "sweep", ![s].batch = {Snapshot(o) : o \in batch}]
  BY DEF RecoverScan
<1>0. rec[s].pc = "idle" /\ rec[s].age = 0 /\ UNCHANGED <<op, upd>> /\ rec[s] \in Recovery
  BY DEF RecoverScan, Snapshots, TypeOK
<1> DEFINE scanned == {Snapshot(o) : o \in batch}
<1>1. scanned \in SUBSET Stale
  BY DEF Snapshot, Stale, TypeOK, Operation
<1>2. /\ rec'[s].batch = scanned /\ rec'[s].pc = "sweep" /\ rec'[s].age = 0
      /\ \A t \in Sweep \ {s} : rec'[t] = rec[t]
  BY <1>0 DEF TypeOK, Recovery
<1>3. \A stale \in scanned : SnapshotCurrent(s, stale)'
  <2> SUFFICES ASSUME NEW stale \in scanned PROVE SnapshotCurrent(s, stale)'
    BY <1>0, <1>2 DEF SnapshotCurrent
  <2> PICK o \in batch : stale = Snapshot(o)
    OBVIOUS
  <2>1. o \in Op /\ op[o].status = "in-progress" /\ op[o].lease <= 0 /\ op[o] \in Operation
    BY DEF Expired, TypeOK
  <2>2. op[o].recoveries < RecoveryLimit
    BY <2>1 DEF Ownership, Terminal
  <2>3. stale.op = o /\ stale.lease = op[o].lease /\ stale.recoveries = op[o].recoveries
    BY DEF Snapshot
  <2>4. op' = op /\ rec'[s].age = 0
    BY <1>0, <1>2
  <2>5. stale.lease <= -rec'[s].age
    BY <2>1, <2>3, <2>4 DEF Operation, Lease
  <2> QED
    BY <2>2, <2>3, <2>4, <2>5 DEF SnapshotCurrent
<1> HIDE DEF scanned
<1>4. TypeOK'
  BY <1>0, <1>1 DEF TypeOK, Recovery, scanned
<1>5. Ownership' /\ Prepared'
  BY <1>0 DEF Ownership, Prepared
<1>6. Snapshots'
  BY <1>0, <1>2, <1>3 DEF Snapshots, SnapshotCurrent
<1> QED
  BY <1>4, <1>5, <1>6

\* A recovery write takes the operation out of progress, so the snapshots other
\* sweeps hold of it are harmless.
LEMMA RecoverWriteInv ==
    ASSUME ClaimInv, NEW s \in Sweep, NEW stale \in rec[s].batch, RecoverWrite(s, stale)
    PROVE  ClaimInv'
<1> USE DEF StillStale
<1> USE DEF ClaimInv
<1> DEFINE o == stale.op
<1>0. stale \in Stale /\ o \in Op /\ op[o] \in Operation /\ rec[s] \in Recovery
      /\ SnapshotCurrent(s, stale) /\ rec[s].pc # "idle" /\ upd' = upd
  BY DEF TypeOK, Recovery, Stale, Snapshots, RecoverWrite
<1>1. CASE StillStale(stale)
  <2>1. /\ op' = [op EXCEPT ![o].status = Disposition(stale), ![o].reg = NoWorker,
                            ![o].finalization = "none", ![o].recoveries = stale.recoveries + 1]
        /\ rec' = [rec EXCEPT ![s].pc = "settle", ![s].op = o, ![s].batch = @ \ {stale},
                              ![s].outcome = Disposition(stale)]
    BY <1>1 DEF RecoverWrite
  <2>2. /\ Disposition(stale) \in {"queued", "failed"}
        /\ stale.recoveries + 1 \in 0 .. RecoveryLimit
        /\ Disposition(stale) = "queued" => stale.recoveries + 1 < RecoveryLimit
    BY <1>0, RecoveryAssumption DEF Disposition, Stale, SnapshotCurrent
  <2>3. op' \in [Op -> Operation]
    BY <1>0, <2>1, <2>2 DEF TypeOK, Operation, Status, Terminal
  <2>4. rec' \in [Sweep -> Recovery]
    BY <1>0, <2>1, <2>2 DEF TypeOK, Recovery
  <2>5. Ownership'
    BY <1>0, <2>1, <2>2 DEF Ownership, TypeOK, Terminal, Operation
  <2>6. Snapshots'
    <3>1. ASSUME NEW t \in Sweep
          PROVE  /\ rec'[t].batch \subseteq rec[t].batch
                 /\ rec'[t].age = rec[t].age
                 /\ rec'[t].pc = "idle" => rec[t].pc = "idle"
      BY <1>0, <2>1 DEF TypeOK, Recovery
    <3>2. ASSUME NEW t \in Sweep, NEW x \in rec[t].batch PROVE SnapshotCurrent(t, x)'
      <4>1. SnapshotCurrent(t, x) /\ x \in Stale
        BY DEF Snapshots, TypeOK, Recovery
      <4>2. op'[x.op].status = "in-progress" => op'[x.op] = op[x.op]
        BY <1>0, <2>1, <2>2, <4>1 DEF TypeOK, Stale, Operation
      <4> QED
        BY <3>1, <4>1, <4>2 DEF SnapshotCurrent, Stale, TypeOK, Operation
    <3> QED
      BY <3>1, <3>2 DEF Snapshots
  <2> QED
    BY <1>0, <2>3, <2>4, <2>5, <2>6 DEF TypeOK, Prepared
<1>2. CASE ~ StillStale(stale)
  <2>1. rec' = [rec EXCEPT ![s].batch = @ \ {stale}] /\ UNCHANGED <<op, upd>>
    BY <1>0, <1>2 DEF RecoverWrite
  <2>2. rec' \in [Sweep -> Recovery]
    BY <1>0, <2>1 DEF TypeOK, Recovery
  <2>3. Snapshots'
    BY <1>0, <2>1 DEF Snapshots, SnapshotCurrent, TypeOK, Recovery
  <2> QED
    BY <2>1, <2>2, <2>3 DEF TypeOK, Ownership, Prepared
<1> QED
  BY <1>1, <1>2

LEMMA RecoverSettleInv == ASSUME ClaimInv, NEW s \in Sweep, RecoverSettle(s) PROVE ClaimInv'
<1> USE DEF ClaimInv, RecoverSettle
<1>1. rec' \in [Sweep -> Recovery]
  BY DEF TypeOK, Recovery
<1>2. Snapshots'
  BY DEF Snapshots, SnapshotCurrent, TypeOK, Recovery
<1> QED
  BY <1>1, <1>2 DEF TypeOK, Ownership, Prepared

LEMMA RecoverEndInv == ASSUME ClaimInv, NEW s \in Sweep, RecoverEnd(s) PROVE ClaimInv'
<1> USE DEF ClaimInv, RecoverEnd
<1>1. IdleRecovery \in Recovery
  <2>1. AnyOp \in Op
    BY ActorAssumption DEF AnyOp
  <2> QED
    BY <2>1, TTLAssumption DEF IdleRecovery, Recovery, Age
<1>2. Snapshots'
  BY DEF Snapshots, SnapshotCurrent, TypeOK, IdleRecovery
<1> QED
  BY <1>1, <1>2 DEF TypeOK, Ownership, Prepared

\* Stored leases, remembered leases and ages move together.
LEMMA TickInv == ASSUME ClaimInv, Tick PROVE ClaimInv'
<1> USE DEF ClaimInv
<1> DEFINE Old(x) == [x EXCEPT !.lease = Earlier(@)]
<1>1. \A o \in Op : /\ op'[o] = [op[o] EXCEPT !.lease = Earlier(@)]
                    /\ op[o] \in Operation /\ op'[o] \in Operation
                    /\ op'[o].lease = Earlier(op[o].lease)
                    /\ op'[o].status = op[o].status /\ op'[o].reg = op[o].reg
                    /\ op'[o].ttl = op[o].ttl /\ op'[o].recoveries = op[o].recoveries
  BY EarlierLease DEF Tick, TypeOK, Operation
<1>2. op' \in [Op -> Operation]
  BY <1>1 DEF Tick
<1>3. \A r \in Req : /\ upd'[r] \in Request
                     /\ upd'[r].pc = upd[r].pc /\ upd'[r].worker = upd[r].worker
                     /\ upd'[r].ttl = upd[r].ttl /\ upd'[r].result = upd[r].result
  <2> TAKE r \in Req
  <2>1. CASE upd[r].pc = "idle"
    BY <2>1 DEF Tick, TypeOK
  <2>2. CASE upd[r].pc # "idle"
    <3>1. upd'[r] = [upd[r] EXCEPT !.age = @ + 1, !.seen = Earlier(@)]
          /\ upd[r] \in Request /\ upd[r].age < DBTimeout
      BY <2>2 DEF Tick, TypeOK
    <3>2. Earlier(upd[r].seen) \in Lease /\ upd[r].age + 1 \in Age
      BY <3>1, EarlierLease, TTLAssumption DEF Request, Age
    <3> QED
      BY <3>1, <3>2 DEF Request
  <2> QED
    BY <2>1, <2>2
<1>4. upd' \in [Req -> Request]
  BY <1>3 DEF Tick
<1>5. \A s \in Sweep : rec[s].pc = "idle" => rec'[s] = rec[s]
  BY DEF Tick
<1>6. ASSUME NEW s \in Sweep, rec[s].pc # "idle"
      PROVE  /\ rec'[s] = [rec[s] EXCEPT !.age = @ + 1, !.batch = {Old(x) : x \in rec[s].batch}]
             /\ rec[s] \in Recovery /\ rec[s].age < DBTimeout
  BY <1>6 DEF Tick, TypeOK
<1>7. \A x \in Stale : /\ Old(x) \in Stale /\ Old(x).lease = Earlier(x.lease)
                       /\ Old(x).op = x.op /\ Old(x).recoveries = x.recoveries
  BY EarlierLease DEF Stale
<1> HIDE DEF Old
<1>8. ASSUME NEW s \in Sweep, rec[s].pc # "idle"
      PROVE  /\ rec'[s].batch = {Old(x) : x \in rec[s].batch}
             /\ rec'[s].age = rec[s].age + 1 /\ rec'[s].age \in Age /\ rec[s].age \in Age
             /\ rec'[s].pc = rec[s].pc /\ rec'[s].op = rec[s].op
             /\ rec'[s].outcome = rec[s].outcome
             /\ rec[s].batch \in SUBSET Stale /\ rec'[s] \in Recovery
  <2>1. rec[s] \in Recovery /\ rec[s].age < DBTimeout
    BY <1>6, <1>8
  <2>2. {Old(x) : x \in rec[s].batch} \in SUBSET Stale
    BY <1>7, <2>1 DEF Recovery
  <2>3. rec[s].age + 1 \in Age
    BY <2>1, TTLAssumption DEF Recovery, Age
  <2> QED
    BY <1>6, <1>8, <2>1, <2>2, <2>3 DEF Recovery
<1>9. rec' \in [Sweep -> Recovery]
  BY <1>5, <1>8 DEF Tick, TypeOK
<1>10. Ownership'
  BY <1>1 DEF Ownership
<1>11. Prepared'
  BY <1>3 DEF Prepared
<1>12. ASSUME NEW s \in Sweep, rec[s].pc # "idle", NEW y \in rec'[s].batch
       PROVE  SnapshotCurrent(s, y)'
  <2> PICK x \in rec[s].batch : y = Old(x)
    BY <1>8, <1>12
  <2>1. SnapshotCurrent(s, x) /\ x \in Stale
    BY <1>8, <1>12 DEF Snapshots
  <2>2. x.op \in Op /\ x.lease \in Lease /\ op[x.op].lease \in Lease
    BY <1>1, <2>1 DEF Stale, Operation
  <2>3. Earlier(x.lease) <= - rec'[s].age
    BY <1>8, <1>12, <2>1, <2>2, EarlierLease, TTLAssumption DEF SnapshotCurrent, Lease, Age
  <2>4. op[x.op].lease > -rec[s].age => Earlier(op[x.op].lease) > - rec'[s].age
    BY <1>8, <1>12, <2>2, EarlierLease, TTLAssumption DEF Lease, Age
  <2>5. rec'[s].age = rec[s].age + 1 /\ op'[x.op].lease = Earlier(op[x.op].lease)
        /\ op'[x.op].status = op[x.op].status /\ op'[x.op].recoveries = op[x.op].recoveries
    BY <1>1, <1>8, <1>12, <2>2
  <2>6. y.lease = Earlier(x.lease) /\ y.op = x.op /\ y.recoveries = x.recoveries
    BY <1>7, <2>1
  <2> QED
    BY <2>1, <2>3, <2>4, <2>5, <2>6 DEF SnapshotCurrent
<1>13. Snapshots'
  <2> SUFFICES ASSUME NEW s \in Sweep
               PROVE  /\ (rec[s].pc = "idle" => rec[s].batch = {} /\ rec[s].age = 0)'
                      /\ \A y \in rec'[s].batch : SnapshotCurrent(s, y)'
    BY DEF Snapshots
  <2>1. CASE rec[s].pc = "idle"
    BY <1>5, <2>1 DEF Snapshots
  <2>2. CASE rec[s].pc # "idle"
    BY <1>8, <1>12, <2>2
  <2> QED
    BY <2>1, <2>2
<1> QED
  BY <1>2, <1>4, <1>9, <1>10, <1>11, <1>13 DEF TypeOK
-----------------------------------------------------------------------------
(* The inductive invariant, and what follows from it alone *)

LEMMA NextInv == ASSUME ClaimInv, [Next]_vars PROVE ClaimInv'
<1>1. CASE UNCHANGED vars
  BY <1>1 DEF vars, ClaimInv, TypeOK, Ownership, Prepared, Snapshots, SnapshotCurrent
<1>2. CASE Next
  BY <1>2, CreateInv, BeginInv, AdvanceInv, RecoverScanInv, RecoverWriteInv,
     RecoverSettleInv, RecoverEndInv, TickInv DEF Next, RecoverStep
<1> QED
  BY <1>1, <1>2

\* In every reachable state: types, ownership, what requests have checked, and
\* the truth of every snapshot a sweep still holds.
THEOREM ClaimsInvariant == Spec => []ClaimInv
<1>1. Init => ClaimInv
  BY InitInv
<1>2. ClaimInv /\ [Next]_vars => ClaimInv'
  BY NextInv
<1> QED
  BY <1>1, <1>2, PTL DEF Spec

\* Every document, request and sweep keeps its type; leases stay bounded.
THEOREM ClaimsTypeCorrect == Spec => []TypeOK
<1>1. ClaimInv => TypeOK
  BY DEF ClaimInv
<1> QED
  BY <1>1, ClaimsInvariant, PTL
-----------------------------------------------------------------------------
(* Fencing *)

\* A lease granted now lasts a request's whole life; under LongLeases, longer.
Margin == IF LongLeases THEN 1 ELSE 0

\* A request that is about to run effects, and is not in its last tick when
\* leases may be short, owns its operation, and as long as the operation is in
\* progress its lease lasts until the request's last tick (LongLeases: beyond).
Protected(r) ==
    Acting(r) /\ (LongLeases \/ upd[r].age < DBTimeout) =>
        /\ op[upd[r].op].reg = upd[r].worker
        /\ op[upd[r].op].status = "in-progress" =>
             op[upd[r].op].lease >= DBTimeout - upd[r].age + Margin

FenceInv == \A r \in Req : Protected(r)

LEMMA MarginBounds == Margin \in {0, 1} /\ (LongLeases <=> Margin = 1)
BY DEF Margin

LEMMA FenceImplies == ClaimInv /\ FenceInv => EffectsFenced
BY ActorAssumption
   DEF ClaimInv, FenceInv, Protected, Acting, EffectsFenced, TypeOK, Request, Ownership, Prepared

\* A request that moves on without a write keeps or loses its protection, and
\* does not touch the others.
LEMMA FenceMove ==
    ASSUME ClaimInv, FenceInv, NEW r \in Req, UNCHANGED op,
           Done(r) \/ (upd[r].pc = "apply" /\ GoTo(r, "finish"))
    PROVE  FenceInv'
BY DEF ClaimInv, TypeOK, Request, FenceInv, Protected, Acting, Done, GoTo, IdleRequest

\* A lease that is written now lasts as long as any request, under LongLeases longer.
LEMMA LongNewLease ==
    ASSUME ClaimInv, NEW r \in Req, upd[r].ttl \in GrantedTTL,
           NEW lease \in NewLease(r)
    PROVE  lease \in Int /\ lease >= DBTimeout + Margin
<1>1. upd[r].age \in Age
  BY DEF ClaimInv, TypeOK, Request
<1>2. lease \in Lease /\ lease >= upd[r].ttl - upd[r].age
  BY <1>1, NewLeaseBounds
<1>3. upd[r].ttl >= 2 * DBTimeout + Margin /\ upd[r].ttl \in Int
  <2>1. upd[r].ttl \in Int /\ upd[r].ttl >= 2 * DBTimeout
    BY GrantedBounds, TTLAssumption
  <2>2. LongLeases => upd[r].ttl > 2 * DBTimeout
    BY DEF LongLeases
  <2> QED
    BY <2>1, <2>2, TTLAssumption DEF Margin
<1> QED
  BY <1>1, <1>2, <1>3, MarginBounds, TTLAssumption DEF Age, Lease

\* Such a write protects its request and keeps every other one protected.
LEMMA FenceWrite ==
    ASSUME ClaimInv, FenceInv, NEW r \in Req, upd[r].pc # "idle",
           NEW lease \in Int, lease >= DBTimeout + Margin, NEW new,
           new.lease = lease, new.reg = upd[r].worker,
           op[upd[r].op].reg \in {NoWorker, upd[r].worker},
           op' = [op EXCEPT ![upd[r].op] = new],
           Done(r) \/ GoTo(r, "start") \/ GoTo(r, "apply")
    PROVE  FenceInv'
<1> SUFFICES ASSUME NEW q \in Req PROVE Protected(q)'
  BY DEF FenceInv
<1>1. upd[q] \in Request /\ upd[r] \in Request /\ Protected(q) /\ upd[r].worker \in Worker
      /\ (upd[q].pc # "idle" => upd[q].worker \in Worker)
  BY DEF ClaimInv, TypeOK, FenceInv, Prepared
<1>2. upd'[q] # IdleRequest =>
        upd'[q].op = upd[q].op /\ upd'[q].worker = upd[q].worker /\ upd'[q].age = upd[q].age
  BY DEF Done, GoTo, ClaimInv, TypeOK, Request
<1>3. q # r => upd'[q] = upd[q]
  BY DEF Done, GoTo, ClaimInv, TypeOK
<1>4. upd[q].age \in 0 .. DBTimeout
  BY <1>1 DEF Request, Age
<1>5. CASE upd[q].op = upd[r].op
  <2>1. op'[upd[q].op] = new
    BY <1>1, <1>5 DEF ClaimInv, TypeOK, Request
  <2>2. DBTimeout - upd[q].age + Margin <= lease
    BY <1>4, MarginBounds, TTLAssumption
  <2> QED
    BY <1>1, <1>2, <1>3, <1>5, <2>1, <2>2, ActorAssumption DEF Protected, Acting, IdleRequest
<1>6. CASE upd[q].op # upd[r].op
  BY <1>1, <1>3, <1>6 DEF Protected, Acting, ClaimInv, TypeOK
<1> QED
  BY <1>5, <1>6

LEMMA FenceAdvance ==
    ASSUME ClaimInv, FenceInv, NEW r \in Req, Advance(r)
    PROVE  FenceInv'
<1> USE DEF Claimable
<1> DEFINE o == upd[r].op
<1>0. o \in Op /\ op[o] \in Operation /\ upd[r] \in Request
      /\ (upd[r].pc \in {"claim", "renew", "reserve"} => upd[r].ttl \in GrantedTTL)
  BY DEF ClaimInv, TypeOK, Request, Prepared
<1>1. CASE ClaimWrite(r)
  <2>1. CASE Claimable(r)
    <3> PICK lease \in NewLease(r) :
          op' = [op EXCEPT ![o].status = "in-progress", ![o].reg = upd[r].worker,
                           ![o].ttl = upd[r].ttl, ![o].lease = lease]
      BY <1>1, <2>1 DEF ClaimWrite
    <3> DEFINE new == [op[o] EXCEPT !.status = "in-progress", !.reg = upd[r].worker,
                                    !.ttl = upd[r].ttl, !.lease = lease]
    <3>1. op' = [op EXCEPT ![o] = new]
      BY <1>0 DEF ClaimInv, TypeOK
    <3>2. new.lease = lease /\ new.reg = upd[r].worker
      BY <1>0 DEF Operation
    <3>3. lease \in Int /\ lease >= DBTimeout + Margin
      BY <1>0, <1>1, LongNewLease DEF ClaimWrite
    <3>4. GoTo(r, "start") /\ upd[r].pc # "idle"
      BY <1>1, <2>1 DEF ClaimWrite
    <3> HIDE DEF new
    <3> QED
      BY <2>1, <3>1, <3>2, <3>3, <3>4, FenceWrite
  <2>2. CASE ~ Claimable(r)
    BY <1>1, <2>2, FenceMove DEF ClaimWrite
  <2> QED
    BY <2>1, <2>2
<1>2. CASE RenewWrite(r)
  <2>1. CASE Owns(r)
    <3> PICK lease \in NewLease(r) : op' = [op EXCEPT ![o].ttl = upd[r].ttl, ![o].lease = lease]
      BY <1>2, <2>1 DEF RenewWrite
    <3> DEFINE new == [op[o] EXCEPT !.ttl = upd[r].ttl, !.lease = lease]
    <3>1. op' = [op EXCEPT ![o] = new]
      BY <1>0 DEF ClaimInv, TypeOK
    <3>2. new.lease = lease /\ new.reg = upd[r].worker /\ op[o].reg = upd[r].worker
      BY <1>0, <2>1 DEF Operation, Owns
    <3>3. lease \in Int /\ lease >= DBTimeout + Margin
      BY <1>0, <1>2, LongNewLease DEF RenewWrite
    <3>4. Done(r) /\ upd[r].pc # "idle"
      BY <1>2 DEF RenewWrite
    <3> HIDE DEF new
    <3> QED
      BY <3>1, <3>2, <3>3, <3>4, FenceWrite
  <2>2. CASE ~ Owns(r)
    BY <1>2, <2>2, FenceMove DEF RenewWrite
  <2> QED
    BY <2>1, <2>2
<1>3. CASE Reserve(r)
  <2>1. CASE Owns(r) /\ op[o].lease = upd[r].seen
    <3> PICK lease \in NewLease(r) :
          op' = [op EXCEPT ![o].finalization = upd[r].result, ![o].lease = lease]
      BY <1>3, <2>1 DEF Reserve
    <3> DEFINE new == [op[o] EXCEPT !.finalization = upd[r].result, !.lease = lease]
    <3>1. op' = [op EXCEPT ![o] = new]
      BY <1>0 DEF ClaimInv, TypeOK
    <3>2. new.lease = lease /\ new.reg = upd[r].worker /\ op[o].reg = upd[r].worker
      BY <1>0, <2>1 DEF Operation, Owns
    <3>3. lease \in Int /\ lease >= DBTimeout + Margin
      BY <1>0, <1>3, LongNewLease DEF Reserve
    <3>4. GoTo(r, "apply") /\ upd[r].pc # "idle"
      BY <1>3, <2>1 DEF Reserve
    <3> HIDE DEF new
    <3> QED
      BY <3>1, <3>2, <3>3, <3>4, FenceWrite
  <2>2. CASE ~ (Owns(r) /\ op[o].lease = upd[r].seen)
    BY <1>3, <2>2, FenceMove DEF Reserve
  <2> QED
    BY <2>1, <2>2
<1>4. CASE StartEffect(r) \/ Apply(r)
  BY <1>4, FenceMove DEF StartEffect, Apply
<1>5. CASE Finish(r)
  <2>1. CASE Owns(r) /\ op[o].finalization = upd[r].result
    <3>1. op' = [op EXCEPT ![o].status = upd[r].result] /\ Done(r)
          /\ upd[r].result \in Terminal
      BY <1>5, <2>1 DEF Finish, ClaimInv, Prepared
    <3>2. \A p \in Op : /\ op'[p].reg = op[p].reg /\ op'[p].lease = op[p].lease
                        /\ op'[p].status = "in-progress" => op[p].status = "in-progress"
      BY <1>0, <3>1 DEF ClaimInv, TypeOK, Operation, Terminal
    <3> QED
      BY <3>1, <3>2 DEF FenceInv, Protected, Acting, Done, IdleRequest, ClaimInv, TypeOK, Request
  <2>2. CASE ~ (Owns(r) /\ op[o].finalization = upd[r].result)
    BY <1>5, <2>2, FenceMove DEF Finish
  <2> QED
    BY <2>1, <2>2
<1> QED
  BY <1>1, <1>2, <1>3, <1>4, <1>5 DEF Advance

\* What a sweep takes back had expired: no request is about to run effects for it.
LEMMA RecoveredIsClear ==
    ASSUME ClaimInv, FenceInv, NEW s \in Sweep, NEW stale \in rec[s].batch, StillStale(stale),
           NEW q \in Req, Acting(q), LongLeases \/ upd[q].age < DBTimeout
    PROVE  upd[q].op # stale.op
<1>0. SnapshotCurrent(s, stale) /\ stale \in Stale /\ rec[s].age \in Age
  BY DEF ClaimInv, Snapshots, TypeOK, Recovery
<1>1. op[stale.op].lease <= 0 /\ op[stale.op] \in Operation
  BY <1>0 DEF SnapshotCurrent, Stale, Age, Lease, ClaimInv, TypeOK, StillStale
<1>2. upd[q].age \in 0 .. DBTimeout /\ Protected(q)
  BY DEF ClaimInv, TypeOK, Request, Age, FenceInv
<1> QED
  BY <1>1, <1>2, MarginBounds, TTLAssumption DEF Protected, Operation, Lease, StillStale

\* So a sweep cannot take back a protected operation.
LEMMA FenceRecover ==
    ASSUME ClaimInv, FenceInv, NEW s \in Sweep, NEW stale \in rec[s].batch,
           RecoverWrite(s, stale)
    PROVE  FenceInv'
<1> DEFINE o == stale.op
<1>0. stale \in Stale /\ upd' = upd
  BY DEF ClaimInv, TypeOK, Recovery, RecoverWrite
<1>1. CASE StillStale(stale)
  <2>1. \A p \in Op \ {o} : op'[p] = op[p]
    BY <1>1 DEF RecoverWrite, ClaimInv, TypeOK
  <2> QED
    BY <1>0, <1>1, <2>1, RecoveredIsClear
       DEF FenceInv, Protected, Acting, ClaimInv, TypeOK, Request
<1>2. CASE ~ StillStale(stale)
  BY <1>0, <1>2 DEF RecoverWrite, FenceInv, Protected, Acting
<1> QED
  BY <1>1, <1>2

LEMMA FenceTick == ASSUME ClaimInv, FenceInv, Tick PROVE FenceInv'
<1> SUFFICES ASSUME NEW r \in Req, Acting(r)'
             PROVE  Protected(r)'
  BY DEF FenceInv, Protected
<1> USE DEF Acting
<1>1. upd[r].pc # "idle" /\ upd[r].age < DBTimeout /\ upd[r] \in Request
  BY DEF Tick, ClaimInv, TypeOK
<1>2. upd'[r].pc = upd[r].pc /\ upd'[r].op = upd[r].op /\ upd'[r].worker = upd[r].worker
      /\ upd'[r].age = upd[r].age + 1 /\ upd[r].op \in Op /\ upd[r].age \in Age
  BY <1>1 DEF Tick, Request
<1> DEFINE o == upd[r].op
<1>3. op'[o].status = op[o].status /\ op'[o].reg = op[o].reg
      /\ op'[o].lease = Earlier(op[o].lease) /\ op[o].lease \in Lease
  BY <1>2 DEF Tick, ClaimInv, TypeOK, Operation
<1>4. Protected(r)
  BY DEF FenceInv
<1> QED
  BY <1>1, <1>2, <1>3, <1>4, EarlierLease, MarginBounds, TTLAssumption DEF Protected, Age, Lease

LEMMA FenceNext == ASSUME ClaimInv, FenceInv, [Next]_vars PROVE FenceInv'
<1> USE DEF Acting
<1>1. ASSUME NEW o \in Op, Create(o) PROVE FenceInv'
  BY <1>1, ActorAssumption
     DEF Create, FenceInv, Protected, ClaimInv, TypeOK, Operation, Ownership, Prepared, Request
<1>2. ASSUME NEW r \in Req, Begin(r) PROVE FenceInv'
  BY <1>2 DEF Begin, BeginClaim, BeginRenew, BeginReport, Arrive, FenceInv, Protected,
             ClaimInv, TypeOK
<1>3. ASSUME NEW r \in Req, Abort(r) PROVE FenceInv'
  BY <1>3, FenceMove DEF Abort
<1>4. ASSUME NEW s \in Sweep, RecoverScan(s) \/ RecoverSettle(s) \/ RecoverEnd(s) PROVE FenceInv'
  BY <1>4 DEF RecoverScan, RecoverSettle, RecoverEnd, FenceInv, Protected
<1>5. CASE UNCHANGED vars
  BY <1>5 DEF vars, FenceInv, Protected
<1> QED
  BY <1>1, <1>2, <1>3, <1>4, <1>5, FenceAdvance, FenceRecover, FenceTick DEF Next, RecoverStep

\* For every lease the API grants, start and terminal effects run for the worker
\* that still owns the operation until the last tick of their request, and in
\* that tick too when leases are longer than two request lifetimes.
THEOREM EffectsAreFenced == Spec => []EffectsFenced
<1>1. Init => FenceInv
  BY DEF Init, FenceInv, Protected, Acting, IdleRequest
<1>2. ClaimInv /\ FenceInv /\ [Next]_vars => FenceInv'
  BY FenceNext
<1>3. ClaimInv /\ FenceInv => EffectsFenced
  BY FenceImplies
<1> QED
  BY <1>1, <1>2, <1>3, ClaimsInvariant, PTL DEF Spec
-----------------------------------------------------------------------------
(* Refinement of OperationLifecycle *)

LEMMA LifecycleInit == Init => Lifecycle!Init
BY DEF Init, NewOp, Lifecycle!Init

\* A step that leaves status, owner and recovery count of every operation alone.
LEMMA LifecycleStutter ==
    ASSUME \A o \in Op : /\ op'[o].status = op[o].status
                         /\ op'[o].reg = op[o].reg
                         /\ op'[o].recoveries = op[o].recoveries
    PROVE  UNCHANGED Lifecycle!vars
BY DEF Lifecycle!vars

LEMMA LifecycleStep == ASSUME ClaimInv, [Next]_vars PROVE [Lifecycle!Next]_(Lifecycle!vars)
<1> USE DEF StillStale, Claimable
<1> USE DEF ClaimInv
<1>1. ASSUME NEW o \in Op, Create(o) PROVE Lifecycle!Create(o)
  BY <1>1 DEF Create, Lifecycle!Create, TypeOK, Operation
<1>2. ASSUME NEW r \in Req, Begin(r) \/ Abort(r) PROVE UNCHANGED Lifecycle!vars
  <2>1. op' = op
    BY <1>2 DEF Begin, BeginClaim, BeginRenew, BeginReport, Arrive, Abort
  <2> QED
    BY <2>1, LifecycleStutter
<1>3. ASSUME NEW r \in Req, ClaimWrite(r), NEW o \in Op, o = upd[r].op,
             NEW w \in Worker, w = upd[r].worker
      PROVE  Lifecycle!Claim(o, w) \/ UNCHANGED Lifecycle!vars
  <2>0. op[o] \in Operation
    BY DEF TypeOK
  <2>1. CASE Claimable(r)
    <3>0. PICK lease \in NewLease(r) :
            op' = [op EXCEPT ![o].status = "in-progress", ![o].reg = w,
                             ![o].ttl = upd[r].ttl, ![o].lease = lease]
      BY <1>3, <2>1 DEF ClaimWrite
    <3>1. \A p \in Op \ {o} : op'[p] = op[p]
      BY <3>0 DEF TypeOK
    <3>2. op'[o].status = "in-progress" /\ op'[o].reg = w
          /\ op'[o].recoveries = op[o].recoveries
      BY <2>0, <3>0 DEF TypeOK, Operation
    <3>3. Lifecycle!Claim(o, w)
      BY <1>3, <2>0, <2>1, <3>1, <3>2 DEF Lifecycle!Claim
    <3> QED
      BY <3>3
  <2>2. CASE ~ Claimable(r)
    BY <1>3, <2>2, LifecycleStutter DEF ClaimWrite
  <2> QED
    BY <2>1, <2>2
<1>4. ASSUME NEW r \in Req, RenewWrite(r) \/ Reserve(r) PROVE UNCHANGED Lifecycle!vars
  <2> DEFINE o == upd[r].op
  <2>0. o \in Op /\ op[o] \in Operation
    BY DEF TypeOK, Request
  <2>1. CASE op' = op
    BY <2>1, LifecycleStutter
  <2>2. CASE \E lease \in NewLease(r) : op' = [op EXCEPT ![o].ttl = upd[r].ttl, ![o].lease = lease]
    BY <2>0, <2>2, LifecycleStutter DEF TypeOK, Operation
  <2>3. CASE \E lease \in NewLease(r) :
               op' = [op EXCEPT ![o].finalization = upd[r].result, ![o].lease = lease]
    BY <2>0, <2>3, LifecycleStutter DEF TypeOK, Operation
  <2> QED
    BY <1>4, <2>1, <2>2, <2>3 DEF RenewWrite, Reserve
<1>5. ASSUME NEW r \in Req, StartEffect(r) \/ Apply(r) PROVE UNCHANGED Lifecycle!vars
  BY <1>5, LifecycleStutter DEF StartEffect, Apply
<1>6. ASSUME NEW r \in Req, Finish(r), NEW o \in Op, o = upd[r].op,
             NEW result \in Terminal, result = upd[r].result
      PROVE  Lifecycle!Report(o, result) \/ UNCHANGED Lifecycle!vars
  <2>0. op[o] \in Operation
    BY DEF TypeOK
  <2>1. CASE Owns(r) /\ op[o].finalization = upd[r].result
    <3>1. op' = [op EXCEPT ![o].status = result]
      BY <1>6, <2>1 DEF Finish
    <3>2. op[o].status = "in-progress"
      BY <1>6, <2>1 DEF Owns
    <3> QED
      BY <2>0, <3>1, <3>2 DEF Lifecycle!Report, TypeOK, Operation
  <2>2. CASE ~ (Owns(r) /\ op[o].finalization = upd[r].result)
    BY <1>6, <2>2, LifecycleStutter DEF Finish
  <2> QED
    BY <2>1, <2>2
<1>7. ASSUME NEW s \in Sweep, NEW stale \in rec[s].batch, RecoverWrite(s, stale)
      PROVE  Lifecycle!Recover(stale.op) \/ UNCHANGED Lifecycle!vars
  <2> DEFINE o == stale.op
  <2>0. stale \in Stale /\ o \in Op /\ op[o] \in Operation /\ SnapshotCurrent(s, stale)
        /\ rec[s].age \in Age
    BY DEF TypeOK, Recovery, Stale, Snapshots
  <2>1. CASE StillStale(stale)
    <3>1. op' = [op EXCEPT ![o].status = Disposition(stale), ![o].reg = NoWorker,
                           ![o].finalization = "none", ![o].recoveries = stale.recoveries + 1]
      BY <1>7, <2>1 DEF RecoverWrite
    <3>2. stale.recoveries = op[o].recoveries /\ op[o].recoveries < RecoveryLimit
      BY <2>0, <2>1 DEF SnapshotCurrent, Stale, Lease, Age
    <3>3. Disposition(stale) = IF op[o].recoveries + 1 = RecoveryLimit THEN "failed" ELSE "queued"
      BY <2>0, <3>2, RecoveryAssumption DEF Disposition, Operation
    <3>4. \A p \in Op \ {o} : op'[p] = op[p]
      BY <3>1 DEF TypeOK
    <3>5. /\ op'[o].status = Disposition(stale) /\ op'[o].reg = NoWorker
          /\ op'[o].recoveries = op[o].recoveries + 1
      BY <2>0, <3>1, <3>2 DEF TypeOK, Operation
    <3>6. Lifecycle!Recover(o)
      BY <2>0, <2>1, <3>2, <3>3, <3>4, <3>5 DEF Lifecycle!Recover
    <3> QED
      BY <3>6
  <2>2. CASE ~ StillStale(stale)
    BY <1>7, <2>2, LifecycleStutter DEF RecoverWrite
  <2> QED
    BY <2>1, <2>2
<1>8. ASSUME NEW s \in Sweep, RecoverScan(s) \/ RecoverSettle(s) \/ RecoverEnd(s)
      PROVE  UNCHANGED Lifecycle!vars
  BY <1>8, LifecycleStutter DEF RecoverScan, RecoverSettle, RecoverEnd
<1>9. ASSUME Tick PROVE UNCHANGED Lifecycle!vars
  BY <1>9, LifecycleStutter DEF Tick, TypeOK, Operation
<1>10. CASE UNCHANGED vars
  BY <1>10, LifecycleStutter DEF vars
<1>11. ASSUME NEW r \in Req
       PROVE  /\ upd[r].op \in Op
              /\ upd[r].pc # "idle" => upd[r].worker \in Worker
              /\ upd[r].pc = "finish" => upd[r].result \in Terminal
  BY DEF TypeOK, Request, Prepared
<1>12. ASSUME NEW s \in Sweep, NEW stale \in rec[s].batch PROVE stale.op \in Op
  BY DEF TypeOK, Recovery, Stale
<1>14. CASE \E o \in Op : Create(o)
  BY <1>1, <1>14 DEF Lifecycle!Next
<1>15. CASE \E r \in Req : Begin(r) \/ Advance(r) \/ Abort(r)
  <2> PICK r \in Req : Begin(r) \/ Advance(r) \/ Abort(r)
    BY <1>15
  <2>0. PICK o \in Op : o = upd[r].op
    BY <1>11
  <2>1. CASE Finish(r)
    <3>1. PICK result \in Terminal : result = upd[r].result
      BY <1>11, <2>1 DEF Finish
    <3> QED
      BY <1>6, <2>0, <2>1, <3>1 DEF Lifecycle!Next, Terminal, Lifecycle!Terminal
  <2>2. CASE ClaimWrite(r)
    <3>1. PICK w \in Worker : w = upd[r].worker
      BY <1>11, <2>2 DEF ClaimWrite
    <3> QED
      BY <1>3, <2>0, <2>2, <3>1 DEF Lifecycle!Next
  <2> QED
    BY <1>2, <1>4, <1>5, <2>1, <2>2 DEF Advance
<1>16. CASE \E s \in Sweep : RecoverScan(s) \/ RecoverStep(s) \/ RecoverEnd(s)
  BY <1>7, <1>8, <1>12, <1>16 DEF RecoverStep, Lifecycle!Next
<1> QED
  BY <1>9, <1>10, <1>14, <1>15, <1>16 DEF Next

\* The claim protocol implements the lifecycle: one owner at a time, terminal
\* statuses are final, and a recovery is counted once however many sweeps race.
THEOREM ClaimsImplementLifecycle == Spec => ImplementsLifecycle
<1>1. Init => Lifecycle!Init
  BY LifecycleInit
<1>2. ClaimInv /\ [Next]_vars => [Lifecycle!Next]_(Lifecycle!vars)
  BY LifecycleStep
<1> QED
  BY <1>1, <1>2, ClaimsInvariant, PTL DEF Spec, ImplementsLifecycle, Lifecycle!Spec
-----------------------------------------------------------------------------
(* Refinement of OperationRuns *)

\* The document of an operation agrees with its position.
PositionOf(o) ==
    /\ op[o].status = Runs!RunStatus(o)
    /\ op[o].recoveries = run[o].recoveries
    /\ run[o].stage \in {"absent", "queued", "claimed"} => op[o].finalization = "none"
    /\ run[o].stage = "reserved" => op[o].finalization = run[o].result

\* The effects a request is about to run, or has run, are those of the position.
RequestFollows(r) ==
    /\ upd[r].pc = "start" =>
         /\ run[upd[r].op].starting
         /\ \A q \in Req : upd[q].pc = "start" /\ upd[q].op = upd[r].op => q = r
    /\ upd[r].pc = "apply" => upd[r].result \in run[upd[r].op].reported
    /\ upd[r].pc = "finish" => upd[r].result \in run[upd[r].op].applied

\* A single sweep is about to apply the failure of an operation it gave up.
GivesUp(s) == rec[s].pc = "settle" /\ rec[s].outcome = "failed"
SweepFollows(s) ==
    GivesUp(s) => /\ run[rec[s].op].stage = "exhausted"
                  /\ \A t \in Sweep : GivesUp(t) /\ rec[t].op = rec[s].op => t = s

RunsInv ==
    /\ run \in [Op -> Runs!RunRecord]
    /\ \A o \in Op : PositionOf(o)
    /\ \A r \in Req : RequestFollows(r)
    /\ \A s \in Sweep : SweepFollows(s)

\* RunStatus, stage by stage, of positions now and of positions next.
StatusTells(o) ==
    /\ run[o].stage \in {"absent", "queued"} => Runs!RunStatus(o) = run[o].stage
    /\ run[o].stage \in {"claimed", "reserved"} => Runs!RunStatus(o) = "in-progress"
    /\ run[o].stage = "ended" => Runs!RunStatus(o) = run[o].result
    /\ run[o].stage \in {"exhausted", "settled"} => Runs!RunStatus(o) = "failed"

LEMMA StatusByStage == \A o : StatusTells(o) /\ StatusTells(o)'
BY DEF StatusTells, Runs!RunStatus, Runs!InProgress

LEMMA RunsInitially == RunsInit => RunsInv /\ Runs!RunInit
<1> SUFFICES ASSUME RunsInit PROVE RunsInv /\ Runs!RunInit
  OBVIOUS
<1>1. Runs!RunAt("absent", 0) \in Runs!RunRecord
  BY RecoveryAssumption DEF Runs!RunAt, Runs!RunRecord, Runs!Stage
<1>2. ASSUME NEW o \in Op PROVE PositionOf(o)
  <2>1. run[o] = Runs!RunAt("absent", 0) /\ op[o] = NewOp
    BY DEF RunsInit, Init
  <2>2. run[o].stage = "absent" /\ run[o].recoveries = 0
    BY <2>1 DEF Runs!RunAt
  <2> QED
    BY <2>1, <2>2, StatusByStage DEF PositionOf, NewOp, StatusTells
<1> QED
  BY <1>1, <1>2 DEF RunsInit, Init, RunsInv, RequestFollows, SweepFollows, GivesUp, IdleRequest,
                    IdleRecovery, Runs!RunInit

\* Which positions a status stands for.
LEMMA StagesOfStatus ==
    ASSUME RunsInv, NEW o \in Op
    PROVE  /\ op[o].status = "absent" => run[o].stage = "absent"
           /\ op[o].status = "queued" => run[o].stage = "queued"
           /\ op[o].status = "in-progress" => run[o].stage \in {"claimed", "reserved"}
BY DEF RunsInv, PositionOf, Runs!RunRecord, Runs!Stage, Runs!RunStatus, Runs!InProgress, Runs!Result

\* Steps that leave every document, and what is about to run, where they are.
LEMMA RunsStay ==
    ASSUME RunsInv, ClaimInv, UNCHANGED run,
           \A o \in Op : /\ op'[o].status = op[o].status
                         /\ op'[o].recoveries = op[o].recoveries
                         /\ op'[o].finalization = op[o].finalization,
           \A r \in Req : upd'[r].pc \in {"start", "apply", "finish"} =>
                             /\ upd'[r].pc = upd[r].pc
                             /\ upd'[r].op = upd[r].op
                             /\ upd'[r].result = upd[r].result,
           \A s \in Sweep : rec'[s].pc = "settle" =>
                             /\ rec'[s].pc = rec[s].pc
                             /\ rec'[s].op = rec[s].op
                             /\ rec'[s].outcome = rec[s].outcome
    PROVE  RunsInv'
<1>1. \A o \in Op : PositionOf(o)'
  BY DEF RunsInv, PositionOf, Runs!RunStatus, Runs!InProgress
<1>2. \A r \in Req : RequestFollows(r)'
  BY DEF RunsInv, RequestFollows
<1>3. \A s \in Sweep : SweepFollows(s)'
  BY DEF RunsInv, SweepFollows, GivesUp
<1> QED
  BY <1>1, <1>2, <1>3 DEF RunsInv

\* An operation whose record is replaced: the others keep theirs.
LEMMA OthersStay ==
    ASSUME RunsInv, NEW o \in Op, NEW new \in Runs!RunRecord, run' = [run EXCEPT ![o] = new],
           \A p \in Op \ {o} : op'[p] = op[p], PositionOf(o)'
    PROVE  /\ run' \in [Op -> Runs!RunRecord]
           /\ \A p \in Op : PositionOf(p)'
           /\ run'[o] = new /\ \A p \in Op \ {o} : run'[p] = run[p]
<1>1. run' \in [Op -> Runs!RunRecord] /\ run'[o] = new /\ \A p \in Op \ {o} : run'[p] = run[p]
  BY DEF RunsInv
<1>2. ASSUME NEW p \in Op \ {o} PROVE PositionOf(p)'
  <2>1. run'[p] = run[p] /\ op'[p] = op[p] /\ PositionOf(p) /\ run[p] \in Runs!RunRecord
    BY <1>1 DEF RunsInv
  <2>2. Runs!RunStatus(p)' = Runs!RunStatus(p)
    BY <2>1, StatusByStage DEF StatusTells, Runs!RunRecord, Runs!Stage
  <2> QED
    BY <2>1, <2>2 DEF PositionOf
<1> QED
  BY <1>1, <1>2

\* The insert of an operation.
LEMMA CreatedRuns ==
    ASSUME RunsInv, ClaimInv, NEW o \in Op, Create(o), Created(o)
    PROVE  RunsInv' /\ Runs!EnqueueRun(o)
<1> DEFINE new == [run[o] EXCEPT !.stage = "queued"]
<1>1. run[o] \in Runs!RunRecord /\ PositionOf(o) /\ op[o] \in Operation /\ run[o].stage = "absent"
  BY StagesOfStatus DEF RunsInv, ClaimInv, TypeOK, Create
<1>2. new \in Runs!RunRecord
  BY <1>1 DEF Runs!RunRecord, Runs!Stage
<1>3. new.stage = "queued" /\ new.starting = run[o].starting /\ new.recoveries = run[o].recoveries
      /\ new.reported = run[o].reported /\ new.applied = run[o].applied
  BY <1>1 DEF Runs!RunRecord
<1>4. run' = [run EXCEPT ![o] = new]
  BY DEF Created, RunsInv
<1> HIDE DEF new
<1>5. /\ \A p \in Op \ {o} : op'[p] = op[p]
      /\ op'[o].status = "queued" /\ op'[o].recoveries = op[o].recoveries
      /\ op'[o].finalization = op[o].finalization
      /\ UNCHANGED <<upd, rec>>
  BY <1>1 DEF Create, ClaimInv, TypeOK, Operation
<1>6. run'[o] = new
  BY <1>4 DEF RunsInv
<1>7. PositionOf(o)'
  BY <1>1, <1>3, <1>5, <1>6, StatusByStage DEF PositionOf, StatusTells
<1>8. /\ run' \in [Op -> Runs!RunRecord]
      /\ \A p \in Op : PositionOf(p)'
      /\ \A p \in Op \ {o} : run'[p] = run[p]
  BY <1>2, <1>4, <1>5, <1>7, OthersStay
<1>9. \A r \in Req : RequestFollows(r)'
  BY <1>3, <1>5, <1>6, <1>8 DEF RunsInv, RequestFollows, ClaimInv, TypeOK, Request
<1>10. \A s \in Sweep : SweepFollows(s)'
  BY <1>1, <1>5, <1>8 DEF RunsInv, SweepFollows, GivesUp, ClaimInv, TypeOK, Recovery
<1>11. Runs!EnqueueRun(o)
  BY <1>1 DEF Created, Runs!EnqueueRun, Runs!RunGoes
<1> QED
  BY <1>8, <1>9, <1>10, <1>11 DEF RunsInv

\* A claim finds no effects of an earlier one under way: the operation is queued.
LEMMA ClaimedRuns ==
    ASSUME RunsInv, Prompt, ClaimInv, FenceInv, NEW r \in Req, NEW o \in Op, o = upd[r].op,
           ClaimWrite(r), Claimable(r), Claimed(r)
    PROVE  RunsInv' /\ Runs!ClaimRun(o)
<1> DEFINE new == [[run[o] EXCEPT !.stage = "claimed"] EXCEPT !.starting = TRUE]
<1>1. o \in Op /\ upd[r] \in Request /\ op[o] \in Operation /\ op[o].status = "queued"
      /\ upd[r].pc = "claim"
  BY DEF ClaimInv, TypeOK, Request, Claimable, ClaimWrite
<1>2. run[o] \in Runs!RunRecord /\ PositionOf(o) /\ run[o].stage = "queued"
  BY <1>1, StagesOfStatus DEF RunsInv
<1>3. new \in Runs!RunRecord
  BY <1>2 DEF Runs!RunRecord, Runs!Stage
<1>4. new.stage = "claimed" /\ new.starting /\ new.recoveries = run[o].recoveries
      /\ new.reported = run[o].reported /\ new.applied = run[o].applied
  BY <1>2 DEF Runs!RunRecord
<1>5. run' = [run EXCEPT ![o] = new]
  BY <1>1, <1>2 DEF Claimed, RunsInv
<1>6. PICK lease \in NewLease(r) :
        op' = [op EXCEPT ![o].status = "in-progress", ![o].reg = upd[r].worker,
                         ![o].ttl = upd[r].ttl, ![o].lease = lease]
  BY DEF ClaimWrite
<1>7. upd' = [upd EXCEPT ![r].pc = "start"] /\ rec' = rec
  BY DEF ClaimWrite, GoTo
<1> HIDE DEF new
<1>8. /\ \A p \in Op \ {o} : op'[p] = op[p]
      /\ op'[o].status = "in-progress" /\ op'[o].recoveries = op[o].recoveries
      /\ op'[o].finalization = op[o].finalization
  BY <1>1, <1>6 DEF ClaimInv, TypeOK, Operation
<1>9. run'[o] = new
  BY <1>1, <1>5 DEF RunsInv
<1>10. PositionOf(o)'
  BY <1>1, <1>2, <1>4, <1>8, <1>9, StatusByStage DEF PositionOf, StatusTells
<1>11. /\ run' \in [Op -> Runs!RunRecord]
       /\ \A p \in Op : PositionOf(p)'
       /\ \A p \in Op \ {o} : run'[p] = run[p]
  BY <1>1, <1>3, <1>5, <1>8, <1>10, OthersStay
<1>12. \A q \in Req : upd[q].pc = "start" => upd[q].op # o
  BY <1>1, FenceImplies DEF EffectsFenced, Prompt, Acting
<1>13. ASSUME NEW q \in Req PROVE RequestFollows(q)'
  <2>1. upd'[r].pc = "start" /\ upd'[r].op = o /\ \A p \in Req \ {r} : upd'[p] = upd[p]
    BY <1>1, <1>7 DEF ClaimInv, TypeOK, Request
  <2>2. CASE q = r
    BY <1>4, <1>9, <1>12, <2>1, <2>2 DEF RequestFollows
  <2>3. CASE q # r
    BY <1>4, <1>9, <1>11, <1>12, <2>1, <2>3 DEF RequestFollows, RunsInv, ClaimInv, TypeOK, Request
  <2> QED
    BY <2>2, <2>3
<1>14. \A s \in Sweep : SweepFollows(s)'
  BY <1>2, <1>7, <1>11 DEF RunsInv, SweepFollows, GivesUp, ClaimInv, TypeOK, Recovery
<1>15. Runs!ClaimRun(o)
  BY <1>2 DEF Claimed, Runs!ClaimRun
<1> QED
  BY <1>11, <1>13, <1>14, <1>15 DEF RunsInv

LEMMA StartedRuns ==
    ASSUME RunsInv, ClaimInv, NEW r \in Req, NEW o \in Op, o = upd[r].op,
           StartEffect(r), Started(r)
    PROVE  RunsInv' /\ Runs!StartRun(o)
<1> DEFINE new == [run[o] EXCEPT !.starting = FALSE]
<1>1. o \in Op /\ run[o] \in Runs!RunRecord /\ PositionOf(o) /\ upd[r].pc = "start"
  BY DEF ClaimInv, TypeOK, Request, RunsInv, StartEffect
<1>2. new \in Runs!RunRecord
  BY <1>1 DEF Runs!RunRecord
<1>3. new.stage = run[o].stage /\ new.result = run[o].result /\ new.recoveries = run[o].recoveries
      /\ new.reported = run[o].reported /\ new.applied = run[o].applied
  BY <1>1 DEF Runs!RunRecord
<1>4. run' = [run EXCEPT ![o] = new]
  BY <1>1 DEF Started, RunsInv
<1> HIDE DEF new
<1>5. upd' = [upd EXCEPT ![r] = IdleRequest] /\ UNCHANGED <<op, rec>>
  BY DEF StartEffect, Done
<1>6. run'[o] = new
  BY <1>1, <1>4 DEF RunsInv
<1>7. PositionOf(o)'
  BY <1>1, <1>3, <1>5, <1>6, StatusByStage DEF PositionOf, StatusTells, Runs!RunRecord, Runs!Stage
<1>8. /\ run' \in [Op -> Runs!RunRecord]
      /\ \A p \in Op : PositionOf(p)'
      /\ \A p \in Op \ {o} : run'[p] = run[p]
  BY <1>1, <1>2, <1>4, <1>5, <1>7, OthersStay
<1>9. ASSUME NEW q \in Req PROVE RequestFollows(q)'
  <2>1. CASE q = r
    BY <1>5, <2>1 DEF RequestFollows, IdleRequest, ClaimInv, TypeOK
  <2>2. CASE q # r
    <3>1. upd'[q] = upd[q] /\ RequestFollows(q) /\ upd[q].op \in Op
      BY <1>5, <2>2 DEF RunsInv, ClaimInv, TypeOK, Request
    <3>2. upd[q].pc = "start" => upd[q].op # o
      BY <1>1, <2>2, <3>1 DEF RequestFollows
    <3>3. \A p \in Req : upd'[p].pc = "start" => upd'[p] = upd[p]
      BY <1>5 DEF IdleRequest, ClaimInv, TypeOK
    <3> QED
      BY <1>3, <1>6, <1>8, <3>1, <3>2, <3>3 DEF RequestFollows
  <2> QED
    BY <2>1, <2>2
<1>10. \A s \in Sweep : SweepFollows(s)'
  BY <1>3, <1>5, <1>6, <1>8 DEF RunsInv, SweepFollows, GivesUp, ClaimInv, TypeOK, Recovery
<1>11. Runs!StartRun(o)
  BY <1>1 DEF Started, Runs!StartRun, RunsInv, RequestFollows
<1> QED
  BY <1>8, <1>9, <1>10, <1>11 DEF RunsInv

\* Of what overlaps, nothing is lost here: all of it may come late.
LEMMA NothingIsLost ==
    ASSUME NEW o \in Op, NEW results
    PROVE  Runs!Late(o, results) = results
BY DEF Runs!Late

LEMMA ReservedRuns ==
    ASSUME RunsInv, ClaimInv, NEW r \in Req, NEW o \in Op, o = upd[r].op,
           Reserve(r), Reserved(r),
           Owns(r), op[upd[r].op].lease = upd[r].seen
    PROVE  RunsInv' /\ Runs!ReserveRun(o, upd[r].result) /\ upd[r].result \in Runs!Result
<1> DEFINE result == upd[r].result
           marked == [[run[o] EXCEPT !.stage = "reserved"] EXCEPT !.result = result]
           new == [marked EXCEPT !.reported = run[o].reported \cup {result}]
<1>1. o \in Op /\ upd[r] \in Request /\ op[o] \in Operation /\ op[o].status = "in-progress"
      /\ result \in Terminal
  BY DEF ClaimInv, TypeOK, Request, Owns, Reserve, Prepared
<1>2. run[o] \in Runs!RunRecord /\ PositionOf(o) /\ run[o].stage \in Runs!InProgress
      /\ result \in Runs!Result /\ run[o].reported \cup {result} \in SUBSET Runs!Result
  BY <1>1, StagesOfStatus DEF RunsInv, Runs!InProgress, Runs!Result, Terminal, Runs!RunRecord
<1>3. marked \in Runs!RunRecord
  BY <1>2 DEF Runs!RunRecord, Runs!Stage
<1>4. new \in Runs!RunRecord
  BY <1>2, <1>3 DEF Runs!RunRecord
<1>5. new.stage = "reserved" /\ new.result = result /\ new.starting = run[o].starting
      /\ new.recoveries = run[o].recoveries
      /\ new.reported = run[o].reported \cup {result} /\ new.applied = run[o].applied
  BY <1>2, <1>3 DEF Runs!RunRecord
<1>6. run' = [run EXCEPT ![o] = new]
  BY <1>1, <1>2 DEF Reserved, RunsInv
<1>7. PICK lease \in NewLease(r) : op' = [op EXCEPT ![o].finalization = result, ![o].lease = lease]
  BY DEF Reserve
<1>8. upd' = [upd EXCEPT ![r].pc = "apply"] /\ rec' = rec
  BY DEF Reserve, GoTo
<1>9. Runs!ReserveRun(o, result)
  <2>1. run[o].starting = (run[o].starting /\ o \in Op)
    BY <1>1, <1>2 DEF Runs!RunRecord
  <2>2. new = [run[o] EXCEPT !.stage = "reserved", !.result = result,
                             !.starting = run[o].starting,
                             !.reported = run[o].reported \cup {result},
                             !.applied = run[o].applied]
    BY <1>2 DEF Runs!RunRecord
  <2>3. new = [run[o] EXCEPT !.stage = "reserved", !.result = result,
                             !.starting = run[o].starting /\ o \in Op,
                             !.reported = Runs!Late(o, run[o].reported) \cup {result},
                             !.applied = Runs!Late(o, run[o].applied)]
    BY <2>1, <2>2, NothingIsLost
  <2> HIDE DEF new
  <2> QED
    BY <1>1, <1>2, <1>6, <2>3 DEF Runs!ReserveRun, RunsInv
<1> HIDE DEF new, marked
<1>10. /\ \A p \in Op \ {o} : op'[p] = op[p]
       /\ op'[o].status = "in-progress" /\ op'[o].recoveries = op[o].recoveries
       /\ op'[o].finalization = result
  BY <1>1, <1>7 DEF ClaimInv, TypeOK, Operation
<1>11. run'[o] = new
  BY <1>1, <1>6 DEF RunsInv
<1>12. PositionOf(o)'
  BY <1>1, <1>2, <1>5, <1>10, <1>11, StatusByStage DEF PositionOf, StatusTells
<1>13. /\ run' \in [Op -> Runs!RunRecord]
       /\ \A p \in Op : PositionOf(p)'
       /\ \A p \in Op \ {o} : run'[p] = run[p]
  BY <1>1, <1>4, <1>6, <1>10, <1>12, OthersStay
<1>14. ASSUME NEW q \in Req PROVE RequestFollows(q)'
  <2>1. upd'[r].pc = "apply" /\ upd'[r].op = o /\ upd'[r].result = result
        /\ \A p \in Req \ {r} : upd'[p] = upd[p]
    BY <1>1, <1>8 DEF ClaimInv, TypeOK, Request
  <2>2. CASE q = r
    BY <1>5, <1>11, <2>1, <2>2 DEF RequestFollows
  <2>3. CASE q # r
    BY <1>5, <1>11, <1>13, <2>1, <2>3 DEF RequestFollows, RunsInv, ClaimInv, TypeOK, Request
  <2> QED
    BY <2>2, <2>3
<1>15. \A s \in Sweep : SweepFollows(s)'
  BY <1>2, <1>8, <1>13
     DEF RunsInv, SweepFollows, GivesUp, ClaimInv, TypeOK, Recovery, Runs!InProgress
<1> QED
  BY <1>2, <1>9, <1>13, <1>14, <1>15 DEF RunsInv

LEMMA AppliedRuns ==
    ASSUME RunsInv, ClaimInv, NEW r \in Req, NEW o \in Op, o = upd[r].op,
           Apply(r), Applied(r)
    PROVE  RunsInv' /\ Runs!ApplyRun(o, upd[r].result) /\ upd[r].result \in Runs!Result
<1> DEFINE result == upd[r].result
           new == [run[o] EXCEPT !.applied = run[o].applied \cup {result}]
<1>1. o \in Op /\ run[o] \in Runs!RunRecord /\ PositionOf(o) /\ upd[r] \in Request
      /\ upd[r].pc = "apply" /\ result \in Runs!Result /\ result \in run[o].reported
  BY DEF ClaimInv, TypeOK, Request, RunsInv, Apply, Prepared, RequestFollows, Terminal, Runs!Result
<1>2. run[o].applied \cup {result} \in SUBSET Runs!Result
  BY <1>1 DEF Runs!RunRecord
<1>3. new \in Runs!RunRecord
  BY <1>1, <1>2 DEF Runs!RunRecord
<1>4. new.stage = run[o].stage /\ new.result = run[o].result /\ new.recoveries = run[o].recoveries
      /\ new.starting = run[o].starting /\ new.reported = run[o].reported
      /\ new.applied = run[o].applied \cup {result}
  BY <1>1 DEF Runs!RunRecord
<1>5. run' = [run EXCEPT ![o] = new]
  BY <1>1 DEF Applied, RunsInv
<1>6. Runs!ApplyRun(o, result)
  <2>1. new = [run[o] EXCEPT !.reported = Runs!Late(o, run[o].reported),
                             !.applied = run[o].applied \cup {result}]
    BY <1>1, NothingIsLost DEF Runs!RunRecord
  <2> HIDE DEF new
  <2> QED
    BY <1>1, <1>5, <2>1 DEF Runs!ApplyRun, RunsInv
<1> HIDE DEF new
<1>7. upd' = [upd EXCEPT ![r].pc = "finish"] /\ UNCHANGED <<op, rec>>
  BY DEF Apply, GoTo
<1>8. run'[o] = new
  BY <1>1, <1>5 DEF RunsInv
<1>9. PositionOf(o)'
  BY <1>1, <1>4, <1>7, <1>8, StatusByStage DEF PositionOf, StatusTells, Runs!RunRecord, Runs!Stage
<1>10. /\ run' \in [Op -> Runs!RunRecord]
       /\ \A p \in Op : PositionOf(p)'
       /\ \A p \in Op \ {o} : run'[p] = run[p]
  BY <1>1, <1>3, <1>5, <1>7, <1>9, OthersStay
<1>11. ASSUME NEW q \in Req PROVE RequestFollows(q)'
  <2>1. upd'[r].pc = "finish" /\ upd'[r].op = o /\ upd'[r].result = result
        /\ \A p \in Req \ {r} : upd'[p] = upd[p]
    BY <1>1, <1>7 DEF ClaimInv, TypeOK, Request
  <2>2. CASE q = r
    BY <1>4, <1>8, <2>1, <2>2 DEF RequestFollows
  <2>3. CASE q # r
    BY <1>4, <1>8, <1>10, <2>1, <2>3 DEF RequestFollows, RunsInv, ClaimInv, TypeOK, Request
  <2> QED
    BY <2>2, <2>3
<1>12. \A s \in Sweep : SweepFollows(s)'
  BY <1>4, <1>7, <1>8, <1>10 DEF RunsInv, SweepFollows, GivesUp, ClaimInv, TypeOK, Recovery
<1> QED
  BY <1>1, <1>6, <1>10, <1>11, <1>12 DEF RunsInv

\* What is published is the last reservation: an earlier one lost its finalization.
LEMMA PublishedRuns ==
    ASSUME RunsInv, ClaimInv, NEW r \in Req, NEW o \in Op, o = upd[r].op,
           Finish(r), Published(r),
           Owns(r), op[upd[r].op].finalization = upd[r].result
    PROVE  RunsInv' /\ Runs!PublishRun(o)
<1> DEFINE result == upd[r].result
           new == [run[o] EXCEPT !.stage = "ended"]
<1>1. o \in Op /\ run[o] \in Runs!RunRecord /\ PositionOf(o) /\ upd[r] \in Request
      /\ upd[r].pc = "finish" /\ result \in Terminal /\ op[o] \in Operation
      /\ op[o].status = "in-progress"
  BY DEF ClaimInv, TypeOK, Request, RunsInv, Finish, Prepared, Owns
<1>2. run[o].stage = "reserved" /\ run[o].result = result
  BY <1>1, StagesOfStatus DEF PositionOf, Terminal
<1>3. result \in run[o].applied
  BY <1>1 DEF RunsInv, RequestFollows
<1>4. new \in Runs!RunRecord
  BY <1>1 DEF Runs!RunRecord, Runs!Stage
<1>5. new.stage = "ended" /\ new.result = run[o].result /\ new.recoveries = run[o].recoveries
      /\ new.starting = run[o].starting /\ new.reported = run[o].reported
      /\ new.applied = run[o].applied
  BY <1>1 DEF Runs!RunRecord
<1>6. run' = [run EXCEPT ![o] = new]
  BY <1>1 DEF Published, RunsInv
<1>7. Runs!PublishRun(o)
  <2>1. new = [run[o] EXCEPT !.stage = "ended", !.applied = Runs!Late(o, run[o].applied)]
    BY <1>1, NothingIsLost DEF Runs!RunRecord
  <2> HIDE DEF new
  <2> QED
    BY <1>1, <1>2, <1>3, <1>6, <2>1 DEF Runs!PublishRun, RunsInv
<1> HIDE DEF new
<1>8. upd' = [upd EXCEPT ![r] = IdleRequest] /\ rec' = rec
      /\ op' = [op EXCEPT ![o].status = result]
  BY DEF Finish, Done
<1>9. /\ \A p \in Op \ {o} : op'[p] = op[p]
      /\ op'[o].status = result /\ op'[o].recoveries = op[o].recoveries
  BY <1>1, <1>8 DEF ClaimInv, TypeOK, Operation
<1>10. run'[o] = new
  BY <1>1, <1>6 DEF RunsInv
<1>11. PositionOf(o)'
  BY <1>1, <1>2, <1>5, <1>9, <1>10, StatusByStage DEF PositionOf, StatusTells
<1>12. /\ run' \in [Op -> Runs!RunRecord]
       /\ \A p \in Op : PositionOf(p)'
       /\ \A p \in Op \ {o} : run'[p] = run[p]
  BY <1>1, <1>4, <1>6, <1>9, <1>11, OthersStay
<1>13. ASSUME NEW q \in Req PROVE RequestFollows(q)'
  <2>1. upd'[r].pc = "idle" /\ \A p \in Req \ {r} : upd'[p] = upd[p]
    BY <1>8 DEF ClaimInv, TypeOK, IdleRequest
  <2>2. CASE q = r
    BY <2>1, <2>2 DEF RequestFollows
  <2>3. CASE q # r
    BY <1>5, <1>10, <1>12, <2>1, <2>3 DEF RequestFollows, RunsInv, ClaimInv, TypeOK, Request
  <2> QED
    BY <2>2, <2>3
<1>14. \A s \in Sweep : SweepFollows(s)'
  BY <1>2, <1>8, <1>12 DEF RunsInv, SweepFollows, GivesUp, ClaimInv, TypeOK, Recovery
<1> QED
  BY <1>7, <1>12, <1>13, <1>14 DEF RunsInv

\* A recovery finds no effects under way either.
LEMMA RecoveredRuns ==
    ASSUME RunsInv, Prompt, ClaimInv, FenceInv, NEW s \in Sweep, NEW stale \in rec[s].batch,
           NEW o \in Op, o = stale.op,
           RecoverWrite(s, stale), StillStale(stale), Recovered(stale)
    PROVE  RunsInv' /\ Runs!LapseRun(o)
<1> DEFINE stage == IF Disposition(stale) = "failed" THEN "exhausted" ELSE "queued"
           new == Runs!RunAt(stage, stale.recoveries + 1)
<1>1. o \in Op /\ op[o] \in Operation /\ op[o].status = "in-progress" /\ rec[s] \in Recovery
      /\ stale \in Stale /\ rec[s].age \in Age /\ SnapshotCurrent(s, stale) /\ rec[s].pc = "sweep"
  BY DEF ClaimInv, TypeOK, Recovery, Stale, StillStale, Snapshots, RecoverWrite
<1>2. run[o] \in Runs!RunRecord /\ PositionOf(o) /\ run[o].stage \in Runs!InProgress
  BY <1>1, StagesOfStatus DEF RunsInv, Runs!InProgress
<1>3. stale.recoveries = run[o].recoveries /\ run[o].recoveries < RecoveryLimit
      /\ stale.recoveries \in 0 .. RecoveryLimit
  BY <1>1, <1>2 DEF SnapshotCurrent, Stale, Lease, Age, StillStale, PositionOf
<1>4. stale.recoveries + 1 \in 0 .. RecoveryLimit
  BY <1>3, RecoveryAssumption
<1>5. new \in Runs!RunRecord
  BY <1>4 DEF Runs!RunAt, Runs!RunRecord, Runs!Stage
<1>6. new.stage = stage /\ new.recoveries = stale.recoveries + 1
  BY DEF Runs!RunAt
<1>7. run' = [run EXCEPT ![o] = new]
  BY DEF Recovered
<1>8. Runs!LapseRun(o)
  <2>1. stage = IF run[o].recoveries + 1 >= RecoveryLimit THEN "exhausted" ELSE "queued"
    BY <1>3 DEF Disposition
  <2> HIDE DEF stage
  <2> QED
    BY <1>2, <1>3, <1>7, <2>1 DEF Runs!LapseRun
<1> HIDE DEF new
<1>9. op' = [op EXCEPT ![o].status = Disposition(stale), ![o].reg = NoWorker,
                       ![o].finalization = "none", ![o].recoveries = stale.recoveries + 1]
      /\ rec' = [rec EXCEPT ![s].pc = "settle", ![s].op = o, ![s].batch = @ \ {stale},
                            ![s].outcome = Disposition(stale)]
      /\ upd' = upd
  BY DEF RecoverWrite
<1>10. /\ \A p \in Op \ {o} : op'[p] = op[p]
       /\ op'[o].status = Disposition(stale) /\ op'[o].recoveries = stale.recoveries + 1
       /\ op'[o].finalization = "none"
  BY <1>1, <1>9 DEF ClaimInv, TypeOK, Operation
<1>11. run'[o] = new
  BY <1>1, <1>7 DEF RunsInv
<1>12. Disposition(stale) \in {"failed", "queued"}
  BY DEF Disposition
<1>13. PositionOf(o)'
  BY <1>6, <1>10, <1>11, <1>12, StatusByStage DEF PositionOf, StatusTells
<1>14. /\ run' \in [Op -> Runs!RunRecord]
       /\ \A p \in Op : PositionOf(p)'
       /\ \A p \in Op \ {o} : run'[p] = run[p]
  BY <1>1, <1>5, <1>7, <1>10, <1>13, OthersStay
<1>15. \A q \in Req : upd[q].pc \in {"start", "apply", "finish"} => upd[q].op # o
  BY RecoveredIsClear DEF Prompt, Acting
<1>16. \A q \in Req : RequestFollows(q)'
  BY <1>9, <1>14, <1>15 DEF RequestFollows, RunsInv, ClaimInv, TypeOK, Request
<1>17. rec'[s].op = o /\ rec'[s].outcome = Disposition(stale)
       /\ \A t \in Sweep \ {s} : rec'[t] = rec[t]
  BY <1>1, <1>9 DEF ClaimInv, TypeOK, Recovery
<1>18. \A t \in Sweep : GivesUp(t) => rec[t].op # o /\ t # s
  BY <1>1, <1>2 DEF RunsInv, SweepFollows, GivesUp, Runs!InProgress
<1>19. ASSUME NEW t \in Sweep, GivesUp(t)' PROVE SweepFollows(t)'
  <2>1. CASE t = s
    BY <1>6, <1>11, <1>17, <1>18, <1>19, <2>1 DEF SweepFollows, GivesUp
  <2>2. CASE t # s
    <3>1. GivesUp(t) /\ SweepFollows(t) /\ rec'[t].op = rec[t].op
          /\ rec[t].op \in Op \ {o} /\ run'[rec[t].op] = run[rec[t].op]
      BY <1>14, <1>17, <1>18, <1>19, <2>2 DEF GivesUp, RunsInv, ClaimInv, TypeOK, Recovery
    <3> QED
      BY <1>17, <3>1 DEF SweepFollows, GivesUp
  <2> QED
    BY <2>1, <2>2
<1>20. \A t \in Sweep : SweepFollows(t)'
  BY <1>19 DEF SweepFollows
<1> QED
  BY <1>1, <1>8, <1>14, <1>16, <1>20 DEF RunsInv

LEMMA SettledRuns ==
    ASSUME RunsInv, ClaimInv, NEW s \in Sweep, NEW o \in Op, o = rec[s].op,
           RecoverSettle(s), Settled(s), GivesUp(s)
    PROVE  RunsInv' /\ Runs!SettleRun(o)
<1> DEFINE new == [run[o] EXCEPT !.stage = "settled"]
<1>1. o \in Op /\ run[o] \in Runs!RunRecord /\ PositionOf(o) /\ rec[s] \in Recovery
      /\ run[o].stage = "exhausted"
  BY DEF ClaimInv, TypeOK, Recovery, RunsInv, SweepFollows
<1>2. new \in Runs!RunRecord
  BY <1>1 DEF Runs!RunRecord, Runs!Stage
<1>3. new.stage = "settled" /\ new.starting = run[o].starting /\ new.recoveries = run[o].recoveries
      /\ new.reported = run[o].reported /\ new.applied = run[o].applied
  BY <1>1 DEF Runs!RunRecord
<1>4. run' = [run EXCEPT ![o] = new]
  BY <1>1 DEF Settled, GivesUp, RunsInv
<1> HIDE DEF new
<1>5. rec' = [rec EXCEPT ![s].pc = "sweep"] /\ UNCHANGED <<op, upd>>
  BY DEF RecoverSettle
<1>6. run'[o] = new
  BY <1>1, <1>4 DEF RunsInv
<1>7. PositionOf(o)'
  BY <1>1, <1>3, <1>5, <1>6, StatusByStage DEF PositionOf, StatusTells
<1>8. /\ run' \in [Op -> Runs!RunRecord]
      /\ \A p \in Op : PositionOf(p)'
      /\ \A p \in Op \ {o} : run'[p] = run[p]
  BY <1>1, <1>2, <1>4, <1>5, <1>7, OthersStay
<1>9. \A r \in Req : RequestFollows(r)'
  BY <1>3, <1>5, <1>6, <1>8 DEF RunsInv, RequestFollows, ClaimInv, TypeOK, Request
<1>10. ASSUME NEW t \in Sweep, GivesUp(t)' PROVE SweepFollows(t)'
  <2>1. rec'[s].pc = "sweep" /\ \A u \in Sweep \ {s} : rec'[u] = rec[u]
    BY <1>1, <1>5 DEF ClaimInv, TypeOK, Recovery
  <2>2. t # s /\ GivesUp(t) /\ SweepFollows(t)
    BY <1>10, <2>1 DEF GivesUp, RunsInv
  <2>3. rec[t].op \in Op \ {o} /\ run'[rec[t].op] = run[rec[t].op]
    BY <1>8, <2>2 DEF SweepFollows, ClaimInv, TypeOK, Recovery
  <2> QED
    BY <2>1, <2>2, <2>3 DEF SweepFollows, GivesUp
<1>11. \A t \in Sweep : SweepFollows(t)'
  BY <1>10 DEF SweepFollows
<1>12. Runs!SettleRun(o)
  BY <1>1 DEF Settled, GivesUp, Runs!SettleRun, Runs!RunGoes
<1> QED
  BY <1>1, <1>8, <1>9, <1>11, <1>12 DEF RunsInv

\* What a step does to one operation is a step of its position.
RunsMove == RunsInv' /\ ((\E o \in Op : Runs!RunStep(o)) \/ UNCHANGED run)

LEMMA RequestsMove ==
    ASSUME RunsInv, Prompt, ClaimInv, FenceInv, NEW r \in Req, RequestRuns(r)
    PROVE  RunsMove
<1>0. PICK o \in Op : o = upd[r].op
  BY DEF ClaimInv, TypeOK, Request
<1>1. ASSUME UNCHANGED <<op, rec>>, Done(r), UNCHANGED run PROVE RunsMove
  BY <1>1, RunsStay DEF RunsMove, Done, IdleRequest, ClaimInv, TypeOK
<1>2. CASE Begin(r) /\ UNCHANGED run
  <2>1. UNCHANGED <<op, rec>> /\ upd'[r].pc \in {"claim", "renew", "reserve"}
        /\ \A q \in Req \ {r} : upd'[q] = upd[q]
    BY <1>2 DEF Begin, BeginClaim, BeginRenew, BeginReport, Arrive, ClaimInv, TypeOK
  <2> QED
    BY <1>2, <2>1, RunsStay DEF RunsMove
<1>3. CASE RenewWrite(r) /\ UNCHANGED run
  <2>1. \/ op' = op
        \/ \E lease \in NewLease(r) : op' = [op EXCEPT ![o].ttl = upd[r].ttl, ![o].lease = lease]
    BY <1>0, <1>3 DEF RenewWrite
  <2>2. \A p \in Op : /\ op'[p].status = op[p].status
                      /\ op'[p].recoveries = op[p].recoveries
                      /\ op'[p].finalization = op[p].finalization
    BY <2>1 DEF ClaimInv, TypeOK, Operation
  <2> QED
    BY <1>3, <2>2, RunsStay DEF RunsMove, RenewWrite, Done, IdleRequest, ClaimInv, TypeOK
<1>4. CASE Abort(r) /\ UNCHANGED run
  BY <1>1, <1>4 DEF Abort
<1>5. CASE ClaimWrite(r) /\ IfWritten(upd'[r].pc = "start", Claimed(r))
  <2>1. CASE Claimable(r)
    <3>1. upd'[r].pc = "start"
      BY <1>0, <1>5, <2>1 DEF ClaimWrite, GoTo, ClaimInv, TypeOK, Request
    <3>2. Claimed(r)
      BY <1>5, <3>1 DEF IfWritten
    <3> QED
      BY <1>0, <1>5, <2>1, <3>2, ClaimedRuns DEF RunsMove, Runs!RunStep, Runs!RunMoves
  <2>2. CASE ~ Claimable(r)
    <3>1. Done(r) /\ UNCHANGED <<op, rec>> /\ upd'[r].pc = "idle"
      BY <1>5, <2>2 DEF ClaimWrite, Done, IdleRequest, ClaimInv, TypeOK
    <3> QED
      BY <1>1, <1>5, <3>1 DEF IfWritten
  <2> QED
    BY <2>1, <2>2
<1>6. CASE StartEffect(r) /\ Started(r)
  BY <1>0, <1>6, StartedRuns DEF RunsMove, Runs!RunStep
<1>7. CASE Reserve(r) /\ IfWritten(upd'[r].pc = "apply", Reserved(r))
  <2>1. CASE Owns(r) /\ op[upd[r].op].lease = upd[r].seen
    <3>1. upd'[r].pc = "apply"
      BY <1>0, <1>7, <2>1 DEF Reserve, GoTo, ClaimInv, TypeOK, Request
    <3>2. Reserved(r)
      BY <1>7, <3>1 DEF IfWritten
    <3> QED
      BY <1>0, <1>7, <2>1, <3>2, ReservedRuns DEF RunsMove, Runs!RunStep, Runs!RunMoves
  <2>2. CASE ~ (Owns(r) /\ op[upd[r].op].lease = upd[r].seen)
    <3>1. Done(r) /\ UNCHANGED <<op, rec>> /\ upd'[r].pc = "idle"
      BY <1>7, <2>2 DEF Reserve, Done, IdleRequest, ClaimInv, TypeOK
    <3> QED
      BY <1>1, <1>7, <3>1 DEF IfWritten
  <2> QED
    BY <2>1, <2>2
<1>8. CASE Apply(r) /\ Applied(r)
  BY <1>0, <1>8, AppliedRuns DEF RunsMove, Runs!RunStep
<1>9. CASE Finish(r) /\ IfWritten(op' # op, Published(r))
  <2>1. CASE Owns(r) /\ op[upd[r].op].finalization = upd[r].result
    <3>1. op' # op
      BY <1>0, <1>9, <2>1
         DEF Finish, Owns, ClaimInv, TypeOK, Operation, Prepared, Terminal
    <3>2. Published(r)
      BY <1>9, <3>1 DEF IfWritten
    <3> QED
      BY <1>0, <1>9, <2>1, <3>2, PublishedRuns DEF RunsMove, Runs!RunStep, Runs!RunMoves
  <2>2. CASE ~ (Owns(r) /\ op[upd[r].op].finalization = upd[r].result)
    <3>1. Done(r) /\ UNCHANGED <<op, rec>>
      BY <1>9, <2>2 DEF Finish
    <3> QED
      BY <1>1, <1>9, <3>1 DEF IfWritten
  <2> QED
    BY <2>1, <2>2
<1> QED
  BY <1>2, <1>3, <1>4, <1>5, <1>6, <1>7, <1>8, <1>9 DEF RequestRuns

LEMMA SweepsMove ==
    ASSUME RunsInv, Prompt, ClaimInv, FenceInv, NEW s \in Sweep, SweepRuns(s)
    PROVE  RunsMove
<1>0. rec[s] \in Recovery
  BY DEF ClaimInv, TypeOK
<1> PICK o \in Op : o = rec[s].op
  BY <1>0 DEF Recovery
<1>1. CASE RecoverScan(s) /\ UNCHANGED run
  <2>1. UNCHANGED <<op, upd>> /\ rec'[s].pc = "sweep" /\ \A t \in Sweep \ {s} : rec'[t] = rec[t]
    BY <1>0, <1>1 DEF RecoverScan, ClaimInv, TypeOK, Recovery
  <2> QED
    BY <1>1, <2>1, RunsStay DEF RunsMove
<1>2. CASE RecoverEnd(s) /\ UNCHANGED run
  BY <1>2, RunsStay DEF RunsMove, RecoverEnd, IdleRecovery, ClaimInv, TypeOK
<1>3. ASSUME NEW stale \in rec[s].batch, RecoverWrite(s, stale),
             IfWritten(rec'[s].pc = "settle", Recovered(stale))
      PROVE  RunsMove
  <2>1. CASE StillStale(stale)
    <3>0. PICK p \in Op : p = stale.op
      BY DEF ClaimInv, TypeOK, Recovery, Stale
    <3>1. rec'[s].pc = "settle"
      BY <1>0, <1>3, <2>1 DEF RecoverWrite, ClaimInv, TypeOK, Recovery
    <3>2. Recovered(stale)
      BY <1>3, <3>1 DEF IfWritten
    <3> QED
      BY <1>3, <2>1, <3>0, <3>2, RecoveredRuns DEF RunsMove, Runs!RunStep, Runs!RunMoves
  <2>2. CASE ~ StillStale(stale)
    <3>1. UNCHANGED <<op, upd>> /\ rec'[s].pc = "sweep" /\ \A t \in Sweep \ {s} : rec'[t] = rec[t]
      BY <1>0, <1>3, <2>2 DEF RecoverWrite, ClaimInv, TypeOK, Recovery
    <3>2. UNCHANGED run
      BY <1>3, <3>1 DEF IfWritten
    <3> QED
      BY <3>1, <3>2, RunsStay DEF RunsMove
  <2> QED
    BY <2>1, <2>2
<1>4. CASE RecoverSettle(s) /\ Settled(s)
  <2>1. CASE GivesUp(s)
    BY <1>4, <2>1, SettledRuns DEF RunsMove, Runs!RunStep
  <2>2. CASE ~ GivesUp(s)
    <3>1. UNCHANGED <<op, upd>> /\ rec'[s].pc = "sweep" /\ \A t \in Sweep \ {s} : rec'[t] = rec[t]
      BY <1>0, <1>4 DEF RecoverSettle, ClaimInv, TypeOK, Recovery
    <3>2. UNCHANGED run
      BY <1>4, <2>2 DEF Settled, GivesUp, RecoverSettle
    <3> QED
      BY <3>1, <3>2, RunsStay DEF RunsMove
  <2> QED
    BY <2>1, <2>2
<1> QED
  BY <1>1, <1>2, <1>3, <1>4 DEF SweepRuns

LEMMA RunsNextMoves ==
    ASSUME RunsInv, Prompt, ClaimInv, FenceInv, [RunsNext]_<<vars, run>>
    PROVE  RunsMove
<1>1. CASE \E o \in Op : Create(o) /\ Created(o)
  BY <1>1, CreatedRuns DEF RunsMove, Runs!RunStep
<1>2. CASE Tick /\ UNCHANGED run
  <2>1. \A o \in Op : /\ op'[o].status = op[o].status
                      /\ op'[o].recoveries = op[o].recoveries
                      /\ op'[o].finalization = op[o].finalization
    BY <1>2 DEF Tick, ClaimInv, TypeOK, Operation
  <2>2. \A r \in Req : /\ upd'[r].pc = upd[r].pc
                       /\ upd'[r].op = upd[r].op
                       /\ upd'[r].result = upd[r].result
    BY <1>2 DEF Tick, ClaimInv, TypeOK, Request
  <2>3. \A s \in Sweep : /\ rec'[s].pc = rec[s].pc
                         /\ rec'[s].op = rec[s].op
                         /\ rec'[s].outcome = rec[s].outcome
    BY <1>2 DEF Tick, ClaimInv, TypeOK, Recovery
  <2> QED
    BY <1>2, <2>1, <2>2, <2>3, RunsStay DEF RunsMove
<1>3. CASE UNCHANGED <<vars, run>>
  BY <1>3, RunsStay DEF RunsMove, vars
<1> QED
  BY <1>1, <1>2, <1>3, RequestsMove, SweepsMove DEF RunsNext

\* The history only accompanies the steps of Next.
LEMMA RunsNextIsNext == [RunsNext]_<<vars, run>> => [Next]_vars
BY DEF RunsNext, RequestRuns, SweepRuns, Next, Advance, RecoverStep, vars

\* Whatever leases the API grants, the claim protocol implements OperationRuns,
\* whichever requests overlap, as long as no request still acts in its last tick
\* under a lease of only two timeouts: effects run inside their claim or its
\* report, recovery hands an operation on or gives it up only when none of them
\* is pending, and the stored status is that of the position.  What is proved of
\* the components that conjoin their effects to OperationRuns holds with the
\* claim protocol in its place.
THEOREM ClaimsImplementRuns == RunsSpec /\ []Prompt => ImplementsRuns
<1>1. RunsInit => Init /\ FenceInv /\ ClaimInv
  BY InitInv DEF RunsInit, Init, FenceInv, Protected, Acting, IdleRequest
<1>2. ClaimInv /\ FenceInv /\ [RunsNext]_<<vars, run>> => ClaimInv' /\ FenceInv'
  BY NextInv, FenceNext, RunsNextIsNext
<1>3. RunsInv /\ Prompt /\ ClaimInv /\ FenceInv /\ [RunsNext]_<<vars, run>>
        => RunsInv' /\ [\E t \in Op : Runs!RunStep(t)]_run
  BY RunsNextMoves DEF RunsMove
<1>4. RunsInv => \A o \in Op : op[o].status = Runs!RunStatus(o)
  BY DEF RunsInv, PositionOf
<1>5. RunsSpec /\ []Prompt => [](RunsInv /\ Prompt /\ ClaimInv /\ FenceInv)
  BY <1>1, <1>2, <1>3, RunsInitially, PTL DEF RunsSpec
<1>6. RunsSpec /\ []Prompt => Runs!RunSpec
  BY <1>3, <1>5, RunsInitially, PTL DEF RunsSpec, Runs!RunSpec
<1>7. RunsSpec /\ []Prompt => [](\A o \in Op : op[o].status = Runs!RunStatus(o))
  BY <1>4, <1>5, PTL
<1> QED
  BY <1>6, <1>7 DEF ImplementsRuns
=============================================================================
