---------------------------- MODULE WorkersProofs ----------------------------
(***************************************************************************)
(* Proofs about what workers do besides running operations: the reports of *)
(* DeployLogs and their refinement of DeployReports; WorkerPools.  For any *)
(* number of workers, requests and deliveries, any batches and timeouts.   *)
(* Together with deletions they are the parts of MCLogsAndServices.        *)
(***************************************************************************)
EXTENDS MCLogsAndServices, OperationRunsProofs, FiniteSetTheorems, TLAPS

(* DeployLogs, and the transition table of DeployStates *)

\* The statuses the API stores are their own normal form.
LEMMA StoredIsNormal == \A s \in DeployStatus : NormalizeDeployStatus(s) = s
BY DEF DeployStatus, Phase, TerminalDeploy, deployProgressRank, NormalizeDeployStatus

\* The ranks are totally ordered numbers.
LEMMA RankType == deployProgressRank \in [Phase -> 0 .. 7]
BY DEF Phase, deployProgressRank

\* A legal transition never leaves the end of a deploy, and moves between two
\* phases of progress only forward.
LEMMA TransitionsProgress ==
    ASSUME NEW from \in DeployStatus, NEW to \in DeployStatus, CanTransitionDeployStatus(from, to)
    PROVE  /\ from \in TerminalDeploy => to = from
           /\ from \in Phase /\ to \in Phase =>
                deployProgressRank[from] <= deployProgressRank[to]
<1>1. NormalizeDeployStatus(from) = from /\ NormalizeDeployStatus(to) = to
  BY StoredIsNormal
<1>2. \/ from = to
      \/ from = "rolling-back" /\ to \in {"rolled-back", "failed"}
      \/ /\ from \notin TerminalDeploy \cup {"rolling-back"}
         /\ \/ to \in {"failed", "rolling-back"}
            \/ to = "retrying" /\ from # "requested"
            \/ Progresses(from, to)
  BY <1>1 DEF CanTransitionDeployStatus
<1>3. Phase \cap {"rolling-back", "rolled-back", "failed", "retrying"} = {}
  BY DEF Phase, deployProgressRank
<1>4. "rolling-back" \notin TerminalDeploy
  BY DEF TerminalDeploy
<1>5. from \in Phase /\ Progresses(from, to) => deployProgressRank[from] < deployProgressRank[to]
  BY <1>3 DEF Progresses
<1>6. from \in Phase /\ to \in Phase => deployProgressRank[from] <= deployProgressRank[to]
  BY <1>2, <1>3, <1>5, RankType
<1> QED
  BY <1>2, <1>4, <1>6
-----------------------------------------------------------------------------
\* A numbered batch is in the log only if its number is recorded, and a request
\* about to write was allowed the transition from the status it read.
LogsInv ==
    /\ TypeOK
    /\ \A b \in Numbered : appended[b] > 0 => b \in ids
    /\ \A r \in Req : req[r].pc = "write" /\ Reports(r) =>
         CanTransitionDeployStatus(req[r].read, Reported(r))
    /\ AppendedAtMostOnce

LEMMA IdleType == Idle \in Request /\ Idle.pc = "idle"
BY BatchAssumption DEF Idle, Request, DeployStatus, Phase, deployProgressRank

LEMMA LogsInit == Init => LogsInv
<1> SUFFICES ASSUME Init PROVE LogsInv
  OBVIOUS
<1>1. status \in DeployStatus
  BY DEF Init, DeployStatus, Phase, deployProgressRank
<1>2. req \in [Req -> Request] /\ \A r \in Req : req[r].pc = "idle"
  BY IdleType DEF Init
<1>3. sends \in [Batch -> 0 .. MaxSends] /\ answer \in [Batch -> Answer]
  BY BatchAssumption DEF Init, Answer
<1>4. TypeOK
  BY <1>1, <1>2, <1>3 DEF Init, TypeOK
<1> QED
  BY <1>2, <1>4, BatchAssumption DEF Init, LogsInv, AppendedAtMostOnce

\* The request of slot r ends; nothing else that the invariant speaks of moves.
LEMMA IdleInv ==
    ASSUME LogsInv, NEW r \in Req, req' = [req EXCEPT ![r] = Idle],
           answer' \in [Batch -> Answer], UNCHANGED <<status, appended, ids, sends>>
    PROVE  LogsInv'
<1>1. Idle \in Request /\ Idle.pc = "idle"
  BY IdleType DEF LogsInv, TypeOK, Request
<1>2. TypeOK'
  BY <1>1 DEF LogsInv, TypeOK
<1>3. ASSUME NEW q \in Req, req'[q].pc = "write" PROVE req'[q] = req[q]
  BY <1>1, <1>3 DEF LogsInv, TypeOK
<1> QED
  BY <1>2, <1>3 DEF LogsInv, Reports, Reported, AppendedAtMostOnce

LEMMA SendInv == ASSUME LogsInv, NEW r \in Req, NEW b \in Batch, Send(r, b) PROVE LogsInv'
<1>1. req' = [req EXCEPT ![r].batch = b,
                         ![r].pc = IF BatchStatus[b] = NoStatus THEN "write" ELSE "read"]
  BY DEF Send
<1>2. /\ req'[r].batch = b
      /\ req'[r].pc = IF BatchStatus[b] = NoStatus THEN "write" ELSE "read"
  BY <1>1 DEF LogsInv, TypeOK, Request
<1>3. \A q \in Req : q # r => req'[q] = req[q]
  BY <1>1 DEF LogsInv, TypeOK
<1>4. sends' \in [Batch -> 0 .. MaxSends]
  BY BatchAssumption DEF Send, LogsInv, TypeOK
<1>5. TypeOK'
  BY <1>1, <1>4 DEF Send, LogsInv, TypeOK, Request
<1>6. ASSUME NEW q \in Req, req'[q].pc = "write", Reports(q)'
      PROVE  CanTransitionDeployStatus(req'[q].read, Reported(q)')
  <2>1. q # r
    BY <1>2, <1>6 DEF Reports
  <2> QED
    BY <1>3, <1>6, <2>1 DEF LogsInv, Reports, Reported
<1> QED
  BY <1>5, <1>6 DEF Send, LogsInv, AppendedAtMostOnce

LEMMA RespondType ==
    ASSUME LogsInv, NEW r \in Req, NEW code \in Answer, Respond(r, code)
    PROVE  req' = [req EXCEPT ![r] = Idle] /\ answer' \in [Batch -> Answer]
BY DEF Respond, LogsInv, TypeOK, Request

LEMMA ReadInv == ASSUME LogsInv, NEW r \in Req, Read(r) PROVE LogsInv'
<1>1. CASE CanTransitionDeployStatus(status, Reported(r))
  <2>1. req' = [req EXCEPT ![r].pc = "write", ![r].read = status]
        /\ UNCHANGED <<status, appended, ids, sends, answer>>
    BY <1>1 DEF Read
  <2>2. req'[r].read = status /\ req'[r].batch = req[r].batch
        /\ \A q \in Req : q # r => req'[q] = req[q]
    BY <2>1 DEF LogsInv, TypeOK, Request
  <2>3. TypeOK'
    BY <2>1 DEF LogsInv, TypeOK, Request
  <2> QED
    BY <1>1, <2>1, <2>2, <2>3 DEF LogsInv, Reports, Reported, AppendedAtMostOnce
<1>2. CASE ~ CanTransitionDeployStatus(status, Reported(r))
  BY <1>2, RespondType, IdleInv DEF Read, Answer
<1> QED
  BY <1>1, <1>2

LEMMA WriteInv == ASSUME LogsInv, NEW r \in Req, Write(r) PROVE LogsInv'
<1>0. PICK b \in Batch : b = req[r].batch
  BY DEF LogsInv, TypeOK, Request
<1>1. CASE Matches(r)
  <2>1. /\ status' = IF Reports(r) THEN Reported(r) ELSE status
        /\ appended' = [appended EXCEPT ![b] = @ + 1]
        /\ ids' = IF b \in Numbered THEN ids \cup {b} ELSE ids
        /\ Respond(r, "204") /\ UNCHANGED sends
    BY <1>0, <1>1 DEF Write
  <2>2. req' = [req EXCEPT ![r] = Idle] /\ answer' \in [Batch -> Answer]
    BY <2>1, RespondType DEF Answer
  <2>3. Idle \in Request /\ Idle.pc = "idle"
    BY IdleType DEF LogsInv, TypeOK, Request
  <2>4. status' \in DeployStatus
    BY <1>0, <2>1, BatchAssumption DEF LogsInv, TypeOK, Reports, Reported
  <2>5. TypeOK'
    <3>1. appended' \in [Batch -> Nat]
      BY <1>0, <2>1 DEF LogsInv, TypeOK
    <3>2. ids' \subseteq Batch /\ sends' \in [Batch -> 0 .. MaxSends]
      BY <1>0, <2>1 DEF LogsInv, TypeOK
    <3>3. req' \in [Req -> Request]
      BY <2>2, <2>3 DEF LogsInv, TypeOK
    <3> QED
      BY <2>2, <2>4, <3>1, <3>2, <3>3 DEF TypeOK
  <2>6. ASSUME NEW q \in Req, req'[q].pc = "write" PROVE req'[q] = req[q]
    BY <2>2, <2>3, <2>6 DEF LogsInv, TypeOK
  <2>7. b \in Numbered => appended[b] = 0
    BY <1>0, <1>1 DEF Matches, LogsInv, TypeOK
  <2>8. \A c \in Numbered : (appended'[c] > 0 => c \in ids') /\ appended'[c] <= 1
    BY <2>1, <2>7, BatchAssumption DEF LogsInv, TypeOK, AppendedAtMostOnce
  <2> QED
    <3>1. ASSUME NEW q \in Req, req'[q].pc = "write", Reports(q)'
          PROVE  CanTransitionDeployStatus(req'[q].read, Reported(q)')
      BY <2>6, <3>1 DEF LogsInv, Reports, Reported
    <3>2. \A c \in Numbered : appended'[c] > 0 => c \in ids'
      BY <2>8
    <3>3. AppendedAtMostOnce'
      BY <2>8 DEF AppendedAtMostOnce
    <3> QED
      BY <2>5, <3>1, <3>2, <3>3 DEF LogsInv
<1>2. CASE ~ Matches(r)
  <2>1. req' = [req EXCEPT ![r].pc = "recheck"]
        /\ UNCHANGED <<status, appended, ids, sends, answer>>
    BY <1>2 DEF Write
  <2>2. TypeOK'
    BY <2>1 DEF LogsInv, TypeOK, Request
  <2>3. ASSUME NEW q \in Req, req'[q].pc = "write" PROVE req'[q] = req[q]
    BY <2>1, <2>3 DEF LogsInv, TypeOK
  <2> QED
    BY <2>1, <2>2, <2>3 DEF LogsInv, Reports, Reported, AppendedAtMostOnce
<1> QED
  BY <1>1, <1>2

LEMMA LogsNext == ASSUME LogsInv, [Next]_vars PROVE LogsInv'
<1>1. ASSUME NEW r \in Req, Recheck(r) PROVE LogsInv'
  BY <1>1, RespondType, IdleInv DEF Recheck, Answer
<1>2. ASSUME NEW r \in Req, Abort(r) PROVE LogsInv'
  BY <1>2, IdleInv DEF Abort, LogsInv, TypeOK
<1>3. ASSUME NEW next \in EffectStatus, Effect(next) PROVE LogsInv'
  BY <1>3, BatchAssumption DEF Effect, LogsInv, TypeOK, Reports, Reported, AppendedAtMostOnce
<1>4. CASE UNCHANGED vars
  BY <1>4 DEF vars, LogsInv, TypeOK, Reports, Reported, AppendedAtMostOnce
<1> QED
  BY <1>1, <1>2, <1>3, <1>4, SendInv, ReadInv, WriteInv DEF Next

\* Every reachable state of the deliveries satisfies the invariant.
THEOREM LogsInvariant == Spec => []LogsInv
<1>1. Init => LogsInv
  BY LogsInit
<1>2. LogsInv /\ [Next]_vars => LogsInv'
  BY LogsNext
<1> QED
  BY <1>1, <1>2, PTL DEF Spec

\* A numbered batch is appended at most once, for any number of deliveries and
\* concurrent requests.
THEOREM DeliveredAtMostOnce == Spec => []AppendedAtMostOnce
<1>1. LogsInv => AppendedAtMostOnce
  BY DEF LogsInv
<1> QED
  BY <1>1, LogsInvariant, PTL

\* No interleaving of reports, other writers and stale reads lets a report take
\* the deploy backwards or out of a terminal status.
THEOREM ReportsProgress == Spec => ReportsDoNotRegress
<1> DEFINE Progress == \A r \in Req : Write(r) =>
                          /\ status \in TerminalDeploy => status' = status
                          /\ status \in Phase /\ status' \in Phase =>
                                deployProgressRank[status] <= deployProgressRank[status']
<1>1. ASSUME LogsInv, [Next]_vars PROVE [Progress]_vars
  <2> SUFFICES ASSUME NEW r \in Req, Write(r)
               PROVE  /\ status \in TerminalDeploy => status' = status
                      /\ status \in Phase /\ status' \in Phase =>
                            deployProgressRank[status] <= deployProgressRank[status']
    OBVIOUS
  <2>1. CASE status' = status
    BY <2>1, RankType
  <2>2. CASE status' # status
    <3>1. Reports(r) /\ status = req[r].read /\ status' = Reported(r) /\ req[r].pc = "write"
      BY <2>2 DEF Write, Matches
    <3>2. status \in DeployStatus /\ status' \in DeployStatus
      BY <1>1, LogsNext DEF LogsInv, TypeOK
    <3>3. CanTransitionDeployStatus(status, status')
      BY <1>1, <3>1 DEF LogsInv
    <3> QED
      BY <3>2, <3>3, TransitionsProgress
  <2> QED
    BY <2>1, <2>2
<1> QED
  BY <1>1, LogsInvariant, PTL DEF Spec, ReportsDoNotRegress

\* Both modules extend DeployStates, so they have the same transition table.
LEMMA SameTransitions ==
    ASSUME NEW from, NEW to
    PROVE  Reporting!CanTransitionDeployStatus(from, to) <=> CanTransitionDeployStatus(from, to)
<1>1. Reporting!deployProgressRank = deployProgressRank
  BY DEF Reporting!deployProgressRank, deployProgressRank
<1>2. Reporting!Phase = Phase
  BY <1>1 DEF Reporting!Phase, Phase
<1>3. \A s : Reporting!NormalizeDeployStatus(s) = NormalizeDeployStatus(s)
  BY DEF Reporting!NormalizeDeployStatus, NormalizeDeployStatus
<1>4. \A s, t : Reporting!Progresses(s, t) <=> Progresses(s, t)
  BY <1>1, <1>2 DEF Reporting!Progresses, Progresses
<1> QED
  BY <1>3, <1>4 DEF Reporting!CanTransitionDeployStatus, CanTransitionDeployStatus,
                    Reporting!TerminalDeploy, TerminalDeploy

\* A write that matches is legal at the instant it takes effect: the status is
\* the one the transition was checked against, and the number is not there yet.
LEMMA WriteIsAppend ==
    ASSUME LogsInv, NEW r \in Req, Write(r)
    PROVE  [Reporting!Next]_Reporting!vars
<1>0. PICK b \in Batch : b = req[r].batch
  BY DEF LogsInv, TypeOK, Request
<1>1. CASE Matches(r)
  <2>1. /\ status' = IF BatchStatus[b] = NoStatus THEN status ELSE BatchStatus[b]
        /\ appended' = [appended EXCEPT ![b] = @ + 1]
    BY <1>0, <1>1 DEF Write, Reports, Reported
  <2>2. b \in Numbered => appended[b] = 0
    BY <1>0, <1>1 DEF Matches, LogsInv, TypeOK
  <2>3. BatchStatus[b] # NoStatus => CanTransitionDeployStatus(status, BatchStatus[b])
    BY <1>0, <1>1 DEF Write, Matches, Reports, Reported, LogsInv
  <2>4. Reporting!Append(b)
    BY <2>1, <2>2, <2>3, SameTransitions DEF Reporting!Append, Reporting!Legal
  <2> QED
    BY <2>4 DEF Reporting!Next
<1>2. CASE ~ Matches(r)
  BY <1>2 DEF Write, Reporting!vars
<1> QED
  BY <1>1, <1>2

\* Reports look atomic: however reads, conditional writes, rechecks, repeated
\* deliveries and the other writers interleave, the deploy and its log change
\* only by legal transitions with lines that were not there, at one instant.
THEOREM ReportsAreAtomic == Spec => ImplementsReports
<1>1. Init => Reporting!Init
  BY DEF Init, Reporting!Init
<1>2. ASSUME LogsInv, [Next]_vars PROVE [Reporting!Next]_Reporting!vars
  <2>1. ASSUME NEW r \in Req, NEW b \in Batch, Send(r, b) PROVE UNCHANGED <<status, appended>>
    BY <2>1 DEF Send
  <2>2. ASSUME NEW r \in Req, Read(r) \/ Recheck(r) \/ Abort(r) PROVE UNCHANGED <<status, appended>>
    BY <2>2 DEF Read, Recheck, Abort
  <2>3. ASSUME NEW next \in EffectStatus, Effect(next) PROVE Reporting!Next
    BY <2>3 DEF Effect, Reporting!Effect, Reporting!Next
  <2>4. CASE UNCHANGED vars
    BY <2>4 DEF vars, Reporting!vars
  <2> QED
    BY <1>2, <2>1, <2>2, <2>3, <2>4, WriteIsAppend DEF Next, Reporting!vars
<1> QED
  BY <1>1, <1>2, LogsInvariant, PTL DEF Spec, ImplementsReports, Reporting!Spec

\* The deploy, its log and the requests about it keep their types.
THEOREM LogsTypeCorrect == Spec => []TypeOK
<1>1. LogsInv => TypeOK
  BY DEF LogsInv
<1> QED
  BY <1>1, LogsInvariant, PTL
-----------------------------------------------------------------------------
(* WorkerPools *)

\* Only a deletion starts the clock of a registration.
ClockStarts == \A g \in WorkerReg : registration[g] # "deleted" => since[g] = 0

\* Why a worker cannot come back for long: a heartbeat enters before the deletion
\* of its registration, reaches its handler within ReadTimeout, and what it writes
\* is no younger than its handler.
BeatsLinger ==
    \A w \in Replica :
        registration[RegOf[w]] = "deleted" =>
            /\ beating[w].pc = "auth" => since[RegOf[w]] <= beating[w].age
            /\ beating[w].pc \notin {"idle", "auth"} => since[RegOf[w]] <= ReadTimeout + beating[w].age
            /\ w \in Listed => since[RegOf[w]] <= ReadTimeout + worker[w].beat

PoolInv == PoolTypeOK /\ ClockStarts /\ BeatsLinger

LEMMA InitialPool == PoolInit => PoolInv
  BY PoolAssumption DEF PoolInit, PoolInv, PoolTypeOK, NoWorkerDoc, NoBeat, WorkerDoc, Heartbeat,
                        ClockStarts, BeatsLinger, Listed

\* A registration that is deleted stays so, and its clock starts at zero.
Deleting(g) ==
    /\ registration[g] = "deleted" => registration'[g] = "deleted" /\ since'[g] = since[g]
    /\ registration[g] # "deleted" => since'[g] = 0

\* How a step other than a tick changes what is known of one worker: a request
\* begins, enters its handler, goes on or ends; its document goes, or is written.
BeatMoves(w) ==
    \/ beating'[w] = beating[w]
    \/ beating'[w].pc = "idle"
    \/ registration'[RegOf[w]] # "deleted"
    \/ beating[w].pc = "auth" /\ beating'[w].pc = "load" /\ beating'[w].age = 0
    \/ /\ beating[w].pc \notin {"idle", "auth"} /\ beating'[w].pc \notin {"idle", "auth"}
       /\ beating'[w].age = beating[w].age

DocMoves(w) ==
    \/ worker'[w].status = "absent"
    \/ worker[w].status # "absent" /\ worker'[w].beat = worker[w].beat
    \/ beating[w].pc \notin {"idle", "auth"} /\ worker'[w].beat = UpTo(StaleAge + 1, beating[w].age)

PoolMoves == /\ \A g \in WorkerReg : Deleting(g)
             /\ \A w \in Replica : BeatMoves(w) /\ DocMoves(w)

\* What happens between two ticks, and the tick.
PoolStep ==
    \/ \E g \in WorkerReg : \/ CreateWorkerRegistration(g) \/ WorkerAuth(g)
                            \/ DeleteWorkerRegistration(g) \/ RemoveWorkers(g)
                            \/ RemoveRegistration(g) \/ StopRemoving(g) \/ MarkInactive(g)
    \/ \E w \in Replica : \/ DeleteWorker(w) \/ BeginBeat(w) \/ EnterBeat(w) \/ LoadWorker(w)
                          \/ MarkActive(w) \/ StopBeat(w) \/ CountFresh(w)
                          \/ \E report \in ReportedStatus : WriteWorker(w, report) \/ UpdateWorker(w, report)
    \/ \E enabled \in BOOLEAN : SetWorkerPoolMaintenance(enabled) \/ SetWorkerPoolDrain(enabled)

LEMMA NextIsStepOrTick == PoolNext <=> PoolStep \/ PoolTick
  BY DEF PoolNext, PoolStep

LEMMA RegistrationSet ==
    ASSUME PoolTypeOK, ClockStarts, NEW g \in WorkerReg, NEW to \in {"active", "inactive"},
           SetRegistration(g, to), UNCHANGED since
    PROVE  /\ registration' \in [WorkerReg -> {"absent", "unused", "active", "inactive", "deleted"}]
           /\ \A h \in WorkerReg : Deleting(h)
  BY DEF PoolTypeOK, ClockStarts, SetRegistration, Registered, Deleting

LEMMA Unregistered ==
    ASSUME PoolTypeOK, ClockStarts, NEW g \in WorkerReg, Unregister(g)
    PROVE  /\ registration' \in [WorkerReg -> {"absent", "unused", "active", "inactive", "deleted"}]
           /\ since' \in [WorkerReg -> 0 .. StaleAge + ReadTimeout + 1]
           /\ \A h \in WorkerReg : Deleting(h)
  BY PoolAssumption DEF PoolTypeOK, ClockStarts, Unregister, Registered, Deleting

LEMMA RegistrationStays ==
    ASSUME ClockStarts, UNCHANGED <<registration, since>>
    PROVE  \A h \in WorkerReg : Deleting(h)
  BY DEF ClockStarts, Deleting

\* A step on registrations alone.
LEMMA RegistrationsKeep ==
    ASSUME PoolTypeOK, ClockStarts, NEW g \in WorkerReg,
           \/ CreateWorkerRegistration(g) \/ WorkerAuth(g) \/ DeleteWorkerRegistration(g)
           \/ RemoveWorkers(g) \/ RemoveRegistration(g) \/ StopRemoving(g) \/ MarkInactive(g)
    PROVE  PoolTypeOK' /\ PoolMoves
<1>1. \A w \in Replica : BeatMoves(w)
  BY DEF BeatMoves, CreateWorkerRegistration, WorkerAuth, DeleteWorkerRegistration, RemoveWorkers,
         RemoveRegistration, StopRemoving, MarkInactive
<1>2. NoWorkerDoc \in WorkerDoc /\ NoWorkerDoc.status = "absent"
  BY PoolAssumption DEF NoWorkerDoc, WorkerDoc
<1>3. /\ worker' \in [Replica -> WorkerDoc]
      /\ \A w \in Replica : worker'[w] \in {worker[w], NoWorkerDoc}
  BY <1>2 DEF PoolTypeOK, CreateWorkerRegistration, WorkerAuth, DeleteWorkerRegistration, RemoveWorkers,
         RemoveRegistration, StopRemoving, MarkInactive, Unlist
<1>4. \A w \in Replica : DocMoves(w)
  BY <1>2, <1>3 DEF DocMoves
<1>5. /\ registration' \in [WorkerReg -> {"absent", "unused", "active", "inactive", "deleted"}]
      /\ since' \in [WorkerReg -> 0 .. StaleAge + ReadTimeout + 1]
      /\ \A h \in WorkerReg : Deleting(h)
  <2>1. CASE CreateWorkerRegistration(g)
    BY <2>1 DEF PoolTypeOK, ClockStarts, CreateWorkerRegistration, Deleting
  <2>2. CASE WorkerAuth(g) \/ MarkInactive(g)
    BY <2>2, RegistrationSet, RegistrationStays DEF WorkerAuth, MarkInactive, PoolTypeOK
  <2>3. CASE DeleteWorkerRegistration(g) \/ RemoveRegistration(g)
    BY <2>3, Unregistered DEF DeleteWorkerRegistration, RemoveRegistration
  <2>4. CASE RemoveWorkers(g) \/ StopRemoving(g)
    BY <2>4, RegistrationStays DEF RemoveWorkers, StopRemoving, PoolTypeOK
  <2> QED
    BY <2>1, <2>2, <2>3, <2>4
<1>6. /\ removing' \in [WorkerReg -> {"nothing", "workers", "registration"}]
      /\ marking' \in {NoMark} \cup {{h} : h \in WorkerReg}
      /\ UNCHANGED <<beating, control>>
  BY DEF PoolTypeOK, CreateWorkerRegistration, WorkerAuth, DeleteWorkerRegistration, RemoveWorkers,
         RemoveRegistration, StopRemoving, MarkInactive
<1>7. PoolTypeOK'
  BY <1>3, <1>5, <1>6 DEF PoolTypeOK
<1> QED
  BY <1>1, <1>4, <1>5, <1>7 DEF PoolMoves

\* A step of a heartbeat, or one on the document of a worker.
LEMMA HeartbeatsKeep ==
    ASSUME PoolTypeOK, ClockStarts, NEW w \in Replica,
           BeginBeat(w) \/ EnterBeat(w) \/ LoadWorker(w) \/ MarkActive(w) \/ StopBeat(w)
    PROVE  PoolTypeOK' /\ PoolMoves
<1>0. /\ beating[w] \in Heartbeat /\ RegOf[w] \in WorkerReg
      /\ NoBeat \in Heartbeat /\ NoBeat.pc = "idle"
  BY PoolAssumption DEF PoolTypeOK, NoBeat, Heartbeat
<1>1. UNCHANGED <<worker, since, removing, marking, control>>
  BY DEF BeginBeat, EnterBeat, LoadWorker, MarkActive, StopBeat
<1>2. /\ registration' \in [WorkerReg -> {"absent", "unused", "active", "inactive", "deleted"}]
      /\ \A g \in WorkerReg : Deleting(g)
  <2>1. CASE MarkActive(w)
    BY <1>0, <1>1, <2>1, RegistrationSet DEF MarkActive
  <2>2. CASE ~ MarkActive(w)
    BY <1>1, <2>2, RegistrationStays DEF BeginBeat, EnterBeat, LoadWorker, StopBeat, PoolTypeOK
  <2> QED
    BY <2>1, <2>2
<1>3. /\ beating'[w] \in Heartbeat /\ beating' = [beating EXCEPT ![w] = beating'[w]]
      /\ BeatMoves(w)
  <2>1. CASE BeginBeat(w)
    <3>1. [pc |-> "auth", age |-> 0] \in Heartbeat
      BY PoolAssumption DEF Heartbeat
    <3> QED
      BY <1>0, <2>1, <3>1 DEF BeginBeat, PoolTypeOK, Authentic, Registered, BeatMoves
  <2>2. CASE EnterBeat(w)
    <3>0. 0 \in 0 .. ReadTimeout /\ [beating[w] EXCEPT !.pc = "load"] \in Heartbeat
      BY <1>0, PoolAssumption DEF Heartbeat
    <3>1. [[beating[w] EXCEPT !.pc = "load"] EXCEPT !.age = 0] \in Heartbeat
      BY <3>0 DEF Heartbeat
    <3>2. beating' = [beating EXCEPT ![w] = [[beating[w] EXCEPT !.pc = "load"] EXCEPT !.age = 0]]
      BY <2>2 DEF EnterBeat, PoolTypeOK
    <3>3. beating[w].pc = "auth" /\ beating'[w].pc = "load" /\ beating'[w].age = 0
      BY <1>0, <2>2, <3>2 DEF EnterBeat, PoolTypeOK, Heartbeat
    <3> QED
      BY <3>1, <3>2, <3>3 DEF BeatMoves, PoolTypeOK
  <2>3. CASE LoadWorker(w)
    <3> DEFINE pc == IF w \in Listed THEN "update" ELSE "insert"
    <3>1. [beating[w] EXCEPT !.pc = pc] \in Heartbeat
      BY <1>0 DEF Heartbeat
    <3>2. beating' = [beating EXCEPT ![w] = [beating[w] EXCEPT !.pc = pc]]
      BY <2>3 DEF LoadWorker, BeatGoes, PoolTypeOK
    <3>3. /\ beating[w].pc = "load" /\ beating'[w].pc \in {"update", "insert"}
          /\ beating'[w].age = beating[w].age
      BY <1>0, <2>3, <3>2 DEF LoadWorker, PoolTypeOK, Heartbeat
    <3> QED
      BY <3>1, <3>2, <3>3 DEF BeatMoves, PoolTypeOK
  <2>4. CASE MarkActive(w) \/ StopBeat(w)
    BY <1>0, <2>4 DEF MarkActive, StopBeat, BeatMoves, PoolTypeOK
  <2> QED
    BY <2>1, <2>2, <2>3, <2>4
<1>4. PoolTypeOK'
  BY <1>1, <1>2, <1>3 DEF PoolTypeOK
<1>5. \A v \in Replica : BeatMoves(v) /\ DocMoves(v)
  BY <1>1, <1>3 DEF BeatMoves, DocMoves, PoolTypeOK
<1> QED
  BY <1>2, <1>4, <1>5 DEF PoolMoves

LEMMA WorkerDocsKeep ==
    ASSUME PoolTypeOK, ClockStarts, NEW w \in Replica,
           \/ DeleteWorker(w) \/ CountFresh(w)
           \/ \E report \in ReportedStatus : WriteWorker(w, report) \/ UpdateWorker(w, report)
    PROVE  PoolTypeOK' /\ PoolMoves
<1>0. /\ beating[w] \in Heartbeat /\ worker[w] \in WorkerDoc /\ RegOf[w] \in WorkerReg
      /\ NoWorkerDoc \in WorkerDoc /\ NoWorkerDoc.status = "absent"
  BY PoolAssumption DEF PoolTypeOK, NoWorkerDoc, WorkerDoc
<1>1. UNCHANGED <<registration, since, control>>
  BY DEF DeleteWorker, CountFresh, WriteWorker, UpdateWorker
<1>2. \A g \in WorkerReg : Deleting(g)
  BY <1>1, RegistrationStays
<1>3. CASE DeleteWorker(w) \/ CountFresh(w)
  <2>1. /\ worker' \in [Replica -> WorkerDoc]
        /\ \A v \in Replica : worker'[v] \in {worker[v], NoWorkerDoc}
    BY <1>0, <1>3 DEF DeleteWorker, CountFresh, Unlist, PoolTypeOK
  <2>2. PoolTypeOK'
    BY <1>0, <1>1, <1>3, <2>1 DEF DeleteWorker, CountFresh, PoolTypeOK
  <2>3. \A v \in Replica : BeatMoves(v) /\ DocMoves(v)
    BY <1>0, <1>3, <2>1 DEF DeleteWorker, CountFresh, BeatMoves, DocMoves
  <2> QED
    BY <1>2, <2>2, <2>3 DEF PoolMoves
<1>4. ASSUME NEW report \in ReportedStatus, WriteWorker(w, report)
      PROVE  PoolTypeOK' /\ PoolMoves
  <2> DEFINE x == [status |-> report, beat |-> UpTo(StaleAge + 1, beating[w].age)]
  <2>1. x \in WorkerDoc
    BY <1>0, PoolAssumption DEF WorkerDoc, Heartbeat, UpTo
  <2>2. worker' = worker \/ worker' = [worker EXCEPT ![w] = x]
    BY <1>4 DEF WriteWorker
  <2>3. x.beat = UpTo(StaleAge + 1, beating[w].age)
    OBVIOUS
  <2> HIDE DEF x
  <2>4. worker' \in [Replica -> WorkerDoc]
    BY <2>1, <2>2 DEF PoolTypeOK
  <2>5. [beating[w] EXCEPT !.pc = "register"] \in Heartbeat
    BY <1>0 DEF Heartbeat
  <2>6. beating' = [beating EXCEPT ![w] = [beating[w] EXCEPT !.pc = "register"]]
    BY <1>4 DEF WriteWorker, BeatGoes, PoolTypeOK
  <2>7. PoolTypeOK'
    BY <1>1, <1>4, <2>4, <2>5, <2>6 DEF WriteWorker, PoolTypeOK
  <2>8. /\ beating[w].pc \in {"insert", "update"} /\ beating'[w].pc = "register"
        /\ beating'[w].age = beating[w].age
    BY <1>0, <1>4, <2>6 DEF WriteWorker, PoolTypeOK, Heartbeat
  <2>9. \A v \in Replica : BeatMoves(v) /\ DocMoves(v)
    BY <2>2, <2>3, <2>6, <2>8 DEF BeatMoves, DocMoves, PoolTypeOK
  <2> QED
    BY <1>2, <2>7, <2>9 DEF PoolMoves
<1>5. ASSUME NEW report \in ReportedStatus, UpdateWorker(w, report)
      PROVE  PoolTypeOK' /\ PoolMoves
  <2>1. [worker[w] EXCEPT !.status = report] \in WorkerDoc
    BY <1>0 DEF WorkerDoc
  <2>2. worker' = [worker EXCEPT ![w] = [worker[w] EXCEPT !.status = report]]
    BY <1>5 DEF UpdateWorker, PoolTypeOK
  <2>3. worker[w].status # "absent" /\ worker'[w].beat = worker[w].beat
    BY <1>0, <1>5, <2>2 DEF UpdateWorker, Listed, PoolTypeOK, WorkerDoc
  <2>4. PoolTypeOK'
    BY <1>1, <1>5, <2>1, <2>2 DEF UpdateWorker, PoolTypeOK
  <2>5. \A v \in Replica : BeatMoves(v) /\ DocMoves(v)
    BY <1>5, <2>2, <2>3 DEF UpdateWorker, BeatMoves, DocMoves, PoolTypeOK
  <2> QED
    BY <1>2, <2>4, <2>5 DEF PoolMoves
<1> QED
  BY <1>3, <1>4, <1>5

\* Between ticks: no age changes, and a request that enters, or writes, takes
\* over what was known of it.
LEMMA MovesLinger ==
    ASSUME PoolInv, PoolTypeOK', PoolMoves
    PROVE  ClockStarts' /\ BeatsLinger'
<1>1. ClockStarts'
  BY DEF PoolMoves, Deleting, ClockStarts, PoolInv
<1>2. BeatsLinger'
  <2> SUFFICES ASSUME NEW w \in Replica, registration'[RegOf[w]] = "deleted"
               PROVE  /\ beating'[w].pc = "auth" => since'[RegOf[w]] <= beating'[w].age
                      /\ beating'[w].pc \notin {"idle", "auth"} =>
                            since'[RegOf[w]] <= ReadTimeout + beating'[w].age
                      /\ worker'[w].status # "absent" => since'[RegOf[w]] <= ReadTimeout + worker'[w].beat
    BY DEF BeatsLinger, Listed
  <2>0. /\ RegOf[w] \in WorkerReg /\ ReadTimeout \in Nat /\ StaleAge \in Nat
        /\ beating[w] \in Heartbeat /\ beating'[w] \in Heartbeat
        /\ worker[w] \in WorkerDoc /\ worker'[w] \in WorkerDoc
        /\ since[RegOf[w]] \in 0 .. StaleAge + ReadTimeout + 1
    BY PoolAssumption DEF PoolInv, PoolTypeOK
  <2>1. /\ beating[w].age \in 0 .. ReadTimeout /\ beating'[w].age \in 0 .. ReadTimeout
        /\ worker[w].beat \in 0 .. StaleAge + 1 /\ worker'[w].beat \in 0 .. StaleAge + 1
    BY <2>0 DEF Heartbeat, WorkerDoc
  <2>2. CASE registration[RegOf[w]] # "deleted"
    <3>1. since'[RegOf[w]] = 0
      BY <2>0, <2>2 DEF PoolMoves, Deleting
    <3> QED
      BY <2>0, <2>1, <3>1
  <2>3. CASE registration[RegOf[w]] = "deleted"
    <3>1. since'[RegOf[w]] = since[RegOf[w]]
      BY <2>0, <2>3 DEF PoolMoves, Deleting
    <3>2. /\ beating[w].pc = "auth" => since[RegOf[w]] <= beating[w].age
          /\ beating[w].pc \notin {"idle", "auth"} => since[RegOf[w]] <= ReadTimeout + beating[w].age
          /\ worker[w].status # "absent" => since[RegOf[w]] <= ReadTimeout + worker[w].beat
      BY <2>3 DEF PoolInv, BeatsLinger, Listed
    <3>3. /\ beating'[w].pc = "auth" => since'[RegOf[w]] <= beating'[w].age
          /\ beating'[w].pc \notin {"idle", "auth"} => since'[RegOf[w]] <= ReadTimeout + beating'[w].age
      <4>1. BeatMoves(w)
        BY DEF PoolMoves
      <4> QED
        BY <2>0, <2>1, <3>1, <3>2, <4>1 DEF BeatMoves
    <3>4. worker'[w].status # "absent" => since'[RegOf[w]] <= ReadTimeout + worker'[w].beat
      <4>1. DocMoves(w)
        BY DEF PoolMoves
      <4> QED
        BY <2>0, <2>1, <3>1, <3>2, <4>1 DEF DocMoves, UpTo
    <3> QED
      BY <3>3, <3>4
  <2> QED
    BY <2>2, <2>3
<1> QED
  BY <1>1, <1>2

\* A tick ages all that is compared, by one or up to limits that add up.
LEMMA PoolTickKeeps ==
    ASSUME PoolInv, PoolTick
    PROVE  PoolInv'
<1> USE DEF PoolTick
<1>0. ReadTimeout \in Nat /\ StaleAge \in Nat
  BY PoolAssumption
<1>1. ASSUME NEW w \in Replica
      PROVE  /\ worker[w] \in WorkerDoc /\ worker'[w] \in WorkerDoc
             /\ worker[w].beat \in 0 .. StaleAge + 1 /\ worker'[w].status = worker[w].status
             /\ worker[w].status # "absent" => worker'[w].beat = UpTo(StaleAge + 1, worker[w].beat + 1)
  <2>1. worker[w] \in WorkerDoc /\ worker[w].beat \in 0 .. StaleAge + 1
    BY DEF PoolInv, PoolTypeOK, WorkerDoc
  <2>2. UpTo(StaleAge + 1, worker[w].beat + 1) \in 0 .. StaleAge + 1
    BY <1>0, <2>1 DEF UpTo
  <2>3. [worker[w] EXCEPT !.beat = UpTo(StaleAge + 1, @ + 1)] \in WorkerDoc
    BY <2>1, <2>2 DEF WorkerDoc
  <2> QED
    BY <2>1, <2>3 DEF WorkerDoc, Listed
<1>2. ASSUME NEW w \in Replica
      PROVE  /\ beating[w] \in Heartbeat /\ beating'[w] \in Heartbeat
             /\ beating[w].age \in 0 .. ReadTimeout /\ beating'[w].pc = beating[w].pc
             /\ beating[w].pc # "idle" => beating'[w].age = beating[w].age + 1
  <2>1. beating[w] \in Heartbeat /\ beating[w].age \in 0 .. ReadTimeout
    BY DEF PoolInv, PoolTypeOK, Heartbeat
  <2>2. beating[w].pc # "idle" => beating[w].age + 1 \in 0 .. ReadTimeout
    BY <1>0, <2>1, PoolAssumption DEF BeatLimit
  <2>3. beating[w].pc # "idle" => [beating[w] EXCEPT !.age = @ + 1] \in Heartbeat
    BY <2>1, <2>2 DEF Heartbeat
  <2> QED
    BY <2>1, <2>3 DEF Heartbeat
<1>3. ASSUME NEW g \in WorkerReg
      PROVE  /\ since[g] \in 0 .. StaleAge + ReadTimeout + 1
             /\ since'[g] = IF registration[g] = "deleted"
                              THEN UpTo(StaleAge + ReadTimeout + 1, since[g] + 1) ELSE since[g]
             /\ since'[g] \in 0 .. StaleAge + ReadTimeout + 1
  BY <1>0 DEF PoolInv, PoolTypeOK, UpTo
<1>4. PoolTypeOK'
  <2>1. worker' \in [Replica -> WorkerDoc]
    BY <1>1
  <2>2. beating' \in [Replica -> Heartbeat]
    BY <1>2
  <2>3. since' \in [WorkerReg -> 0 .. StaleAge + ReadTimeout + 1]
    BY <1>3
  <2> QED
    BY <2>1, <2>2, <2>3 DEF PoolInv, PoolTypeOK
<1>5. ClockStarts'
  BY <1>3 DEF PoolInv, ClockStarts
<1>6. BeatsLinger'
  <2> SUFFICES ASSUME NEW w \in Replica, registration[RegOf[w]] = "deleted"
               PROVE  /\ beating'[w].pc = "auth" => since'[RegOf[w]] <= beating'[w].age
                      /\ beating'[w].pc \notin {"idle", "auth"} =>
                            since'[RegOf[w]] <= ReadTimeout + beating'[w].age
                      /\ worker'[w].status # "absent" => since'[RegOf[w]] <= ReadTimeout + worker'[w].beat
    BY DEF BeatsLinger, Listed
  <2> HIDE DEF PoolTick
  <2>1. RegOf[w] \in WorkerReg
    BY PoolAssumption
  <2>2. /\ beating[w].pc = "auth" => since[RegOf[w]] <= beating[w].age
        /\ beating[w].pc \notin {"idle", "auth"} => since[RegOf[w]] <= ReadTimeout + beating[w].age
        /\ worker[w].status # "absent" => since[RegOf[w]] <= ReadTimeout + worker[w].beat
    BY DEF PoolInv, BeatsLinger, Listed
  <2>3. since'[RegOf[w]] = UpTo(StaleAge + ReadTimeout + 1, since[RegOf[w]] + 1)
        /\ since[RegOf[w]] \in 0 .. StaleAge + ReadTimeout + 1
    BY <1>3, <2>1
  <2>4. /\ beating'[w].pc = "auth" => since'[RegOf[w]] <= beating'[w].age
        /\ beating'[w].pc \notin {"idle", "auth"} => since'[RegOf[w]] <= ReadTimeout + beating'[w].age
    <3>1. since'[RegOf[w]] <= since[RegOf[w]] + 1 /\ since'[RegOf[w]] \in Nat
      BY <1>0, <2>3 DEF UpTo
    <3>2. since[RegOf[w]] \in Nat
      BY <1>0, <2>3
    <3>3. ASSUME beating[w].pc # "idle"
          PROVE  beating'[w].age = beating[w].age + 1 /\ beating[w].age \in Nat
      BY <1>2, <3>3
    <3>4. beating'[w].pc = beating[w].pc
      BY <1>2
    <3> QED
      BY <1>0, <2>2, <3>1, <3>2, <3>3, <3>4
  <2>5. worker'[w].status # "absent" => since'[RegOf[w]] <= ReadTimeout + worker'[w].beat
    BY <1>0, <1>1, <2>2, <2>3 DEF UpTo
  <2> QED
    BY <2>4, <2>5
<1> QED
  BY <1>4, <1>5, <1>6 DEF PoolInv

LEMMA PoolInductive == PoolInv /\ [PoolNext]_poolVars => PoolInv'
<1> SUFFICES ASSUME PoolInv, [PoolNext]_poolVars PROVE PoolInv'
  OBVIOUS
<1>0. PoolTypeOK /\ ClockStarts
  BY DEF PoolInv
<1>1. CASE UNCHANGED poolVars
  BY <1>1 DEF poolVars, PoolInv, PoolTypeOK, ClockStarts, BeatsLinger, Listed
<1>2. CASE PoolTick
  BY <1>2, PoolTickKeeps
<1>3. CASE PoolStep
  <2>1. ASSUME NEW enabled \in BOOLEAN, SetWorkerPoolMaintenance(enabled) \/ SetWorkerPoolDrain(enabled)
        PROVE  PoolTypeOK' /\ PoolMoves
    <3>1. control' \in [maintenance : BOOLEAN, drain : BOOLEAN]
      BY <1>0, <2>1 DEF SetWorkerPoolMaintenance, SetWorkerPoolDrain, PoolTypeOK
    <3>2. UNCHANGED <<worker, registration, since, beating, removing, marking>>
      BY <2>1 DEF SetWorkerPoolMaintenance, SetWorkerPoolDrain
    <3>3. \A w \in Replica : BeatMoves(w) /\ DocMoves(w)
      BY <3>2 DEF BeatMoves, DocMoves
    <3> QED
      BY <1>0, <3>1, <3>2, <3>3, RegistrationStays DEF PoolMoves, PoolTypeOK
  <2>2. PoolTypeOK' /\ PoolMoves
    BY <1>0, <1>3, <2>1, RegistrationsKeep, HeartbeatsKeep, WorkerDocsKeep DEF PoolStep
  <2> QED
    BY <2>2, MovesLinger DEF PoolInv
<1> QED
  BY <1>1, <1>2, <1>3, NextIsStepOrTick

LEMMA PoolInvariant == PoolSpec => []PoolInv
  BY InitialPool, PoolInductive, PTL DEF PoolSpec

\* Workers, registrations, heartbeats and deletions keep their types, however
\* the timeout of a heartbeat compares with the age at which a worker is stale.
THEOREM PoolTypeCorrect == PoolSpec => []PoolTypeOK
<1>1. PoolInv => PoolTypeOK
  BY DEF PoolInv
<1> QED
  BY <1>1, PoolInvariant, PTL

\* A registration deleted longer ago than a heartbeat may linger has no worker
\* that deploys would wait for, for any number of replicas and any timeouts.
THEOREM DeletedWorkersGoQuiet == PoolSpec => []QuietAfterDeletion
<1>1. ASSUME PoolInv PROVE QuietAfterDeletion
  <2> SUFFICES ASSUME NEW w \in Replica, worker[w].status # "absent", registration[RegOf[w]] = "deleted",
                      since[RegOf[w]] > StaleAge + ReadTimeout
               PROVE  ~ (worker[w].beat <= StaleAge)
    BY DEF QuietAfterDeletion, Listed, Fresh
  <2>1. /\ since[RegOf[w]] \in Nat /\ worker[w].beat \in Nat
        /\ StaleAge \in Nat /\ ReadTimeout \in Nat
    BY <1>1, PoolAssumption DEF PoolInv, PoolTypeOK, WorkerDoc
  <2>2. since[RegOf[w]] <= ReadTimeout + worker[w].beat
    BY <1>1 DEF PoolInv, BeatsLinger, Listed
  <2> QED
    BY <2>1, <2>2
<1> QED
  BY <1>1, PoolInvariant, PTL

(* The two views of a pool *)

LEMMA ReplicasFinite ==
    /\ Listed \subseteq Replica /\ \A S \in SUBSET Replica : IsFiniteSet(S) /\ Cardinality(S) \in Nat
    /\ Groups \subseteq WorkerReg
    /\ \A S \in SUBSET WorkerReg : IsFiniteSet(S) /\ Cardinality(S) \in Nat
  BY PoolAssumption, FS_Subset, FS_CardinalityType DEF Listed, Groups

LEMMA CountsType ==
    ASSUME NEW kind
    PROVE  /\ InGroups(kind) \in Nat /\ Registrations(kind) \in Nat
           /\ InGroups(kind) = 0 <=> \A g \in Groups : GroupStatus(g) # kind
<1> DEFINE S == {g \in Groups : GroupStatus(g) = kind}
<1>1. IsFiniteSet(S) /\ Cardinality(S) \in Nat
  BY ReplicasFinite
<1>2. Registrations(kind) \in Nat
  BY ReplicasFinite DEF Registrations
<1>3. Cardinality(S) = 0 <=> S = {}
  BY <1>1, FS_EmptySet
<1> QED
  BY <1>1, <1>2, <1>3 DEF InGroups

\* A group is shown with a status some of its workers are shown with.
LEMMA ShownStatus ==
    ASSUME NEW g \in Groups, NEW w \in Under(g), Shown(w) \in ActiveWorkerStatus
    PROVE  GroupStatus(g) \in ActiveWorkerStatus
  BY DEF GroupStatus, ActiveWorkerStatus

\* A group shown as busy has a worker that is.
LEMMA BusyGroup ==
    ASSUME NEW g \in Groups, GroupStatus(g) = "busy"
    PROVE  \E w \in Under(g) : Shown(w) = "busy"
  BY DEF GroupStatus

LEMMA HiddenStatus ==
    ASSUME NEW g \in Groups, \A w \in Under(g) : Shown(w) = "offline"
    PROVE  GroupStatus(g) = "offline"
  BY DEF GroupStatus

\* The replicas a group has places for are finitely many.
LEMMA DesiredType == AgentsDesired \in Nat
<1>1. \A g \in WorkerReg : GroupDesired(g) \in Nat
  <2> SUFFICES ASSUME NEW g \in WorkerReg PROVE GroupDesired(g) \in Nat
    OBVIOUS
  <2>1. {w \in Under(g) : Shown(w) # "offline"} \subseteq Replica
    BY DEF Under, Listed
  <2>2. OnlineAgents(g) \in Nat
    BY <2>1, ReplicasFinite DEF OnlineAgents
  <2> QED
    BY <2>2, PoolAssumption DEF GroupDesired
<1> DEFINE F == [g \in Groups |-> {g} \X (1 .. GroupDesired(g))]
<1>2. \A g \in Groups : IsFiniteSet({g} \X (1 .. GroupDesired(g)))
  <2> SUFFICES ASSUME NEW g \in Groups PROVE IsFiniteSet({g} \X (1 .. GroupDesired(g)))
    OBVIOUS
  <2>1. IsFiniteSet({g})
    BY FS_Singleton
  <2>2. IsFiniteSet(1 .. GroupDesired(g))
    BY <1>1, ReplicasFinite, FS_Interval
  <2> QED
    BY <2>1, <2>2, FS_Product
<1> DEFINE T == {{g} \X (1 .. GroupDesired(g)) : g \in Groups}
<1>3. IsFiniteSet(T)
  <2>1. F \in Surjection(Groups, T)
    BY DEF Surjection
  <2> QED
    BY <2>1, ReplicasFinite, FS_Surjection
<1>4. IsFiniteSet(UNION T)
  BY <1>2, <1>3, FS_UNION
<1> QED
  BY <1>4, FS_CardinalityType DEF AgentsDesired

LEMMA MinMaxOf ==
    ASSUME NEW a \in Int, NEW b \in Int
    PROVE  /\ Min({a, b}) = IF a <= b THEN a ELSE b
           /\ Max({a, b}) = IF a >= b THEN a ELSE b
<1>1. \E x \in {a, b} : \A y \in {a, b} : x <= y
  <2>1. CASE a <= b
    BY <2>1
  <2>2. CASE ~(a <= b)
    BY <2>2
  <2> QED BY <2>1, <2>2
<1>2. \E x \in {a, b} : \A y \in {a, b} : x >= y
  <2>1. CASE a >= b
    BY <2>1
  <2>2. CASE ~(a >= b)
    BY <2>2
  <2> QED BY <2>1, <2>2
<1>3. Min({a, b}) \in {a, b} /\ \A y \in {a, b} : Min({a, b}) <= y
  BY <1>1 DEF Min
<1>4. Max({a, b}) \in {a, b} /\ \A y \in {a, b} : Max({a, b}) >= y
  BY <1>2 DEF Max
<1> QED
  BY <1>3, <1>4

\* When nobody in the pool is shown as working, what is left of the score is
\* below the lowest state with capacity.
LEMMA IdlePoolScores ==
    ASSUME \A w \in Listed : Shown(w) = "offline"
    PROVE  CapacityScore \in Int /\ CapacityScore < 40
<1>1. \A w \in Listed : Shown(w) = "offline"
  OBVIOUS
<1>2. AgentsOnline = 0
  BY <1>1, FS_EmptySet DEF AgentsOnline
<1>3. \A g \in Groups : GroupStatus(g) = "offline"
  BY <1>1, HiddenStatus DEF Under
<1>4. Ready = 0
  BY <1>3, CountsType DEF Ready
<1> DEFINE a == IF AgentsDesired > 0 THEN (Min({AgentsOnline, AgentsDesired}) * 60) \div AgentsDesired ELSE 0
           b == IF Groups # {} THEN (Ready * 25) \div Cardinality(Groups) ELSE 0
           c == Min({5 * Registrations("unused"), 15})
           d == IF Ready > 0 THEN (InGroups("busy") * 15) \div Ready ELSE 0
<1>5. a = 0
  <2>1. AgentsDesired > 0 => Min({AgentsOnline, AgentsDesired}) = 0
    BY <1>2, DesiredType, MinMaxOf
  <2>2. AgentsDesired > 0 => (0 * 60) \div AgentsDesired = 0
    BY DesiredType
  <2> QED
    BY <2>1, <2>2
<1>6. b = 0
  <2>1. Groups # {} => Cardinality(Groups) \in Nat /\ Cardinality(Groups) > 0
    BY ReplicasFinite, FS_EmptySet
  <2>2. Groups # {} => (0 * 25) \div Cardinality(Groups) = 0
    BY <2>1
  <2> QED
    BY <1>4, <2>2
<1>7. c \in Int /\ c <= 15
  BY CountsType, MinMaxOf
<1>8. d = 0
  BY <1>4
<1> HIDE DEF a, b, c, d
<1>9. CapacityScore = Max({0, Min({a + b + c - d, 100})})
  BY DEF CapacityScore, a, b, c, d
<1>10. a + b + c - d = c
  BY <1>5, <1>6, <1>7, <1>8
<1>11. Min({c, 100}) = c
  BY <1>7, MinMaxOf
<1>12. CapacityScore = Max({0, c})
  BY <1>9, <1>10, <1>11
<1>13. 0 \in Int /\ c \in Int
  BY <1>7
<1>14. Max({0, c}) = IF 0 >= c THEN 0 ELSE c
  BY ONLY <1>13, MinMaxOf
<1> QED
  BY <1>7, <1>12, <1>14

LEMMA ViewsAgree == PoolTypeOK => AdmissionAgreesWithInventory
<1> SUFFICES ASSUME PoolTypeOK PROVE AdmissionAgreesWithInventory
  OBVIOUS
<1>1. ASSUME HasActiveWorker PROVE CapacityState \in {"ready", "constrained", "degraded"}
  <2>1. ~control.maintenance /\ ~control.drain
    BY <1>1 DEF HasActiveWorker
  <2>2. PICK w \in Listed : Fresh(w) /\ worker[w].status \in ActiveWorkerStatus
    BY <1>1 DEF HasActiveWorker
  <2>3. Shown(w) \in ActiveWorkerStatus
    <3>1. worker[w].status \in ReportedStatus
      BY <2>2 DEF PoolTypeOK, WorkerDoc, Listed
    <3> QED
      BY <2>2, <3>1, PoolAssumption DEF Shown
  <2>4. w \in Under(RegOf[w]) /\ RegOf[w] \in Groups
    BY PoolAssumption DEF Under, Listed, Groups
  <2>5. GroupStatus(RegOf[w]) \in ActiveWorkerStatus
    BY <2>3, <2>4, ShownStatus
  <2>6. InGroups("busy") > 0 \/ InGroups("online") > 0 \/ InGroups("pending") > 0
    BY <2>4, <2>5, CountsType DEF ActiveWorkerStatus
  <2>7. WorkerPoolStatus # "offline"
    BY <2>6, CountsType DEF WorkerPoolStatus
  <2>8. AgentsOnline # 0
    <3>1. w \in {v \in Listed : Shown(v) # "offline"}
      BY <2>3 DEF ActiveWorkerStatus
    <3>2. IsFiniteSet({v \in Listed : Shown(v) # "offline"})
      BY ReplicasFinite
    <3> QED
      BY <3>1, <3>2, FS_EmptySet DEF AgentsOnline
  <2> QED
    BY <2>1, <2>7, <2>8 DEF CapacityState
<1>2. ASSUME CapacityState \in {"ready", "constrained"} \/ Saturation > 0,
             \A w \in Listed : ~ Misread(w)
      PROVE  HasActiveWorker
  <2>1. ~control.maintenance /\ ~control.drain
    BY <1>2 DEF CapacityState, Saturation, PoolTypeOK
  <2>2. CASE \A w \in Listed : Shown(w) = "offline"
    <3>1. CapacityScore < 40 /\ CapacityScore \in Int
      BY <2>2, IdlePoolScores
    <3>2. Saturation > 0
      BY <1>2, <2>1, <3>1 DEF CapacityState
    <3>3. InGroups("busy") # 0
      BY <3>2, CountsType DEF Saturation
    <3>4. PICK g \in Groups : GroupStatus(g) = "busy"
      BY <3>3, CountsType
    <3> QED
      BY <2>2, <3>4, BusyGroup DEF Under
  <2>3. ASSUME NEW w \in Listed, Shown(w) # "offline" PROVE HasActiveWorker
    BY <1>2, <2>1, <2>3 DEF HasActiveWorker, Misread, Shown
  <2> QED
    BY <2>2, <2>3
<1> QED
  BY <1>1, <1>2 DEF AdmissionAgreesWithInventory

\* For any replicas, registrations, statuses and desired agents: a pool that admits
\* deploys is not shown as unavailable or empty, and one that is shown with capacity or
\* with agents in use admits them, unless a worker of it is misread.
THEOREM InventoryAgrees == PoolSpec => []AdmissionAgreesWithInventory
  BY PoolTypeCorrect, ViewsAgree, PTL
-----------------------------------------------------------------------------
(* The parts next to each other *)

\* Log reports, deletions and pools share no state: next to the others, which
\* stand still, each of them behaves as its own specification says.
THEOREM PartsFollowTheirSpecs == MCSpec => Spec /\ DelSpec /\ PoolSpec
<1> DEFINE all == <<part, vars, delVars, poolVars>>
<1>1. MCInit => Init /\ DelInit /\ PoolInit
  BY DEF MCInit
<1>2. [MCNext]_all => [Next]_vars
  BY DEF MCNext
<1>3. [MCNext]_all => [DelNext]_delVars
  BY DEF MCNext
<1>4. [MCNext]_all => [PoolNext]_poolVars
  BY DEF MCNext
<1> QED
  BY <1>1, <1>2, <1>3, <1>4, PTL DEF MCSpec, Spec, DelSpec, PoolSpec

\* The documents, requests and replicas of all three parts keep their types.
THEOREM PartsTypeCorrect == MCSpec => []PartsTypeOK
<1>1. TypeOK /\ DelTypeOK /\ PoolTypeOK => PartsTypeOK
  BY DEF PartsTypeOK
<1> QED
  BY <1>1, PartsFollowTheirSpecs, LogsTypeCorrect, DeletionTypeCorrect, PoolTypeCorrect, PTL
=============================================================================
