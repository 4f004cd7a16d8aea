----------------------------- MODULE DeployLogs -----------------------------
(***************************************************************************)
(* The delivery of log batches and phases of one deploy: AppendDeployLogs  *)
(* at the granularity of its database calls, the worker that repeats a     *)
(* delivery until it sees an answer, and the other writers of the status.  *)
(***************************************************************************)
EXTENDS Naturals, DeployStates

CONSTANTS
    Batch,         \* the log batches of the workers
    Numbered,      \* those sent with a logBatchId
    NoStatus,      \* the empty status of a batch that reports no phase
    BatchStatus,   \* [Batch -> the status sent with each batch]
    Req,           \* slots for concurrent AppendDeployLogs requests
    EffectStatus,  \* the statuses the effects of operations write unconditionally
    MaxSends       \* bound: how often a worker sends one batch

ASSUME BatchAssumption ==
    /\ Batch # {} /\ Numbered \subseteq Batch
    /\ BatchStatus \in [Batch -> DeployStatus \cup {NoStatus}]
    /\ NoStatus \notin DeployStatus
    /\ EffectStatus \subseteq DeployStatus
    /\ MaxSends \in Nat

VARIABLES
    status,    \* deploy.status
    appended,  \* how often the lines of each batch are in deploy.logs
    ids,       \* deploy.logBatchIds
    req,       \* the requests under way
    sends,     \* how often each batch was sent
    answer     \* the last answer the worker saw about each batch

vars == <<status, appended, ids, req, sends, answer>>
-----------------------------------------------------------------------------
Request == [pc : {"idle", "read", "write", "recheck"}, batch : Batch, read : DeployStatus]
Answer  == {"none", "204", "409"}

TypeOK ==
    /\ status \in DeployStatus
    /\ appended \in [Batch -> Nat]
    /\ ids \subseteq Batch
    /\ req \in [Req -> Request]
    /\ sends \in [Batch -> 0 .. MaxSends]
    /\ answer \in [Batch -> Answer]

Idle == [pc |-> "idle", batch |-> CHOOSE b \in Batch : TRUE, read |-> "requested"]

Init ==
    /\ status = "requested"
    /\ appended = [b \in Batch |-> 0]
    /\ ids = {}
    /\ req = [r \in Req |-> Idle]
    /\ sends = [b \in Batch |-> 0]
    /\ answer = [b \in Batch |-> "none"]
-----------------------------------------------------------------------------
\* The batch of a request reports a status, and which one.
Reports(r) == BatchStatus[req[r].batch] # NoStatus
Reported(r) == BatchStatus[req[r].batch]

\* The worker sends a batch, again if it saw no answer that accepted it.
Send(r, b) ==
    /\ req[r].pc = "idle"
    /\ answer[b] = "none"
    /\ sends[b] < MaxSends
    /\ sends' = [sends EXCEPT ![b] = @ + 1]
    /\ req' = [req EXCEPT ![r].batch = b,
                          ![r].pc = IF BatchStatus[b] = NoStatus THEN "write" ELSE "read"]
    /\ UNCHANGED <<status, appended, ids, answer>>

\* The request ends with an answer, which may be lost on its way.
Respond(r, code) ==
    /\ req' = [req EXCEPT ![r] = Idle]
    /\ \/ answer' = [answer EXCEPT ![req[r].batch] = code]
       \/ UNCHANGED answer

\* FindOne and the check of the transition.
Read(r) ==
    /\ req[r].pc = "read"
    /\ IF CanTransitionDeployStatus(status, Reported(r))
         THEN req' = [req EXCEPT ![r].pc = "write", ![r].read = status] /\ UNCHANGED answer
         ELSE Respond(r, "409")
    /\ UNCHANGED <<status, appended, ids, sends>>

\* Mutated forms: the update is conditional on the batch alone, or on the
\* status alone.
Matches_AnyStatus(r) == req[r].batch \in Numbered => req[r].batch \notin ids
Matches_AnyBatch(r) == Reports(r) => status = req[r].read

\* The filter of the update.
Matches(r) ==
    /\ req[r].batch \in Numbered => req[r].batch \notin ids
    /\ Reports(r) => status = req[r].read

\* UpdateOne: status, lines and batch identifier in one write.
Write(r) ==
    LET b == req[r].batch IN
    /\ req[r].pc = "write"
    /\ IF Matches(r)
         THEN /\ status' = IF Reports(r) THEN Reported(r) ELSE status
              /\ appended' = [appended EXCEPT ![b] = @ + 1]
              /\ ids' = IF b \in Numbered THEN ids \cup {b} ELSE ids
              /\ Respond(r, "204")
         ELSE /\ req' = [req EXCEPT ![r].pc = "recheck"]
              /\ UNCHANGED <<status, appended, ids, answer>>
    /\ UNCHANGED sends

\* After an update that matched nothing: the batch is there already, or the
\* deploy has the reported status already, or the answer is a conflict.
Recheck(r) ==
    /\ req[r].pc = "recheck"
    /\ Respond(r, IF req[r].batch \in Numbered \cap ids \/ (Reports(r) /\ status = Reported(r))
                    THEN "204" ELSE "409")
    /\ UNCHANGED <<status, appended, ids, sends>>

\* A database error, a timeout or a crash between two calls.
Abort(r) ==
    /\ req[r].pc # "idle"
    /\ req' = [req EXCEPT ![r] = Idle]
    /\ UNCHANGED <<status, appended, ids, sends, answer>>

\* applyOperationStart, applyOperationSuccess, applyOperationFailure and the
\* mark of recovery write the status of the deploy whatever it was.
Effect(next) ==
    /\ status' = next
    /\ UNCHANGED <<appended, ids, req, sends, answer>>

Next == \/ \E r \in Req : \/ \E b \in Batch : Send(r, b)
                          \/ Read(r) \/ Write(r) \/ Recheck(r) \/ Abort(r)
        \/ \E next \in EffectStatus : Effect(next)

Spec == Init /\ [][Next]_vars
-----------------------------------------------------------------------------
\* The lines of a numbered batch enter the log at most once, however often and
\* however concurrently the worker sends it.
AppendedAtMostOnce == \A b \in Numbered : appended[b] <= 1

\* A report checked against a status that another writer replaced meanwhile
\* neither takes the deploy back to an earlier phase nor out of its end.
ReportsDoNotRegress ==
    [][\A r \in Req : Write(r) =>
          /\ status \in TerminalDeploy => status' = status
          /\ status \in Phase /\ status' \in Phase =>
                deployProgressRank[status] <= deployProgressRank[status']]_vars

\* Reads, conditional writes and rechecks of any number of deliveries implement
\* reports that are checked and appended at one instant.
Reporting == INSTANCE DeployReports

ImplementsReports == Reporting!Spec

\* A batch the worker was told is accepted has its lines in the log.
AcceptedBatchIsAppended == \A b \in Batch : answer[b] = "204" => appended[b] > 0
=============================================================================
