-------------------------- MODULE OperationDispatch --------------------------
(***************************************************************************)
(* From the insert of an operation to the worker that claims it: the       *)
(* publication through the broker, with its confirmation, which may be     *)
(* lost or late, and the list of queued operations that workers poll,      *)
(* ordered so that no resource keeps the others waiting.                   *)
(*                                                                         *)
(* One request publishes an operation; every operation is a worker restart *)
(* (in RestartOp) or one of those that stay queued when publishing fails.  *)
(* What follows a claim is OperationClaims'.                               *)
(***************************************************************************)
EXTENDS OperationRuns, Sequences, SequencesExt, FiniteSets

CONSTANTS RestartOp,   \* the operations that restart a worker
          ResourceOf   \* the resource of each operation

ASSUME DispatchAssumption == RestartOp \subseteq Task /\ DOMAIN ResourceOf = Task

VARIABLES
    backlog,   \* operations as GetOperations sorts them
    dispatch,  \* dispatch.status of each operation
    sender,    \* the request that publishes each operation
    broker     \* what the broker knows: the message, and its confirmation

dispatchVars == <<run, backlog, dispatch, sender, broker>>
-----------------------------------------------------------------------------
DispatchTypeOK ==
    /\ run \in [Task -> RunRecord]
    /\ backlog \in Seq(Task)
    /\ dispatch \in [Task -> {"none", "dispatching", "dispatched", "dispatch-failed"}]
    /\ sender \in [Task -> {"none", "check", "attempt", "send", "wait", "mark", "error", "done", "cut"}]
    /\ broker \in [Task -> {"none", "accepted", "acked", "nacked"}]

DispatchInit ==
    /\ RunInit
    /\ backlog = <<>>
    /\ dispatch = [t \in Task |-> "none"]
    /\ sender = [t \in Task |-> "none"]
    /\ broker = [t \in Task |-> "none"]

Sender(t, from, to) ==
    /\ sender[t] = from
    /\ sender' = [sender EXCEPT ![t] = to]

SetDispatch(t, status) == dispatch' = [dispatch EXCEPT ![t] = status]
-----------------------------------------------------------------------------
(* RestartWorker and the other requests that queue an operation *)

\* A restart is not queued while another restart of the worker is active.
BeginQueue(t) ==
    /\ t \in RestartOp =>
         \A u \in RestartOp : ResourceOf[u] = ResourceOf[t] => ~ Unfinished(u)
    /\ Sender(t, "none", "check")
    /\ UNCHANGED <<run, backlog, dispatch, broker>>

\* createdAt is the second in which the request took the time, and operations of
\* one second are sorted by random identifiers: an insert may go anywhere.
InsertOperation(t) ==
    /\ Sender(t, "check", "attempt")
    /\ EnqueueRun(t)
    /\ \E place \in 1 .. Len(backlog) + 1 : backlog' = InsertAt(backlog, place, t)
    /\ UNCHANGED <<dispatch, broker>>
-----------------------------------------------------------------------------
(* PublishOperation *)

MarkAttempt(t) ==
    /\ Sender(t, "attempt", "send")
    /\ SetDispatch(t, "dispatching")
    /\ UNCHANGED <<run, backlog, broker>>

\* The message reaches the broker, or is lost on the way.
SendMessage(t) ==
    /\ Sender(t, "send", "wait")
    /\ \/ broker' = [broker EXCEPT ![t] = "accepted"] \/ UNCHANGED broker
    /\ UNCHANGED <<run, backlog, dispatch>>

\* The broker answers, as long as its answer is awaited or later.
BrokerAnswers(t) ==
    /\ broker[t] = "accepted"
    /\ \E answer \in {"acked", "nacked"} : broker' = [broker EXCEPT ![t] = answer]
    /\ UNCHANGED <<run, backlog, dispatch, sender>>

\* Mutated form: the end of the context counts as a confirmation.
Confirmed_OrTimeout(t) == broker[t] \in {"none", "accepted", "acked"}

\* waitForBrokerConfirmation
Confirmed(t) == broker[t] = "acked"

ReceiveConfirmation(t) ==
    /\ Confirmed(t)
    /\ Sender(t, "wait", "mark")
    /\ UNCHANGED <<run, backlog, dispatch, broker>>

MarkDispatched(t) ==
    /\ Sender(t, "mark", "done")
    /\ SetDispatch(t, "dispatched")
    /\ UNCHANGED <<run, backlog, broker>>

\* No connection, a nack, five seconds without an answer, a failed update.
PublicationFails(t) ==
    /\ \E pc \in {"attempt", "send", "wait", "mark"} : Sender(t, pc, "error")
    /\ UNCHANGED <<run, backlog, dispatch, broker>>

\* Mutated form: the dispatch takes the status of an operation.
RecordFailure_Failed(t) ==
    /\ Sender(t, "error", "done")
    /\ SetDispatch(t, "failed")
    /\ UNCHANGED <<run, backlog, broker>>

\* RecordOperationDispatchError leaves the operation queued.  A restart is set to
\* failed instead, without a condition: the broker may have delivered it.
RecordFailure(t) ==
    /\ Sender(t, "error", "done")
    /\ IF t \in RestartOp
         THEN /\ run' = [run EXCEPT ![t].stage = "ended", ![t].result = "failed"]
              /\ UNCHANGED dispatch
         ELSE /\ SetDispatch(t, "dispatch-failed")
              /\ UNCHANGED run
    /\ UNCHANGED <<backlog, broker>>

\* The context of the request ends, and what is left of it fails.
CutOff(t) ==
    /\ \E pc \in {"check", "attempt", "send", "wait", "mark", "error"} : Sender(t, pc, "cut")
    /\ UNCHANGED <<run, backlog, dispatch, broker>>
-----------------------------------------------------------------------------
(* GetOperations: applyOperationFairnessByResource *)

\* The members of S in the order in which the pairs of "earlier" put them.
Sorted(S, earlier) ==
    [n \in 1 .. Cardinality(S) |->
        CHOOSE i \in S : Cardinality({j \in S : <<j, i>> \in earlier}) = n - 1]

Queued ==
    LET waiting == {i \in DOMAIN backlog : run[backlog[i]].stage = "queued"}
        at == Sorted(waiting, {p \in waiting \X waiting : p[1] < p[2]})
    IN  [n \in DOMAIN at |-> backlog[at[n]]]

\* The rank of the i-th operation among those of its resource.
Rank(s, i) == Cardinality({j \in 1 .. i : ResourceOf[s[j]] = ResourceOf[s[i]]})

\* Where the resource of the i-th operation appears first.
FirstOf(s, i) == CHOOSE j \in 1 .. i :
    /\ ResourceOf[s[j]] = ResourceOf[s[i]]
    /\ \A k \in 1 .. j - 1 : ResourceOf[s[k]] # ResourceOf[s[i]]

\* Mutated form: each resource is emptied before the next one.
Before_Whole(s, i, j) == FirstOf(s, i) < FirstOf(s, j) \/ (FirstOf(s, i) = FirstOf(s, j) /\ i < j)

\* The rounds of the loop: one operation of every resource, in order of appearance.
Before(s, i, j) ==
    \/ Rank(s, i) < Rank(s, j)
    \/ Rank(s, i) = Rank(s, j) /\ FirstOf(s, i) < FirstOf(s, j)

Fair(s) ==
    IF Len(s) < 3 THEN s
    ELSE LET at == Sorted(DOMAIN s, {p \in (DOMAIN s) \X (DOMAIN s) : Before(s, p[1], p[2])})
         IN  [n \in DOMAIN at |-> s[at[n]]]

Poll(limit) == SubSeq(Fair(Queued), 1, IF limit < Len(Queued) THEN limit ELSE Len(Queued))

\* A worker claims what a poll offered, a smaller limit offering a prefix of
\* what a larger one does, or what the broker delivered.
ClaimOperation(t) ==
    /\ ClaimRun(t)
    /\ broker[t] \in {"accepted", "acked"} \/ t \in ToSet(Poll(Len(backlog)))
    /\ UNCHANGED <<backlog, dispatch, sender, broker>>

DispatchNext ==
    \E t \in Task : \/ BeginQueue(t) \/ InsertOperation(t) \/ MarkAttempt(t) \/ SendMessage(t)
                    \/ BrokerAnswers(t) \/ ReceiveConfirmation(t) \/ MarkDispatched(t)
                    \/ PublicationFails(t) \/ RecordFailure(t) \/ CutOff(t)
                    \/ ClaimOperation(t)

DispatchSpec == DispatchInit /\ [][DispatchNext]_dispatchVars
-----------------------------------------------------------------------------
(* Properties *)

\* What dispatch.status says is true: "dispatched" means that the broker
\* confirmed the message, and a publication that ran to its end, well or
\* badly, says so, except for a restart, whose operation fails instead.
DispatchIsTruthful ==
    \A t \in Task :
        /\ dispatch[t] = "dispatched" => broker[t] = "acked"
        /\ sender[t] = "done" => \/ dispatch[t] \in {"dispatched", "dispatch-failed"}
                                 \/ t \in RestartOp /\ RunStatus(t) = "failed"

\* A poll lists each queued operation once, keeps the order of the operations
\* of a resource, and no operation waits behind two of another resource that
\* are not behind one of its own.
PollIsFair ==
    LET s == Queued
        f == Fair(s)
        At(t) == CHOOSE n \in 1 .. Len(f) : f[n] = t
        Of(r, n) == {m \in 1 .. n : ResourceOf[f[m]] = r}
    IN /\ Len(f) = Len(s) /\ ToSet(f) = ToSet(s)
       /\ \A i, j \in 1 .. Len(s) :
            i < j /\ ResourceOf[s[i]] = ResourceOf[s[j]] => At(s[i]) < At(s[j])
       /\ Len(s) > 2 =>
            \A n \in 1 .. Len(f), r \in {ResourceOf[t] : t \in Task} :
               Cardinality(Of(r, n)) <= Cardinality(Of(ResourceOf[f[n]], n))
=============================================================================
