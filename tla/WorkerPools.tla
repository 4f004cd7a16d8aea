----------------------------- MODULE WorkerPools -----------------------------
(***************************************************************************)
(* Workers as the API knows them: registrations, the replicas that report  *)
(* heartbeats under them, the listing that marks registrations inactive,   *)
(* deletions, the maintenance and drain switches of the pool, and the two  *)
(* views computed from all that: the inventory users see, and the check    *)
(* for an active worker that admits deploys and publications.              *)
(*                                                                         *)
(* Ages are relative: beat is that of lastHeartbeat, since counts from the *)
(* deletion of a registration, age from the start of a request's step.     *)
(***************************************************************************)
EXTENDS Integers, FiniteSets, FiniteSetsExt

CONSTANTS Replica,        \* worker processes
          WorkerReg,      \* worker registrations, all of one pool
          RegOf,          \* the registration whose token a replica was given
          ReportedStatus, \* what a heartbeat or an update may give as status
          ToLower,        \* each of these in lower case
          StaleAge,       \* WORKER_STALE_SECONDS
          BeatTimeout,    \* DBTimeout
          ReadTimeout,    \* how long the server reads a request, body included
          DesiredAgents   \* what the replicas report

ActiveWorkerStatus == {"online", "busy", "pending"}

ASSUME PoolAssumption ==
    /\ IsFiniteSet(Replica) /\ IsFiniteSet(WorkerReg)
    /\ RegOf \in [Replica -> WorkerReg]
    /\ ToLower \in [ReportedStatus -> STRING] /\ "absent" \notin ReportedStatus
    /\ \A word \in ReportedStatus \cap (ActiveWorkerStatus \cup {"offline"}) : ToLower[word] = word
    /\ {StaleAge, BeatTimeout, ReadTimeout, DesiredAgents} \subseteq Nat \ {0}
    /\ BeatTimeout <= ReadTimeout

VARIABLES
    worker,        \* the workers collection
    registration,  \* the worker registrations
    since,         \* how long ago each registration was deleted
    beating,       \* the heartbeat request of each replica
    removing,      \* what the deletion of a registration has left to do
    marking,       \* the registration a listing is about to mark inactive
    control        \* the switches of the pool

poolVars == <<worker, registration, since, beating, removing, marking, control>>
-----------------------------------------------------------------------------
WorkerDoc == [status : ReportedStatus \cup {"absent"}, beat : 0 .. StaleAge + 1]
Heartbeat == [pc : {"idle", "auth", "load", "insert", "update", "register"},
              age : 0 .. ReadTimeout]
NoMark    == {}

PoolTypeOK ==
    /\ worker \in [Replica -> WorkerDoc]
    /\ registration \in [WorkerReg -> {"absent", "unused", "active", "inactive", "deleted"}]
    /\ since \in [WorkerReg -> 0 .. StaleAge + ReadTimeout + 1]
    /\ beating \in [Replica -> Heartbeat]
    /\ removing \in [WorkerReg -> {"nothing", "workers", "registration"}]
    /\ marking \in {NoMark} \cup {{g} : g \in WorkerReg}
    /\ control \in [maintenance : BOOLEAN, drain : BOOLEAN]

NoWorkerDoc == [status |-> "absent", beat |-> 0]
NoBeat == [pc |-> "idle", age |-> 0]

PoolInit ==
    /\ worker = [w \in Replica |-> NoWorkerDoc]
    /\ registration = [g \in WorkerReg |-> "absent"]
    /\ since = [g \in WorkerReg |-> 0]
    /\ beating = [w \in Replica |-> NoBeat]
    /\ removing = [g \in WorkerReg |-> "nothing"]
    /\ marking = NoMark
    /\ control = [maintenance |-> FALSE, drain |-> FALSE]

Registered(g) == registration[g] \notin {"absent", "deleted"}
Listed == {w \in Replica : worker[w].status # "absent"}
Under(g) == {w \in Listed : RegOf[w] = g}
Fresh(w) == worker[w].beat <= StaleAge

\* UpdateByID: nothing happens to a registration that is not there.
SetRegistration(g, status) ==
    registration' = IF Registered(g) THEN [registration EXCEPT ![g] = status] ELSE registration
-----------------------------------------------------------------------------
(* Registrations *)

CreateWorkerRegistration(g) ==
    /\ registration[g] = "absent"
    /\ registration' = [registration EXCEPT ![g] = "unused"]
    /\ UNCHANGED <<worker, since, beating, removing, marking, control>>

\* The bootstrap token is exchanged for an access token.
WorkerAuth(g) ==
    /\ Registered(g)
    /\ SetRegistration(g, "active")
    /\ UNCHANGED <<worker, since, beating, removing, marking, control>>

Unregister(g) ==
    /\ registration' = [registration EXCEPT ![g] = "deleted"]
    /\ since' = [since EXCEPT ![g] = IF Registered(g) THEN 0 ELSE @]

\* The registration goes first, its workers follow.
DeleteWorkerRegistration(g) ==
    /\ Registered(g) /\ removing[g] = "nothing"
    /\ Unregister(g)
    /\ removing' = [removing EXCEPT ![g] = "workers"]
    /\ UNCHANGED <<worker, beating, marking, control>>

Unlist(g) == worker' = [w \in Replica |-> IF RegOf[w] = g THEN NoWorkerDoc ELSE worker[w]]

RemoveWorkers(g) ==
    /\ removing[g] = "workers"
    /\ Unlist(g)
    /\ removing' = [removing EXCEPT ![g] = "nothing"]
    /\ UNCHANGED <<registration, since, beating, marking, control>>

\* A worker goes with all workers of its credential, then the registration.
DeleteWorker(w) ==
    /\ w \in Listed /\ removing[RegOf[w]] = "nothing"
    /\ Unlist(RegOf[w])
    /\ removing' = [removing EXCEPT ![RegOf[w]] = "registration"]
    /\ UNCHANGED <<registration, since, beating, marking, control>>

RemoveRegistration(g) ==
    /\ removing[g] = "registration"
    /\ Unregister(g)
    /\ removing' = [removing EXCEPT ![g] = "nothing"]
    /\ UNCHANGED <<worker, beating, marking, control>>

\* The second half of a deletion fails.
StopRemoving(g) ==
    /\ removing[g] # "nothing"
    /\ removing' = [removing EXCEPT ![g] = "nothing"]
    /\ UNCHANGED <<worker, registration, since, beating, marking, control>>
-----------------------------------------------------------------------------
(* Heartbeat *)

\* Ages beyond the limit are not told apart.
UpTo(limit, n) == IF n < limit THEN n ELSE limit

BeatGoes(w, pc) == beating' = [beating EXCEPT ![w].pc = pc]

\* Mutated form: the token is taken at its word.
Authentic_TokenOnly(w) == registration[RegOf[w]] # "absent"

\* loadWorkerRegistration finds the registration the token names.
Authentic(w) == Registered(RegOf[w])

\* The middleware reads the registration; until the handler begins, the body of
\* the request is read, which takes up to ReadTimeout.
BeginBeat(w) ==
    /\ beating[w].pc = "idle"
    /\ Authentic(w)
    /\ beating' = [beating EXCEPT ![w] = [pc |-> "auth", age |-> 0]]
    /\ UNCHANGED <<worker, registration, since, removing, marking, control>>

\* The handler takes the time it will write.
EnterBeat(w) ==
    /\ beating[w].pc = "auth"
    /\ beating' = [beating EXCEPT ![w].pc = "load", ![w].age = 0]
    /\ UNCHANGED <<worker, registration, since, removing, marking, control>>

LoadWorker(w) ==
    /\ beating[w].pc = "load"
    /\ BeatGoes(w, IF w \in Listed THEN "update" ELSE "insert")
    /\ UNCHANGED <<worker, registration, since, removing, marking, control>>

\* Any status is written as it was reported, "online" where none was.  An update
\* finds the worker or changes nothing.
WriteWorker(w, status) ==
    /\ beating[w].pc \in {"insert", "update"}
    /\ LET written == [status |-> status, beat |-> UpTo(StaleAge + 1, beating[w].age)]
       IN  worker' = IF beating[w].pc = "insert" \/ w \in Listed
                     THEN [worker EXCEPT ![w] = written] ELSE worker
    /\ BeatGoes(w, "register")
    /\ UNCHANGED <<registration, since, removing, marking, control>>

MarkActive(w) ==
    /\ beating[w].pc = "register"
    /\ SetRegistration(RegOf[w], "active")
    /\ beating' = [beating EXCEPT ![w] = NoBeat]
    /\ UNCHANGED <<worker, since, removing, marking, control>>

\* A timeout, a database error or a replica that is gone.
StopBeat(w) ==
    /\ beating[w].pc # "idle"
    /\ beating' = [beating EXCEPT ![w] = NoBeat]
    /\ UNCHANGED <<worker, registration, since, removing, marking, control>>

UpdateWorker(w, status) ==
    /\ w \in Listed
    /\ worker' = [worker EXCEPT ![w].status = status]
    /\ UNCHANGED <<registration, since, beating, removing, marking, control>>
-----------------------------------------------------------------------------
(* GetWorkers and GetWorkerPools: markRegistrationInactive *)

\* A stale worker was listed, and no worker of its registration is fresh.
CountFresh(w) ==
    /\ w \in Listed /\ ~ Fresh(w)
    /\ marking = NoMark
    /\ \A v \in Under(RegOf[w]) : ~ Fresh(v)
    /\ marking' = {RegOf[w]}
    /\ UNCHANGED <<worker, registration, since, beating, removing, control>>

\* The mark is a separate update, which may be lost.
MarkInactive(g) ==
    /\ marking = {g}
    /\ \/ SetRegistration(g, "inactive") \/ UNCHANGED registration
    /\ marking' = NoMark
    /\ UNCHANGED <<worker, since, beating, removing, control>>
-----------------------------------------------------------------------------
(* The switches of the pool *)

SetWorkerPoolMaintenance(enabled) ==
    /\ control' = [control EXCEPT !.maintenance = enabled, !.drain = @ /\ ~ enabled]
    /\ UNCHANGED <<worker, registration, since, beating, removing, marking>>

\* Enabling a drain looks whether the pool is in maintenance, a read that may
\* be out of date when the switch is written: both may end up set.
SetWorkerPoolDrain(enabled) ==
    /\ control' = [control EXCEPT !.drain = enabled]
    /\ UNCHANGED <<worker, registration, since, beating, removing, marking>>
-----------------------------------------------------------------------------
\* How long a heartbeat may take in the step it is in: its handler has one
\* context for all that it asks of the database.
BeatLimit(pc) == IF pc = "auth" THEN ReadTimeout ELSE BeatTimeout

PoolTick ==
    /\ \A w \in Replica : beating[w].pc # "idle" => beating[w].age < BeatLimit(beating[w].pc)
    /\ worker' = [w \in Replica |->
                    IF w \in Listed THEN [worker[w] EXCEPT !.beat = UpTo(StaleAge + 1, @ + 1)]
                                    ELSE worker[w]]
    /\ beating' = [w \in Replica |->
                     IF beating[w].pc = "idle" THEN beating[w] ELSE [beating[w] EXCEPT !.age = @ + 1]]
    /\ since' = [g \in WorkerReg |->
                   IF registration[g] = "deleted" THEN UpTo(StaleAge + ReadTimeout + 1, since[g] + 1)
                                                  ELSE since[g]]
    /\ UNCHANGED <<registration, removing, marking, control>>

PoolNext ==
    \/ \E g \in WorkerReg : \/ CreateWorkerRegistration(g) \/ WorkerAuth(g)
                            \/ DeleteWorkerRegistration(g) \/ RemoveWorkers(g)
                            \/ RemoveRegistration(g) \/ StopRemoving(g) \/ MarkInactive(g)
    \/ \E w \in Replica : \/ DeleteWorker(w) \/ BeginBeat(w) \/ EnterBeat(w) \/ LoadWorker(w)
                          \/ MarkActive(w) \/ StopBeat(w) \/ CountFresh(w)
                          \/ \E status \in ReportedStatus : WriteWorker(w, status) \/ UpdateWorker(w, status)
    \/ \E enabled \in BOOLEAN : SetWorkerPoolMaintenance(enabled) \/ SetWorkerPoolDrain(enabled)
    \/ PoolTick

PoolSpec == PoolInit /\ [][PoolNext]_poolVars
-----------------------------------------------------------------------------
(* The inventory: summarizeWorkers, then summarizeWorkerPools *)

\* A group holds the replicas of one registration; stale ones are offline, the
\* others count as online agents unless they say that they are offline.
Shown(w) == IF Fresh(w) THEN ToLower[worker[w].status] ELSE "offline"
OnlineAgents(g) == Cardinality({w \in Under(g) : Shown(w) # "offline"})
GroupDesired(g) == IF OnlineAgents(g) > DesiredAgents THEN OnlineAgents(g) ELSE DesiredAgents
GroupStatus(g) ==
    LET statuses == {Shown(w) : w \in Under(g)}
    IN IF "busy" \in statuses THEN "busy" ELSE
       IF "online" \in statuses THEN "online" ELSE
       IF "pending" \in statuses THEN "pending" ELSE "offline"

Groups == {g \in WorkerReg : Under(g) # {}}
InGroups(status) == Cardinality({g \in Groups : GroupStatus(g) = status})
Registrations(status) == Cardinality({g \in WorkerReg : registration[g] = status})

\* The sums over the groups, as counts: each listed worker is in one group, and
\* a group has a place for every agent it desires.
AgentsOnline == Cardinality({w \in Listed : Shown(w) # "offline"})
AgentsDesired == Cardinality(UNION {{g} \X (1 .. GroupDesired(g)) : g \in Groups})
Ready == InGroups("online") + InGroups("busy")

WorkerPoolStatus ==
    IF InGroups("busy") > 0 THEN "busy" ELSE
    IF InGroups("online") > 0 THEN "online" ELSE
    IF InGroups("pending") + Registrations("unused") + Registrations("active") > 0 THEN "pending"
    ELSE "offline"

CapacityScore ==
    LET desired == AgentsDesired
        online  == AgentsOnline
        score   == (IF desired > 0 THEN (Min({online, desired}) * 60) \div desired ELSE 0)
                   + (IF Groups # {} THEN (Ready * 25) \div Cardinality(Groups) ELSE 0)
                   + Min({5 * Registrations("unused"), 15})
                   - (IF Ready > 0 THEN (InGroups("busy") * 15) \div Ready ELSE 0)
    IN Max({0, Min({score, 100})})

CapacityState ==
    CASE control.maintenance                                           -> "maintenance"
      [] control.drain /\ ~ control.maintenance                        -> "draining"
      [] ~ control.maintenance /\ ~ control.drain ->
           CASE WorkerPoolStatus = "offline"                           -> "unavailable"
             [] WorkerPoolStatus # "offline" /\ AgentsOnline = 0
                  /\ Registrations("unused") > 0                       -> "bootstrap"
             [] OTHER -> IF CapacityScore >= 75 THEN "ready"
                         ELSE IF CapacityScore >= 40 THEN "constrained" ELSE "degraded"

\* In percent of the agents that are online.
Saturation ==
    LET used == InGroups("busy")
        base == AgentsOnline
    IN IF used = 0 \/ control.maintenance \/ control.drain THEN 0
       ELSE IF used >= base THEN 100 ELSE (used * 100) \div base

\* Mutated form: the heartbeat of the worker is not looked at.
HasActiveWorker_StaleToo ==
    /\ ~ control.maintenance /\ ~ control.drain
    /\ \E w \in Listed : worker[w].status \in ActiveWorkerStatus

\* HasActiveWorkerForEnvironmentTagsAndCluster.
HasActiveWorker ==
    /\ ~ control.maintenance /\ ~ control.drain
    /\ \E w \in Listed : Fresh(w) /\ worker[w].status \in ActiveWorkerStatus
-----------------------------------------------------------------------------
(* Properties *)

\* A worker whose status only one of the views understands: the inventory takes
\* "Online" for online and counts a "draining" agent as one that is there, while
\* admission knows the names in lower case and no other.
Misread(w) == Shown(w) # "offline" /\ worker[w].status \notin ActiveWorkerStatus

\* The two views of a pool agree although they are computed from different
\* documents by different rules: a pool that admits deploys is not shown as
\* unavailable or empty, and one that is shown with capacity or with agents in
\* use admits them, unless a worker of it is misread.
AdmissionAgreesWithInventory ==
    /\ HasActiveWorker => CapacityState \in {"ready", "constrained", "degraded"}
    /\ CapacityState \in {"ready", "constrained"} \/ Saturation > 0 =>
          HasActiveWorker \/ \E w \in Listed : Misread(w)

\* The workers of a registration deleted longer ago than a heartbeat may
\* linger are not taken for active: a heartbeat that was under way recreates
\* its worker after the deletion, but never a fresh one.
QuietAfterDeletion ==
    \A w \in Listed :
        /\ registration[RegOf[w]] = "deleted"
        /\ since[RegOf[w]] > StaleAge + ReadTimeout
        => ~ Fresh(w)
=============================================================================
