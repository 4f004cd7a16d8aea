---------------------------- MODULE IdempotencyKeys ----------------------------
(***************************************************************************)
(* RequireIdempotencyKey and its two backends, for one key: requests that  *)
(* carry the key start, run their handler, record or free the key, replay  *)
(* a recorded response or are refused.  Keys are independent of each other.*)
(*                                                                         *)
(* Time is discrete.  A request computes "now" when it begins and uses it  *)
(* to the end, so every comparison and every expiry it writes is as late   *)
(* as the request is old; left is expiresAt minus the present.  A request  *)
(* is over MaxAge ticks after it began.                                    *)
(***************************************************************************)
EXTENDS Integers

CONSTANTS
    Req,       \* the requests that carry the key
    NoReq,     \* no request
    TTL,       \* defaultIdempotencyTTL
    MaxAge     \* the longest a request lives

ASSUME ReqAssumption == NoReq \notin Req
ASSUME TimeAssumption == TTL \in Nat /\ MaxAge \in Nat /\ MaxAge < TTL

VARIABLES
    durable,   \* whether IDEMPOTENCY_BACKEND selects the mongo backend
    key,       \* the stored entry
    req        \* the requests; their age counts on after they end, up to TTL

vars == <<durable, key, req>>
-----------------------------------------------------------------------------
Entry == [state : {"absent", "processing", "completed"}, left : -MaxAge .. TTL,
          response : Req \cup {NoReq}]
Request == [pc : {"new", "insert", "evict", "reinsert", "lookup", "run", "settle", "done",
                   "lost"},
            live : BOOLEAN, age : 0 .. TTL,
            result : {"none", "ok", "error"}, answer : Req \cup {NoReq}]

TypeOK == durable \in BOOLEAN /\ key \in Entry /\ req \in [Req -> Request]

NoEntry == [state |-> "absent", left |-> 0, response |-> NoReq]

Init ==
    /\ durable \in BOOLEAN
    /\ key = NoEntry
    /\ req = [r \in Req |-> [pc |-> "new", live |-> TRUE, age |-> 0,
                             result |-> "none", answer |-> NoReq]]

Goes(r, pc) == req' = [req EXCEPT ![r].pc = pc]
Active(r) == req[r].pc \notin {"new", "done", "lost"}

\* expiresAt compared with the "now" of request r.
LeftFor(r) == key.left + req[r].age

Begin(r) ==
    /\ req[r].pc = "new"
    /\ Goes(r, "insert")
    /\ UNCHANGED key

\* A new entry expires TTL after the request's "now".
Processing(r) == [state |-> "processing", left |-> TTL - req[r].age, response |-> NoReq]

Claim(r) == key' = Processing(r) /\ Goes(r, "run")

\* start of the mongo backend: InsertOne; a duplicate key leads to the eviction
\* of an expired entry and one more insert.
Insert(r) ==
    /\ durable /\ req[r].pc = "insert" /\ req[r].live
    /\ IF key.state = "absent" THEN Claim(r) ELSE Goes(r, "evict") /\ UNCHANGED key

\* Mutated form: eviction does not look at the expiry.
Evictable_Always(r) == key.state # "absent"

\* The filter of the eviction.
Evictable(r) == key.state # "absent" /\ LeftFor(r) <= 0

Evict(r) ==
    /\ req[r].pc = "evict" /\ req[r].live
    /\ IF Evictable(r) THEN key' = NoEntry /\ Goes(r, "reinsert")
                       ELSE UNCHANGED key /\ Goes(r, "lookup")

Reinsert(r) ==
    /\ req[r].pc = "reinsert" /\ req[r].live
    /\ IF key.state = "absent" THEN Claim(r) ELSE Goes(r, "lookup") /\ UNCHANGED key

\* Mutated form: only completed entries keep a request from starting.
Start_WhileProcessing(r) ==
    /\ ~ durable /\ req[r].pc = "insert"
    /\ IF key.state # "completed" \/ LeftFor(r) < 0 THEN Claim(r)
       ELSE Goes(r, "lookup") /\ UNCHANGED key

\* start of the memory backend: clean up and insert under one lock.
Start(r) ==
    /\ ~ durable /\ req[r].pc = "insert"
    /\ IF key.state = "absent" \/ LeftFor(r) < 0 THEN Claim(r)
       ELSE Goes(r, "lookup") /\ UNCHANGED key

\* The entry holds a response to replay.  (The memory backend also finds an
\* entry that expires at this very instant.)
Replayable(r) ==
    key.state = "completed" /\ (LeftFor(r) > 0 \/ (~ durable /\ LeftFor(r) = 0))

\* lookup: the recorded response is replayed, or the request is answered 409.
\* The memory backend cleans up here, too.
Lookup(r) ==
    /\ req[r].pc = "lookup"
    /\ req' = [req EXCEPT ![r].pc = "done",
                 ![r].answer = IF Replayable(r) /\ (req[r].live \/ ~ durable)
                                 THEN key.response ELSE NoReq]
    /\ key' = IF ~ durable /\ LeftFor(r) < 0 THEN NoEntry ELSE key

\* The handler runs and answers below 500, or not.
Run(r) ==
    /\ req[r].pc = "run"
    /\ \E result \in {"ok", "error"} :
         req' = [req EXCEPT ![r].pc = "settle", ![r].result = result]
    /\ UNCHANGED key

\* Mutated form: every answer is recorded.
Settled_RecordsErrors(r) ==
    IF key.state = "absent" /\ durable THEN key
    ELSE [state |-> "completed", left |-> TTL - req[r].age, response |-> r]

\* complete records the response (the mongo backend only in an existing entry),
\* fail frees the key if it is still in state processing.
Settled(r) ==
    IF req[r].result = "error"
      THEN IF key.state = "processing" THEN NoEntry ELSE key
      ELSE IF key.state = "absent" /\ durable THEN key
           ELSE [state |-> "completed", left |-> TTL - req[r].age, response |-> r]

\* The mongo backend works on the request's context: once that has ended, the
\* entry stays as it is.  The error is ignored.
Settle(r) ==
    /\ req[r].pc = "settle"
    /\ key' = IF req[r].live \/ ~ durable THEN Settled(r) ELSE key
    /\ Goes(r, "done")

\* The client goes away: the context of the request ends.  (An error of the
\* database in the last call leaves the key as it is, too.)
Disconnect(r) ==
    /\ Active(r) /\ req[r].live
    /\ req' = [req EXCEPT ![r].live = FALSE]
    /\ UNCHANGED key

\* The request is cut short: a database call fails before the handler runs (the
\* insert may have been committed all the same), or the handler panics.
Abort(r) ==
    /\ Active(r) /\ req[r].pc # "settle"
    /\ Goes(r, "lost")
    /\ \/ UNCHANGED key
       \/ /\ durable /\ req[r].pc \in {"insert", "reinsert"} /\ key.state = "absent"
          /\ key' = Processing(r)

\* The process stops: its requests vanish, and so does what it kept in memory.
Restart ==
    /\ \E r \in Req : Active(r)
    /\ req' = [r \in Req |-> IF Active(r) THEN [req[r] EXCEPT !.pc = "lost"] ELSE req[r]]
    /\ key' = IF durable THEN key ELSE NoEntry

\* The TTL index of the collection removes expired entries, sooner or later.
TTLMonitor ==
    /\ durable /\ key.state # "absent" /\ key.left <= 0
    /\ key' = NoEntry
    /\ UNCHANGED req

Tick ==
    /\ \A r \in Req : Active(r) => req[r].age < MaxAge
    /\ key' = IF key.state # "absent" /\ key.left > -MaxAge
                THEN [key EXCEPT !.left = @ - 1] ELSE key
    /\ req' = [r \in Req |-> IF req[r].pc = "new" \/ req[r].age = TTL THEN req[r]
                             ELSE [req[r] EXCEPT !.age = @ + 1]]

Step == \/ \E r \in Req : \/ Begin(r) \/ Insert(r) \/ Evict(r) \/ Reinsert(r) \/ Start(r)
                          \/ Lookup(r) \/ Run(r) \/ Settle(r) \/ Disconnect(r) \/ Abort(r)
        \/ Restart \/ TTLMonitor \/ Tick

\* The configuration does not change.
Next == Step /\ UNCHANGED durable

Spec == Init /\ [][Next]_vars
-----------------------------------------------------------------------------
Running(r) == req[r].pc \in {"run", "settle"}

\* Two requests with the same key never run their handlers at the same time,
\* whatever expires, is evicted or is restarted meanwhile.
OneHandlerAtATime == \A r, q \in Req : Running(r) /\ Running(q) => r = q

\* After a handler has succeeded no other one runs until TTL after its request
\* began, if the keys outlive the process: a repetition is replayed or refused,
\* even when the response could not be recorded.
EffectsAreApart ==
    \A r, q \in Req :
        durable /\ r # q /\ req[r].result = "ok" /\ Running(q) => req[r].age >= TTL

\* A replayed response is one that a request with this key succeeded with.
ReplaysAreResponses ==
    \A r \in Req : req[r].answer # NoReq => req[req[r].answer].result = "ok"

\* What the handlers behind the middleware see of the requests.
Phases == [r \in Req |-> IF Running(r) THEN "running"
                         ELSE IF req[r].pc \in {"done", "lost"} THEN "ended" ELSE "waiting"]
Results == [r \in Req |-> req[r].result]
Answers == [r \in Req |-> req[r].answer]
Old == {r \in Req : req[r].age = TTL}

\* The entries of either backend, with their expiry, their eviction and the
\* windows between the calls of a request, implement what the handlers are
\* promised: each runs alone, once, and not within TTL of a success.
Handlers == INSTANCE KeyedHandlers WITH
    phase <- Phases, result <- Results, answer <- Answers, old <- Old

ImplementsHandlers == Handlers!Spec

\* When no request was cut short and none is under way, the key is not in state
\* processing: nobody is told that it is "already being processed".
KeyIsSettled ==
    (\A r \in Req : req[r].pc \in {"new", "done"})
    => ~ (key.state = "processing" /\ key.left > 0)
=============================================================================
