------------------------- MODULE IdempotencyKeysProofs -------------------------
(***************************************************************************)
(* Proofs about the parts of MCKeysAndDispatch that contend for something  *)
(* with a lifetime: IdempotencyKeys and its refinement of KeyedHandlers,   *)
(* for any number of requests and any durations with MaxAge < TTL;         *)
(* AutoDeployLease, for any number of workers and requests.  The facts     *)
(* about dispatch are those of OperationRunsProofs.                        *)
(***************************************************************************)
EXTENDS MCKeysAndDispatch, OperationRunsProofs, TLAPS

Fresh == \A r \in Req :
    /\ req[r].pc = "new" => req[r].age = 0
    /\ Active(r) => req[r].age <= MaxAge
    /\ req[r].result # "none" => req[r].pc \in {"settle", "done", "lost"}
    /\ req[r].pc = "settle" => req[r].result # "none"

\* Whoever runs owns the entry, and the entry outlives it.
Owned == \A r \in Req :
    Running(r) => key.state = "processing" /\ key.left = TTL - req[r].age

\* A success keeps its entry until it is TTL old.
Kept == durable => \A r \in Req :
    req[r].result = "ok" =>
        req[r].age >= TTL \/ (key.state # "absent" /\ key.left >= TTL - req[r].age)

Recorded ==
    key.state = "completed" => key.response \in Req /\ req[key.response].result = "ok"

KeyInv ==
    /\ TypeOK
    /\ Fresh
    /\ Owned
    /\ OneHandlerAtATime
    /\ Kept
    /\ EffectsAreApart
    /\ Recorded
    /\ ReplaysAreResponses

LEMMA KeyInit == Init => KeyInv
<1> SUFFICES ASSUME Init PROVE KeyInv
  OBVIOUS
<1>1. TypeOK
  BY TimeAssumption DEF Init, TypeOK, Entry, Request, NoEntry
<1> QED
  BY <1>1, TimeAssumption DEF Init, NoEntry, KeyInv, Fresh, Owned, OneHandlerAtATime, Kept,
       EffectsAreApart, Recorded, ReplaysAreResponses, Running, Active

-----------------------------------------------------------------------------
(* The steps of one request *)

\* What a step that only moves request r does to the others.
LEMMA GoesFacts ==
    ASSUME TypeOK, NEW r \in Req, NEW pc, Goes(r, pc)
    PROVE  /\ req'[r].pc = pc
           /\ \A q \in Req : /\ req'[q].age = req[q].age
                             /\ req'[q].result = req[q].result
                             /\ req'[q].answer = req[q].answer
                             /\ req'[q].live = req[q].live
                             /\ q # r => req'[q].pc = req[q].pc
  BY DEF TypeOK, Request, Goes

LEMMA GoesType ==
    ASSUME TypeOK, NEW r \in Req,
           NEW pc \in {"insert", "evict", "reinsert", "lookup", "run", "settle", "done", "lost"},
           Goes(r, pc)
    PROVE  req' \in [Req -> Request]
  BY DEF TypeOK, Request, Goes

\* The owner of the entry is alone, and the entry is not expired.
LEMMA OwnerFacts ==
    ASSUME KeyInv, NEW r \in Req, Running(r)
    PROVE  key.state = "processing" /\ key.left = TTL - req[r].age /\ key.left > 0
<1>1. req[r].age <= MaxAge /\ req[r].age \in Nat
  BY TimeAssumption DEF KeyInv, Fresh, Running, Active, TypeOK, Request
<1>2. key.state = "processing" /\ key.left = TTL - req[r].age
  BY DEF KeyInv, Owned
<1> QED
  BY <1>1, <1>2, TimeAssumption

\* Request r moves to a step that does not run the handler; the entry stays.
LEMMA Moves ==
    ASSUME KeyInv, UNCHANGED durable, NEW r \in Req, NEW pc \in {"insert", "evict", "reinsert", "lookup", "done", "lost"},
           Goes(r, pc), key' = key,
           Active(r) \/ req[r].pc = "new",
           req[r].result # "none" => pc \in {"done", "lost"}
    PROVE  KeyInv'
<1>1. TypeOK'
  BY GoesType DEF KeyInv, TypeOK
<1>2. /\ req'[r].pc = pc
      /\ \A q \in Req : /\ req'[q].age = req[q].age
                        /\ req'[q].result = req[q].result
                        /\ req'[q].answer = req[q].answer
                        /\ q # r => req'[q].pc = req[q].pc
  BY GoesFacts DEF KeyInv
<1>3. \A q \in Req : Running(q)' => Running(q)
  BY <1>2 DEF Running
<1>4. req[r].pc = "new" => req[r].age <= MaxAge
  BY TimeAssumption DEF KeyInv, Fresh
<1>5. Fresh'
  BY <1>2, <1>4 DEF KeyInv, Fresh, Active
<1>6. Owned' /\ OneHandlerAtATime' /\ EffectsAreApart'
  BY <1>2, <1>3 DEF KeyInv, Owned, OneHandlerAtATime, EffectsAreApart
<1>7. Kept'
  BY <1>2 DEF KeyInv, Kept
<1>8. Recorded' /\ ReplaysAreResponses'
  BY <1>2 DEF KeyInv, Recorded, ReplaysAreResponses, TypeOK, Request
<1> QED
  BY <1>1, <1>5, <1>6, <1>7, <1>8 DEF KeyInv

\* A request that finds the key free, by removal or expiry, is the only one to
\* run its handler, and no recent success is left if keys are durable.
LEMMA FreeKey ==
    ASSUME KeyInv, NEW r \in Req, req[r].pc \in {"insert", "reinsert"},
           key.state = "absent" \/ (~ durable /\ LeftFor(r) < 0)
    PROVE  /\ \A q \in Req : ~ Running(q)
           /\ durable => \A q \in Req : req[q].result = "ok" => req[q].age >= TTL
<1>1. req[r].age \in Nat
  BY DEF KeyInv, TypeOK, Request
<1>2. ASSUME NEW q \in Req, Running(q) PROVE FALSE
  <2>1. key.state = "processing" /\ key.left > 0 /\ key.left \in Int
    BY <1>2, OwnerFacts DEF KeyInv, TypeOK, Entry
  <2> QED
    BY <1>1, <2>1 DEF LeftFor
<1> QED
  BY <1>2 DEF KeyInv, Kept

\* Request r finds the key free and runs its handler.
LEMMA Claims ==
    ASSUME KeyInv, UNCHANGED durable, NEW r \in Req, Claim(r), req[r].pc \in {"insert", "reinsert"},
           key.state = "absent" \/ (~ durable /\ LeftFor(r) < 0)
    PROVE  KeyInv'
<1>0. req[r].age \in Nat /\ req[r].age <= MaxAge /\ req[r].result = "none"
  BY DEF KeyInv, Fresh, Active, TypeOK, Request
<1>1. key' = [state |-> "processing", left |-> TTL - req[r].age, response |-> NoReq]
  BY DEF Claim, Processing
<1>2. /\ req'[r].pc = "run"
      /\ \A q \in Req : /\ req'[q].age = req[q].age
                        /\ req'[q].result = req[q].result
                        /\ req'[q].answer = req[q].answer
                        /\ q # r => req'[q].pc = req[q].pc
  BY GoesFacts DEF KeyInv, Claim
<1>3. key' \in Entry
  BY <1>0, <1>1, TimeAssumption DEF Entry
<1>4. TypeOK'
  BY <1>3, GoesType DEF KeyInv, TypeOK, Claim
<1>5. \A q \in Req : ~ Running(q)
  BY FreeKey
<1>6. \A q \in Req : Running(q)' => q = r
  BY <1>2, <1>5 DEF Running
<1>7. Fresh'
  BY <1>0, <1>2 DEF KeyInv, Fresh, Active
<1>8. Owned' /\ OneHandlerAtATime'
  BY <1>1, <1>2, <1>6 DEF Owned, OneHandlerAtATime
<1>9. durable => \A q \in Req : req[q].result = "ok" => req[q].age >= TTL
  BY FreeKey
<1>10. Kept' /\ EffectsAreApart'
  BY <1>2, <1>9 DEF Kept, EffectsAreApart
<1>11. Recorded' /\ ReplaysAreResponses'
  BY <1>1, <1>2 DEF KeyInv, Recorded, ReplaysAreResponses, TypeOK, Request
<1> QED
  BY <1>4, <1>7, <1>8, <1>10, <1>11 DEF KeyInv

\* An entry is removed that nobody runs for, and that has expired.
LEMMA Removed ==
    ASSUME KeyInv, UNCHANGED durable, key' = NoEntry, key.left <= 0,
           req' \in [Req -> Request], Fresh', ReplaysAreResponses',
           \A q \in Req : Running(q)' => Running(q),
           \A q \in Req : req'[q].result = "ok" =>
                            req[q].result = "ok" /\ req'[q].age = req[q].age
    PROVE  KeyInv'
<1>1. \A q \in Req : ~ Running(q)'
  BY OwnerFacts DEF KeyInv, TypeOK, Entry
<1>2. TypeOK'
  <2>1. NoEntry \in Entry
    BY TimeAssumption DEF Entry, NoEntry
  <2> QED
    BY <2>1 DEF KeyInv, TypeOK
<1>3. Kept'
  <2> SUFFICES ASSUME durable, NEW q \in Req, req'[q].result = "ok" PROVE req'[q].age >= TTL
    BY DEF Kept
  <2>1. req[q].age >= TTL \/ key.left >= TTL - req[q].age
    BY DEF KeyInv, Kept
  <2> QED
    BY <2>1, TimeAssumption DEF KeyInv, TypeOK, Entry, Request
<1> QED
  BY <1>1, <1>2, <1>3 DEF KeyInv, Owned, OneHandlerAtATime, EffectsAreApart, Recorded, NoEntry
-----------------------------------------------------------------------------
(* The actions *)

LEMMA InsertInv == ASSUME KeyInv, UNCHANGED durable, NEW r \in Req, Insert(r) PROVE KeyInv'
<1>1. req[r].pc = "insert" /\ req[r].result = "none"
  BY DEF Insert, KeyInv, Fresh, TypeOK, Request
<1> QED
  BY <1>1, Claims, Moves DEF Insert, Active

LEMMA StartInv == ASSUME KeyInv, UNCHANGED durable, NEW r \in Req, Start(r) PROVE KeyInv'
<1>1. req[r].pc = "insert" /\ req[r].result = "none"
  BY DEF Start, KeyInv, Fresh, TypeOK, Request
<1> QED
  BY <1>1, Claims, Moves DEF Start, Active

LEMMA ReinsertInv == ASSUME KeyInv, UNCHANGED durable, NEW r \in Req, Reinsert(r) PROVE KeyInv'
<1>1. req[r].pc = "reinsert" /\ req[r].result = "none"
  BY DEF Reinsert, KeyInv, Fresh, TypeOK, Request
<1> QED
  BY <1>1, Claims, Moves DEF Reinsert, Active

LEMMA EvictInv == ASSUME KeyInv, UNCHANGED durable, NEW r \in Req, Evict(r) PROVE KeyInv'
<1>1. req[r].pc = "evict" /\ req[r].result = "none" /\ req[r].age \in Nat
  BY DEF Evict, KeyInv, Fresh, TypeOK, Request
<1>2. CASE Evictable(r)
  <2>1. key' = NoEntry /\ Goes(r, "reinsert")
    BY <1>2 DEF Evict
  <2>2. key.left <= 0
    BY <1>1, <1>2 DEF Evictable, LeftFor, KeyInv, TypeOK, Entry
  <2>3. req' \in [Req -> Request]
    BY <2>1, GoesType DEF KeyInv
  <2>4. /\ req'[r].pc = "reinsert"
        /\ \A q \in Req : /\ req'[q].age = req[q].age
                          /\ req'[q].result = req[q].result
                          /\ req'[q].answer = req[q].answer
                          /\ q # r => req'[q].pc = req[q].pc
    BY <2>1, GoesFacts DEF KeyInv
  <2>5. Fresh'
    BY <1>1, <2>4 DEF KeyInv, Fresh, Active
  <2>6. ReplaysAreResponses'
    BY <2>4 DEF KeyInv, ReplaysAreResponses, TypeOK, Request
  <2>7. \A q \in Req : Running(q)' => Running(q)
    BY <2>4 DEF Running
  <2> QED
    BY <2>1, <2>2, <2>3, <2>4, <2>5, <2>6, <2>7, Removed
<1>3. CASE ~ Evictable(r)
  BY <1>1, <1>3, Moves DEF Evict, Active
<1> QED
  BY <1>2, <1>3

LEMMA BeginInv == ASSUME KeyInv, UNCHANGED durable, NEW r \in Req, Begin(r) PROVE KeyInv'
<1>1. req[r].result = "none"
  BY DEF Begin, KeyInv, Fresh, TypeOK, Request
<1> QED
  BY <1>1, Moves DEF Begin

LEMMA AbortInv == ASSUME KeyInv, UNCHANGED durable, NEW r \in Req, Abort(r) PROVE KeyInv'
<1>1. CASE key' = key
  BY <1>1, Moves DEF Abort
<1>2. CASE req[r].pc \in {"insert", "reinsert"} /\ key.state = "absent" /\ key' = Processing(r)
  <2>0. req[r].age \in Nat /\ req[r].age <= MaxAge /\ req[r].result = "none"
    BY <1>2 DEF KeyInv, Fresh, Active, TypeOK, Request
  <2>1. /\ req'[r].pc = "lost"
        /\ \A q \in Req : /\ req'[q].age = req[q].age
                          /\ req'[q].result = req[q].result
                          /\ req'[q].answer = req[q].answer
                          /\ q # r => req'[q].pc = req[q].pc
    BY GoesFacts DEF KeyInv, Abort
  <2>2. TypeOK'
    <3>1. key' \in Entry
      BY <1>2, <2>0, TimeAssumption DEF Entry, Processing
    <3> QED
      BY <3>1, GoesType DEF KeyInv, TypeOK, Abort
  <2>3. \A q \in Req : ~ Running(q)'
    BY <1>2, <2>1 DEF KeyInv, Owned, Running
  <2>4. Fresh'
    BY <2>0, <2>1 DEF KeyInv, Fresh, Active
  <2>5. Kept'
    BY <1>2, <2>1 DEF KeyInv, Kept
  <2>6. Recorded' /\ ReplaysAreResponses'
    BY <1>2, <2>1 DEF KeyInv, Recorded, ReplaysAreResponses, Processing, TypeOK, Request
  <2> QED
    BY <2>2, <2>3, <2>4, <2>5, <2>6 DEF KeyInv, Owned, OneHandlerAtATime, EffectsAreApart
<1> QED
  BY <1>1, <1>2 DEF Abort

LEMMA LookupInv == ASSUME KeyInv, UNCHANGED durable, NEW r \in Req, Lookup(r) PROVE KeyInv'
<1>0. req[r].pc = "lookup" /\ req[r].result = "none" /\ req[r].age \in Nat
  BY DEF Lookup, KeyInv, Fresh, TypeOK, Request
<1>1. PICK answer \in Req \cup {NoReq} :
        /\ req' = [req EXCEPT ![r].pc = "done", ![r].answer = answer]
        /\ answer # NoReq => answer = key.response /\ key.state = "completed"
  BY DEF Lookup, Replayable, KeyInv, TypeOK, Entry
<1>2. /\ req'[r].pc = "done" /\ req'[r].answer = answer
      /\ \A q \in Req : /\ req'[q].age = req[q].age
                        /\ req'[q].result = req[q].result
                        /\ q # r => req'[q].pc = req[q].pc /\ req'[q].answer = req[q].answer
  BY <1>1 DEF KeyInv, TypeOK, Request
<1>3. req' \in [Req -> Request]
  <2>1. [req[r] EXCEPT !.pc = "done", !.answer = answer] \in Request
    BY DEF KeyInv, TypeOK, Request
  <2> QED
    BY <1>1, <2>1 DEF KeyInv, TypeOK
<1>4. Fresh'
  BY <1>0, <1>2 DEF KeyInv, Fresh, Active
<1>5. ReplaysAreResponses'
  BY <1>1, <1>2 DEF KeyInv, Recorded, ReplaysAreResponses, TypeOK, Request
<1>6. \A q \in Req : Running(q)' => Running(q)
  BY <1>2 DEF Running
<1>7. CASE key' = key
  <2>1. Owned' /\ OneHandlerAtATime' /\ EffectsAreApart'
    BY <1>2, <1>6, <1>7 DEF KeyInv, Owned, OneHandlerAtATime, EffectsAreApart
  <2>2. Kept' /\ Recorded'
    BY <1>2, <1>7 DEF KeyInv, Kept, Recorded
  <2> QED
    BY <1>3, <1>4, <1>5, <1>7, <2>1, <2>2 DEF KeyInv, TypeOK
<1>8. CASE key' = NoEntry /\ LeftFor(r) < 0
  <2>1. key.left <= 0
    BY <1>0, <1>8 DEF LeftFor, KeyInv, TypeOK, Entry
  <2> QED
    BY <1>2, <1>3, <1>4, <1>5, <1>6, <1>8, <2>1, Removed
<1> QED
  BY <1>7, <1>8 DEF Lookup

LEMMA RunInv == ASSUME KeyInv, UNCHANGED durable, NEW r \in Req, Run(r) PROVE KeyInv'
<1>1. PICK result \in {"ok", "error"} :
        req' = [req EXCEPT ![r].pc = "settle", ![r].result = result]
  BY DEF Run
<1>2. /\ req'[r].pc = "settle" /\ req'[r].result = result
      /\ \A q \in Req : /\ req'[q].age = req[q].age
                        /\ req'[q].answer = req[q].answer
                        /\ q # r => req'[q].pc = req[q].pc /\ req'[q].result = req[q].result
  BY <1>1 DEF KeyInv, TypeOK, Request
<1>3. Running(r) /\ key' = key /\ req[r].pc = "run" /\ req[r].result = "none"
  BY DEF Run, Running, KeyInv, Fresh, TypeOK, Request
<1>4. \A q \in Req : Running(q)' <=> Running(q)
  BY <1>2, <1>3 DEF Running
<1>5. TypeOK'
  BY <1>1, <1>3 DEF KeyInv, TypeOK, Request
<1>6. Fresh'
  BY <1>2, <1>3 DEF KeyInv, Fresh, Active
<1>7. Owned' /\ OneHandlerAtATime'
  BY <1>2, <1>3, <1>4 DEF KeyInv, Owned, OneHandlerAtATime
<1>8. EffectsAreApart'
  BY <1>2, <1>3, <1>4 DEF KeyInv, EffectsAreApart, OneHandlerAtATime
<1>9. Kept'
  <2>1. key.state # "absent" /\ key.left >= TTL - req[r].age
    BY <1>3, OwnerFacts DEF KeyInv, TypeOK, Entry, Request
  <2> QED
    BY <1>2, <1>3, <2>1 DEF KeyInv, Kept
<1>10. Recorded' /\ ReplaysAreResponses'
  BY <1>2, <1>3 DEF KeyInv, Recorded, ReplaysAreResponses, TypeOK, Request
<1> QED
  BY <1>5, <1>6, <1>7, <1>8, <1>9, <1>10 DEF KeyInv

LEMMA SettleInv == ASSUME KeyInv, UNCHANGED durable, NEW r \in Req, Settle(r) PROVE KeyInv'
<1>1. /\ req'[r].pc = "done"
      /\ \A q \in Req : /\ req'[q].age = req[q].age
                        /\ req'[q].result = req[q].result
                        /\ req'[q].answer = req[q].answer
                        /\ q # r => req'[q].pc = req[q].pc
  BY GoesFacts DEF KeyInv, Settle
<1>2. Running(r) /\ key.state = "processing" /\ key.left = TTL - req[r].age
      /\ req[r].age \in 0 .. TTL /\ req[r].result \in {"none", "ok", "error"}
  BY OwnerFacts DEF Settle, Running, KeyInv, TypeOK, Request
<1>3. \A q \in Req : ~ Running(q)'
  BY <1>1, <1>2 DEF KeyInv, OneHandlerAtATime, Running
<1>4. \/ key' = key
      \/ key' = NoEntry /\ req[r].result = "error"
      \/ /\ key' = [state |-> "completed", left |-> TTL - req[r].age, response |-> r]
         /\ req[r].result # "error"
  BY <1>2 DEF Settle, Settled
<1>5. TypeOK'
  <2>1. key' \in Entry
    BY <1>2, <1>4, TimeAssumption DEF KeyInv, TypeOK, Entry, NoEntry
  <2> QED
    BY <2>1, GoesType DEF KeyInv, TypeOK, Settle
<1>6. Fresh'
  BY <1>1 DEF KeyInv, Fresh, Active, Settle
<1>7. Kept'
  <2> SUFFICES ASSUME durable, NEW q \in Req, req'[q].result = "ok"
               PROVE  req'[q].age >= TTL \/ (key'.state # "absent" /\ key'.left >= TTL - req'[q].age)
    BY DEF Kept
  <2>1. CASE q = r
    BY <1>1, <1>2, <1>4, <2>1, TimeAssumption
  <2>2. CASE q # r
    BY <1>1, <1>2, <2>2 DEF KeyInv, EffectsAreApart
  <2> QED
    BY <2>1, <2>2
<1>8. Recorded'
  <2>1. req[r].result # "none"
    BY DEF KeyInv, Fresh, Settle
  <2> QED
    BY <1>1, <1>2, <1>4, <2>1 DEF KeyInv, Recorded, NoEntry, Settle
<1>9. ReplaysAreResponses'
  BY <1>1 DEF KeyInv, ReplaysAreResponses, TypeOK, Request
<1> QED
  BY <1>3, <1>5, <1>6, <1>7, <1>8, <1>9 DEF KeyInv, Owned, OneHandlerAtATime, EffectsAreApart

LEMMA DisconnectInv == ASSUME KeyInv, UNCHANGED durable, NEW r \in Req, Disconnect(r) PROVE KeyInv'
<1>1. \A q \in Req : /\ req'[q].age = req[q].age
                     /\ req'[q].result = req[q].result
                     /\ req'[q].answer = req[q].answer
                     /\ req'[q].pc = req[q].pc
  BY DEF Disconnect, KeyInv, TypeOK, Request
<1>2. TypeOK' /\ key' = key
  BY DEF Disconnect, KeyInv, TypeOK, Request
<1>3. \A q \in Req : Running(q)' <=> Running(q)
  BY <1>1 DEF Running
<1>4. Fresh' /\ Owned' /\ OneHandlerAtATime'
  BY <1>1, <1>2, <1>3 DEF KeyInv, Fresh, Owned, OneHandlerAtATime, Active
<1>5. Kept' /\ EffectsAreApart'
  BY <1>1, <1>2, <1>3 DEF KeyInv, Kept, EffectsAreApart
<1>6. Recorded' /\ ReplaysAreResponses'
  BY <1>1, <1>2 DEF KeyInv, Recorded, ReplaysAreResponses, TypeOK, Request
<1> QED
  BY <1>2, <1>4, <1>5, <1>6 DEF KeyInv

LEMMA RestartInv == ASSUME KeyInv, UNCHANGED durable, Restart PROVE KeyInv'
<1>1. \A q \in Req : /\ req'[q].age = req[q].age
                     /\ req'[q].result = req[q].result
                     /\ req'[q].answer = req[q].answer
                     /\ req'[q].pc = IF Active(q) THEN "lost" ELSE req[q].pc
  BY DEF Restart, KeyInv, TypeOK, Request
<1>2. TypeOK'
  BY TimeAssumption DEF Restart, KeyInv, TypeOK, Request, Entry, NoEntry
<1>3. \A q \in Req : ~ Running(q)'
  BY <1>1 DEF Running, Active
<1>4. Fresh'
  BY <1>1 DEF KeyInv, Fresh, Active
<1>5. Kept' /\ Recorded'
  BY <1>1 DEF Restart, KeyInv, Kept, Recorded, NoEntry
<1>6. ReplaysAreResponses'
  BY <1>1 DEF KeyInv, ReplaysAreResponses, TypeOK, Request
<1> QED
  BY <1>2, <1>3, <1>4, <1>5, <1>6 DEF KeyInv, Owned, OneHandlerAtATime, EffectsAreApart

LEMMA MonitorInv == ASSUME KeyInv, UNCHANGED durable, TTLMonitor PROVE KeyInv'
<1> QED
  BY Removed DEF TTLMonitor, KeyInv, TypeOK, Fresh, ReplaysAreResponses, Running, Active

LEMMA TickInv == ASSUME KeyInv, UNCHANGED durable, Tick PROVE KeyInv'
<1>1. \A q \in Req :
        /\ req'[q].age = IF req[q].pc = "new" \/ req[q].age = TTL THEN req[q].age
                         ELSE req[q].age + 1
        /\ req'[q].result = req[q].result
        /\ req'[q].answer = req[q].answer
        /\ req'[q].pc = req[q].pc
  BY DEF Tick, KeyInv, TypeOK, Request
<1>2. /\ key'.state = key.state /\ key'.response = key.response
      /\ key'.left = IF key.state # "absent" /\ key.left > -MaxAge THEN key.left - 1 ELSE key.left
  BY DEF Tick, KeyInv, TypeOK, Entry
<1>3. /\ key.left \in -MaxAge .. TTL
      /\ \A q \in Req : req[q].age \in 0 .. TTL
  BY DEF KeyInv, TypeOK, Entry, Request
<1>4. TypeOK'
  <2>1. key' \in Entry
    BY <1>3, TimeAssumption DEF Tick, KeyInv, TypeOK, Entry
  <2>2. \A q \in Req : [req[q] EXCEPT !.age = req[q].age + 1] \in Request \/ req[q].age = TTL
    <3> SUFFICES ASSUME NEW q \in Req, req[q].age # TTL
                 PROVE  [req[q] EXCEPT !.age = req[q].age + 1] \in Request
      OBVIOUS
    <3>1. req[q].age + 1 \in 0 .. TTL
      BY <1>3, TimeAssumption
    <3> QED
      BY <3>1 DEF KeyInv, TypeOK, Request
  <2>3. req' \in [Req -> Request]
    BY <1>3, <2>2, TimeAssumption DEF Tick, KeyInv, TypeOK
  <2> QED
    BY <2>1, <2>3 DEF KeyInv, TypeOK
<1>5. \A q \in Req : Running(q)' <=> Running(q)
  BY <1>1 DEF Running
<1>6. Fresh'
  BY <1>1, <1>3, TimeAssumption DEF KeyInv, Fresh, Active, Tick
<1>7. Owned'
  <2> SUFFICES ASSUME NEW q \in Req, Running(q)
               PROVE  key'.state = "processing" /\ key'.left = TTL - req'[q].age
    BY <1>5 DEF Owned
  <2>1. key.state = "processing" /\ key.left = TTL - req[q].age /\ key.left > 0
    BY OwnerFacts
  <2>2. req[q].pc # "new" /\ req[q].age < MaxAge
    BY DEF Running, Active, Tick
  <2> QED
    BY <1>1, <1>2, <1>3, <2>1, <2>2, TimeAssumption
<1>8. OneHandlerAtATime'
  BY <1>5 DEF KeyInv, OneHandlerAtATime
<1>9. Kept'
  <2> SUFFICES ASSUME durable, NEW q \in Req, req[q].result = "ok"
               PROVE  req'[q].age >= TTL \/ (key'.state # "absent" /\ key'.left >= TTL - req'[q].age)
    BY <1>1 DEF Kept
  <2>1. req[q].pc # "new"
    BY DEF KeyInv, Fresh
  <2>2. req[q].age >= TTL \/ (key.state # "absent" /\ key.left >= TTL - req[q].age)
    BY DEF KeyInv, Kept
  <2> QED
    BY <1>1, <1>2, <1>3, <2>1, <2>2, TimeAssumption
<1>10. EffectsAreApart'
  BY <1>1, <1>3, <1>5, TimeAssumption DEF KeyInv, EffectsAreApart
<1>11. Recorded' /\ ReplaysAreResponses'
  BY <1>1, <1>2 DEF KeyInv, Recorded, ReplaysAreResponses, TypeOK, Request
<1> QED
  BY <1>4, <1>6, <1>7, <1>8, <1>9, <1>10, <1>11 DEF KeyInv
-----------------------------------------------------------------------------
LEMMA KeyNext == KeyInv /\ [Next]_vars => KeyInv'
<1> SUFFICES ASSUME KeyInv, [Next]_vars PROVE KeyInv'
  OBVIOUS
<1>1. CASE UNCHANGED vars
  BY <1>1 DEF vars, KeyInv, TypeOK, Fresh, Owned, OneHandlerAtATime, Kept, EffectsAreApart,
       Recorded, ReplaysAreResponses, Running, Active
<1>2. ASSUME UNCHANGED durable, NEW r \in Req,
             \/ Begin(r) \/ Insert(r) \/ Evict(r) \/ Reinsert(r) \/ Start(r)
             \/ Lookup(r) \/ Run(r) \/ Settle(r) \/ Disconnect(r) \/ Abort(r)
      PROVE  KeyInv'
  BY <1>2, BeginInv, InsertInv, EvictInv, ReinsertInv, StartInv, LookupInv, RunInv, SettleInv,
     DisconnectInv, AbortInv
<1>3. CASE UNCHANGED durable /\ (Restart \/ TTLMonitor \/ Tick)
  BY <1>3, RestartInv, MonitorInv, TickInv
<1> QED
  BY <1>1, <1>2, <1>3 DEF Next, Step

\* Every reachable state of the key and its requests satisfies the invariant.
THEOREM KeyInvariant == Spec => []KeyInv
<1> QED
  BY KeyInit, KeyNext, PTL DEF Spec

\* Entries and requests keep their types: no expiry is ever later than TTL.
THEOREM KeysTypeCorrect == Spec => []TypeOK
<1>1. KeyInv => TypeOK
  BY DEF KeyInv
<1> QED
  BY <1>1, KeyInvariant, PTL

\* Handlers of the same key exclude each other with both backends, as long as
\* no request lives as long as an entry.
THEOREM HandlersExclude == Spec => []OneHandlerAtATime
<1>1. KeyInv => OneHandlerAtATime
  BY DEF KeyInv
<1> QED
  BY <1>1, KeyInvariant, PTL

\* With the mongo backend a success keeps every other handler of the key away
\* for TTL, through disconnections, lost answers and restarts.
THEOREM SuccessesAreApart == Spec => []EffectsAreApart
<1>1. KeyInv => EffectsAreApart
  BY DEF KeyInv
<1> QED
  BY <1>1, KeyInvariant, PTL

\* What is replayed was answered by a handler that succeeded.
THEOREM ReplaysAreFaithful == Spec => []ReplaysAreResponses
<1>1. KeyInv => ReplaysAreResponses
  BY DEF KeyInv
<1> QED
  BY <1>1, KeyInvariant, PTL
-----------------------------------------------------------------------------
(* What the handlers are promised *)

Waiting == {"new", "insert", "evict", "reinsert", "lookup"}

\* The phase of a request follows from where it stands.
LEMMA PhaseOf ==
    ASSUME NEW r \in Req
    PROVE  /\ req[r].pc \in Waiting => Phases[r] = "waiting"
           /\ Running(r) <=> Phases[r] = "running"
           /\ req[r].pc \in {"done", "lost"} => Phases[r] = "ended"
BY DEF Phases, Running, Waiting

\* A step of request r that the handlers do not see.
LEMMA Unseen ==
    ASSUME KeyInv, NEW r \in Req, NEW pc \in Waiting, Goes(r, pc), req[r].pc \in Waiting,
           UNCHANGED durable
    PROVE  UNCHANGED Handlers!vars
<1>1. /\ req'[r].pc = pc
      /\ \A q \in Req : /\ req'[q].age = req[q].age /\ req'[q].result = req[q].result
                        /\ req'[q].answer = req[q].answer
                        /\ q # r => req'[q].pc = req[q].pc
  BY GoesFacts DEF KeyInv
<1>2. \A q \in Req : Running(q)' <=> Running(q)
  BY <1>1 DEF Running, Waiting
<1> QED
  BY <1>1, <1>2 DEF Handlers!vars, Phases, Results, Answers, Old, Waiting

\* A step that moves request r, and leaves results and ages as they are, is one
\* of its phase.
LEMMA Seen ==
    ASSUME KeyInv, NEW r \in Req, NEW phase,
           \A q \in Req : /\ req'[q].age = req[q].age /\ req'[q].result = req[q].result
                          /\ q # r => req'[q].pc = req[q].pc,
           Phases'[r] = phase
    PROVE  Phases' = [Phases EXCEPT ![r] = phase] /\ UNCHANGED <<Results, Old>>
<1>1. \A q \in Req : q # r => (Running(q)' <=> Running(q))
  BY DEF Running
<1>2. \A q \in Req : q # r => Phases'[q] = Phases[q]
  BY <1>1 DEF Phases
<1>3. Phases' = [Phases EXCEPT ![r] = phase]
  BY <1>2 DEF Phases
<1> QED
  BY <1>3 DEF Results, Old

\* The key is free for one request, which runs its handler.
LEMMA ClaimStarts ==
    ASSUME KeyInv, UNCHANGED durable, NEW r \in Req, Claim(r), req[r].pc \in {"insert", "reinsert"},
           key.state = "absent" \/ (~ durable /\ LeftFor(r) < 0)
    PROVE  Handlers!Next
<1>1. /\ req'[r].pc = "run"
      /\ \A q \in Req : /\ req'[q].age = req[q].age /\ req'[q].result = req[q].result
                        /\ req'[q].answer = req[q].answer
                        /\ q # r => req'[q].pc = req[q].pc
  BY GoesFacts DEF KeyInv, Claim
<1>2. Phases'[r] = "running"
  BY <1>1 DEF Phases, Running
<1>3. Phases' = [Phases EXCEPT ![r] = "running"] /\ UNCHANGED <<Results, Old, Answers>>
  BY <1>1, <1>2, Seen DEF Answers
<1>4. Phases[r] = "waiting" /\ \A q \in Req : Phases[q] # "running"
  BY PhaseOf, FreeKey DEF Waiting
<1>5. durable => Handlers!Successes \subseteq Old
  BY FreeKey, TimeAssumption DEF Handlers!Successes, Results, Old, KeyInv, TypeOK, Request
<1>6. Handlers!Start(r)
  BY <1>3, <1>4, <1>5 DEF Handlers!Start
<1> QED
  BY <1>6 DEF Handlers!Next

LEMMA RunReturns ==
    ASSUME KeyInv, UNCHANGED durable, NEW r \in Req, Run(r)
    PROVE  Handlers!Next
<1>1. PICK outcome \in {"ok", "error"} :
        req' = [req EXCEPT ![r].pc = "settle", ![r].result = outcome]
  BY DEF Run
<1>2. /\ req'[r].pc = "settle" /\ req'[r].result = outcome
      /\ \A q \in Req : /\ req'[q].age = req[q].age /\ req'[q].answer = req[q].answer
                        /\ q # r => req'[q].pc = req[q].pc /\ req'[q].result = req[q].result
  BY <1>1 DEF KeyInv, TypeOK, Request
<1>3. req[r].pc = "run" /\ req[r].result = "none"
  BY DEF Run, KeyInv, Fresh, TypeOK, Request
<1>4. \A q \in Req : Running(q)' <=> Running(q)
  BY <1>2, <1>3 DEF Running
<1>5. UNCHANGED <<Phases, Answers, Old>>
  BY <1>2, <1>3, <1>4 DEF Phases, Answers, Old
<1>6. Results' = [Results EXCEPT ![r] = outcome]
  BY <1>2 DEF Results
<1>7. Phases[r] = "running" /\ Results[r] = "none"
  BY <1>3 DEF Phases, Results, Running
<1>8. Handlers!Return(r)
  BY <1>5, <1>6, <1>7 DEF Handlers!Return
<1> QED
  BY <1>8 DEF Handlers!Next

LEMMA SettleFinishes ==
    ASSUME KeyInv, UNCHANGED durable, NEW r \in Req, Settle(r)
    PROVE  Handlers!Next
<1>1. /\ req'[r].pc = "done"
      /\ \A q \in Req : /\ req'[q].age = req[q].age /\ req'[q].result = req[q].result
                        /\ req'[q].answer = req[q].answer
                        /\ q # r => req'[q].pc = req[q].pc
  BY GoesFacts DEF KeyInv, Settle
<1>2. Phases'[r] = "ended"
  BY <1>1 DEF Phases, Running
<1>3. Phases' = [Phases EXCEPT ![r] = "ended"] /\ UNCHANGED <<Results, Old, Answers>>
  BY <1>1, <1>2, Seen DEF Answers
<1>4. Phases[r] = "running" /\ Results[r] # "none"
  BY DEF Settle, Phases, Results, Running, KeyInv, Fresh
<1>5. Handlers!Finish(r)
  BY <1>3, <1>4 DEF Handlers!Finish
<1> QED
  BY <1>5 DEF Handlers!Next

LEMMA LookupReplays ==
    ASSUME KeyInv, UNCHANGED durable, NEW r \in Req, Lookup(r)
    PROVE  Handlers!Next
<1> DEFINE given == IF Replayable(r) /\ (req[r].live \/ ~ durable) THEN key.response ELSE NoReq
<1>1. req' = [req EXCEPT ![r].pc = "done", ![r].answer = given]
  BY DEF Lookup
<1>2. given \in Handlers!Successes \cup {NoReq}
  BY DEF Replayable, KeyInv, Recorded, Handlers!Successes, Results
<1> HIDE DEF given
<1>3. /\ req'[r].pc = "done" /\ req'[r].answer = given
      /\ \A q \in Req : /\ req'[q].age = req[q].age /\ req'[q].result = req[q].result
                        /\ q # r => req'[q].pc = req[q].pc /\ req'[q].answer = req[q].answer
  BY <1>1 DEF KeyInv, TypeOK, Request
<1>4. Phases'[r] = "ended"
  BY <1>3 DEF Phases, Running
<1>5. Phases' = [Phases EXCEPT ![r] = "ended"] /\ UNCHANGED <<Results, Old>>
  BY <1>3, <1>4, Seen
<1>6. Answers' = [Answers EXCEPT ![r] = given]
  BY <1>3 DEF Answers
<1>7. Phases[r] = "waiting"
  BY DEF Lookup, Phases, Running
<1>8. Handlers!Replay(r)
  BY <1>2, <1>5, <1>6, <1>7 DEF Handlers!Replay
<1> QED
  BY <1>8 DEF Handlers!Next

\* Whatever cuts requests short ends their phases, and nothing else.
LEMMA LostAre ==
    ASSUME KeyInv, UNCHANGED durable, NEW lost \in SUBSET Req,
           \A q \in Req : /\ req'[q].age = req[q].age /\ req'[q].result = req[q].result
                          /\ req'[q].answer = req[q].answer
                          /\ req'[q].pc = IF q \in lost THEN "lost" ELSE req[q].pc
    PROVE  Handlers!Next
<1>1. \A q \in Req : Phases'[q] = IF q \in lost THEN "ended" ELSE Phases[q]
  BY DEF Phases, Running
<1>2. Phases' = [q \in Req |-> IF q \in lost THEN "ended" ELSE Phases[q]]
  BY <1>1 DEF Phases
<1>3. UNCHANGED <<Results, Answers, Old>>
  BY DEF Results, Answers, Old
<1>4. Handlers!Lose
  BY <1>2, <1>3 DEF Handlers!Lose
<1> QED
  BY <1>4 DEF Handlers!Next

LEMMA TimeAges == ASSUME KeyInv, UNCHANGED durable, Tick PROVE Handlers!Next
<1>1. \A q \in Req :
        /\ req'[q].age = IF req[q].pc = "new" \/ req[q].age = TTL THEN req[q].age
                         ELSE req[q].age + 1
        /\ req'[q].result = req[q].result /\ req'[q].answer = req[q].answer
        /\ req'[q].pc = req[q].pc
  BY DEF Tick, KeyInv, TypeOK, Request
<1>2. \A q \in Req : Running(q)' <=> Running(q)
  BY <1>1 DEF Running
<1>3. UNCHANGED <<Phases, Results, Answers>>
  BY <1>1, <1>2 DEF Phases, Results, Answers
<1>4. Old \subseteq Old' /\ Old' \subseteq Req
  BY <1>1 DEF Old
<1>5. Handlers!Age
  BY <1>3, <1>4 DEF Handlers!Age
<1> QED
  BY <1>5 DEF Handlers!Next

LEMMA KeyStepIsHandlerStep == ASSUME KeyInv, [Next]_vars PROVE [Handlers!Next]_Handlers!vars
<1>1. ASSUME NEW r \in Req, Begin(r), UNCHANGED durable PROVE UNCHANGED Handlers!vars
  BY <1>1, Unseen DEF Begin, Waiting
<1>2. ASSUME NEW r \in Req, Insert(r) \/ Start(r) \/ Reinsert(r), UNCHANGED durable
      PROVE  Handlers!Next \/ UNCHANGED Handlers!vars
  <2>1. CASE Claim(r) /\ (key.state = "absent" \/ (~ durable /\ LeftFor(r) < 0))
    BY <1>2, <2>1, ClaimStarts DEF Insert, Start, Reinsert
  <2>2. CASE Goes(r, "evict") \/ Goes(r, "lookup")
    BY <1>2, <2>2, Unseen DEF Insert, Start, Reinsert, Waiting
  <2> QED
    BY <1>2, <2>1, <2>2 DEF Insert, Start, Reinsert
<1>3. ASSUME NEW r \in Req, Evict(r), UNCHANGED durable PROVE UNCHANGED Handlers!vars
  <2>1. req[r].pc \in Waiting /\ (Goes(r, "reinsert") \/ Goes(r, "lookup"))
    BY <1>3 DEF Evict, Waiting
  <2> QED
    BY <1>3, <2>1, Unseen DEF Waiting
<1>4. ASSUME NEW r \in Req, Disconnect(r), UNCHANGED durable PROVE UNCHANGED Handlers!vars
  <2>1. \A q \in Req : /\ req'[q].age = req[q].age /\ req'[q].result = req[q].result
                       /\ req'[q].answer = req[q].answer /\ req'[q].pc = req[q].pc
    BY <1>4 DEF Disconnect, KeyInv, TypeOK, Request
  <2>2. \A q \in Req : Running(q)' <=> Running(q)
    BY <2>1 DEF Running
  <2> QED
    BY <1>4, <2>1, <2>2 DEF Handlers!vars, Phases, Results, Answers, Old
<1>5. ASSUME NEW r \in Req, Abort(r), UNCHANGED durable PROVE Handlers!Next
  <2>1. \A q \in Req : /\ req'[q].age = req[q].age /\ req'[q].result = req[q].result
                       /\ req'[q].answer = req[q].answer
                       /\ req'[q].pc = IF q \in {r} THEN "lost" ELSE req[q].pc
    BY <1>5, GoesFacts DEF Abort, KeyInv
  <2> QED
    BY <1>5, <2>1, LostAre
<1>6. ASSUME Restart, UNCHANGED durable PROVE Handlers!Next
  <2>1. \A q \in Req : /\ req'[q].age = req[q].age /\ req'[q].result = req[q].result
                       /\ req'[q].answer = req[q].answer
                       /\ req'[q].pc = IF q \in {p \in Req : Active(p)} THEN "lost" ELSE req[q].pc
    BY <1>6 DEF Restart, KeyInv, TypeOK, Request
  <2> QED
    BY <1>6, <2>1, LostAre
<1>7. CASE UNCHANGED <<req, durable>>
  BY <1>7 DEF Handlers!vars, Phases, Results, Answers, Old, Running
<1> QED
  BY <1>1, <1>2, <1>3, <1>4, <1>5, <1>6, <1>7, RunReturns, SettleFinishes, LookupReplays, TimeAges
     DEF Next, Step, TTLMonitor, vars

\* Both backends keep the promise to the handlers: through expiry, eviction,
\* lost clients, late settlements and restarts, a handler runs alone and once
\* per request, not within TTL of a success if keys are durable, and the other
\* requests get the response of a success or none.
THEOREM KeysImplementHandlers == Spec => ImplementsHandlers
<1>1. Init => Handlers!Init
  BY TimeAssumption DEF Init, Handlers!Init, Phases, Results, Answers, Old, Running
<1>2. KeyInv /\ [Next]_vars => [Handlers!Next]_Handlers!vars
  BY KeyStepIsHandlerStep
<1> QED
  BY <1>1, <1>2, KeyInvariant, PTL DEF Spec, ImplementsHandlers, Handlers!Spec
-----------------------------------------------------------------------------
(* AutoDeployLease *)

\* Every granted lease outlives a request.
LEMMA TTLBounds ==
    ASSUME NEW h \in Holder
    PROVE  LeaseTTL(h) \in Nat /\ LeaseTimeout < LeaseTTL(h) /\ LeaseTTL(h) <= MaxLeaseTTL
  BY LeaseAssumption DEF LeaseTTL

LEMMA InitialLease == LeaseInit => LeaseInv
<1> SUFFICES ASSUME LeaseInit PROVE LeaseInv
  OBVIOUS
<1>1. PICK h \in Holder :
        call = [c \in LeaseCall |-> [pc |-> "idle", holder |-> h, age |-> 0, granted |-> FALSE]]
  BY DEF LeaseInit
<1>2. LeaseTypeOK
  BY <1>1, LeaseAssumption DEF LeaseInit, LeaseTypeOK, Lease, Call
<1>3. BeliefIsCovered /\ RequestsRenew /\ GrantsLast /\ LeaseBounded
  BY <1>1 DEF LeaseInit, BeliefIsCovered, RequestsRenew, GrantsLast, LeaseBounded
<1>4. GrantsAreRead
  BY <1>1 DEF GrantsAreRead
<1> QED
  BY <1>2, <1>3, <1>4 DEF LeaseInv

\* A new request of a worker has the worker's previous request behind it, or
\* the worker is known to overlap.
LEMMA BeginCallKeeps ==
    ASSUME LeaseInv, NEW c \in LeaseCall, NEW h \in Holder, BeginCall(c, h)
    PROVE  LeaseInv'
<1> USE DEF BeginCall
<1>1. /\ LeaseTypeOK /\ overlapped' \subseteq Holder /\ overlapped \subseteq overlapped'
      /\ \A d \in LeaseCall : call[d] \in Call
  BY DEF LeaseInv, LeaseTypeOK
<1>2. call'[c] = [pc |-> "update", holder |-> h, age |-> 0, granted |-> FALSE]
  BY <1>1 DEF LeaseTypeOK
<1>3. \A d \in LeaseCall : d # c => call'[d] = call[d]
  BY <1>1 DEF LeaseTypeOK
<1>4. LeaseTypeOK'
  <2>1. [pc |-> "update", holder |-> h, age |-> 0, granted |-> FALSE] \in Call
    BY LeaseAssumption DEF Call
  <2> QED
    BY <1>1, <2>1 DEF LeaseTypeOK
<1>5. BeliefIsCovered'
  BY <1>1 DEF LeaseInv, BeliefIsCovered
<1>6. RequestsRenew'
  <2> SUFFICES ASSUME NEW d \in LeaseCall, call'[d].pc # "idle", call'[d].holder \notin overlapped'
               PROVE  /\ believes[call'[d].holder] + call'[d].age <= LeaseTTL(call'[d].holder)
                      /\ \A e \in LeaseCall :
                           call'[e].pc # "idle" /\ call'[e].holder = call'[d].holder => e = d
    BY DEF RequestsRenew
  <2>1. CASE d = c
    <3>1. InFlight(h) = {}
      BY <1>2, <2>1
    <3>2. believes[h] + 0 <= LeaseTTL(h)
      <4>1. believes[h] > 0 => lease.holder = h /\ believes[h] <= lease.left
        BY <1>1, <1>2, <2>1 DEF LeaseInv, BeliefIsCovered
      <4>2. lease.holder = h => lease.left <= LeaseTTL(h)
        BY LeaseAssumption DEF LeaseInv, LeaseBounded
      <4>3. believes[h] \in Nat /\ lease.left \in Int /\ LeaseTTL(h) \in Nat
        BY <1>1, TTLBounds, LeaseAssumption DEF LeaseTypeOK, Lease
      <4> QED
        BY <4>1, <4>2, <4>3
    <3>3. \A e \in LeaseCall : call'[e].pc # "idle" /\ call'[e].holder = h => e = c
      BY <1>3, <3>1 DEF InFlight
    <3> QED
      BY <1>2, <2>1, <3>2, <3>3
  <2>2. CASE d # c
    <3>1. call'[d] = call[d] /\ d \in InFlight(call[d].holder)
      BY <1>3, <2>2 DEF InFlight
    <3>2. h # call[d].holder
      BY <3>1, <1>1
    <3> QED
      BY <1>1, <1>2, <1>3, <3>1, <3>2 DEF LeaseInv, RequestsRenew
  <2> QED
    BY <2>1, <2>2
<1>7. GrantsLast'
  BY <1>1, <1>2, <1>3 DEF LeaseInv, GrantsLast
<1>8. LeaseBounded'
  BY DEF LeaseInv, LeaseBounded
<1>9. GrantsAreRead'
  BY <1>2, <1>3 DEF LeaseInv, GrantsAreRead
<1> QED
  BY <1>4, <1>5, <1>6, <1>7, <1>8, <1>9 DEF LeaseInv

\* A request may take the lease from its holder only when nobody believes to
\* hold it, or renew what its own worker believes.
LEMMA GrantKeeps ==
    ASSUME LeaseInv, NEW c \in LeaseCall, call[c].pc \in {"update", "insert"},
           lease.holder = NoHolder \/ MayTake(c), Grant(c), UNCHANGED <<believes, overlapped>>
    PROVE  LeaseInv'
<1> DEFINE h == call[c].holder
<1>1. /\ LeaseTypeOK /\ h \in Holder /\ LeaseTTL(h) \in Nat
      /\ call[c].age \in 0 .. LeaseTimeout /\ LeaseTimeout < LeaseTTL(h)
      /\ LeaseTTL(h) <= MaxLeaseTTL /\ LeaseTimeout \in Nat /\ MaxLeaseTTL \in Nat
  BY TTLBounds, LeaseAssumption DEF LeaseInv, LeaseTypeOK, Call
<1>2. lease' = [holder |-> h, left |-> LeaseTTL(h) - call[c].age]
  BY DEF Grant
<1>3. /\ call'[c] = [call[c] EXCEPT !.pc = "read", !.granted = TRUE]
      /\ \A d \in LeaseCall : d # c => call'[d] = call[d]
  BY <1>1 DEF Grant, LeaseTypeOK
<1>4. \A d \in LeaseCall : call'[d].holder = call[d].holder /\ call'[d].age = call[d].age
                           /\ (call'[d].pc # "idle" => call[d].pc # "idle")
  BY <1>1, <1>3 DEF LeaseTypeOK, Call
<1>5. \A k \in Holder : believes[k] \in Nat
  BY <1>1, LeaseAssumption DEF LeaseTypeOK
<1>6. lease.left \in Int
  BY <1>1, LeaseAssumption DEF LeaseTypeOK, Lease
<1>7. LeaseTypeOK'
  <2>1. lease' \in Lease
    BY <1>1, <1>2 DEF Lease
  <2>2. [call[c] EXCEPT !.pc = "read", !.granted = TRUE] \in Call
    BY <1>1 DEF LeaseTypeOK, Call
  <2>3. call' \in [LeaseCall -> Call]
    BY <1>1, <2>2 DEF Grant, LeaseTypeOK
  <2> QED
    BY <1>1, <2>1, <2>3 DEF LeaseTypeOK
<1>8. \A k \in Holder \ overlapped : k # h => believes[k] = 0
  <2> SUFFICES ASSUME NEW k \in Holder \ overlapped, k # h, believes[k] > 0 PROVE FALSE
    BY <1>5
  <2>1. lease.holder = k /\ believes[k] <= lease.left
    BY DEF LeaseInv, BeliefIsCovered
  <2>2. lease.left + call[c].age <= 0
    BY <2>1, LeaseAssumption DEF MayTake
  <2> QED
    BY <1>1, <1>5, <1>6, <2>1, <2>2
<1>9. BeliefIsCovered'
  <2>1. h \notin overlapped => believes[h] <= LeaseTTL(h) - call[c].age
    BY <1>1, <1>5 DEF LeaseInv, RequestsRenew
  <2> QED
    BY <1>2, <1>8, <2>1 DEF BeliefIsCovered
<1>10. RequestsRenew'
  BY <1>4 DEF LeaseInv, RequestsRenew
<1>11. GrantsLast'
  <2> SUFFICES ASSUME NEW d \in LeaseCall, call'[d].pc = "read", call'[d].granted,
                      call'[d].holder \notin overlapped
               PROVE  /\ lease'.holder = call'[d].holder
                      /\ lease'.left + call'[d].age = LeaseTTL(call'[d].holder)
    BY DEF GrantsLast
  <2>1. CASE d = c
    BY <1>1, <1>2, <1>4, <2>1
  <2>2. CASE d # c
    <3> DEFINE k == call[d].holder
    <3>1. k \in Holder /\ LeaseTTL(k) \in Nat /\ LeaseTimeout < LeaseTTL(k)
          /\ call[d].age \in 0 .. LeaseTimeout
      BY <1>1, TTLBounds DEF LeaseTypeOK, Call
    <3>2. lease.holder = k /\ lease.left + call[d].age = LeaseTTL(k)
      BY <1>3, <2>2 DEF LeaseInv, GrantsLast
    <3>3. lease.left > 0
      BY <1>1, <1>6, <3>1, <3>2
    <3>4. k = h
      BY <1>1, <1>6, <3>1, <3>2, <3>3, LeaseAssumption DEF MayTake
    <3>5. call[d].pc # "idle" /\ call[c].pc # "idle"
      BY <1>3, <2>2
    <3>6. d = c
      BY <1>3, <2>2, <3>4, <3>5 DEF LeaseInv, RequestsRenew
    <3> QED
      BY <2>2, <3>6
  <2> QED
    BY <2>1, <2>2
<1>12. LeaseBounded'
  BY <1>1, <1>2 DEF LeaseBounded
<1>13. GrantsAreRead'
  <2>1. call'[c].pc = "read"
    BY <1>1, <1>3 DEF LeaseTypeOK, Call
  <2> QED
    BY <1>3, <2>1 DEF LeaseInv, GrantsAreRead
<1> QED
  BY <1>7, <1>9, <1>10, <1>11, <1>12, <1>13 DEF LeaseInv

\* A request that finds somebody else's lease goes on without it.
LEMMA RefusedKeeps ==
    ASSUME LeaseInv, NEW c \in LeaseCall, NEW pc \in {"insert", "read"}, call[c].pc # "idle",
           call[c].pc # "read",
           call' = [call EXCEPT ![c].pc = pc], UNCHANGED <<lease, believes, overlapped>>
    PROVE  LeaseInv'
<1>1. LeaseTypeOK
  BY DEF LeaseInv
<1>2. /\ call'[c] = [call[c] EXCEPT !.pc = pc]
      /\ \A d \in LeaseCall : d # c => call'[d] = call[d]
  BY <1>1 DEF LeaseTypeOK
<1>3. \A d \in LeaseCall : /\ call'[d].holder = call[d].holder /\ call'[d].age = call[d].age
                           /\ call'[d].granted = call[d].granted
                           /\ (call'[d].pc # "idle" => call[d].pc # "idle")
                           /\ (call[d].granted => call[d].pc = "read" /\ call'[d].pc = "read")
  <2>1. ~ call[c].granted
    BY DEF LeaseInv, GrantsAreRead
  <2> QED
    BY <1>1, <1>2, <2>1 DEF LeaseInv, GrantsAreRead, LeaseTypeOK, Call
<1>4. LeaseTypeOK'
  <2>1. [call[c] EXCEPT !.pc = pc] \in Call
    BY <1>1 DEF LeaseTypeOK, Call
  <2> QED
    BY <1>1, <2>1 DEF LeaseTypeOK
<1>5. BeliefIsCovered' /\ LeaseBounded'
  BY DEF LeaseInv, BeliefIsCovered, LeaseBounded
<1>6. RequestsRenew'
  BY <1>3 DEF LeaseInv, RequestsRenew
<1>7. GrantsLast' /\ GrantsAreRead'
  BY <1>3 DEF LeaseInv, GrantsLast, GrantsAreRead
<1> QED
  BY <1>4, <1>5, <1>6, <1>7 DEF LeaseInv
\* A request that ends takes nothing with it but what its worker now believes.
LEMMA EndKeeps ==
    ASSUME LeaseInv, NEW c \in LeaseCall, call[c].pc # "idle", EndCall(c),
           UNCHANGED <<lease, overlapped>>,
           \/ UNCHANGED believes
           \/ /\ call[c].pc = "read"
              /\ believes' = [believes EXCEPT
                     ![call[c].holder] = IF Granted(c) /\ lease.left > 0 THEN lease.left ELSE 0]
    PROVE  LeaseInv'
<1> DEFINE h == call[c].holder
<1>1. LeaseTypeOK /\ h \in Holder /\ MaxLeaseTTL \in Nat /\ LeaseTimeout \in Nat
  BY LeaseAssumption DEF LeaseInv, LeaseTypeOK, Call
<1>2. \A d \in LeaseCall : /\ d # c => call'[d] = call[d]
                           /\ call'[c].pc = "idle" /\ call'[c].granted = FALSE
                           /\ call'[c] \in Call
  <2>1. /\ call'[c] = [call[c] EXCEPT !.pc = "idle", !.age = 0, !.granted = FALSE]
        /\ \A d \in LeaseCall : d # c => call'[d] = call[d]
    BY <1>1 DEF EndCall, LeaseTypeOK
  <2>2. call[c] \in Call
    BY <1>1 DEF LeaseTypeOK
  <2>3. [call[c] EXCEPT !.pc = "idle", !.age = 0, !.granted = FALSE] \in Call
    <3>1. 0 \in 0 .. LeaseTimeout
      BY <1>1
    <3> QED
      BY <2>2, <3>1 DEF Call
  <2>4. call'[c].pc = "idle" /\ call'[c].granted = FALSE
    BY <2>1, <2>2 DEF Call
  <2> QED
    BY <2>1, <2>3, <2>4
<1>3. lease.left \in Int /\ lease.left <= MaxLeaseTTL
  BY <1>1 DEF LeaseTypeOK, Lease
<1>4. LeaseTypeOK'
  <2>1. believes' \in [Holder -> 0 .. MaxLeaseTTL]
    BY <1>1, <1>3 DEF LeaseTypeOK
  <2>2. call' \in [LeaseCall -> Call]
    BY <1>1, <1>2 DEF EndCall, LeaseTypeOK
  <2> QED
    BY <1>1, <2>1, <2>2 DEF LeaseTypeOK
<1>5. \A k \in Holder : k # h => believes'[k] = believes[k]
  BY <1>1 DEF LeaseTypeOK
<1>6. h \notin overlapped /\ believes'[h] > 0 =>
         lease.holder = h /\ believes'[h] <= lease.left
  <2> SUFFICES ASSUME h \notin overlapped, believes'[h] > 0
               PROVE  lease.holder = h /\ believes'[h] <= lease.left
    OBVIOUS
  <2>1. CASE UNCHANGED believes
    BY <1>1, <2>1 DEF LeaseInv, BeliefIsCovered
  <2>2. CASE /\ call[c].pc = "read"
             /\ believes' = [believes EXCEPT
                    ![h] = IF Granted(c) /\ lease.left > 0 THEN lease.left ELSE 0]
    <3>1. Granted(c) /\ believes'[h] = lease.left
      BY <1>1, <2>2 DEF LeaseTypeOK
    <3>2. lease.holder = h
      BY <2>2, <3>1 DEF Granted, LeaseInv, GrantsLast
    <3> QED
      BY <1>3, <3>1, <3>2
  <2> QED
    BY <2>1, <2>2
<1>7. BeliefIsCovered'
  BY <1>5, <1>6 DEF LeaseInv, BeliefIsCovered
<1>8. RequestsRenew'
  <2> SUFFICES ASSUME NEW d \in LeaseCall, call'[d].pc # "idle", call'[d].holder \notin overlapped
               PROVE  /\ believes'[call'[d].holder] + call'[d].age <= LeaseTTL(call'[d].holder)
                      /\ \A e \in LeaseCall :
                           call'[e].pc # "idle" /\ call'[e].holder = call'[d].holder => e = d
    BY DEF RequestsRenew
  <2>1. d # c /\ call'[d] = call[d]
    BY <1>2
  <2>2. /\ believes[call[d].holder] + call[d].age <= LeaseTTL(call[d].holder)
        /\ \A e \in LeaseCall : call[e].pc # "idle" /\ call[e].holder = call[d].holder => e = d
    BY <2>1 DEF LeaseInv, RequestsRenew
  <2>3. call[d].holder # h
    BY <2>1, <2>2
  <2>4. call[d].holder \in Holder
    BY <1>1 DEF LeaseTypeOK, Call
  <2> QED
    BY <1>2, <1>5, <2>1, <2>2, <2>3, <2>4
<1>9. GrantsLast' /\ GrantsAreRead' /\ LeaseBounded'
  BY <1>2 DEF LeaseInv, GrantsLast, GrantsAreRead, LeaseBounded
<1> QED
  BY <1>4, <1>7, <1>8, <1>9 DEF LeaseInv

\* Beliefs run down with the lease that covers them.
LEMMA TickKeeps ==
    ASSUME LeaseInv, LeaseTick
    PROVE  LeaseInv'
<1>1. LeaseTypeOK /\ MaxLeaseTTL \in Nat /\ LeaseTimeout \in Nat
  BY LeaseAssumption DEF LeaseInv
<1>2. \A c \in LeaseCall :
        /\ call[c] \in Call
        /\ call[c].pc = "idle" => call'[c] = call[c]
        /\ call[c].pc # "idle" => call[c].age < LeaseTimeout
                                 /\ call'[c] = [call[c] EXCEPT !.age = @ + 1]
  BY <1>1 DEF LeaseTick, LeaseTypeOK
<1>3. \A c \in LeaseCall :
        /\ call'[c].pc = call[c].pc /\ call'[c].holder = call[c].holder
        /\ call'[c].granted = call[c].granted /\ call[c].holder \in Holder
        /\ call[c].age \in Nat
        /\ call[c].pc # "idle" => call'[c].age = call[c].age + 1
        /\ call'[c] \in Call
  <2> SUFFICES ASSUME NEW c \in LeaseCall
               PROVE  /\ call'[c].pc = call[c].pc /\ call'[c].holder = call[c].holder
                      /\ call'[c].granted = call[c].granted /\ call[c].holder \in Holder
                      /\ call[c].age \in Nat
                      /\ call[c].pc # "idle" => call'[c].age = call[c].age + 1
                      /\ call'[c] \in Call
    OBVIOUS
  <2>1. call[c] \in Call
    BY <1>2
  <2>2. CASE call[c].pc = "idle"
    <3>1. call'[c] = call[c]
      BY <1>2, <2>2
    <3> QED
      BY <1>1, <2>1, <2>2, <3>1 DEF Call
  <2>3. CASE call[c].pc # "idle"
    <3>1. call[c].age < LeaseTimeout /\ call'[c] = [call[c] EXCEPT !.age = call[c].age + 1]
      BY <1>2, <2>3
    <3>2. call[c].age + 1 \in 0 .. LeaseTimeout
      BY <1>1, <2>1, <3>1 DEF Call
    <3> QED
      BY <1>1, <2>1, <3>1, <3>2 DEF Call
  <2> QED
    BY <2>2, <2>3
<1>4. /\ lease.left \in (- LeaseTimeout) .. MaxLeaseTTL /\ lease'.holder = lease.holder
      /\ lease'.left = IF lease.left > - LeaseTimeout THEN lease.left - 1 ELSE lease.left
      /\ lease' \in Lease
  BY <1>1 DEF LeaseTick, LeaseTypeOK, Lease
<1>5. \A h \in Holder : /\ believes[h] \in 0 .. MaxLeaseTTL
                        /\ believes'[h] = IF believes[h] > 0 THEN believes[h] - 1 ELSE 0
  BY <1>1 DEF LeaseTick, LeaseTypeOK
<1>6. LeaseTypeOK'
  <2>1. call' \in [LeaseCall -> Call]
    BY <1>3 DEF LeaseTick
  <2>2. believes' \in [Holder -> 0 .. MaxLeaseTTL]
    BY <1>1, <1>5 DEF LeaseTick
  <2> QED
    BY <1>1, <1>4, <2>1, <2>2 DEF LeaseTick, LeaseTypeOK
<1>7. BeliefIsCovered'
  BY <1>1, <1>4, <1>5 DEF LeaseTick, LeaseInv, BeliefIsCovered
<1>8. RequestsRenew'
  <2> SUFFICES ASSUME NEW c \in LeaseCall, call'[c].pc # "idle", call'[c].holder \notin overlapped
               PROVE  /\ believes'[call[c].holder] + call'[c].age <= LeaseTTL(call[c].holder)
                      /\ \A d \in LeaseCall :
                           call[d].pc # "idle" /\ call[d].holder = call[c].holder => d = c
    <3>1. overlapped' = overlapped
      BY DEF LeaseTick
    <3> QED
      BY <1>3, <3>1 DEF RequestsRenew
  <2>1. /\ believes[call[c].holder] + call[c].age <= LeaseTTL(call[c].holder)
        /\ \A d \in LeaseCall : call[d].pc # "idle" /\ call[d].holder = call[c].holder => d = c
    BY <1>3 DEF LeaseInv, RequestsRenew
  <2>2. LeaseTTL(call[c].holder) \in Nat /\ LeaseTimeout < LeaseTTL(call[c].holder)
    BY <1>3, TTLBounds
  <2>3. call[c].age < LeaseTimeout /\ call'[c].age = call[c].age + 1 /\ call[c].age \in Nat
    BY <1>2, <1>3
  <2> QED
    BY <1>1, <1>3, <1>5, <2>1, <2>2, <2>3
<1>9. GrantsLast'
  <2> SUFFICES ASSUME NEW c \in LeaseCall, call[c].pc = "read", call[c].granted,
                      call[c].holder \notin overlapped
               PROVE  /\ lease.holder = call[c].holder
                      /\ lease'.left + call'[c].age = LeaseTTL(call[c].holder)
    BY <1>3, <1>4 DEF LeaseTick, GrantsLast
  <2>1. lease.holder = call[c].holder /\ lease.left + call[c].age = LeaseTTL(call[c].holder)
    BY DEF LeaseInv, GrantsLast
  <2>2. LeaseTTL(call[c].holder) \in Nat /\ LeaseTimeout < LeaseTTL(call[c].holder)
    BY <1>3, TTLBounds
  <2>3. call[c].age < LeaseTimeout /\ call'[c].age = call[c].age + 1 /\ call[c].age \in Nat
    BY <1>2, <1>3
  <2> QED
    BY <1>1, <1>4, <2>1, <2>2, <2>3
<1>10. GrantsAreRead'
  BY <1>3 DEF LeaseInv, GrantsAreRead
<1>11. LeaseBounded'
  <2> SUFFICES ASSUME lease.holder # NoHolder PROVE lease'.left <= LeaseTTL(lease.holder)
    BY <1>4 DEF LeaseBounded
  <2>1. lease.holder \in Holder /\ lease.left <= LeaseTTL(lease.holder)
    BY <1>1 DEF LeaseInv, LeaseBounded, LeaseTypeOK, Lease
  <2> QED
    BY <1>1, <1>4, <2>1, TTLBounds
<1> QED
  BY <1>6, <1>7, <1>8, <1>9, <1>10, <1>11 DEF LeaseInv

\* The inductive invariant holds in every state.
THEOREM LeaseInvariant == LeaseSpec => []LeaseInv
<1>1. LeaseInv /\ [LeaseNext]_leaseVars => LeaseInv'
  <2> SUFFICES ASSUME LeaseInv, [LeaseNext]_leaseVars PROVE LeaseInv'
    OBVIOUS
  <2>1. CASE \E c \in LeaseCall, h \in Holder : BeginCall(c, h)
    BY <2>1, BeginCallKeeps
  <2>2. ASSUME NEW c \in LeaseCall, UpdateLease(c) PROVE LeaseInv'
    <3>1. CASE MayTake(c) /\ Grant(c)
      BY <2>2, <3>1, GrantKeeps DEF UpdateLease
    <3>2. CASE ~ MayTake(c) /\ call' = [call EXCEPT ![c].pc = "insert"] /\ UNCHANGED lease
      BY <2>2, <3>2, RefusedKeeps DEF UpdateLease
    <3> QED
      BY <2>2, <3>1, <3>2 DEF UpdateLease
  <2>3. ASSUME NEW c \in LeaseCall, InsertLease(c) PROVE LeaseInv'
    <3>1. CASE lease.holder = NoHolder /\ Grant(c)
      BY <2>3, <3>1, GrantKeeps DEF InsertLease
    <3>2. CASE lease.holder # NoHolder /\ call' = [call EXCEPT ![c].pc = "read"] /\ UNCHANGED lease
      BY <2>3, <3>2, RefusedKeeps DEF InsertLease
    <3> QED
      BY <2>3, <3>1, <3>2 DEF InsertLease
  <2>4. ASSUME NEW c \in LeaseCall, ReadLease(c) \/ FailCall(c) PROVE LeaseInv'
    BY <2>4, EndKeeps DEF ReadLease, FailCall
  <2>5. CASE LeaseTick
    BY <2>5, TickKeeps
  <2>6. CASE UNCHANGED leaseVars
    <3>1. UNCHANGED <<lease, call, believes, overlapped>>
      BY <2>6 DEF leaseVars
    <3> QED
      BY <3>1 DEF LeaseInv, LeaseTypeOK, BeliefIsCovered, RequestsRenew, GrantsLast,
                  GrantsAreRead, LeaseBounded
  <2> QED
    BY <2>1, <2>2, <2>3, <2>4, <2>5, <2>6 DEF LeaseNext
<1> QED
  BY InitialLease, <1>1, PTL DEF LeaseSpec

\* The lease, the requests for it and what its holders believe keep their types,
\* and the lease never exceeds the longest duration a worker may ask for.
THEOREM LeaseTypeCorrect == LeaseSpec => []LeaseTypeOK
<1>1. LeaseInv => LeaseTypeOK
  BY DEF LeaseInv
<1> QED
  BY LeaseInvariant, <1>1, PTL

\* At most one of the workers whose requests do not overlap believes to hold
\* the lease, for any number of workers, requests and durations that outlive a
\* request: AcquireAutoDeployLease elects one worker.
THEOREM LeaseIsExclusive == LeaseSpec => []OneAutoDeployer
<1>1. LeaseInv => OneAutoDeployer
  <2> SUFFICES ASSUME LeaseInv, NEW h \in Holder, NEW k \in Holder, believes[h] > 0, believes[k] > 0,
                      h # k, h \notin overlapped, k \notin overlapped
               PROVE  FALSE
    BY DEF OneAutoDeployer
  <2> QED
    BY DEF LeaseInv, BeliefIsCovered
<1> QED
  BY LeaseInvariant, <1>1, PTL
-----------------------------------------------------------------------------
(* The parts next to each other *)

\* Keys, dispatches and leases share no state: next to the others, which stand
\* still, each of them behaves as its own specification says.
THEOREM PartsFollowTheirSpecs == MCSpec => Spec /\ DispatchSpec /\ LeaseSpec
<1> DEFINE all == <<part, vars, dispatchVars, leaseVars>>
<1>1. MCInit => Init /\ DispatchInit /\ LeaseInit
  BY DEF MCInit
<1>2. [MCNext]_all => [Next]_vars
  BY DEF MCNext
<1>3. [MCNext]_all => [DispatchNext]_dispatchVars
  BY DEF MCNext
<1>4. [MCNext]_all => [LeaseNext]_leaseVars
  BY DEF MCNext
<1> QED
  BY <1>1, <1>2, <1>3, <1>4, PTL DEF MCSpec, Spec, DispatchSpec, LeaseSpec

\* Keys, operations, polls, leases and their requests keep their types.
THEOREM PartsTypeCorrect == MCSpec => []PartsTypeOK
<1>1. TypeOK /\ DispatchTypeOK /\ LeaseTypeOK => PartsTypeOK
  BY DEF PartsTypeOK
<1> QED
  BY <1>1, PartsFollowTheirSpecs, KeysTypeCorrect, DispatchTypeCorrect, LeaseTypeCorrect, PTL
=============================================================================
