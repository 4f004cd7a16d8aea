-------------------------- MODULE DeployPartsProofs --------------------------
(***************************************************************************)
(* Proofs about the parts around a deploy: TrafficSwitch, for any number   *)
(* of environments, requests and moves; ServiceSettings, for any updates;  *)
(* DeployResolution, for any builds, releases and requests.  Together with *)
(* accounts they are the parts of MCServiceParts.                          *)
(***************************************************************************)
EXTENDS MCServiceParts, AccountSessionsProofs, SequenceTheorems,
        FiniteSetTheorems, WellFoundedInduction, TLAPS

(* TrafficSwitch: types *)

\* What a request has established once it found no other move, and what the
\* worker of a switch holds.
Requested(r) == switching[r].pc \in {"plan", "mark", "insert"}

SwitchPrepared ==
    /\ \A i \in DOMAIN moves : moves[i].status = "recording" => moves[i].copy \in Strategy
    /\ \A r \in SwitchReq : Requested(r) =>
         LET m == switching[r].move
         IN  /\ m.kind # "none" /\ m.env \in SwitchEnv /\ m.status = "queued"
             /\ switching[r].pc # "plan" /\ m.kind = "switch" => m.active \in Slot

SwitchTypes == SwitchTypeOK /\ SwitchPrepared

Switching == [pc : {"new", "plan", "mark", "insert", "done"}, move : Move]
Latest == [number : 1 .. MaxRollouts, details : DeployDetails,
           running : {"none", "canary", "blue-green"}]

LEMMA NoStrategyIsNone == NoStrategy \notin Strategy
<1>1. NoStrategy.type = "none"
  BY DEF NoStrategy
<1>2. \A s \in Strategy : s.type \in {"canary", "blue-green"}
  BY DEF Strategy
<1> QED
  BY <1>1, <1>2

LEMMA NoMoveTyped == NoMove \in Move
BY SwitchAssumption DEF NoMove, Move

\* The slots of a strategy, and what the other one of a slot is.
LEMMA SlotTyped ==
    ASSUME NEW s \in Strategy, NEW e \in SwitchEnv
    PROVE  EnvironmentSlot(s, e) \in Slot
BY DEF EnvironmentSlot, Strategy

LEMMA OtherSlot == \A slot \in Slot : Other(slot) \in Slot /\ Other(slot) # slot /\ Other(Other(slot)) = slot
BY DEF Other, Slot

LEMMA DetailsTyped ==
    ASSUME NEW step \in {"none", "queued", "shift", "failed"}, NEW pending \in BOOLEAN,
           NEW active \in Slot \cup {"unset"}
    PROVE  Details(step, pending, active) \in DeployDetails
BY DEF Details, DeployDetails

LEMMA SwitchInitTyped == SwitchInit => SwitchTypes
<1> SUFFICES ASSUME SwitchInit PROVE SwitchTypes
  OBVIOUS
<1>1. strategy \in Strategy
  BY DEF SwitchInit, Strategy, NoStrategy, Slot
<1>2. Details("none", FALSE, "unset") \in DeployDetails
  BY DetailsTyped
<1>3. [number |-> 1, running |-> "none", details |-> Details("none", FALSE, "unset")] \in Latest
  <2>1. 1 \in 1 .. MaxRollouts
    BY SwitchAssumption
  <2> QED
    BY <1>2, <2>1 DEF Latest
<1>4. latest \in [SwitchEnv -> Latest]
  BY <1>3 DEF SwitchInit
<1>5. IdleSwitch \in Switching
  BY NoMoveTyped DEF IdleSwitch, Switching
<1>6. switching \in [SwitchReq -> Switching] /\ \A r \in SwitchReq : ~Requested(r)
  BY <1>5 DEF SwitchInit, IdleSwitch, Requested
<1>7. moves \in Seq(Move) /\ moves = <<>>
  BY DEF SwitchInit
<1>8. effect \in [SwitchEnv -> Slot \cup {"unset"}] /\ traffic \in [SwitchEnv -> Slot]
      /\ form = NoStrategy
  BY DEF SwitchInit, Slot
<1> QED
  BY <1>1, <1>4, <1>6, <1>7, <1>8
     DEF SwitchTypes, SwitchTypeOK, SwitchPrepared, Latest, Switching

\* A move is replaced.
LEMMA MoveReplaced ==
    ASSUME moves \in Seq(Move), NEW i \in DOMAIN moves, NEW new \in Move,
           moves' = [moves EXCEPT ![i] = new]
    PROVE  /\ moves' \in Seq(Move) /\ DOMAIN moves' = DOMAIN moves
           /\ moves'[i] = new /\ \A j \in DOMAIN moves : j # i => moves'[j] = moves[j]
<1>1. DOMAIN moves = 1 .. Len(moves) /\ i \in 1 .. Len(moves)
  BY LenProperties
<1>2. moves' \in Seq(Move) /\ Len(moves') = Len(moves)
  BY <1>1, ExceptSeq
<1>3. DOMAIN moves' = 1 .. Len(moves')
  BY <1>2, LenProperties
<1> QED
  BY <1>1, <1>2, <1>3

\* One is added.
LEMMA MoveAppended ==
    ASSUME moves \in Seq(Move), NEW new \in Move, moves' = Append(moves, new)
    PROVE  /\ moves' \in Seq(Move)
           /\ \A j \in DOMAIN moves' : \/ j \in DOMAIN moves /\ moves'[j] = moves[j]
                                       \/ j \notin DOMAIN moves /\ moves'[j] = new
           /\ DOMAIN moves \subseteq DOMAIN moves'
<1>1. DOMAIN moves = 1 .. Len(moves) /\ Len(moves) \in Nat
  BY LenProperties
<1>2. /\ moves' \in Seq(Move) /\ Len(moves') = Len(moves) + 1
      /\ \A j \in 1 .. Len(moves) : moves'[j] = moves[j]
      /\ moves'[Len(moves) + 1] = new
  BY AppendProperties
<1>3. DOMAIN moves' = 1 .. (Len(moves) + 1)
  BY <1>2, LenProperties
<1> QED
  BY <1>1, <1>2, <1>3

\* The details of a deploy are replaced, if it still is the latest one.
LEMMA DetailsSet ==
    ASSUME latest \in [SwitchEnv -> Latest], NEW e \in SwitchEnv, NEW n, NEW d \in DeployDetails,
           SetDetails(e, n, d)
    PROVE  /\ latest' \in [SwitchEnv -> Latest]
           /\ \A f \in SwitchEnv : /\ f # e => latest'[f] = latest[f]
                                   /\ latest'[f].number = latest[f].number
           /\ latest[e].number = n => latest'[e].details = d
           /\ latest[e].number # n => latest' = latest
<1>1. latest[e] \in Latest
  OBVIOUS
<1>2. [latest[e] EXCEPT !.details = d] \in Latest
  BY <1>1 DEF Latest
<1>3. CASE latest[e].number = n
  <2>1. latest' = [latest EXCEPT ![e].details = d]
    BY <1>3 DEF SetDetails
  <2>2. latest' = [latest EXCEPT ![e] = [latest[e] EXCEPT !.details = d]]
    BY <2>1
  <2>3. latest' \in [SwitchEnv -> Latest]
    BY <1>2, <2>2
  <2>4. latest'[e] = [latest[e] EXCEPT !.details = d] /\ \A f \in SwitchEnv : f # e => latest'[f] = latest[f]
    BY <2>2
  <2>5. latest'[e].details = d /\ latest'[e].number = latest[e].number
    BY <1>1, <2>4 DEF Latest
  <2> QED
    BY <1>3, <2>3, <2>4, <2>5
<1>4. CASE latest[e].number # n
  BY <1>4 DEF SetDetails
<1> QED
  BY <1>3, <1>4

LEMMA SwitchingReplaced ==
    ASSUME switching \in [SwitchReq -> Switching], NEW r \in SwitchReq,
           NEW new \in Switching, switching' = [switching EXCEPT ![r] = new]
    PROVE  /\ switching' \in [SwitchReq -> Switching]
           /\ switching'[r] = new /\ \A q \in SwitchReq : q # r => switching'[q] = switching[q]
OBVIOUS

\* What the types say, piece by piece.
LEMMA SwitchTypesOf ==
    ASSUME SwitchTypes
    PROVE  /\ strategy \in Strategy /\ traffic \in [SwitchEnv -> Slot]
           /\ latest \in [SwitchEnv -> Latest] /\ moves \in Seq(Move)
           /\ effect \in [SwitchEnv -> Slot \cup {"unset"}]
           /\ switching \in [SwitchReq -> Switching]
           /\ form \in Strategy \cup {NoStrategy}
BY DEF SwitchTypes, SwitchTypeOK, Latest, Switching

\* A deploy ends, with these details.
DeployEnded(e, d) ==
    /\ latest' = [latest EXCEPT ![e].running = "none", ![e].details = d]
    /\ effect' = [effect EXCEPT ![e] = "unset"]

LEMMA DeployEnds ==
    ASSUME latest \in [SwitchEnv -> Latest], effect \in [SwitchEnv -> Slot \cup {"unset"}],
           NEW e \in SwitchEnv, NEW d \in DeployDetails, DeployEnded(e, d)
    PROVE  /\ latest' \in [SwitchEnv -> Latest] /\ effect' \in [SwitchEnv -> Slot \cup {"unset"}]
           /\ latest'[e].details = d /\ latest'[e].number = latest[e].number
           /\ effect'[e] = "unset"
           /\ \A f \in SwitchEnv : f # e => latest'[f] = latest[f] /\ effect'[f] = effect[f]
<1> DEFINE new == [[latest[e] EXCEPT !.running = "none"] EXCEPT !.details = d]
<1>1. latest[e] \in Latest
  OBVIOUS
<1>2. new \in Latest /\ new.details = d /\ new.number = latest[e].number
  BY <1>1 DEF Latest
<1>3. latest' = [latest EXCEPT ![e] = new]
  BY <1>1 DEF DeployEnded
<1> HIDE DEF new
<1> QED
  BY <1>2, <1>3 DEF DeployEnded

LEMMA EndedDeploy ==
    ASSUME latest \in [SwitchEnv -> Latest], effect \in [SwitchEnv -> Slot \cup {"unset"}],
           NEW e \in SwitchEnv, EndEffect(e)
    PROVE  \E d \in DeployDetails : DeployEnded(e, d) /\ (d = latest[e].details \/ d.active = effect[e])
<1> DEFINE d == IF latest[e].running = "blue-green" THEN Details("none", TRUE, effect[e])
                ELSE latest[e].details
<1>1. latest[e].details \in DeployDetails /\ Details("none", TRUE, effect[e]) \in DeployDetails
  BY DetailsTyped DEF Latest
<1>2. Details("none", TRUE, effect[e]).active = effect[e]
  BY DEF Details
<1>3. DeployEnded(e, d)
  BY DEF EndEffect, DeployEnded
<1>4. d \in DeployDetails /\ (d = latest[e].details \/ d.active = effect[e])
  BY <1>1, <1>2
<1> HIDE DEF d
<1> QED
  BY <1>3, <1>4

\* The types of a state in which only some of the variables moved.
LEMMA DeployTyped ==
    ASSUME SwitchTypes, NEW e \in SwitchEnv,
           StartDeploy(e) \/ BeginEffect(e) \/ EndEffect(e) \/ FailDeploy(e)
    PROVE  SwitchTypes'
<1>1. /\ strategy \in Strategy /\ latest \in [SwitchEnv -> Latest]
      /\ effect \in [SwitchEnv -> Slot \cup {"unset"}] /\ latest[e] \in Latest
  BY SwitchTypesOf
<1>2. latest' \in [SwitchEnv -> Latest] /\ effect' \in [SwitchEnv -> Slot \cup {"unset"}]
  <2>1. CASE StartDeploy(e)
    <3> DEFINE active == IF strategy.type = "blue-green" THEN strategy.primary ELSE "unset"
               new == [number |-> latest[e].number + 1, running |-> strategy.type,
                       details |-> Details("none", FALSE, active)]
    <3>1. active \in Slot \cup {"unset"} /\ strategy.type \in {"canary", "blue-green"}
      BY <1>1 DEF Strategy
    <3>2. Details("none", FALSE, active) \in DeployDetails
      BY <3>1, DetailsTyped
    <3>3. latest[e].number + 1 \in 1 .. MaxRollouts
      BY <1>1, <2>1, SwitchAssumption DEF StartDeploy, Latest
    <3>4. new \in Latest
      BY <3>1, <3>2, <3>3 DEF Latest
    <3>5. latest' = [latest EXCEPT ![e] = new] /\ effect' = effect
      BY <2>1 DEF StartDeploy
    <3> HIDE DEF new
    <3> QED
      BY <1>1, <3>4, <3>5
  <2>2. CASE BeginEffect(e)
    <3>1. EnvironmentSlot(strategy, e) \in Slot
      BY <1>1, SlotTyped
    <3> QED
      BY <1>1, <2>2, <3>1 DEF BeginEffect
  <2>3. CASE EndEffect(e)
    <3>1. PICK d \in DeployDetails : DeployEnded(e, d)
      BY <1>1, <2>3, EndedDeploy
    <3> QED
      BY <1>1, <2>3, <3>1, DeployEnds DEF EndEffect
  <2>4. CASE FailDeploy(e)
    <3>1. DeployEnded(e, latest[e].details) /\ latest[e].details \in DeployDetails
      BY <1>1, <2>4 DEF FailDeploy, DeployEnded, Latest
    <3> QED
      BY <1>1, <2>4, <3>1, DeployEnds DEF FailDeploy
  <2> QED
    BY <2>1, <2>2, <2>3, <2>4
<1>3. UNCHANGED <<strategy, switching, moves, traffic, form>>
  BY DEF StartDeploy, BeginEffect, EndEffect, FailDeploy
<1>4. SwitchTypeOK'
  BY <1>2, <1>3 DEF SwitchTypes, SwitchTypeOK, Latest
<1> QED
  BY <1>3, <1>4 DEF SwitchTypes, SwitchPrepared, Requested

\* A request goes on with another record.
LEMMA RequestTyped ==
    ASSUME SwitchTypes, NEW r \in SwitchReq, NEW new \in Switching,
           switching' = [switching EXCEPT ![r] = new],
           latest' \in [SwitchEnv -> Latest],
           \A e \in SwitchEnv : latest'[e].number = latest[e].number,
           UNCHANGED <<strategy, effect, traffic, form, moves>>,
           new.pc \in {"plan", "mark", "insert"} =>
              /\ new.move.kind # "none" /\ new.move.env \in SwitchEnv /\ new.move.status = "queued"
              /\ new.pc # "plan" /\ new.move.kind = "switch" => new.move.active \in Slot
    PROVE  SwitchTypes'
<1>1. switching \in [SwitchReq -> Switching]
  BY SwitchTypesOf
<1>2. /\ switching' \in [SwitchReq -> Switching]
      /\ switching'[r] = new /\ \A q \in SwitchReq : q # r => switching'[q] = switching[q]
  BY <1>1, SwitchingReplaced
<1>3. SwitchTypeOK'
  BY <1>2 DEF SwitchTypes, SwitchTypeOK, Switching, Latest
<1>4. \A q \in SwitchReq : Requested(q)' =>
         LET m == switching'[q].move
         IN  /\ m.kind # "none" /\ m.env \in SwitchEnv /\ m.status = "queued"
             /\ switching'[q].pc # "plan" /\ m.kind = "switch" => m.active \in Slot
  BY <1>2 DEF SwitchTypes, SwitchPrepared, Requested
<1> QED
  BY <1>3, <1>4 DEF SwitchTypes, SwitchPrepared

\* The pc of a request, which it leaves and where it goes.
LEMMA SwitchGoesOn ==
    ASSUME SwitchTypes, NEW r \in SwitchReq, NEW pc \in {"insert", "done"}, SwitchGoes(r, pc)
    PROVE  \E new \in Switching : /\ switching' = [switching EXCEPT ![r] = new]
                                  /\ new.pc = pc /\ new.move = switching[r].move
<1>1. switching \in [SwitchReq -> Switching]
  BY SwitchTypesOf
<1>2. [switching[r] EXCEPT !.pc = pc] \in Switching
  BY <1>1 DEF Switching
<1>3. switching' = [switching EXCEPT ![r] = [switching[r] EXCEPT !.pc = pc]]
  BY <1>1 DEF SwitchGoes
<1>4. [switching[r] EXCEPT !.pc = pc].pc = pc /\ [switching[r] EXCEPT !.pc = pc].move = switching[r].move
  BY <1>1 DEF Switching
<1> QED
  BY <1>2, <1>3, <1>4

\* What each step of a request leaves in its record.
LEMMA Checked ==
    ASSUME SwitchTypes, NEW r \in SwitchReq, NEW e \in SwitchEnv, CheckMoves(r, e)
    PROVE  \E new \in Switching :
              /\ switching' = [switching EXCEPT ![r] = new] /\ new.pc \in {"plan", "done"}
              /\ new.move.kind = KindOf(strategy.type) /\ new.move.kind # "none"
              /\ new.move.env = e /\ new.move.status = "queued"
<1> DEFINE kind == KindOf(strategy.type)
           move == [NoMove EXCEPT !.kind = kind, !.env = e, !.status = "queued"]
<1>1. kind \in {"promote", "switch"}
  BY DEF KindOf
<1>2. [NoMove EXCEPT !.kind = kind] \in Move
  BY <1>1, NoMoveTyped DEF Move
<1>3. [[NoMove EXCEPT !.kind = kind] EXCEPT !.env = e] \in Move
  BY <1>2 DEF Move
<1>4. [[[NoMove EXCEPT !.kind = kind] EXCEPT !.env = e] EXCEPT !.status = "queued"] \in Move
  BY <1>3 DEF Move
<1>5. move \in Move /\ move.kind = kind /\ move.env = e /\ move.status = "queued"
  BY <1>4 DEF NoMove
<1>6. PICK pc \in {"plan", "done"} : switching' = [switching EXCEPT ![r] = [pc |-> pc, move |-> move]]
  BY DEF CheckMoves
<1> HIDE DEF move
<1>7. [pc |-> pc, move |-> move] \in Switching
  BY <1>5 DEF Switching
<1> QED
  BY <1>1, <1>5, <1>6, <1>7

LEMMA Planned ==
    ASSUME SwitchTypes, NEW r \in SwitchReq, NEW e \in SwitchEnv, e = switching[r].move.env, PlanMove(r)
    PROVE  \E new \in Switching :
              /\ switching' = [switching EXCEPT ![r] = new] /\ new.pc = "mark"
              /\ new.move.kind = switching[r].move.kind
              /\ new.move.env = e /\ new.move.status = switching[r].move.status
              /\ new.move.deploy = latest[e].number
              /\ new.move.kind = "switch" =>
                    /\ new.move.active \in Slot
                    /\ \/ new.move.active = EnvironmentSlot(strategy, e)
                       \/ /\ latest[e].details.pending /\ latest[e].details.active \in Slot
                          /\ new.move.active = latest[e].details.active
<1>1. switching \in [SwitchReq -> Switching] /\ latest \in [SwitchEnv -> Latest] /\ strategy \in Strategy
  BY SwitchTypesOf
<1> DEFINE m == switching[r].move
           d == latest[e].details
           slot == IF d.pending /\ d.active \in Slot THEN d.active ELSE EnvironmentSlot(strategy, e)
           active == IF m.kind = "switch" THEN slot ELSE "unset"
           move == [[m EXCEPT !.deploy = latest[e].number] EXCEPT !.active = active]
<1>2. slot \in Slot
  BY <1>1, SlotTyped
<1>3. latest[e].number \in 0 .. MaxRollouts /\ m \in Move
  BY <1>1, SwitchAssumption DEF Latest, Switching
<1>4. [m EXCEPT !.deploy = latest[e].number] \in Move
  BY <1>3 DEF Move
<1>5. move \in Move
  BY <1>2, <1>4 DEF Move
<1>6. move.kind = m.kind /\ move.env = m.env /\ move.status = m.status
      /\ move.deploy = latest[e].number /\ move.active = active
  BY <1>3 DEF Move
<1> DEFINE new == [[switching[r] EXCEPT !.pc = "mark"] EXCEPT !.move = move]
<1>7. switching' = [switching EXCEPT ![r] = new]
  <2>1. switching' = [switching EXCEPT ![r].pc = "mark", ![r].move.deploy = latest[e].number,
                                       ![r].move.active = active]
    BY DEF PlanMove
  <2> HIDE DEF active
  <2> QED
    BY <1>1, <2>1 DEF move
<1> HIDE DEF move
<1>8. new \in Switching /\ new.pc = "mark" /\ new.move = move
  BY <1>1, <1>5 DEF Switching
<1> HIDE DEF new
<1> QED
  BY <1>2, <1>6, <1>7, <1>8

\* The record of a move, when a step changes its status, and its copy if at all.
LEMMA MoveGoesOn ==
    ASSUME SwitchTypes, NEW i \in DOMAIN moves,
           NEW status \in {"shifted", "succeeded", "failed"}, MoveGoes(i, status)
    PROVE  \E new \in Move : /\ moves' = [moves EXCEPT ![i] = new] /\ new.status = status
                             /\ new.kind = moves[i].kind /\ new.env = moves[i].env
                             /\ new.deploy = moves[i].deploy /\ new.active = moves[i].active
<1> DEFINE new == [moves[i] EXCEPT !.status = status]
<1>1. moves[i] \in Move
  BY SwitchTypesOf, LenProperties, ElementOfSeq
<1>2. new \in Move /\ new.status = status /\ new.kind = moves[i].kind /\ new.env = moves[i].env
      /\ new.deploy = moves[i].deploy /\ new.active = moves[i].active
  BY <1>1 DEF Move
<1>3. moves' = [moves EXCEPT ![i] = new]
  BY DEF MoveGoes
<1> HIDE DEF new
<1> QED
  BY <1>2, <1>3

LEMMA MoveCopies ==
    ASSUME SwitchTypes, NEW i \in DOMAIN moves,
           NEW status \in {"recording", "recorded", "failed"}, NEW copy \in Strategy \cup {NoStrategy},
           moves' = [moves EXCEPT ![i].status = status, ![i].copy = copy]
    PROVE  \E new \in Move : /\ moves' = [moves EXCEPT ![i] = new] /\ new.status = status
                             /\ new.kind = moves[i].kind /\ new.env = moves[i].env
                             /\ new.deploy = moves[i].deploy /\ new.active = moves[i].active
                             /\ new.copy = copy
<1> DEFINE new == [[moves[i] EXCEPT !.status = status] EXCEPT !.copy = copy]
<1>1. moves[i] \in Move /\ moves \in Seq(Move)
  BY SwitchTypesOf, LenProperties, ElementOfSeq
<1>2. [moves[i] EXCEPT !.status = status] \in Move
  BY <1>1 DEF Move
<1>3. new \in Move
  BY <1>2 DEF Move
<1>4. new.status = status /\ new.kind = moves[i].kind /\ new.env = moves[i].env
      /\ new.deploy = moves[i].deploy /\ new.active = moves[i].active /\ new.copy = copy
  BY <1>1 DEF Move
<1>5. moves' = [moves EXCEPT ![i] = new]
  OBVIOUS
<1> HIDE DEF new
<1> QED
  BY <1>3, <1>4, <1>5

\* A move goes on with another record about the same switch.
LEMMA MoveTyped ==
    ASSUME SwitchTypes, NEW i \in DOMAIN moves, NEW new \in Move,
           moves' = [moves EXCEPT ![i] = new],
           new.kind = moves[i].kind, new.env = moves[i].env, new.active = moves[i].active,
           new.status = "recording" => new.copy \in Strategy,
           strategy' \in Strategy, traffic' \in [SwitchEnv -> Slot],
           latest' \in [SwitchEnv -> Latest],
           \A e \in SwitchEnv : latest'[e].number = latest[e].number,
           UNCHANGED <<effect, switching, form>>
    PROVE  SwitchTypes'
<1>1. moves \in Seq(Move)
  BY SwitchTypesOf
<1>2. /\ moves' \in Seq(Move) /\ DOMAIN moves' = DOMAIN moves
      /\ moves'[i] = new /\ \A j \in DOMAIN moves : j # i => moves'[j] = moves[j]
  BY <1>1, MoveReplaced
<1>3. \A j \in DOMAIN moves' : /\ moves'[j].kind # "none" /\ moves'[j].env \in SwitchEnv
                               /\ moves'[j].kind = "switch" => moves'[j].active \in Slot
                               /\ moves'[j].status = "recording" => moves'[j].copy \in Strategy
  BY <1>2 DEF SwitchTypes, SwitchTypeOK, SwitchPrepared
<1>4. SwitchTypeOK'
  BY <1>2, <1>3 DEF SwitchTypes, SwitchTypeOK, Latest
<1> QED
  BY <1>3, <1>4 DEF SwitchTypes, SwitchPrepared, Requested

\* Clients only replace the strategy and what they hold of it.
LEMMA FormTyped ==
    ASSUME SwitchTypes, strategy' \in Strategy, form' \in Strategy \cup {NoStrategy},
           UNCHANGED <<latest, effect, switching, moves, traffic>>
    PROVE  SwitchTypes'
BY DEF SwitchTypes, SwitchTypeOK, SwitchPrepared, Requested

\* What a move may change of the rest, by the action.
LEMMA MoveKeeps ==
    ASSUME SwitchTypes, NEW i \in DOMAIN moves
    PROVE  /\ moves[i] \in Move /\ moves[i].env \in SwitchEnv
           /\ moves[i].kind = "switch" => Other(moves[i].active) \in Slot
BY SwitchTypesOf, LenProperties, ElementOfSeq, OtherSlot DEF SwitchTypes, SwitchTypeOK

LEMMA FailDetailsTyped ==
    ASSUME SwitchTypes, NEW i \in DOMAIN moves, FailDetails(moves[i])
    PROVE  /\ latest' \in [SwitchEnv -> Latest]
           /\ \A f \in SwitchEnv : /\ latest'[f].number = latest[f].number
                                   /\ f # moves[i].env => latest'[f] = latest[f]
                                   /\ \/ latest'[f] = latest[f]
                                      \/ latest'[f].details.active = "unset"
<1> DEFINE m == moves[i]
           pending == m.kind = "switch" /\ latest[m.env].details.step # "shift"
<1>1. m.env \in SwitchEnv /\ latest \in [SwitchEnv -> Latest]
  BY MoveKeeps, SwitchTypesOf
<1>2. pending \in BOOLEAN
  OBVIOUS
<1>3. SetDetails(m.env, m.deploy, Details("failed", pending, "unset"))
  BY DEF FailDetails
<1>4. Details("failed", pending, "unset") \in DeployDetails
      /\ Details("failed", pending, "unset").active = "unset"
  BY <1>2, DetailsTyped DEF Details
<1> DEFINE d == Details("failed", pending, "unset")
<1>5. d \in DeployDetails /\ d.active = "unset" /\ SetDetails(m.env, m.deploy, d)
  BY <1>3, <1>4
<1> HIDE DEF d, pending
<1>6. /\ latest' \in [SwitchEnv -> Latest]
      /\ \A f \in SwitchEnv : /\ f # m.env => latest'[f] = latest[f]
                              /\ latest'[f].number = latest[f].number
      /\ latest[m.env].number = m.deploy => latest'[m.env].details = d
      /\ latest[m.env].number # m.deploy => latest' = latest
  BY <1>1, <1>5, DetailsSet
<1> HIDE DEF m
<1>7. \A f \in SwitchEnv : f = m.env => latest'[f] = latest[f] \/ latest'[f].details.active = "unset"
  BY <1>5, <1>6
<1> QED
  BY <1>6, <1>7 DEF m
-----------------------------------------------------------------------------
(* TrafficSwitch: order *)

SlotOf(e) == EnvironmentSlot(strategy, e)

\* The traffic has moved, and the strategy does not say so yet.
Shifting(i) == moves[i].kind = "switch" /\ moves[i].status \in {"shifted", "recording"}

MoveInOrder(i) ==
    LET m == moves[i]
    IN  /\ m.status = "recording" => m.kind = "switch" /\ m.copy = strategy
        /\ m.kind = "switch" => strategy.type = "blue-green"
        /\ UnfinishedMove(i) => m.deploy = latest[m.env].number \/ ~latest[m.env].details.pending
        /\ m.kind = "switch" /\ m.status = "queued" => m.active = traffic[m.env]
        /\ Shifting(i) => /\ traffic[m.env] = Other(m.active)
                          /\ ~latest[m.env].details.pending

RequestInOrder(r) ==
    LET m == switching[r].move
    IN  Requested(r) =>
          /\ m.kind = "switch" => strategy.type = "blue-green"
          /\ switching[r].pc # "plan" =>
                /\ m.deploy = latest[m.env].number \/ ~latest[m.env].details.pending
                /\ m.kind = "switch" => m.active = traffic[m.env]

EnvInOrder(e) ==
    /\ effect[e] # "unset" => effect[e] = SlotOf(e)
    /\ latest[e].details.pending /\ latest[e].details.active \in Slot =>
          latest[e].details.active = SlotOf(e)
    /\ SlotOf(e) = traffic[e] \/ \E i \in DOMAIN moves : moves[i].env = e /\ Shifting(i)

\* In an orderly behaviour a copy of the strategy is the strategy, a pending
\* deploy and the effect of one name its slot, and the slot is the live one
\* but for a switch that has moved the traffic and not recorded it.
InOrder ==
    /\ form # NoStrategy => form = strategy
    /\ \A i \in DOMAIN moves : MoveInOrder(i)
    /\ \A r \in SwitchReq : RequestInOrder(r)
    /\ \A e \in SwitchEnv : EnvInOrder(e)

\* What the absence of disorder says of two actors.
Alone ==
    /\ \A i, j \in DOMAIN moves :
          UnfinishedMove(i) /\ UnfinishedMove(j) /\ moves[i].env = moves[j].env => i = j
    /\ \A r \in SwitchReq : Requested(r) =>
          /\ \A q \in SwitchReq : Requested(q) /\ switching[q].move.env = switching[r].move.env => q = r
          /\ \A i \in DOMAIN moves : UnfinishedMove(i) => moves[i].env # switching[r].move.env
    /\ \A e \in SwitchEnv : effect[e] # "unset" =>
          /\ \A r \in SwitchReq : Requested(r) => switching[r].move.env # e
          /\ \A i \in DOMAIN moves : UnfinishedMove(i) => moves[i].env # e
    /\ \A i \in DOMAIN moves : moves[i].status = "recording" =>
          /\ form = NoStrategy
          /\ \A j \in DOMAIN moves : moves[j].status = "recording" => i = j

LEMMA OrderMeansAlone == SwitchTypes /\ ~Disorder => Alone
<1> SUFFICES ASSUME SwitchTypes, ~Disorder PROVE Alone
  OBVIOUS
<1>1. \A a, b \in Copies : a = b
  BY DEF Disorder
<1>2. \A e \in SwitchEnv : \A a, b \in Activity(e) : a = b
  BY DEF Disorder
<1>3. \A r \in SwitchReq : Requested(r) =>
         switching[r].move.env \in SwitchEnv /\ <<"request", r>> \in Activity(switching[r].move.env)
  BY DEF SwitchTypes, SwitchPrepared, Requested, Activity
<1>4. \A i \in DOMAIN moves : UnfinishedMove(i) =>
         moves[i].env \in SwitchEnv /\ <<"move", i>> \in Activity(moves[i].env)
  BY DEF SwitchTypes, SwitchTypeOK, Activity
<1>5. \A e \in SwitchEnv : effect[e] # "unset" => <<"effect", e>> \in Activity(e)
  BY DEF Activity
<1>6. \A i \in DOMAIN moves : moves[i].status = "recording" => <<"move", i>> \in Copies
  BY DEF Copies
<1>7. form # NoStrategy => <<"form", 0>> \in Copies
  BY DEF Copies
<1>8. \A x, y : /\ <<"move", x>> # <<"form", y>> /\ <<"move", x>> # <<"request", y>>
                /\ <<"effect", x>> # <<"request", y>> /\ <<"effect", x>> # <<"move", y>>
                /\ <<"move", x>> = <<"move", y>> => x = y
                /\ <<"request", x>> = <<"request", y>> => x = y
  OBVIOUS
<1>9. \A i, j \in DOMAIN moves :
          UnfinishedMove(i) /\ UnfinishedMove(j) /\ moves[i].env = moves[j].env => i = j
  BY <1>2, <1>4, <1>8
<1>10. \A r \in SwitchReq : Requested(r) =>
          /\ \A q \in SwitchReq : Requested(q) /\ switching[q].move.env = switching[r].move.env => q = r
          /\ \A i \in DOMAIN moves : UnfinishedMove(i) => moves[i].env # switching[r].move.env
  <2> SUFFICES ASSUME NEW r \in SwitchReq, Requested(r)
               PROVE  /\ \A q \in SwitchReq :
                            Requested(q) /\ switching[q].move.env = switching[r].move.env => q = r
                      /\ \A i \in DOMAIN moves :
                            UnfinishedMove(i) => moves[i].env # switching[r].move.env
    OBVIOUS
  <2>1. \A a \in Activity(switching[r].move.env) : a = <<"request", r>>
    BY <1>2, <1>3
  <2>2. ASSUME NEW q \in SwitchReq, Requested(q), switching[q].move.env = switching[r].move.env
        PROVE  q = r
    <3>1. <<"request", q>> = <<"request", r>>
      BY <1>3, <2>1, <2>2
    <3> QED
      BY <1>8, <3>1
  <2>3. ASSUME NEW i \in DOMAIN moves, UnfinishedMove(i), moves[i].env = switching[r].move.env
        PROVE  FALSE
    <3>1. <<"move", i>> = <<"request", r>>
      BY <1>4, <2>1, <2>3
    <3> QED
      BY <1>8, <3>1
  <2> QED
    BY <2>2, <2>3
<1>11. \A e \in SwitchEnv : effect[e] # "unset" =>
          /\ \A r \in SwitchReq : Requested(r) => switching[r].move.env # e
          /\ \A i \in DOMAIN moves : UnfinishedMove(i) => moves[i].env # e
  <2> SUFFICES ASSUME NEW e \in SwitchEnv, effect[e] # "unset"
               PROVE  /\ \A r \in SwitchReq : Requested(r) => switching[r].move.env # e
                      /\ \A i \in DOMAIN moves : UnfinishedMove(i) => moves[i].env # e
    OBVIOUS
  <2>1. \A a \in Activity(e) : <<"effect", e>> = a
    BY <1>2, <1>5
  <2>2. ASSUME NEW r \in SwitchReq, Requested(r), switching[r].move.env = e
        PROVE  FALSE
    <3>1. <<"effect", e>> = <<"request", r>>
      BY <1>3, <2>1, <2>2
    <3> QED
      BY <1>8, <3>1
  <2>3. ASSUME NEW i \in DOMAIN moves, UnfinishedMove(i), moves[i].env = e
        PROVE  FALSE
    <3>1. <<"effect", e>> = <<"move", i>>
      BY <1>4, <2>1, <2>3
    <3> QED
      BY <1>8, <3>1
  <2> QED
    BY <2>2, <2>3
<1>12. \A i \in DOMAIN moves : moves[i].status = "recording" =>
          /\ form = NoStrategy
          /\ \A j \in DOMAIN moves : moves[j].status = "recording" => i = j
  BY <1>1, <1>6, <1>7, <1>8
<1> QED
  BY <1>9, <1>10, <1>11, <1>12 DEF Alone

LEMMA SwitchInitInOrder == SwitchInit => InOrder /\ ~Disorder
<1> SUFFICES ASSUME SwitchInit PROVE InOrder /\ ~Disorder
  OBVIOUS
<1>1. /\ moves = <<>> /\ DOMAIN moves = {} /\ form = NoStrategy
      /\ \A r \in SwitchReq : switching[r].pc = "new"
      /\ \A e \in SwitchEnv : effect[e] = "unset"
  BY DEF SwitchInit, IdleSwitch
<1>2. Copies = {} /\ \A e \in SwitchEnv : Activity(e) = {}
  <2>1. \A a \in Copies : FALSE
    BY <1>1 DEF Copies
  <2>2. ASSUME NEW e \in SwitchEnv PROVE Activity(e) = {}
    <3>1. {q \in SwitchReq : switching[q].pc \in {"plan", "mark", "insert"} /\ switching[q].move.env = e} = {}
      <4>1. \A q \in SwitchReq : switching[q].pc \notin {"plan", "mark", "insert"}
        BY <1>1
      <4> QED
        BY <4>1
    <3>2. {j \in DOMAIN moves : UnfinishedMove(j) /\ moves[j].env = e} = {}
      BY <1>1
    <3>3. {"unset"} \ {effect[e]} = {}
      <4>1. effect[e] = "unset"
        BY <1>1
      <4>2. \A x \in {"unset"} \ {effect[e]} : FALSE
        BY <4>1
      <4> QED
        BY <4>2
    <3> QED
      BY <3>1, <3>2, <3>3 DEF Activity
  <2> QED
    BY <2>1, <2>2
<1>3. ASSUME NEW e \in SwitchEnv PROVE EnvInOrder(e)
  <2>1. SlotOf(e) = "blue" /\ traffic[e] = "blue"
    BY DEF SwitchInit, SlotOf, EnvironmentSlot, NoStrategy, Slot
  <2>2. ~latest[e].details.pending
    BY DEF SwitchInit, Details
  <2>3. ~(latest[e].details.pending /\ latest[e].details.active \in Slot)
    BY <2>2, Zenon
  <2>4. effect[e] = "unset"
    BY <1>1
  <2>5. SlotOf(e) = traffic[e]
    BY <2>1
  <2> QED
    BY <2>3, <2>4, <2>5, Zenon DEF EnvInOrder
<1>4. \A r \in SwitchReq : RequestInOrder(r)
  BY <1>1 DEF RequestInOrder, Requested
<1> QED
  BY <1>1, <1>2, <1>3, <1>4 DEF InOrder, Disorder

LEMMA SlotKept ==
    ASSUME UNCHANGED strategy PROVE \A e \in SwitchEnv : SlotOf(e)' = SlotOf(e)
BY DEF SlotOf, EnvironmentSlot

\* The latest deploy is left alone, or has no switch pending.
AboutSame(e) ==
    \/ ~latest'[e].details.pending
    \/ latest'[e].details = latest[e].details /\ latest'[e].number = latest[e].number

\* A step that leaves the moves, the traffic and the strategy alone, and every
\* deploy that a move is about unless it leaves no switch pending, keeps the
\* moves in order.
LEMMA MovesStayInOrder ==
    ASSUME InOrder, UNCHANGED <<strategy, moves, traffic>>,
           \A i \in DOMAIN moves : UnfinishedMove(i) => AboutSame(moves[i].env)
    PROVE  \A i \in DOMAIN moves' : MoveInOrder(i)'
<1> SUFFICES ASSUME NEW i \in DOMAIN moves PROVE MoveInOrder(i)'
  OBVIOUS
<1>1. MoveInOrder(i)
  BY DEF InOrder
<1>2. Shifting(i) => UnfinishedMove(i)
  BY DEF Shifting, UnfinishedMove
<1>3. (Shifting(i)' <=> Shifting(i)) /\ (UnfinishedMove(i)' <=> UnfinishedMove(i))
  BY DEF Shifting, UnfinishedMove
<1> QED
  BY <1>1, <1>2, <1>3 DEF MoveInOrder, AboutSame

\* Such a step also leaves a switch that is shifting the traffic where it is.
LEMMA ShiftingStays ==
    ASSUME UNCHANGED moves, NEW e \in SwitchEnv, \E i \in DOMAIN moves : moves[i].env = e /\ Shifting(i)
    PROVE  \E i \in DOMAIN moves' : moves'[i].env = e /\ Shifting(i)'
BY DEF Shifting

LEMMA BeginInOrder ==
    ASSUME SwitchTypes, InOrder, NEW e \in SwitchEnv, BeginEffect(e)
    PROVE  InOrder'
<1>1. UNCHANGED <<strategy, latest, switching, moves, traffic, form>>
      /\ effect' = [effect EXCEPT ![e] = SlotOf(e)]
  BY DEF BeginEffect, SlotOf
<1>2. \A i \in DOMAIN moves' : MoveInOrder(i)'
  BY <1>1, MovesStayInOrder DEF AboutSame
<1>3. \A r \in SwitchReq : RequestInOrder(r)'
  BY <1>1 DEF InOrder, RequestInOrder, Requested
<1>4. ASSUME NEW f \in SwitchEnv PROVE EnvInOrder(f)'
  <2>1. EnvInOrder(f) /\ SlotOf(f)' = SlotOf(f)
    BY <1>1, SlotKept DEF InOrder
  <2>2. effect'[f] = effect[f] \/ effect'[f] = SlotOf(f)
    BY <1>1, SwitchTypesOf
  <2>3. effect'[f] # "unset" => effect'[f] = SlotOf(f)
    BY <2>1, <2>2 DEF EnvInOrder
  <2>4. SlotOf(f) = traffic[f] \/ \E i \in DOMAIN moves' : moves'[i].env = f /\ Shifting(i)'
    BY <1>1, <2>1, ShiftingStays DEF EnvInOrder
  <2> QED
    BY <1>1, <2>1, <2>3, <2>4 DEF EnvInOrder
<1> QED
  BY <1>1, <1>2, <1>3, <1>4 DEF InOrder

\* A new deploy has no switch pending, and none that ends has a request or a
\* move beside its effect.
LEMMA DeployInOrder ==
    ASSUME SwitchTypes, InOrder, Alone, NEW e \in SwitchEnv,
           StartDeploy(e) \/ EndEffect(e) \/ FailDeploy(e)
    PROVE  InOrder'
<1>1. UNCHANGED <<strategy, switching, moves, traffic, form>>
  BY DEF StartDeploy, EndEffect, FailDeploy
<1>2. latest \in [SwitchEnv -> Latest] /\ effect \in [SwitchEnv -> Slot \cup {"unset"}]
  BY SwitchTypesOf
<1>3. /\ \A f \in SwitchEnv : f # e => latest'[f] = latest[f] /\ effect'[f] = effect[f]
      /\ effect'[e] = effect[e] \/ effect'[e] = "unset"
      /\ \/ ~latest'[e].details.pending
         \/ /\ latest'[e].details = latest[e].details /\ latest'[e].number = latest[e].number
         \/ /\ effect[e] # "unset" /\ latest'[e].details.active = effect[e]
            /\ latest'[e].number = latest[e].number
  <2>1. CASE StartDeploy(e)
    <3> DEFINE active == IF strategy.type = "blue-green" THEN strategy.primary ELSE "unset"
               new == [number |-> latest[e].number + 1, running |-> strategy.type,
                       details |-> Details("none", FALSE, active)]
    <3>1. latest' = [latest EXCEPT ![e] = new] /\ effect' = effect
      BY <2>1 DEF StartDeploy
    <3>2. ~new.details.pending
      BY DEF Details
    <3> HIDE DEF new
    <3> QED
      BY <1>2, <3>1, <3>2
  <2>2. CASE EndEffect(e)
    <3>1. PICK d \in DeployDetails : DeployEnded(e, d) /\ (d = latest[e].details \/ d.active = effect[e])
      BY <1>2, <2>2, EndedDeploy
    <3>2. effect[e] # "unset"
      BY <2>2 DEF EndEffect
    <3> QED
      BY <1>2, <3>1, <3>2, DeployEnds
  <2>3. CASE FailDeploy(e)
    <3>1. DeployEnded(e, latest[e].details) /\ latest[e].details \in DeployDetails
      BY <1>2, <2>3 DEF FailDeploy, DeployEnded, Latest
    <3> QED
      BY <1>2, <3>1, DeployEnds
  <2> QED
    BY <2>1, <2>2, <2>3
<1>4. effect[e] # "unset" =>
         /\ \A r \in SwitchReq : Requested(r) => switching[r].move.env # e
         /\ \A i \in DOMAIN moves : UnfinishedMove(i) => moves[i].env # e
  BY DEF Alone
<1>5. \A i \in DOMAIN moves : UnfinishedMove(i) => AboutSame(moves[i].env)
  <2>1. \A i \in DOMAIN moves : moves[i].env \in SwitchEnv
    BY MoveKeeps
  <2> QED
    BY <1>3, <1>4, <2>1 DEF AboutSame
<1>6. \A i \in DOMAIN moves' : MoveInOrder(i)'
  BY <1>1, <1>5, MovesStayInOrder
<1>7. ASSUME NEW r \in SwitchReq PROVE RequestInOrder(r)'
  <2>1. RequestInOrder(r)
    BY DEF InOrder
  <2>2. Requested(r) => AboutSame(switching[r].move.env)
    BY <1>3, <1>4 DEF SwitchTypes, SwitchPrepared, AboutSame
  <2>3. Requested(r)' <=> Requested(r)
    BY <1>1 DEF Requested
  <2> QED
    BY <1>1, <2>1, <2>2, <2>3 DEF RequestInOrder, AboutSame
<1>8. ASSUME NEW f \in SwitchEnv PROVE EnvInOrder(f)'
  <2>1. EnvInOrder(f) /\ SlotOf(f)' = SlotOf(f)
    BY <1>1, SlotKept DEF InOrder
  <2>2. effect'[f] = effect[f] \/ effect'[f] = "unset"
    BY <1>3
  <2>3. effect'[f] # "unset" => effect'[f] = SlotOf(f)
    BY <2>1, <2>2 DEF EnvInOrder
  <2>4. latest'[f].details.pending /\ latest'[f].details.active \in Slot =>
           latest'[f].details.active = SlotOf(f)
    <3>1. \/ ~latest'[f].details.pending
          \/ latest'[f].details = latest[f].details
          \/ effect[f] # "unset" /\ latest'[f].details.active = effect[f]
      BY <1>3
    <3> QED
      BY <2>1, <3>1 DEF EnvInOrder
  <2>5. SlotOf(f) = traffic[f] \/ \E i \in DOMAIN moves' : moves'[i].env = f /\ Shifting(i)'
    BY <1>1, <2>1, ShiftingStays DEF EnvInOrder
  <2> QED
    BY <1>1, <2>1, <2>3, <2>4, <2>5 DEF EnvInOrder
<1> QED
  BY <1>1, <1>6, <1>7, <1>8 DEF InOrder

\* A request goes on with a record that is in order.
LEMMA RequestsStayInOrder ==
    ASSUME SwitchTypes, InOrder, NEW r \in SwitchReq, NEW new \in Switching,
           switching' = [switching EXCEPT ![r] = new],
           UNCHANGED <<strategy, effect, traffic, form, moves>>,
           \A e \in SwitchEnv : /\ latest'[e].number = latest[e].number
                                /\ latest'[e] = latest[e] \/ ~latest'[e].details.pending,
           new.pc \in {"plan", "mark", "insert"} =>
              /\ new.move.env \in SwitchEnv
              /\ new.move.kind = "switch" => strategy.type = "blue-green"
              /\ new.pc # "plan" =>
                    /\ \/ new.move.deploy = latest[new.move.env].number
                       \/ ~latest'[new.move.env].details.pending
                    /\ new.move.kind = "switch" => new.move.active = traffic[new.move.env]
    PROVE  InOrder'
<1>1. /\ switching'[r] = new
      /\ \A q \in SwitchReq : q # r => switching'[q] = switching[q]
  BY SwitchTypesOf
<1>2. \A i \in DOMAIN moves : moves[i].env \in SwitchEnv
  BY MoveKeeps
<1>3. \A i \in DOMAIN moves' : MoveInOrder(i)'
  <2>1. \A i \in DOMAIN moves : UnfinishedMove(i) => AboutSame(moves[i].env)
    BY <1>2 DEF AboutSame
  <2> QED
    BY <2>1, MovesStayInOrder
<1>4. ASSUME NEW q \in SwitchReq PROVE RequestInOrder(q)'
  <2>1. CASE q = r
    BY <1>1, <2>1 DEF RequestInOrder, Requested
  <2>2. CASE q # r
    <3>1. RequestInOrder(q) /\ (Requested(q)' <=> Requested(q))
      BY <1>1, <2>2 DEF InOrder, Requested
    <3>2. Requested(q) => switching[q].move.env \in SwitchEnv
      BY DEF SwitchTypes, SwitchPrepared
    <3> QED
      BY <1>1, <2>2, <3>1, <3>2 DEF RequestInOrder
  <2> QED
    BY <2>1, <2>2
<1>5. ASSUME NEW e \in SwitchEnv PROVE EnvInOrder(e)'
  <2>1. EnvInOrder(e) /\ SlotOf(e)' = SlotOf(e)
    BY SlotKept DEF InOrder
  <2>2. latest'[e] = latest[e] \/ ~latest'[e].details.pending
    OBVIOUS
  <2>3. SlotOf(e) = traffic[e] \/ \E i \in DOMAIN moves' : moves'[i].env = e /\ Shifting(i)'
    BY <2>1, ShiftingStays DEF EnvInOrder
  <2> QED
    BY <2>1, <2>2, <2>3 DEF EnvInOrder
<1> QED
  BY <1>3, <1>4, <1>5 DEF InOrder

\* A request that checks, plans, marks the deploy or stops.
LEMMA CheckInOrder ==
    ASSUME SwitchTypes, InOrder, NEW r \in SwitchReq, NEW e \in SwitchEnv, CheckMoves(r, e)
    PROVE  InOrder'
<1>1. PICK new \in Switching :
              /\ switching' = [switching EXCEPT ![r] = new] /\ new.pc \in {"plan", "done"}
              /\ new.move.kind = KindOf(strategy.type) /\ new.move.kind # "none"
              /\ new.move.env = e /\ new.move.status = "queued"
  BY Checked
<1>2. strategy.type \in {"canary", "blue-green"}
  BY SwitchTypesOf DEF Strategy
<1>3. new.move.kind = "switch" => strategy.type = "blue-green"
  BY <1>1, <1>2 DEF KindOf
<1>4. UNCHANGED <<strategy, effect, traffic, form, latest, moves>>
  BY DEF CheckMoves, SwitchStep
<1> QED
  BY <1>1, <1>3, <1>4, RequestsStayInOrder

\* Nothing else is in the environment: the slot of the service is the live one.
LEMMA PlanInOrder ==
    ASSUME SwitchTypes, InOrder, Alone, NEW r \in SwitchReq, PlanMove(r)
    PROVE  InOrder'
<1>1. PICK e \in SwitchEnv : e = switching[r].move.env
  BY DEF PlanMove, SwitchTypes, SwitchPrepared, Requested
<1>2. PICK new \in Switching :
              /\ switching' = [switching EXCEPT ![r] = new] /\ new.pc = "mark"
              /\ new.move.kind = switching[r].move.kind
              /\ new.move.env = e /\ new.move.status = switching[r].move.status
              /\ new.move.deploy = latest[e].number
              /\ new.move.kind = "switch" =>
                    /\ new.move.active \in Slot
                    /\ \/ new.move.active = EnvironmentSlot(strategy, e)
                       \/ /\ latest[e].details.pending /\ latest[e].details.active \in Slot
                          /\ new.move.active = latest[e].details.active
  BY <1>1, Planned
<1>3. UNCHANGED <<strategy, effect, traffic, form, latest, moves>> /\ Requested(r)
  BY DEF PlanMove, SwitchStep, Requested
<1>4. \A i \in DOMAIN moves : UnfinishedMove(i) => moves[i].env # e
  BY <1>1, <1>3 DEF Alone
<1>5. EnvInOrder(e) /\ RequestInOrder(r)
  BY DEF InOrder
<1>6. SlotOf(e) = traffic[e]
  BY <1>4, <1>5 DEF EnvInOrder, Shifting, UnfinishedMove
<1>7. new.move.kind = "switch" => new.move.active = traffic[e]
  BY <1>2, <1>5, <1>6 DEF EnvInOrder, SlotOf
<1>8. new.move.kind = "switch" => strategy.type = "blue-green"
  BY <1>2, <1>3, <1>5 DEF RequestInOrder
<1> QED
  BY <1>2, <1>3, <1>7, <1>8, RequestsStayInOrder

LEMMA MarkInOrder ==
    ASSUME SwitchTypes, InOrder, NEW r \in SwitchReq, MarkQueued(r)
    PROVE  InOrder'
<1> DEFINE m == switching[r].move
           d == Details("queued", FALSE, m.active)
<1>1. /\ UNCHANGED <<strategy, effect, traffic, form, moves>> /\ switching[r].pc = "mark"
      /\ SetDetails(m.env, m.deploy, d) /\ SwitchGoes(r, "insert") /\ Requested(r)
  BY DEF MarkQueued, SwitchStep, Requested
<1>2. PICK new \in Switching : /\ switching' = [switching EXCEPT ![r] = new]
                               /\ new.pc = "insert" /\ new.move = m
  BY <1>1, SwitchGoesOn
<1>3. /\ m.kind # "none" /\ m.env \in SwitchEnv /\ m.status = "queued"
      /\ m.kind = "switch" => m.active \in Slot
  BY <1>1 DEF SwitchTypes, SwitchPrepared
<1>4. latest \in [SwitchEnv -> Latest] /\ m \in Move
  BY SwitchTypesOf DEF Switching
<1>5. d \in DeployDetails /\ ~d.pending
  <2>1. m.active \in Slot \cup {"unset"}
    BY <1>4 DEF Move
  <2> QED
    BY <2>1, DetailsTyped DEF Details
<1>6. RequestInOrder(r)
  BY DEF InOrder
<1> HIDE DEF d
<1>7. /\ latest' \in [SwitchEnv -> Latest]
      /\ \A f \in SwitchEnv : /\ f # m.env => latest'[f] = latest[f]
                              /\ latest'[f].number = latest[f].number
      /\ latest[m.env].number = m.deploy => latest'[m.env].details = d
      /\ latest[m.env].number # m.deploy => latest' = latest
  BY <1>1, <1>3, <1>4, <1>5, DetailsSet
<1>8. /\ m.kind = "switch" => strategy.type = "blue-green"
      /\ m.deploy = latest[m.env].number \/ ~latest[m.env].details.pending
      /\ m.kind = "switch" => m.active = traffic[m.env]
  BY <1>1, <1>6 DEF RequestInOrder
<1> HIDE DEF m
<1>9. \A f \in SwitchEnv : latest'[f] = latest[f] \/ ~latest'[f].details.pending
  BY <1>5, <1>7
<1> QED
  BY <1>1, <1>2, <1>3, <1>7, <1>8, <1>9, RequestsStayInOrder

LEMMA StopInOrder ==
    ASSUME SwitchTypes, InOrder, NEW r \in SwitchReq, StopSwitch(r)
    PROVE  InOrder'
<1>1. UNCHANGED <<strategy, effect, traffic, form, latest, moves>> /\ SwitchGoes(r, "done")
  BY DEF StopSwitch, SwitchStep
<1>2. PICK new \in Switching : switching' = [switching EXCEPT ![r] = new] /\ new.pc = "done"
  BY <1>1, SwitchGoesOn
<1> QED
  BY <1>1, <1>2, RequestsStayInOrder

\* The operation is queued for the deploy and the slot that the request found.
LEMMA InsertInOrder ==
    ASSUME SwitchTypes, InOrder, NEW r \in SwitchReq, InsertMove(r)
    PROVE  InOrder'
<1> DEFINE m == switching[r].move
<1>1. /\ UNCHANGED <<strategy, effect, traffic, form, latest>> /\ switching[r].pc = "insert"
      /\ moves' = Append(moves, m) /\ SwitchGoes(r, "done") /\ Requested(r)
  BY DEF InsertMove, SwitchStep, Requested
<1>2. PICK new \in Switching : switching' = [switching EXCEPT ![r] = new] /\ new.pc = "done"
  BY <1>1, SwitchGoesOn
<1>3. /\ switching' \in [SwitchReq -> Switching] /\ switching'[r] = new
      /\ \A q \in SwitchReq : q # r => switching'[q] = switching[q]
  BY <1>2, SwitchTypesOf
<1>4. /\ m \in Move /\ m.kind # "none" /\ m.env \in SwitchEnv /\ m.status = "queued"
      /\ m.kind = "switch" => m.active \in Slot
  BY <1>1, SwitchTypesOf DEF SwitchTypes, SwitchPrepared, Switching
<1>5. RequestInOrder(r)
  BY DEF InOrder
<1>6. /\ m.kind = "switch" => strategy.type = "blue-green"
      /\ m.deploy = latest[m.env].number \/ ~latest[m.env].details.pending
      /\ m.kind = "switch" => m.active = traffic[m.env]
  BY <1>1, <1>5 DEF RequestInOrder
<1> HIDE DEF m
<1>7. /\ moves' \in Seq(Move)
      /\ \A j \in DOMAIN moves' : \/ j \in DOMAIN moves /\ moves'[j] = moves[j]
                                  \/ j \notin DOMAIN moves /\ moves'[j] = m
      /\ DOMAIN moves \subseteq DOMAIN moves'
  BY <1>1, <1>4, SwitchTypesOf, MoveAppended
<1>8. \A q \in SwitchReq : Requested(q)' => Requested(q) /\ switching'[q] = switching[q]
  BY <1>2, <1>3 DEF Requested
<1>9. ASSUME NEW j \in DOMAIN moves' PROVE MoveInOrder(j)'
  <2>1. CASE j \in DOMAIN moves /\ moves'[j] = moves[j]
    <3>1. MoveInOrder(j) /\ (Shifting(j)' <=> Shifting(j)) /\ (UnfinishedMove(j)' <=> UnfinishedMove(j))
      BY <2>1 DEF InOrder, Shifting, UnfinishedMove
    <3> QED
      BY <1>1, <2>1, <3>1 DEF MoveInOrder
  <2>2. CASE moves'[j] = m
    BY <1>1, <1>4, <1>6, <2>2 DEF MoveInOrder, Shifting
  <2> QED
    BY <1>7, <2>1, <2>2
<1>10. \A q \in SwitchReq : RequestInOrder(q)'
  BY <1>1, <1>8 DEF InOrder, RequestInOrder
<1>11. ASSUME NEW e \in SwitchEnv PROVE EnvInOrder(e)'
  <2>1. EnvInOrder(e) /\ SlotOf(e)' = SlotOf(e)
    BY <1>1, SlotKept DEF InOrder
  <2>2. ASSUME NEW i \in DOMAIN moves, moves[i].env = e, Shifting(i)
        PROVE  i \in DOMAIN moves' /\ moves'[i].env = e /\ Shifting(i)'
    BY <1>7, <2>2 DEF Shifting
  <2>3. SlotOf(e) = traffic[e] \/ \E i \in DOMAIN moves' : moves'[i].env = e /\ Shifting(i)'
    BY <2>1, <2>2 DEF EnvInOrder
  <2> QED
    BY <1>1, <2>1, <2>3 DEF EnvInOrder
<1> QED
  BY <1>1, <1>9, <1>10, <1>11 DEF InOrder

LEMMA CheckTyped ==
    ASSUME SwitchTypes, NEW r \in SwitchReq, NEW e \in SwitchEnv, CheckMoves(r, e)
    PROVE  SwitchTypes'
<1>1. PICK new \in Switching :
              /\ switching' = [switching EXCEPT ![r] = new] /\ new.pc \in {"plan", "done"}
              /\ new.move.kind = KindOf(strategy.type) /\ new.move.kind # "none"
              /\ new.move.env = e /\ new.move.status = "queued"
  BY Checked
<1>2. UNCHANGED <<strategy, effect, traffic, form, latest, moves>>
  BY DEF CheckMoves, SwitchStep
<1>3. latest \in [SwitchEnv -> Latest]
  BY SwitchTypesOf
<1> QED
  BY <1>1, <1>2, <1>3, RequestTyped

LEMMA PlanTyped ==
    ASSUME SwitchTypes, NEW r \in SwitchReq, PlanMove(r)
    PROVE  SwitchTypes'
<1>1. PICK e \in SwitchEnv : e = switching[r].move.env
  BY DEF PlanMove, SwitchTypes, SwitchPrepared, Requested
<1>2. PICK new \in Switching :
              /\ switching' = [switching EXCEPT ![r] = new] /\ new.pc = "mark"
              /\ new.move.kind = switching[r].move.kind
              /\ new.move.env = e /\ new.move.status = switching[r].move.status
              /\ new.move.deploy = latest[e].number
              /\ new.move.kind = "switch" =>
                    /\ new.move.active \in Slot
                    /\ \/ new.move.active = EnvironmentSlot(strategy, e)
                       \/ /\ latest[e].details.pending /\ latest[e].details.active \in Slot
                          /\ new.move.active = latest[e].details.active
  BY <1>1, Planned
<1>3. UNCHANGED <<strategy, effect, traffic, form, latest, moves>> /\ Requested(r)
  BY DEF PlanMove, SwitchStep, Requested
<1>4. switching[r].move.kind # "none" /\ switching[r].move.status = "queued"
  BY <1>3 DEF SwitchTypes, SwitchPrepared
<1>5. latest \in [SwitchEnv -> Latest]
  BY SwitchTypesOf
<1> QED
  BY <1>2, <1>3, <1>4, <1>5, RequestTyped

\* A move that is alone in its environment goes on.
LEMMA MoveStaysInOrder ==
    ASSUME SwitchTypes, InOrder, Alone,
           NEW i \in DOMAIN moves, NEW e \in SwitchEnv, e = moves[i].env, UnfinishedMove(i),
           NEW new \in Move, moves' = [moves EXCEPT ![i] = new],
           new.kind = moves[i].kind, new.env = e, new.deploy = moves[i].deploy,
           new.active = moves[i].active, new.status # "queued",
           UNCHANGED <<effect, switching, form>>,
           strategy'.type = strategy.type, form # NoStrategy => form = strategy',
           \A j \in DOMAIN moves : j # i /\ moves[j].status = "recording" => moves[j].copy = strategy',
           \A f \in SwitchEnv : /\ latest'[f].number = latest[f].number
                                /\ f # e => /\ latest'[f] = latest[f] /\ traffic'[f] = traffic[f]
                                            /\ SlotOf(f)' = SlotOf(f),
           new.status = "recording" => new.kind = "switch" /\ new.copy = strategy',
           new.kind = "switch" /\ new.status \in {"shifted", "recording"} =>
              traffic'[e] = Other(new.active) /\ ~latest'[e].details.pending,
           latest'[e].details.pending /\ latest'[e].details.active \in Slot =>
              latest'[e].details.active = SlotOf(e)',
           SlotOf(e)' = traffic'[e] \/ (new.kind = "switch" /\ new.status \in {"shifted", "recording"}),
           new.status \in {"succeeded", "failed"} \/ AboutSame(e)
    PROVE  InOrder'
<1>1. /\ moves' \in Seq(Move) /\ DOMAIN moves' = DOMAIN moves
      /\ moves'[i] = new /\ \A j \in DOMAIN moves : j # i => moves'[j] = moves[j]
  BY SwitchTypesOf, MoveReplaced
<1>2. /\ \A j \in DOMAIN moves : UnfinishedMove(j) /\ moves[j].env = e => j = i
      /\ \A r \in SwitchReq : Requested(r) => switching[r].move.env # e
      /\ effect[e] = "unset"
  BY DEF Alone
<1>3. ASSUME NEW j \in DOMAIN moves PROVE MoveInOrder(j)'
  <2>1. MoveInOrder(j) /\ moves[j].env \in SwitchEnv
    BY MoveKeeps DEF InOrder
  <2>2. CASE j = i
    BY <1>1, <2>1, <2>2 DEF MoveInOrder, Shifting, UnfinishedMove, AboutSame
  <2>3. CASE j # i
    <3>1. moves'[j] = moves[j] /\ (Shifting(j)' <=> Shifting(j)) /\ (UnfinishedMove(j)' <=> UnfinishedMove(j))
      BY <1>1, <2>3 DEF Shifting, UnfinishedMove
    <3>2. Shifting(j) => UnfinishedMove(j)
      BY DEF Shifting, UnfinishedMove
    <3>3. moves[j].status = "queued" => UnfinishedMove(j)
      BY DEF UnfinishedMove
    <3>4. UnfinishedMove(j) => moves[j].env # e
      BY <1>2, <2>3
    <3> QED
      BY <2>1, <2>3, <3>1, <3>2, <3>3, <3>4 DEF MoveInOrder
  <2> QED
    BY <2>2, <2>3
<1>4. ASSUME NEW r \in SwitchReq PROVE RequestInOrder(r)'
  <2>1. RequestInOrder(r) /\ (Requested(r)' <=> Requested(r))
    BY DEF InOrder, Requested
  <2>2. Requested(r) => switching[r].move.env \in SwitchEnv /\ switching[r].move.env # e
    BY <1>2 DEF SwitchTypes, SwitchPrepared
  <2> QED
    BY <2>1, <2>2 DEF RequestInOrder
<1>5. ASSUME NEW f \in SwitchEnv, f # e PROVE EnvInOrder(f)'
  <2>1. EnvInOrder(f)
    BY DEF InOrder
  <2>2. ASSUME NEW j \in DOMAIN moves, moves[j].env = f, Shifting(j)
        PROVE  j \in DOMAIN moves' /\ moves'[j].env = f /\ Shifting(j)'
    BY <1>1, <1>5, <2>2 DEF Shifting
  <2>3. SlotOf(f) = traffic[f] \/ \E j \in DOMAIN moves' : moves'[j].env = f /\ Shifting(j)'
    BY <2>1, <2>2 DEF EnvInOrder
  <2>4. SlotOf(f)' = SlotOf(f) /\ latest'[f] = latest[f] /\ traffic'[f] = traffic[f]
    BY <1>5
  <2> QED
    BY <2>1, <2>3, <2>4 DEF EnvInOrder
<1>6. EnvInOrder(e)'
  <2>1. effect'[e] = "unset"
    BY <1>2
  <2>2. new.kind = "switch" /\ new.status \in {"shifted", "recording"} =>
           moves'[i].env = e /\ Shifting(i)'
    BY <1>1 DEF Shifting
  <2>3. SlotOf(e)' = traffic'[e] \/ \E j \in DOMAIN moves' : moves'[j].env = e /\ Shifting(j)'
    BY <1>1, <2>2
  <2> QED
    BY <2>1, <2>3 DEF EnvInOrder
<1> QED
  BY <1>1, <1>3, <1>4, <1>5, <1>6 DEF InOrder

\* What is known of the environment of an unfinished move.
LEMMA MoveFound ==
    ASSUME SwitchTypes, InOrder, NEW i \in DOMAIN moves
    PROVE  /\ moves[i] \in Move /\ moves[i].env \in SwitchEnv
           /\ moves[i].active \in Slot \cup {"unset"}
           /\ moves[i].kind = "switch" => moves[i].active \in Slot
           /\ MoveInOrder(i) /\ EnvInOrder(moves[i].env)
           /\ form # NoStrategy => form = strategy
           /\ \A j \in DOMAIN moves : moves[j].status = "recording" => moves[j].copy = strategy
BY MoveKeeps DEF InOrder, MoveInOrder, SwitchTypes, SwitchTypeOK, Move

LEMMA ShiftInOrder ==
    ASSUME SwitchTypes, InOrder, Alone, NEW i \in DOMAIN moves, ShiftTraffic(i)
    PROVE  InOrder'
<1> DEFINE m == moves[i]
           d == Details("shift", FALSE, m.active)
<1>1. /\ m \in Move /\ m.env \in SwitchEnv /\ m.active \in Slot \cup {"unset"}
      /\ m.kind = "switch" => m.active \in Slot
      /\ MoveInOrder(i) /\ EnvInOrder(m.env)
      /\ form # NoStrategy => form = strategy
      /\ \A j \in DOMAIN moves : moves[j].status = "recording" => moves[j].copy = strategy
  BY MoveFound
<1>2. /\ m.status = "queued" /\ UNCHANGED <<effect, switching, form, strategy>>
      /\ MoveGoes(i, "shifted") /\ SetDetails(m.env, m.deploy, d)
      /\ traffic' = IF m.kind = "switch" THEN [traffic EXCEPT ![m.env] = Other(m.active)] ELSE traffic
  BY DEF ShiftTraffic, MoveAt
<1>3. UnfinishedMove(i) /\ (m.deploy = latest[m.env].number \/ ~latest[m.env].details.pending)
  BY <1>1, <1>2 DEF UnfinishedMove, MoveInOrder
<1>4. d \in DeployDetails /\ ~d.pending
  BY <1>1, DetailsTyped DEF Details
<1>5. PICK new \in Move : /\ moves' = [moves EXCEPT ![i] = new] /\ new.status = "shifted"
                          /\ new.kind = m.kind /\ new.env = m.env
                          /\ new.deploy = m.deploy /\ new.active = m.active
  BY <1>2, MoveGoesOn
<1>7. EnvInOrder(m.env) /\ (SlotOf(m.env) = traffic[m.env] \/ m.kind = "switch")
  <2>1. \A j \in DOMAIN moves : moves[j].env = m.env /\ Shifting(j) => FALSE
    BY <1>2, <1>3 DEF Alone, Shifting, UnfinishedMove
  <2> QED
    BY <1>1, <2>1 DEF EnvInOrder
<1> HIDE DEF d
<1>8. /\ latest' \in [SwitchEnv -> Latest]
      /\ \A f \in SwitchEnv : f # m.env => latest'[f] = latest[f]
      /\ \A f \in SwitchEnv : latest'[f].number = latest[f].number
      /\ ~latest'[m.env].details.pending
  BY <1>1, <1>2, <1>3, <1>4, SwitchTypesOf, DetailsSet
<1> HIDE DEF m
<1>9. /\ \A f \in SwitchEnv : f # m.env => traffic'[f] = traffic[f]
      /\ m.kind = "switch" => traffic'[m.env] = Other(m.active)
      /\ m.kind # "switch" => traffic' = traffic
  BY <1>1, <1>2, SwitchTypesOf
<1>10. InOrder'
  <2>1. m = moves[i]
    BY DEF m
  <2>2. \A f \in SwitchEnv : SlotOf(f)' = SlotOf(f)
    BY <1>2, SlotKept
  <2>3. PICK e \in SwitchEnv : e = m.env
    BY <1>1
  <2>4. SlotOf(e)' = traffic'[e] \/ (new.kind = "switch" /\ new.status \in {"shifted", "recording"})
    BY <1>5, <1>7, <1>9, <2>2, <2>3
  <2>5. strategy'.type = strategy.type /\ ~latest'[e].details.pending
    BY <1>2, <1>4, <1>8, <2>3
  <2>6. \A f \in SwitchEnv : /\ latest'[f].number = latest[f].number
                             /\ f # e => /\ latest'[f] = latest[f] /\ traffic'[f] = traffic[f]
                                         /\ SlotOf(f)' = SlotOf(f)
    BY <1>8, <1>9, <2>2, <2>3
  <2>7. new.kind = "switch" => traffic'[e] = Other(new.active)
    BY <1>5, <1>9, <2>3
  <2>8. UnfinishedMove(i) /\ e = moves[i].env /\ new.kind = moves[i].kind /\ new.env = e
        /\ new.deploy = moves[i].deploy /\ new.active = moves[i].active
        /\ moves' = [moves EXCEPT ![i] = new] /\ new.status = "shifted"
    BY <1>3, <1>5, <2>1, <2>3
  <2>9. AboutSame(e)
    BY <2>5 DEF AboutSame
  <2> QED
    BY <1>1, <1>2, <2>4, <2>5, <2>6, <2>7, <2>8, <2>9, MoveStaysInOrder
<1> QED
  BY <1>10

\* The service of a switch is blue-green: the worker holds its strategy.
LEMMA ReadInOrder ==
    ASSUME SwitchTypes, InOrder, Alone, NEW i \in DOMAIN moves, ReadStrategy(i)
    PROVE  InOrder'
<1> DEFINE m == moves[i]
<1>1. /\ m \in Move /\ m.env \in SwitchEnv
      /\ MoveInOrder(i) /\ EnvInOrder(m.env)
      /\ form # NoStrategy => form = strategy
      /\ \A j \in DOMAIN moves : moves[j].status = "recording" => moves[j].copy = strategy
  BY MoveFound
<1>2. /\ m.status = "shifted" /\ m.kind = "switch" /\ strategy.type = "blue-green"
      /\ UNCHANGED <<effect, switching, form, strategy, latest, traffic>>
      /\ moves' = [moves EXCEPT ![i].copy = strategy,
                                ![i].status = IF strategy.type = "blue-green" THEN "recording"
                                              ELSE "recorded"]
  BY <1>1 DEF ReadStrategy, MoveAt, MoveInOrder
<1> DEFINE read == [[m EXCEPT !.copy = strategy] EXCEPT !.status = "recording"]
<1>3. moves' = [moves EXCEPT ![i] = read]
  BY <1>2
<1>4. strategy \in Strategy /\ [m EXCEPT !.copy = strategy] \in Move
  BY <1>1, SwitchTypesOf DEF Move
<1>5. /\ read \in Move /\ read.status = "recording" /\ read.kind = m.kind /\ read.env = m.env
      /\ read.deploy = m.deploy /\ read.active = m.active /\ read.copy = strategy
  BY <1>1, <1>4 DEF Move
<1> HIDE DEF read
<1>6. UnfinishedMove(i) /\ Shifting(i)
  BY <1>2 DEF UnfinishedMove, Shifting
<1>7. traffic[m.env] = Other(m.active) /\ ~latest[m.env].details.pending
  BY <1>1, <1>6 DEF MoveInOrder
<1> HIDE DEF m
<1>8. m = moves[i]
  BY DEF m
<1>9. InOrder'
  <2>1. \A f \in SwitchEnv : SlotOf(f)' = SlotOf(f)
    BY <1>2, SlotKept
  <2>2. PICK e \in SwitchEnv, new \in Move : e = m.env /\ new = read
    BY <1>1, <1>5
  <2>3. /\ UnfinishedMove(i) /\ e = moves[i].env /\ new.kind = moves[i].kind /\ new.env = e
        /\ new.deploy = moves[i].deploy /\ new.active = moves[i].active
        /\ moves' = [moves EXCEPT ![i] = new] /\ new.status = "recording"
        /\ new.kind = "switch" /\ new.copy = strategy'
    BY <1>2, <1>3, <1>5, <1>6, <1>8, <2>2
  <2>4. traffic'[e] = Other(new.active) /\ ~latest'[e].details.pending
    BY <1>2, <1>5, <1>7, <2>2
  <2>5. /\ strategy'.type = strategy.type
        /\ form # NoStrategy => form = strategy'
        /\ \A j \in DOMAIN moves : moves[j].status = "recording" => moves[j].copy = strategy'
        /\ \A f \in SwitchEnv : /\ latest'[f].number = latest[f].number
                                /\ f # e => /\ latest'[f] = latest[f] /\ traffic'[f] = traffic[f]
                                            /\ SlotOf(f)' = SlotOf(f)
    BY <1>1, <1>2, <2>1
  <2>6. UNCHANGED <<effect, switching, form>> /\ new.status # "queued"
        /\ new.status \in {"shifted", "recording"} /\ e \in SwitchEnv /\ new \in Move
    BY <1>2, <2>3
  <2>7. AboutSame(e)
    BY <2>4 DEF AboutSame
  <2> QED
    BY <2>3, <2>4, <2>5, <2>6, <2>7, MoveStaysInOrder
<1> QED
  BY <1>9

\* The copy is the strategy, so that only the slot of the switch changes.
LEMMA RecordInOrder ==
    ASSUME SwitchTypes, InOrder, Alone, NEW i \in DOMAIN moves, RecordSlot(i)
    PROVE  InOrder'
<1> DEFINE m == moves[i]
           recorded == [[m EXCEPT !.status = "recorded"] EXCEPT !.copy = NoStrategy]
<1>1. /\ m \in Move /\ m.env \in SwitchEnv
      /\ MoveInOrder(i) /\ EnvInOrder(m.env)
      /\ m.kind = "switch" => m.active \in Slot
  BY MoveFound
<1>2. /\ m.status = "recording" /\ UNCHANGED <<effect, switching, form, latest, traffic>>
      /\ strategy' = [m.copy EXCEPT !.slots[m.env] = Other(m.active)]
      /\ moves' = [moves EXCEPT ![i] = recorded]
  BY DEF RecordSlot, MoveAt
<1>3. /\ m.kind = "switch" /\ m.copy = strategy /\ strategy.type = "blue-green"
      /\ UnfinishedMove(i) /\ Shifting(i)
      /\ traffic[m.env] = Other(m.active) /\ ~latest[m.env].details.pending
  BY <1>1, <1>2 DEF MoveInOrder, Shifting, UnfinishedMove
<1>4. form = NoStrategy /\ \A j \in DOMAIN moves : moves[j].status = "recording" => i = j
  BY <1>2 DEF Alone
<1>5. [m EXCEPT !.status = "recorded"] \in Move
  BY <1>1 DEF Move
<1>6. /\ recorded \in Move /\ recorded.status = "recorded" /\ recorded.kind = m.kind
      /\ recorded.env = m.env /\ recorded.deploy = m.deploy /\ recorded.active = m.active
  BY <1>1, <1>5 DEF Move
<1> HIDE DEF recorded
<1>7. Other(m.active) \in Slot /\ strategy \in Strategy
  BY <1>1, <1>3, OtherSlot, SwitchTypesOf
<1>8. PICK e \in SwitchEnv, slot \in Slot, new \in Move :
         e = m.env /\ slot = Other(m.active) /\ new = recorded
  BY <1>1, <1>6, <1>7
<1>9. /\ strategy'.type = strategy.type /\ strategy'.primary = strategy.primary
      /\ strategy'.slots[e] = slot /\ \A f \in SwitchEnv : f # e => strategy'.slots[f] = strategy.slots[f]
  <2>1. strategy' = [strategy EXCEPT !.slots = [strategy.slots EXCEPT ![e] = slot]]
    BY <1>2, <1>3, <1>8
  <2>2. [strategy.slots EXCEPT ![e] = slot] \in [SwitchEnv -> Slot \cup {"unset"}]
    BY <1>7 DEF Strategy
  <2> DEFINE slots == [strategy.slots EXCEPT ![e] = slot]
  <2>3. slots[e] = slot /\ \A f \in SwitchEnv : f # e => slots[f] = strategy.slots[f]
    BY <1>7 DEF Strategy
  <2>4. PICK s \in [SwitchEnv -> Slot \cup {"unset"}] : s = slots
    BY <2>2
  <2> HIDE DEF slots
  <2>5. strategy' = [strategy EXCEPT !.slots = s]
    BY <2>1, <2>4 DEF slots
  <2>6. strategy'.slots = s
        /\ strategy'.type = strategy.type /\ strategy'.primary = strategy.primary
    BY <1>7, <2>5 DEF Strategy
  <2> QED
    BY <2>3, <2>4, <2>6
<1>10. SlotOf(e)' = slot /\ \A f \in SwitchEnv : f # e => SlotOf(f)' = SlotOf(f)
  BY <1>9 DEF SlotOf, EnvironmentSlot
<1> HIDE DEF m
<1>11. m = moves[i]
  BY DEF m
<1>12. InOrder'
  <2>1. /\ UnfinishedMove(i) /\ e = moves[i].env /\ new.kind = moves[i].kind /\ new.env = e
        /\ new.deploy = moves[i].deploy /\ new.active = moves[i].active
        /\ moves' = [moves EXCEPT ![i] = new] /\ new.status = "recorded"
    BY <1>2, <1>3, <1>6, <1>8, <1>11
  <2>2. /\ strategy'.type = strategy.type
        /\ form # NoStrategy => form = strategy'
        /\ \A j \in DOMAIN moves : j # i /\ moves[j].status = "recording" => moves[j].copy = strategy'
        /\ \A f \in SwitchEnv : /\ latest'[f].number = latest[f].number
                                /\ f # e => /\ latest'[f] = latest[f] /\ traffic'[f] = traffic[f]
                                            /\ SlotOf(f)' = SlotOf(f)
    BY <1>2, <1>4, <1>9, <1>10
  <2>3. ~latest'[e].details.pending /\ SlotOf(e)' = traffic'[e]
    BY <1>2, <1>3, <1>8, <1>10
  <2>4. UNCHANGED <<effect, switching, form>>
    BY <1>2
  <2>5. AboutSame(e)
    BY <2>3 DEF AboutSame
  <2> QED
    BY <2>1, <2>2, <2>3, <2>4, <2>5, MoveStaysInOrder
<1> QED
  BY <1>12

\* A move that succeeds or fails has not moved the traffic, or has recorded it.
LEMMA EndedInOrder ==
    ASSUME SwitchTypes, InOrder, Alone, NEW i \in DOMAIN moves,
           NEW status \in {"succeeded", "failed"}, MoveGoes(i, status),
           UnfinishedMove(i), ~Shifting(i),
           UNCHANGED <<effect, switching, form, strategy, traffic>>,
           \A f \in SwitchEnv : /\ f # moves[i].env => latest'[f] = latest[f]
                                /\ latest'[f].number = latest[f].number
                                /\ \/ latest'[f] = latest[f]
                                   \/ ~latest'[f].details.pending
                                   \/ latest'[f].details.active = "unset"
    PROVE  InOrder'
<1>1. PICK e \in SwitchEnv : e = moves[i].env
  BY MoveFound
<1>2. PICK new \in Move : /\ moves' = [moves EXCEPT ![i] = new] /\ new.status = status
                          /\ new.kind = moves[i].kind /\ new.env = moves[i].env
                          /\ new.deploy = moves[i].deploy /\ new.active = moves[i].active
  BY MoveGoesOn
<1>3. EnvInOrder(e) /\ ("unset" \notin Slot)
  BY DEF InOrder, Slot
<1>4. \A f \in SwitchEnv : SlotOf(f)' = SlotOf(f)
  BY SlotKept
<1>5. SlotOf(e) = traffic[e]
  <2>1. \A j \in DOMAIN moves : moves[j].env = e /\ Shifting(j) => FALSE
    BY <1>1 DEF Alone, Shifting, UnfinishedMove
  <2> QED
    BY <1>3, <2>1 DEF EnvInOrder
<1>6. latest'[e].details.pending /\ latest'[e].details.active \in Slot =>
         latest'[e].details.active = SlotOf(e)'
  <2>1. latest[e].details.pending /\ latest[e].details.active \in Slot =>
           latest[e].details.active = SlotOf(e)
    BY <1>3 DEF EnvInOrder
  <2>2. latest'[e] = latest[e] \/ ~latest'[e].details.pending \/ latest'[e].details.active = "unset"
    OBVIOUS
  <2> QED
    BY <1>3, <1>4, <2>1, <2>2
<1>7. /\ strategy'.type = strategy.type
      /\ form # NoStrategy => form = strategy'
      /\ \A j \in DOMAIN moves : moves[j].status = "recording" => moves[j].copy = strategy'
      /\ \A f \in SwitchEnv : /\ latest'[f].number = latest[f].number
                              /\ f # e => /\ latest'[f] = latest[f] /\ traffic'[f] = traffic[f]
                                          /\ SlotOf(f)' = SlotOf(f)
  BY <1>1, <1>4 DEF InOrder, MoveInOrder
<1>8. SlotOf(e)' = traffic'[e] /\ new.status \in {"succeeded", "failed"}
  BY <1>2, <1>4, <1>5
<1>9. new.env = e /\ UNCHANGED <<effect, switching, form>>
  BY <1>1, <1>2
<1> QED
  BY <1>1, <1>2, <1>6, <1>7, <1>8, <1>9, MoveStaysInOrder

LEMMA SuccessInOrder ==
    ASSUME SwitchTypes, InOrder, Alone, NEW i \in DOMAIN moves, MoveSucceeded(i)
    PROVE  InOrder'
<1> DEFINE m == moves[i]
           slot == IF m.kind = "switch" THEN EnvironmentSlot(strategy, m.env) ELSE "unset"
           d == Details("none", FALSE, slot)
<1>1. PICK e \in SwitchEnv : e = m.env
  BY MoveKeeps
<1>2. UnfinishedMove(i) /\ ~Shifting(i)
  BY DEF MoveSucceeded, MoveAt, UnfinishedMove, Shifting
<1>3. /\ UNCHANGED <<effect, switching, form, strategy, traffic>>
      /\ MoveGoes(i, "succeeded") /\ SetDetails(e, latest[e].number, d)
  BY <1>1 DEF MoveSucceeded, MoveAt
<1>4. slot \in Slot \cup {"unset"}
  BY <1>1, SlotTyped, SwitchTypesOf
<1>5. d \in DeployDetails /\ ~d.pending
  BY <1>4, DetailsTyped DEF Details
<1> HIDE DEF d, slot
<1>6. /\ \A f \in SwitchEnv : f # e => latest'[f] = latest[f]
      /\ \A f \in SwitchEnv : latest'[f].number = latest[f].number
      /\ latest'[e].details = d
  BY <1>3, <1>5, SwitchTypesOf, DetailsSet
<1>7. \A f \in SwitchEnv : /\ f # moves[i].env => latest'[f] = latest[f]
                           /\ latest'[f].number = latest[f].number
                           /\ latest'[f] = latest[f] \/ ~latest'[f].details.pending
  BY <1>1, <1>5, <1>6
<1> QED
  BY <1>2, <1>3, <1>7, EndedInOrder

LEMMA FailureInOrder ==
    ASSUME SwitchTypes, InOrder, Alone, NEW i \in DOMAIN moves, MoveFailed(i)
    PROVE  InOrder'
<1>1. /\ UnfinishedMove(i) /\ ~Shifting(i)
      /\ UNCHANGED <<effect, switching, form, strategy, traffic>>
      /\ MoveGoes(i, "failed") /\ FailDetails(moves[i])
  BY DEF MoveFailed, MoveAt, UnfinishedMove, Shifting
<1>2. /\ \A f \in SwitchEnv : /\ latest'[f].number = latest[f].number
                              /\ f # moves[i].env => latest'[f] = latest[f]
                              /\ \/ latest'[f] = latest[f]
                                 \/ latest'[f].details.active = "unset"
  BY <1>1, FailDetailsTyped
<1> QED
  BY <1>1, <1>2, EndedInOrder

\* A lost move and a strategy without its slots end the order, not the types.
LEMMA LostTyped ==
    ASSUME SwitchTypes, NEW i \in DOMAIN moves, MoveLost(i)
    PROVE  SwitchTypes'
<1> DEFINE lost == [[moves[i] EXCEPT !.status = "failed"] EXCEPT !.copy = NoStrategy]
<1>1. moves[i] \in Move
  BY MoveKeeps
<1>2. [moves[i] EXCEPT !.status = "failed"] \in Move
  BY <1>1 DEF Move
<1>3. /\ lost \in Move /\ lost.status = "failed" /\ lost.kind = moves[i].kind
      /\ lost.env = moves[i].env /\ lost.active = moves[i].active
  BY <1>1, <1>2 DEF Move
<1>4. /\ UNCHANGED <<effect, switching, form, strategy, traffic>>
      /\ moves' = [moves EXCEPT ![i] = lost] /\ FailDetails(moves[i])
  BY DEF MoveLost, MoveAt
<1> HIDE DEF lost
<1>5. /\ latest' \in [SwitchEnv -> Latest]
      /\ \A f \in SwitchEnv : latest'[f].number = latest[f].number
  BY <1>4, FailDetailsTyped
<1> QED
  BY <1>3, <1>4, <1>5, SwitchTypesOf, MoveTyped

LEMMA StrategyTyped ==
    ASSUME SwitchTypes, NEW type \in {"canary", "blue-green"}, NEW primary \in Slot,
           SaveStrategyType(type, primary)
    PROVE  SwitchTypes'
<1>1. strategy' \in Strategy
  BY DEF SaveStrategyType, Strategy, NoStrategy
<1> QED
  BY <1>1, FormTyped DEF SaveStrategyType

\* What a client holds is the strategy.
LEMMA FormInOrder ==
    ASSUME SwitchTypes, InOrder, OpenForm \/ SaveStrategy
    PROVE  InOrder'
<1>1. /\ UNCHANGED <<strategy, latest, effect, switching, moves, traffic>>
      /\ form' \in {strategy, NoStrategy}
  BY DEF OpenForm, SaveStrategy, InOrder
<1>2. \A i \in DOMAIN moves' : MoveInOrder(i)'
  BY <1>1, MovesStayInOrder DEF AboutSame
<1>3. \A r \in SwitchReq : RequestInOrder(r)'
  BY <1>1 DEF InOrder, RequestInOrder, Requested
<1>4. ASSUME NEW e \in SwitchEnv PROVE EnvInOrder(e)'
  <2>1. EnvInOrder(e) /\ SlotOf(e)' = SlotOf(e)
    BY <1>1, SlotKept DEF InOrder
  <2>2. SlotOf(e) = traffic[e] \/ \E i \in DOMAIN moves' : moves'[i].env = e /\ Shifting(i)'
    BY <1>1, <2>1, ShiftingStays DEF EnvInOrder
  <2> QED
    BY <1>1, <2>1, <2>2 DEF EnvInOrder
<1> QED
  BY <1>1, <1>2, <1>3, <1>4 DEF InOrder
-----------------------------------------------------------------------------
(* TrafficSwitch: theorems *)

SwitchInv == SwitchTypes /\ (orderly => InOrder /\ ~Disorder)

LEMMA OrderlyStep ==
    ASSUME SwitchTypes, InOrder, Alone,
           \/ \E e \in SwitchEnv : \/ StartDeploy(e) \/ BeginEffect(e) \/ EndEffect(e)
                                  \/ FailDeploy(e)
           \/ \E r \in SwitchReq : \/ \E e \in SwitchEnv : CheckMoves(r, e)
                                   \/ PlanMove(r) \/ MarkQueued(r) \/ InsertMove(r) \/ StopSwitch(r)
           \/ \E i \in DOMAIN moves : \/ ShiftTraffic(i) \/ ReadStrategy(i) \/ RecordSlot(i)
                                      \/ MoveSucceeded(i) \/ MoveFailed(i)
           \/ OpenForm \/ SaveStrategy
    PROVE  InOrder'
<1>1. ASSUME NEW e \in SwitchEnv, StartDeploy(e) \/ BeginEffect(e) \/ EndEffect(e) \/ FailDeploy(e)
      PROVE  InOrder'
  BY <1>1, BeginInOrder, DeployInOrder
<1>2. ASSUME NEW r \in SwitchReq, NEW e \in SwitchEnv, CheckMoves(r, e) PROVE InOrder'
  BY <1>2, CheckInOrder
<1>3. ASSUME NEW r \in SwitchReq, PlanMove(r) \/ MarkQueued(r) \/ InsertMove(r) \/ StopSwitch(r)
      PROVE  InOrder'
  BY <1>3, PlanInOrder, MarkInOrder, InsertInOrder, StopInOrder
<1>4. ASSUME NEW i \in DOMAIN moves,
             ShiftTraffic(i) \/ ReadStrategy(i) \/ RecordSlot(i) \/ MoveSucceeded(i) \/ MoveFailed(i)
      PROVE  InOrder'
  BY <1>4, ShiftInOrder, ReadInOrder, RecordInOrder, SuccessInOrder, FailureInOrder
<1>5. CASE OpenForm \/ SaveStrategy
  BY <1>5, FormInOrder
<1> QED
  BY <1>1, <1>2, <1>3, <1>4, <1>5
(* TrafficSwitch: the types of every step, orderly or not *)

LEMMA MarkTyped ==
    ASSUME SwitchTypes, NEW r \in SwitchReq, MarkQueued(r)
    PROVE  SwitchTypes'
<1> DEFINE m == switching[r].move
           d == Details("queued", FALSE, m.active)
<1>1. /\ UNCHANGED <<strategy, effect, traffic, form, moves>>
      /\ SetDetails(m.env, m.deploy, d) /\ SwitchGoes(r, "insert") /\ Requested(r)
      /\ switching[r].pc = "mark"
  BY DEF MarkQueued, SwitchStep, Requested
<1>2. PICK new \in Switching : /\ switching' = [switching EXCEPT ![r] = new]
                               /\ new.pc = "insert" /\ new.move = m
  BY <1>1, SwitchGoesOn
<1>3. /\ m.kind # "none" /\ m.env \in SwitchEnv /\ m.status = "queued"
      /\ m.kind = "switch" => m.active \in Slot
  BY <1>1 DEF SwitchTypes, SwitchPrepared
<1>4. m.active \in Slot \cup {"unset"}
  BY SwitchTypesOf DEF Switching, Move
<1>5. d \in DeployDetails
  BY <1>4, DetailsTyped
<1> HIDE DEF d
<1>6. /\ latest' \in [SwitchEnv -> Latest]
      /\ \A f \in SwitchEnv : latest'[f].number = latest[f].number
  BY <1>1, <1>3, <1>5, SwitchTypesOf, DetailsSet
<1> HIDE DEF m
<1> QED
  BY <1>1, <1>2, <1>3, <1>6, RequestTyped

LEMMA StopTyped ==
    ASSUME SwitchTypes, NEW r \in SwitchReq, StopSwitch(r)
    PROVE  SwitchTypes'
<1>1. UNCHANGED <<strategy, effect, traffic, form, latest, moves>> /\ SwitchGoes(r, "done")
  BY DEF StopSwitch, SwitchStep
<1>2. PICK new \in Switching : switching' = [switching EXCEPT ![r] = new] /\ new.pc = "done"
  BY <1>1, SwitchGoesOn
<1>3. latest \in [SwitchEnv -> Latest]
  BY SwitchTypesOf
<1> QED
  BY <1>1, <1>2, <1>3, RequestTyped

LEMMA InsertTyped ==
    ASSUME SwitchTypes, NEW r \in SwitchReq, InsertMove(r)
    PROVE  SwitchTypes'
<1> DEFINE m == switching[r].move
<1>1. /\ UNCHANGED <<strategy, effect, traffic, form, latest>> /\ switching[r].pc = "insert"
      /\ moves' = Append(moves, m) /\ SwitchGoes(r, "done") /\ Requested(r)
  BY DEF InsertMove, SwitchStep, Requested
<1>2. PICK new \in Switching : switching' = [switching EXCEPT ![r] = new] /\ new.pc = "done"
  BY <1>1, SwitchGoesOn
<1>3. /\ switching' \in [SwitchReq -> Switching] /\ switching'[r] = new
      /\ \A q \in SwitchReq : q # r => switching'[q] = switching[q]
  BY <1>2, SwitchTypesOf
<1>4. /\ m \in Move /\ m.kind # "none" /\ m.env \in SwitchEnv /\ m.status = "queued"
      /\ m.kind = "switch" => m.active \in Slot
  BY <1>1, SwitchTypesOf DEF SwitchTypes, SwitchPrepared, Switching
<1> HIDE DEF m
<1>5. /\ moves' \in Seq(Move)
      /\ \A j \in DOMAIN moves' : \/ j \in DOMAIN moves /\ moves'[j] = moves[j]
                                  \/ j \notin DOMAIN moves /\ moves'[j] = m
  BY <1>1, <1>4, SwitchTypesOf, MoveAppended
<1>6. \A q \in SwitchReq : Requested(q)' => Requested(q) /\ switching'[q] = switching[q]
  BY <1>2, <1>3 DEF Requested
<1>7. \A j \in DOMAIN moves' : /\ moves'[j].kind # "none" /\ moves'[j].env \in SwitchEnv
                               /\ moves'[j].kind = "switch" => moves'[j].active \in Slot
                               /\ moves'[j].status = "recording" => moves'[j].copy \in Strategy
  BY <1>4, <1>5 DEF SwitchTypes, SwitchTypeOK, SwitchPrepared
<1>8. SwitchTypeOK'
  BY <1>1, <1>3, <1>5, <1>7 DEF SwitchTypes, SwitchTypeOK, Switching
<1>9. SwitchPrepared'
  BY <1>1, <1>6, <1>7 DEF SwitchTypes, SwitchPrepared
<1> QED
  BY <1>8, <1>9 DEF SwitchTypes

LEMMA ShiftTyped ==
    ASSUME SwitchTypes, NEW i \in DOMAIN moves, ShiftTraffic(i)
    PROVE  SwitchTypes'
<1>1. PICK m \in Move : m = moves[i] /\ m.env \in SwitchEnv /\ (m.kind = "switch" => Other(m.active) \in Slot)
  BY MoveKeeps
<1> DEFINE d == Details("shift", FALSE, m.active)
<1>2. /\ UNCHANGED <<effect, switching, form, strategy>>
      /\ MoveGoes(i, "shifted") /\ SetDetails(m.env, m.deploy, d)
      /\ traffic' = IF m.kind = "switch" THEN [traffic EXCEPT ![m.env] = Other(m.active)] ELSE traffic
  BY <1>1 DEF ShiftTraffic, MoveAt
<1>3. d \in DeployDetails
  BY DetailsTyped DEF Move
<1>4. PICK new \in Move : /\ moves' = [moves EXCEPT ![i] = new] /\ new.status = "shifted"
                          /\ new.kind = m.kind /\ new.env = m.env
                          /\ new.deploy = m.deploy /\ new.active = m.active
  BY <1>1, <1>2, MoveGoesOn
<1> HIDE DEF d
<1>5. /\ latest' \in [SwitchEnv -> Latest]
      /\ \A f \in SwitchEnv : latest'[f].number = latest[f].number
  BY <1>1, <1>2, <1>3, SwitchTypesOf, DetailsSet
<1>6. traffic' \in [SwitchEnv -> Slot]
  BY <1>1, <1>2, SwitchTypesOf
<1> QED
  BY <1>1, <1>2, <1>4, <1>5, <1>6, SwitchTypesOf, MoveTyped

LEMMA ReadTyped ==
    ASSUME SwitchTypes, NEW i \in DOMAIN moves, ReadStrategy(i)
    PROVE  SwitchTypes'
<1>1. PICK m \in Move : m = moves[i]
  BY MoveKeeps
<1>2. /\ UNCHANGED <<effect, switching, form, strategy, latest, traffic>>
      /\ moves' = [moves EXCEPT ![i].copy = strategy,
                                ![i].status = IF strategy.type = "blue-green" THEN "recording"
                                              ELSE "recorded"]
  BY DEF ReadStrategy, MoveAt
<1>3. PICK status \in {"recording", "recorded"} :
         moves' = [moves EXCEPT ![i].copy = strategy, ![i].status = status]
  BY <1>2
<1> DEFINE read == [[m EXCEPT !.copy = strategy] EXCEPT !.status = status]
<1>4. moves' = [moves EXCEPT ![i] = read]
  BY <1>1, <1>3
<1>5. strategy \in Strategy /\ [m EXCEPT !.copy = strategy] \in Move
  BY SwitchTypesOf DEF Move
<1>6. /\ read \in Move /\ read.kind = m.kind /\ read.env = m.env
      /\ read.active = m.active /\ read.copy = strategy
  BY <1>5 DEF Move
<1> HIDE DEF read
<1> QED
  BY <1>1, <1>2, <1>4, <1>5, <1>6, SwitchTypesOf, MoveTyped

LEMMA RecordTyped ==
    ASSUME SwitchTypes, NEW i \in DOMAIN moves, RecordSlot(i)
    PROVE  SwitchTypes'
<1>1. PICK m \in Move : m = moves[i]
  BY MoveKeeps
<1> DEFINE recorded == [[m EXCEPT !.status = "recorded"] EXCEPT !.copy = NoStrategy]
<1>2. /\ m.status = "recording" /\ UNCHANGED <<effect, switching, form, latest, traffic>>
      /\ strategy' = [m.copy EXCEPT !.slots[m.env] = Other(m.active)]
      /\ moves' = [moves EXCEPT ![i] = recorded]
  BY <1>1 DEF RecordSlot, MoveAt
<1>3. m.copy \in Strategy
  BY <1>1, <1>2 DEF SwitchTypes, SwitchPrepared
<1>4. PICK slot \in Slot : slot = Other(m.active)
  BY DEF Other, Slot
<1>5. strategy' = [m.copy EXCEPT !.slots = [m.copy.slots EXCEPT ![m.env] = slot]]
  BY <1>2, <1>4
<1>6. [m.copy.slots EXCEPT ![m.env] = slot] \in [SwitchEnv -> Slot \cup {"unset"}]
  BY <1>3 DEF Strategy
<1>7. strategy' \in Strategy
  BY <1>3, <1>5, <1>6 DEF Strategy
<1>8. [m EXCEPT !.status = "recorded"] \in Move
  BY DEF Move
<1>9. /\ recorded \in Move /\ recorded.status = "recorded" /\ recorded.kind = m.kind
      /\ recorded.env = m.env /\ recorded.active = m.active
  BY <1>8 DEF Move
<1> HIDE DEF recorded
<1> QED
  BY <1>1, <1>2, <1>7, <1>9, SwitchTypesOf, MoveTyped

LEMMA EndedTyped ==
    ASSUME SwitchTypes, NEW i \in DOMAIN moves, MoveSucceeded(i) \/ MoveFailed(i)
    PROVE  SwitchTypes'
<1>1. PICK status \in {"succeeded", "failed"} : MoveGoes(i, status)
  BY DEF MoveSucceeded, MoveFailed
<1>2. PICK new \in Move : /\ moves' = [moves EXCEPT ![i] = new] /\ new.status = status
                          /\ new.kind = moves[i].kind /\ new.env = moves[i].env
                          /\ new.deploy = moves[i].deploy /\ new.active = moves[i].active
  BY <1>1, MoveGoesOn
<1>3. UNCHANGED <<effect, switching, form, strategy, traffic>>
  BY DEF MoveSucceeded, MoveFailed, MoveAt
<1>4. latest' \in [SwitchEnv -> Latest] /\ \A f \in SwitchEnv : latest'[f].number = latest[f].number
  <2>1. CASE MoveFailed(i)
    BY <2>1, FailDetailsTyped DEF MoveFailed
  <2>2. CASE MoveSucceeded(i)
    <3> DEFINE m == moves[i]
               slot == IF m.kind = "switch" THEN EnvironmentSlot(strategy, m.env) ELSE "unset"
               d == Details("none", FALSE, slot)
    <3>1. PICK e \in SwitchEnv : e = m.env
      BY MoveKeeps
    <3>2. SetDetails(e, latest[e].number, d)
      BY <2>2, <3>1 DEF MoveSucceeded
    <3>3. slot \in Slot \cup {"unset"}
      BY <3>1, SlotTyped, SwitchTypesOf
    <3>4. d \in DeployDetails
      BY <3>3, DetailsTyped
    <3> HIDE DEF d
    <3> QED
      BY <3>2, <3>4, SwitchTypesOf, DetailsSet
  <2> QED
    BY <2>1, <2>2
<1> QED
  BY <1>1, <1>2, <1>3, <1>4, SwitchTypesOf, MoveTyped

LEMMA FormsTyped ==
    ASSUME SwitchTypes, OpenForm \/ SaveStrategy
    PROVE  SwitchTypes'
<1>1. /\ UNCHANGED <<latest, effect, switching, moves, traffic>>
      /\ strategy' \in Strategy /\ form' \in Strategy \cup {NoStrategy}
  BY SwitchTypesOf DEF OpenForm, SaveStrategy
<1> QED
  BY <1>1, FormTyped

LEMMA SwitchStepTyped == SwitchTypes /\ [SwitchNext]_switchVars => SwitchTypes'
<1> SUFFICES ASSUME SwitchTypes, [SwitchNext]_switchVars PROVE SwitchTypes'
  OBVIOUS
<1>1. ASSUME NEW e \in SwitchEnv, StartDeploy(e) \/ BeginEffect(e) \/ EndEffect(e) \/ FailDeploy(e)
      PROVE  SwitchTypes'
  BY <1>1, DeployTyped
<1>2. ASSUME NEW r \in SwitchReq, NEW e \in SwitchEnv, CheckMoves(r, e) PROVE SwitchTypes'
  BY <1>2, CheckTyped
<1>3. ASSUME NEW r \in SwitchReq, PlanMove(r) \/ MarkQueued(r) \/ InsertMove(r) \/ StopSwitch(r)
      PROVE  SwitchTypes'
  BY <1>3, PlanTyped, MarkTyped, InsertTyped, StopTyped
<1>4. ASSUME NEW i \in DOMAIN moves, ShiftTraffic(i) \/ ReadStrategy(i) \/ RecordSlot(i)
      PROVE  SwitchTypes'
  BY <1>4, ShiftTyped, ReadTyped, RecordTyped
<1>5. ASSUME NEW i \in DOMAIN moves, MoveSucceeded(i) \/ MoveFailed(i) \/ MoveLost(i)
      PROVE  SwitchTypes'
  BY <1>5, EndedTyped, LostTyped
<1>6. CASE OpenForm \/ SaveStrategy
  BY <1>6, FormsTyped
<1>7. ASSUME NEW t \in {"canary", "blue-green"}, NEW p \in Slot, SaveStrategyType(t, p)
      PROVE  SwitchTypes'
  BY <1>7, StrategyTyped
<1>8. CASE UNCHANGED switchVars
  BY <1>8 DEF switchVars, SwitchTypes, SwitchTypeOK, SwitchPrepared, Requested
<1> QED
  BY <1>1, <1>2, <1>3, <1>4, <1>5, <1>6, <1>7, <1>8 DEF SwitchNext

\* The types of a service's strategy, of its deploys and of the operations that
\* move its traffic.
THEOREM SwitchTypeCorrect == SwitchSpec => []SwitchTypeOK
<1>1. SwitchInit => SwitchTypes
  BY SwitchInitTyped
<1>2. SwitchTypes /\ [SwitchNext]_switchVars => SwitchTypes'
  BY SwitchStepTyped
<1>3. SwitchTypes => SwitchTypeOK
  BY DEF SwitchTypes
<1> QED
  BY <1>1, <1>2, <1>3, PTL DEF SwitchSpec

LEMMA SwitchInvStep == SwitchInv /\ [SwitchNext]_switchVars => SwitchInv'
<1> SUFFICES ASSUME SwitchInv, [SwitchNext]_switchVars PROVE SwitchInv'
  OBVIOUS
<1>1. SwitchTypes /\ SwitchTypes'
  BY SwitchStepTyped DEF SwitchInv
<1>2. CASE UNCHANGED switchVars
  <2>1. (InOrder /\ ~Disorder => InOrder' /\ ~Disorder') /\ orderly' = orderly
    BY <1>2 DEF switchVars, InOrder, MoveInOrder, RequestInOrder, EnvInOrder, Shifting, Requested,
                UnfinishedMove, SlotOf, EnvironmentSlot, Disorder, Copies, Activity
  <2> QED
    BY <1>1, <2>1 DEF SwitchInv
<1>3. CASE SwitchNext /\ orderly'
  <2>1. /\ orderly /\ ~Disorder'
        /\ \/ \E e \in SwitchEnv : \/ StartDeploy(e) \/ BeginEffect(e) \/ EndEffect(e)
                                  \/ FailDeploy(e)
           \/ \E r \in SwitchReq : \/ \E e \in SwitchEnv : CheckMoves(r, e)
                                   \/ PlanMove(r) \/ MarkQueued(r) \/ InsertMove(r) \/ StopSwitch(r)
           \/ \E i \in DOMAIN moves : \/ ShiftTraffic(i) \/ ReadStrategy(i) \/ RecordSlot(i)
                                      \/ MoveSucceeded(i) \/ MoveFailed(i)
           \/ OpenForm \/ SaveStrategy
    BY <1>3 DEF SwitchNext
  <2>2. InOrder /\ Alone
    BY <2>1, OrderMeansAlone DEF SwitchInv
  <2>3. InOrder'
    BY <1>1, <2>1, <2>2, OrderlyStep
  <2> QED
    BY <1>1, <2>1, <2>3 DEF SwitchInv
<1>4. CASE SwitchNext /\ ~orderly'
  BY <1>1, <1>4 DEF SwitchInv
<1> QED
  BY <1>2, <1>3, <1>4

\* The slot that a switch calls active is the one its environment's traffic is
\* on, for any number of environments and requests, as long as nothing is out
\* of the order that SwitchNamesLiveSlot lists.
THEOREM SwitchesAreLive == SwitchSpec => []SwitchNamesLiveSlot
<1>1. SwitchInit => SwitchInv
  BY SwitchInitTyped, SwitchInitInOrder DEF SwitchInv
<1>2. SwitchInv /\ [SwitchNext]_switchVars => SwitchInv'
  BY SwitchInvStep
<1>3. SwitchInv => SwitchNamesLiveSlot
  BY DEF SwitchInv, InOrder, MoveInOrder, SwitchNamesLiveSlot
<1> QED
  BY <1>1, <1>2, <1>3, PTL DEF SwitchSpec
-----------------------------------------------------------------------------
(* ServiceSettings: documents and payloads *)

\* A set of positions has a last one.
LEMMA MaxInSet ==
    ASSUME NEW n \in Nat, NEW S, S \subseteq 1 .. n, S # {}
    PROVE  Max(S) \in S /\ \A y \in S : Max(S) >= y
<1> DEFINE From(x) == {y \in S : y >= x}
           T == {From(x) : x \in S}
<1>1. IsFiniteSet(S)
  <2>1. IsFiniteSet(1 .. n)
    BY FS_Interval
  <2> QED
    BY <2>1, FS_Subset
<1>2. IsWellFoundedOn(StrictSubsetOrdering(S), SUBSET S)
  BY <1>1, FS_StrictSubsetOrderingWellFounded, FS_FiniteSubsetsOfFinite
<1>3. T \subseteq SUBSET S /\ T # {}
  OBVIOUS
<1>4. PICK t \in T : \A u \in T : ~(<<u, t>> \in StrictSubsetOrdering(S))
  <2> HIDE DEF T
  <2> QED
    BY <1>2, <1>3, WFMin
<1>5. PICK x \in S : t = From(x)
  BY <1>4
<1>6. \A y \in S : x >= y
  <2> SUFFICES ASSUME NEW y \in S, y > x PROVE FALSE
    OBVIOUS
  <2>1. x \in From(x) /\ x \notin From(y) /\ From(y) \subseteq From(x)
    <3>1. \A z \in S : z \in Int
      OBVIOUS
    <3>2. x \in Int /\ y \in Int /\ ~(x >= y) /\ x >= x
      BY <3>1
    <3>3. \A z \in S : z >= y => z >= x
      BY <3>1, <3>2
    <3> QED
      BY <3>2, <3>3
  <2>2. From(y) \in T
    OBVIOUS
  <2>3. From(x) \subseteq S /\ From(y) \subseteq S
    OBVIOUS
  <2> HIDE DEF From, T
  <2>4. <<From(y), From(x)>> \in StrictSubsetOrdering(S)
    BY <2>1, <2>3 DEF StrictSubsetOrdering
  <2> QED
    BY <1>4, <1>5, <2>2, <2>4
<1> QED
  BY <1>6 DEF Max

Field == {"mode", "source", "size", "port", "minReplicas", "maxReplicas", "replicas", "schedule",
          "strategy", "active", "autoDeploy", "status"}

\* What a payload may give for the fields of a service.
Fits(p) ==
    /\ Given(p, "mode") => p["mode"] \in {"managed", "observed"}
    /\ \A f \in {"source", "size", "schedule", "strategy"} : Given(p, f) => p[f] \in STRING
    /\ \A f \in {"port", "minReplicas", "maxReplicas", "replicas"} : Given(p, f) => p[f] \in Int
    /\ \A f \in {"active", "autoDeploy"} : Given(p, f) => p[f] \in BOOLEAN
    /\ Given(p, "status") => p["status"] \in {"created", "running", "pending", "idle", "error"}

LEMMA SettingsFit == ASSUME NEW p \in Settings PROVE Fits(p)
<1> DEFINE d == Overlay(InitialService, p)
<1>1. d \in ServiceOf(Int) /\ DOMAIN InitialService = Field
  BY SettingsAssumption DEF ServiceOf, ServiceDoc, Field
<1>2. \A f \in Field : Given(p, f) => d[f] = p[f]
  BY <1>1 DEF Overlay
<1> HIDE DEF d
<1>3. /\ d["mode"] \in {"managed", "observed"}
      /\ d["source"] \in STRING /\ d["size"] \in STRING /\ d["schedule"] \in STRING /\ d["strategy"] \in STRING
      /\ d["port"] \in Int /\ d["minReplicas"] \in Int /\ d["maxReplicas"] \in Int /\ d["replicas"] \in Int
      /\ d["active"] \in BOOLEAN /\ d["autoDeploy"] \in BOOLEAN
      /\ d["status"] \in {"created", "running", "pending", "idle", "error"}
  BY <1>1 DEF ServiceOf
<1> QED
  BY <1>2, <1>3 DEF Fits, Field

LEMMA OverlayFits ==
    ASSUME NEW d \in ServiceDoc, NEW p, Fits(p),
           \A f \in {"minReplicas", "maxReplicas"} : Given(p, f) => p[f] \in Nat
    PROVE  Overlay(d, p) \in ServiceDoc
<1> DEFINE o == Overlay(d, p)
<1>1. o = [f \in Field |-> IF Given(p, f) THEN p[f] ELSE d[f]]
  BY DEF Overlay, ServiceDoc, ServiceOf, Field
<1>2. \A f \in Field : o[f] = IF Given(p, f) THEN p[f] ELSE d[f]
  BY <1>1
<1>3. o = [mode |-> o["mode"], source |-> o["source"], size |-> o["size"], port |-> o["port"],
           minReplicas |-> o["minReplicas"], maxReplicas |-> o["maxReplicas"], replicas |-> o["replicas"],
           schedule |-> o["schedule"], strategy |-> o["strategy"], active |-> o["active"],
           autoDeploy |-> o["autoDeploy"], status |-> o["status"]]
  BY <1>1 DEF Field
<1> HIDE DEF o
<1>4. /\ o["mode"] \in {"managed", "observed"} /\ o["source"] \in STRING /\ o["size"] \in STRING
      /\ o["schedule"] \in STRING /\ o["strategy"] \in STRING
  BY <1>2 DEF Fits, Field, ServiceDoc, ServiceOf
<1>5. /\ o["port"] \in Int /\ o["replicas"] \in Int
      /\ o["minReplicas"] \in Nat /\ o["maxReplicas"] \in Nat
  BY <1>2 DEF Fits, Field, ServiceDoc, ServiceOf
<1>6. /\ o["active"] \in BOOLEAN /\ o["autoDeploy"] \in BOOLEAN
      /\ o["status"] \in {"created", "running", "pending", "idle", "error"}
  BY <1>2 DEF Fits, Field, ServiceDoc, ServiceOf
<1>7. [mode |-> o["mode"], source |-> o["source"], size |-> o["size"], port |-> o["port"],
           minReplicas |-> o["minReplicas"], maxReplicas |-> o["maxReplicas"], replicas |-> o["replicas"],
           schedule |-> o["schedule"], strategy |-> o["strategy"], active |-> o["active"],
           autoDeploy |-> o["autoDeploy"], status |-> o["status"]] \in ServiceDoc
  BY <1>4, <1>5, <1>6 DEF ServiceDoc, ServiceOf
<1> QED
  BY <1>3, <1>7 DEF o

LEMMA WithFields ==
    ASSUME NEW p, NEW field, NEW value
    PROVE  /\ \A f : Given(With(p, field, value), f) <=> Given(p, f) \/ f = field
           /\ \A f : Given(p, f) /\ f # field => With(p, field, value)[f] = p[f]
           /\ With(p, field, value)[field] = value
  BY DEF With, Given

Bounded(p) == \A f \in {"minReplicas", "maxReplicas"} : Given(p, f) => p[f] \in Nat \ {0}

LEMMA AtLeastOneFits ==
    ASSUME NEW p, Fits(p), NEW f \in {"minReplicas", "maxReplicas"}
    PROVE  /\ Fits(AtLeastOne(p, f))
           /\ Given(AtLeastOne(p, f), f) => AtLeastOne(p, f)[f] \in Nat \ {0}
           /\ \A g : Given(p, g) /\ g # f => AtLeastOne(p, f)[g] = p[g]
           /\ \A g : Given(AtLeastOne(p, f), g) <=> Given(p, g)
<1>1. CASE Given(p, f)
  <2>1. Or(p[f], 1) \in Nat \ {0}
    BY <1>1 DEF Or, Fits
  <2>2. AtLeastOne(p, f) = With(p, f, Or(p[f], 1))
    BY <1>1 DEF AtLeastOne
  <2>3. Fits(With(p, f, Or(p[f], 1)))
    BY <1>1, <2>1, WithFields DEF Fits
  <2> QED
    BY <1>1, <2>1, <2>2, <2>3, WithFields
<1>2. CASE ~Given(p, f)
  BY <1>2 DEF AtLeastOne
<1> QED
  BY <1>1, <1>2

LEMMA BoundsFit ==
    ASSUME NEW p, Fits(p)
    PROVE  LET q == NormalizeReplicaBounds(p) IN Fits(q) /\ Bounded(q)
<1> DEFINE a == AtLeastOne(p, "minReplicas")
           b == AtLeastOne(a, "maxReplicas")
           c == IF /\ Given(b, "minReplicas") /\ Given(b, "maxReplicas")
                   /\ b["maxReplicas"] < b["minReplicas"]
                THEN With(b, "maxReplicas", b["minReplicas"]) ELSE b
<1>1. Fits(a) /\ (Given(a, "minReplicas") => a["minReplicas"] \in Nat \ {0})
  BY AtLeastOneFits
<1>2. Fits(b) /\ Bounded(b)
  <2> HIDE DEF a
  <2>1. /\ Fits(b)
        /\ Given(b, "maxReplicas") => b["maxReplicas"] \in Nat \ {0}
        /\ Given(a, "minReplicas") => b["minReplicas"] = a["minReplicas"]
        /\ Given(b, "minReplicas") <=> Given(a, "minReplicas")
    BY <1>1, AtLeastOneFits
  <2> QED
    BY <1>1, <2>1 DEF Bounded
<1> HIDE DEF a, b
<1>3. Fits(c) /\ Bounded(c)
  <2>1. CASE Given(b, "minReplicas") /\ Given(b, "maxReplicas") /\ b["maxReplicas"] < b["minReplicas"]
    <3>1. c = With(b, "maxReplicas", b["minReplicas"])
      BY <2>1
    <3>2. b["minReplicas"] \in Nat \ {0}
      BY <1>2, <2>1 DEF Bounded
    <3> QED
      BY <1>2, <3>1, <3>2, WithFields DEF Fits, Bounded
  <2> QED
    BY <1>2, <2>1
<1>4. NormalizeReplicaBounds(p) =
        IF Given(c, "minReplicas") /\ ~Given(c, "replicas")
        THEN With(c, "replicas", c["minReplicas"]) ELSE c
  BY DEF NormalizeReplicaBounds, a, b
<1> HIDE DEF c
<1>5. CASE Given(c, "minReplicas") /\ ~Given(c, "replicas")
  <2>1. c["minReplicas"] \in Int
    BY <1>3, <1>5 DEF Fits
  <2> QED
    BY <1>3, <1>4, <1>5, <2>1, WithFields DEF Fits, Bounded
<1> QED
  BY <1>3, <1>4, <1>5

Payloads == {Normalize(p) : p \in Settings}

LEMMA PayloadsFit == ASSUME NEW p \in Payloads PROVE Fits(p) /\ Bounded(p)
<1>1. PICK s \in Settings : p = Normalize(s)
  BY DEF Payloads
<1> DEFINE q == NormalizeReplicaBounds(s)
<1>2. Fits(q) /\ Bounded(q)
  BY SettingsFit, BoundsFit
<1>3. p = IF Given(q, "mode") /\ q["mode"] = "observed" THEN With(q, "autoDeploy", FALSE) ELSE q
  BY <1>1 DEF Normalize
<1> HIDE DEF q
<1>4. CASE Given(q, "mode") /\ q["mode"] = "observed"
  <2>1. p = With(q, "autoDeploy", FALSE)
    BY <1>3, <1>4
  <2>2. \A f : Given(p, f) <=> Given(q, f) \/ f = "autoDeploy"
    BY <2>1 DEF With, Given
  <2>3. \A f : Given(q, f) /\ f # "autoDeploy" => p[f] = q[f]
    BY <2>1 DEF With, Given
  <2>4. p["autoDeploy"] \in BOOLEAN
    BY <2>1 DEF With, Given
  <2>5. Fits(p)
    BY <1>2, <2>2, <2>3, <2>4 DEF Fits
  <2>6. Bounded(p)
    BY <1>2, <2>2, <2>3 DEF Bounded
  <2> QED
    BY <2>5, <2>6
<1>5. CASE ~(Given(q, "mode") /\ q["mode"] = "observed")
  <2>1. p = q
    BY <1>3, <1>5
  <2> QED
    BY <1>2, <2>1
<1> QED
  BY <1>4, <1>5

(* ServiceSettings: types *)

UpdateDoc ==
    [pc : {"new", "write", "reload", "republish", "scale", "schedule", "done"},
     payload : Payloads \cup {<<>>}, before : ServiceDoc, after : ServiceDoc,
     todo : SUBSET Environment]
ScaleDoc == [active : BOOLEAN, previousActive : BOOLEAN, size : STRING,
             status : {"queued", "performed", "succeeded", "failed"}]
Workload == [active : BOOLEAN, size : STRING, schedule : [Environment -> STRING]]
RulesDoc == [port : Int, published : Int, pending : Nat]
Losses == {"port", "availability", "schedule"}
ReportDoc == [pc : {"idle", "write"},
              status : {"none", "created", "running", "pending", "idle", "error"},
              active : BOOLEAN, next : {"none", "running", "pending", "idle", "error"}]

\* The requests that may have queued a scale operation.
PastScale == {u \in Update : update[u].pc \in {"schedule", "done"}}

SettingsTypes ==
    /\ service \in ServiceDoc
    /\ update \in [Update -> UpdateDoc]
    /\ \A u \in UpdatesInFlight : update[u].payload \in Payloads
    /\ scales \in Seq(ScaleDoc)
    /\ Len(scales) <= Cardinality(PastScale)
    /\ rollout \in [Environment -> {"ended", "queued", "running", "performed"}]
    /\ rules \in RulesDoc
    /\ workload \in Workload
    /\ report \in ReportDoc
    /\ report.pc = "write" => report.next # "none"
    /\ calm \in BOOLEAN
    /\ unapplied \subseteq Losses

LEMMA ServiceFields ==
    ASSUME NEW d \in ServiceDoc
    PROVE  /\ d.active \in BOOLEAN /\ d.size \in STRING /\ d.schedule \in STRING /\ d.port \in Int
           /\ d.status \in {"created", "running", "pending", "idle", "error"}
           /\ \A x \in BOOLEAN : [d EXCEPT !.active = x] \in ServiceDoc
           /\ \A y \in {"created", "running", "pending", "idle", "error"} :
                 /\ [d EXCEPT !.status = y] \in ServiceDoc
                 /\ \A x \in BOOLEAN : [d EXCEPT !.active = x, !.status = y] \in ServiceDoc
  BY DEF ServiceDoc, ServiceOf

LEMMA SettingsTypesInit == SettingsInit => SettingsTypes
<1> SUFFICES ASSUME SettingsInit PROVE SettingsTypes
  OBVIOUS
<1> USE SettingsAssumption DEF SettingsInit
<1>1. InitialService \in ServiceDoc
  OBVIOUS
<1>2. update \in [Update -> UpdateDoc]
  BY <1>1 DEF UpdateDoc, NewUpdate
<1>3. \A u \in Update : update[u].pc = "new"
  BY DEF NewUpdate
<1>4. scales \in Seq(ScaleDoc) /\ Len(scales) = 0
  OBVIOUS
<1>5. Cardinality(PastScale) \in Nat
  BY FS_CardinalityType, FS_Subset DEF PastScale
<1>6. workload \in Workload /\ rules \in RulesDoc
  BY <1>1, ServiceFields DEF Workload, RulesDoc
<1>7. report \in ReportDoc /\ report.pc # "write"
  BY DEF ReportDoc, NoReport
<1> QED
  BY <1>1, <1>2, <1>3, <1>4, <1>5, <1>6, <1>7 DEF SettingsTypes, UpdatesInFlight

LEMMA PastGrows ==
    ASSUME SettingsTypes, NEW u \in Update, NEW doc \in UpdateDoc,
           update' = [update EXCEPT ![u] = doc],
           update[u].pc \in {"schedule", "done"} => doc.pc \in {"schedule", "done"}
    PROVE  /\ Cardinality(PastScale) \in Nat /\ Cardinality(PastScale') \in Nat
           /\ Cardinality(PastScale) <= Cardinality(PastScale')
           /\ update[u].pc \notin {"schedule", "done"} /\ doc.pc \in {"schedule", "done"} =>
                Cardinality(PastScale') = Cardinality(PastScale) + 1
<1>1. \A v \in Update : update'[v] = IF v = u THEN doc ELSE update[v]
  BY DEF SettingsTypes
<1>2. IsFiniteSet(PastScale) /\ IsFiniteSet(PastScale')
  BY SettingsAssumption, FS_Subset DEF PastScale
<1>3. PastScale \subseteq PastScale'
  BY <1>1 DEF PastScale
<1>4. ASSUME update[u].pc \notin {"schedule", "done"}, doc.pc \in {"schedule", "done"}
      PROVE  PastScale' = PastScale \cup {u} /\ u \notin PastScale
  BY <1>1, <1>4 DEF PastScale
<1> QED
  BY <1>2, <1>3, <1>4, FS_CardinalityType, FS_Subset, FS_AddElement

\* A request takes a step and leaves the operations alone.
LEMMA UpdateKeepsTypes ==
    ASSUME SettingsTypes, NEW u \in Update, NEW doc \in UpdateDoc,
           update' = [update EXCEPT ![u] = doc],
           update[u].pc \in {"schedule", "done"} => doc.pc \in {"schedule", "done"},
           doc.pc \notin {"new", "done"} => doc.payload \in Payloads
    PROVE  /\ update' \in [Update -> UpdateDoc]
           /\ \A v \in UpdatesInFlight' : update'[v].payload \in Payloads
           /\ Len(scales) <= Cardinality(PastScale')
<1>1. \A v \in Update : update'[v] = IF v = u THEN doc ELSE update[v]
  BY DEF SettingsTypes
<1>2. \A v \in UpdatesInFlight' : update'[v].payload \in Payloads
  BY <1>1 DEF UpdatesInFlight, SettingsTypes
<1>3. Len(scales) <= Cardinality(PastScale')
  <2>1. Len(scales) \in Nat /\ Len(scales) <= Cardinality(PastScale)
    BY DEF SettingsTypes
  <2>2. /\ Cardinality(PastScale) \in Nat /\ Cardinality(PastScale') \in Nat
        /\ Cardinality(PastScale) <= Cardinality(PastScale')
    BY PastGrows
  <2> QED
    BY <2>1, <2>2
<1>4. update' \in [Update -> UpdateDoc]
  BY DEF SettingsTypes
<1> QED
  BY <1>2, <1>3, <1>4

LEMMA EndedFits == Ended \in UpdateDoc /\ Ended.pc = "done"
  BY SettingsAssumption DEF Ended, NewUpdate, UpdateDoc

LEMMA HistoryTypes ==
    ASSUME SettingsTypes, SettingsNext PROVE calm' \in BOOLEAN /\ unapplied' \subseteq Losses
  BY DEF SettingsTypes, SettingsNext, Leaves, Losses, Unqueued

LEMMA LoadServiceTypes ==
    ASSUME SettingsTypes, calm' \in BOOLEAN, unapplied' \subseteq Losses, NEW u \in Update, NEW p \in Settings, LoadService(u, p)
    PROVE  SettingsTypes'
<1> DEFINE doc == [pc |-> "write", payload |-> Normalize(p), before |-> service, after |-> service,
                   todo |-> {}]
<1>1. doc \in UpdateDoc /\ doc.pc = "write" /\ doc.payload \in Payloads
  BY DEF SettingsTypes, UpdateDoc, Payloads
<1>2. update' = [update EXCEPT ![u] = doc] /\ update[u].pc = "new"
  BY DEF LoadService, UpdateAt
<1> HIDE DEF doc
<1> QED
  BY <1>1, <1>2, UpdateKeepsTypes DEF SettingsTypes, LoadService, UpdateAt

LEMMA EndsTypes ==
    ASSUME SettingsTypes, calm' \in BOOLEAN, unapplied' \subseteq Losses, NEW u \in Update,
           Refuse(u) \/ FinishUpdate(u) \/ StopUpdate(u)
    PROVE  SettingsTypes'
<1>1. /\ update' = [update EXCEPT ![u] = Ended]
      /\ UNCHANGED <<service, scales, rollout, rules, workload, report>>
  BY DEF Refuse, FinishUpdate, StopUpdate, UpdateAt
<1> QED
  BY <1>1, EndedFits, UpdateKeepsTypes DEF SettingsTypes

\* The request moves on to another step.
LEMMA GoesFits ==
    ASSUME SettingsTypes, NEW u \in Update,
           NEW pc \in {"reload", "republish", "scale", "schedule"}
    PROVE  /\ [update[u] EXCEPT !.pc = pc] \in UpdateDoc
           /\ [update[u] EXCEPT !.pc = pc].pc = pc
           /\ [update[u] EXCEPT !.pc = pc].payload = update[u].payload
           /\ [update[u] EXCEPT !.pc = pc].before = update[u].before
           /\ [update[u] EXCEPT !.pc = pc].after = update[u].after
           /\ [update[u] EXCEPT !.pc = pc].todo = update[u].todo
  BY DEF SettingsTypes, UpdateDoc

LEMMA PayloadInFlight ==
    ASSUME SettingsTypes, NEW u \in Update, update[u].pc \notin {"new", "done"}
    PROVE  /\ update[u] \in UpdateDoc /\ update[u].payload \in Payloads
           /\ update[u].before \in ServiceDoc /\ update[u].after \in ServiceDoc
           /\ Fits(update[u].payload) /\ Bounded(update[u].payload)
  BY PayloadsFit DEF SettingsTypes, UpdatesInFlight, UpdateDoc

LEMMA WriteServiceTypes ==
    ASSUME SettingsTypes, calm' \in BOOLEAN, unapplied' \subseteq Losses, NEW u \in Update, WriteService(u)
    PROVE  SettingsTypes'
<1> DEFINE doc == [update[u] EXCEPT !.pc = "reload"]
<1>1. doc \in UpdateDoc /\ doc.pc = "reload" /\ doc.payload = update[u].payload
  BY GoesFits
<1>2. update' = [update EXCEPT ![u] = doc] /\ update[u].pc = "write"
  BY DEF WriteService, UpdateAt, UpdateGoes
<1>3. service' \in ServiceDoc
  BY <1>2, PayloadInFlight, OverlayFits DEF SettingsTypes, WriteService, Bounded
<1> HIDE DEF doc
<1> QED
  BY <1>1, <1>2, <1>3, PayloadInFlight, UpdateKeepsTypes DEF SettingsTypes, WriteService, UpdateAt

LEMMA ReloadServiceTypes ==
    ASSUME SettingsTypes, calm' \in BOOLEAN, unapplied' \subseteq Losses, NEW u \in Update, ReloadService(u)
    PROVE  SettingsTypes'
<1> DEFINE doc == [update[u] EXCEPT !.pc = "republish", !.after = service]
<1>1. doc \in UpdateDoc /\ doc.pc = "republish" /\ doc.payload = update[u].payload
  BY DEF SettingsTypes, UpdateDoc
<1>2. update' = [update EXCEPT ![u] = doc] /\ update[u].pc = "reload"
  BY DEF ReloadService, UpdateAt
<1> HIDE DEF doc
<1> QED
  BY <1>1, <1>2, PayloadInFlight, UpdateKeepsTypes DEF SettingsTypes, ReloadService, UpdateAt

LEMMA RepublishRulesTypes ==
    ASSUME SettingsTypes, calm' \in BOOLEAN, unapplied' \subseteq Losses, NEW u \in Update, RepublishRules(u) \/ SkipRules(u)
    PROVE  SettingsTypes'
<1> DEFINE doc == [update[u] EXCEPT !.pc = "scale"]
<1>1. doc \in UpdateDoc /\ doc.pc = "scale" /\ doc.payload = update[u].payload
  BY GoesFits
<1>2. update' = [update EXCEPT ![u] = doc] /\ update[u].pc = "republish"
  BY DEF RepublishRules, SkipRules, UpdateAt, UpdateGoes
<1>3. rules' \in RulesDoc
  <2>1. Given(update[u].payload, "port") => update[u].payload["port"] \in Int
    BY <1>2, PayloadInFlight DEF Fits
  <2>2. rules \in RulesDoc /\ rules.pending + 1 \in Nat
    BY DEF SettingsTypes, RulesDoc
  <2> QED
    <3>1. CASE RepublishRules(u) /\ ChangesPort(u)
      BY <2>1, <2>2, <3>1 DEF RepublishRules, ChangesPort, RulesDoc
    <3>2. CASE RepublishRules(u) /\ ~ChangesPort(u)
      BY <2>2, <3>2 DEF RepublishRules, RulesDoc
    <3>3. CASE SkipRules(u)
      BY <2>1, <2>2, <3>3 DEF SkipRules, ChangesPort, RulesDoc
    <3> QED
      BY <3>1, <3>2, <3>3
<1>4. UNCHANGED <<service, scales, rollout, workload, report>>
  BY DEF RepublishRules, SkipRules, UpdateAt
<1> HIDE DEF doc
<1> QED
  BY <1>1, <1>2, <1>3, <1>4, PayloadInFlight, UpdateKeepsTypes DEF SettingsTypes

LEMMA PublishRulesTypes ==
    ASSUME SettingsTypes, calm' \in BOOLEAN, unapplied' \subseteq Losses, PublishRules \/ PublishRulesFails
    PROVE  SettingsTypes'
<1>1. rules' \in RulesDoc
  <2>1. rules \in RulesDoc /\ rules.pending \in Nat /\ rules.pending > 0
    BY DEF SettingsTypes, PublishRules, PublishRulesFails, RulesDoc
  <2>2. rules.pending - 1 \in Nat
    BY <2>1
  <2> QED
    BY <2>1, <2>2 DEF PublishRules, PublishRulesFails, RulesDoc
<1>2. UNCHANGED <<service, update, scales, rollout, workload, report>>
  BY DEF PublishRules, PublishRulesFails
<1>3. PastScale' = PastScale /\ UpdatesInFlight' = UpdatesInFlight
  BY <1>2 DEF PastScale, UpdatesInFlight
<1> QED
  BY <1>1, <1>2, <1>3 DEF SettingsTypes

LEMMA ScaleOperationFits ==
    ASSUME SettingsTypes, NEW u \in Update, update[u].pc = "scale"
    PROVE  ScaleOperation(update[u].before, update[u].after) \in ScaleDoc
  BY PayloadInFlight, ServiceFields DEF ScaleOperation, ScaleDoc

LEMMA QueueScaleTypes ==
    ASSUME SettingsTypes, calm' \in BOOLEAN, unapplied' \subseteq Losses, NEW u \in Update,
           QueueImmediateScale(u) \/ QueueImmediateScaleFails(u)
    PROVE  SettingsTypes'
<1> DEFINE doc == [update[u] EXCEPT !.pc = "schedule", !.todo = ScheduleTargets(u)]
           s == ScaleOperation(update[u].before, update[u].after)
<1>1. doc \in UpdateDoc /\ doc.pc = "schedule" /\ doc.payload = update[u].payload
  BY DEF SettingsTypes, UpdateDoc, ScheduleTargets
<1>2. update' = [update EXCEPT ![u] = doc] /\ update[u].pc = "scale"
  BY DEF QueueImmediateScale, QueueImmediateScaleFails, UpdateAt
<1>3. s \in ScaleDoc
  BY <1>2, ScaleOperationFits
<1>4. scales' \in {scales, Append(scales, s)}
  BY DEF QueueImmediateScale, QueueImmediateScaleFails
<1> HIDE DEF doc, s
<1>5. scales' \in Seq(ScaleDoc) /\ Len(scales') <= Len(scales) + 1 /\ Len(scales) \in Nat
  BY <1>3, <1>4 DEF SettingsTypes
<1>6. Len(scales') <= Cardinality(PastScale')
  <2>1. Cardinality(PastScale) \in Nat /\ Cardinality(PastScale') = Cardinality(PastScale) + 1
    BY <1>1, <1>2, PastGrows
  <2>2. Len(scales) <= Cardinality(PastScale) /\ Len(scales') \in Nat
    BY <1>5 DEF SettingsTypes
  <2> QED
    BY <1>5, <2>1, <2>2
<1> QED
  BY <1>1, <1>2, <1>5, <1>6, PayloadInFlight, UpdateKeepsTypes
  DEF SettingsTypes, QueueImmediateScale, QueueImmediateScaleFails, UpdateAt

LEMMA QueueScheduleTypes ==
    ASSUME SettingsTypes, calm' \in BOOLEAN, unapplied' \subseteq Losses, NEW u \in Update, NEW e \in Environment,
           QueueScheduleDeploy(u, e)
    PROVE  SettingsTypes'
<1> DEFINE doc == [update[u] EXCEPT !.todo = @ \ {e}]
<1>1. doc \in UpdateDoc /\ doc.pc = "schedule" /\ doc.payload = update[u].payload
  BY DEF SettingsTypes, UpdateDoc, QueueScheduleDeploy
<1>2. update' = [update EXCEPT ![u] = doc] /\ update[u].pc = "schedule"
  BY DEF QueueScheduleDeploy
<1>3. rollout' \in [Environment -> {"ended", "queued", "running", "performed"}]
  BY DEF SettingsTypes, QueueScheduleDeploy
<1> HIDE DEF doc
<1> QED
  BY <1>1, <1>2, <1>3, PayloadInFlight, UpdateKeepsTypes DEF SettingsTypes, QueueScheduleDeploy

\* An operation takes a step.
LEMMA ScaleKeepsTypes ==
    ASSUME SettingsTypes, NEW i \in DOMAIN scales,
           NEW s \in {"queued", "performed", "succeeded", "failed"}, SetScale(i, s)
    PROVE  /\ scales' \in Seq(ScaleDoc) /\ Len(scales') = Len(scales)
           /\ DOMAIN scales' = DOMAIN scales
           /\ \A j \in DOMAIN scales :
                /\ scales'[j].status = IF j = i THEN s ELSE scales[j].status
                /\ scales'[j].active = scales[j].active
                /\ scales'[j].previousActive = scales[j].previousActive
                /\ scales'[j].size = scales[j].size
<1>1. scales[i] \in ScaleDoc
  BY DEF SettingsTypes
<1>2. [scales[i] EXCEPT !.status = s] \in ScaleDoc
  BY <1>1 DEF ScaleDoc
<1>3. scales' = [scales EXCEPT ![i] = [scales[i] EXCEPT !.status = s]]
  BY DEF SetScale
<1>4. scales' \in Seq(ScaleDoc) /\ Len(scales') = Len(scales)
  BY <1>2, <1>3 DEF SettingsTypes
<1>5. \A j \in DOMAIN scales : scales'[j] = IF j = i THEN [scales[i] EXCEPT !.status = s] ELSE scales[j]
  BY <1>3 DEF SettingsTypes
<1> QED
  BY <1>1, <1>3, <1>4, <1>5 DEF ScaleDoc

LEMMA ScaleStepTypes ==
    ASSUME SettingsTypes, calm' \in BOOLEAN, unapplied' \subseteq Losses, NEW i \in DOMAIN scales,
           Scale(i) \/ ScaleSucceeded(i) \/ \E st \in {"queued", "performed"} : ScaleFailed(i, st)
    PROVE  SettingsTypes'
<1>1. PICK s \in {"performed", "succeeded", "failed"} : SetScale(i, s)
  BY DEF Scale, ScaleSucceeded, ScaleFailed
<1>2. scales' \in Seq(ScaleDoc) /\ Len(scales') = Len(scales)
  BY <1>1, ScaleKeepsTypes
<1>3. scales[i].active \in BOOLEAN /\ scales[i].previousActive \in BOOLEAN /\ scales[i].size \in STRING
  <2>1. scales[i] \in ScaleDoc
    BY DEF SettingsTypes
  <2> QED
    BY <2>1 DEF ScaleDoc
<1>4. UNCHANGED <<update, rollout, rules, report>>
  BY DEF Scale, ScaleSucceeded, ScaleFailed
<1>5. workload' \in Workload
  BY <1>3 DEF SettingsTypes, Scale, ScaleSucceeded, ScaleFailed, Workload
<1>6. service' \in ServiceDoc
  <2>1. service \in ServiceDoc
    BY DEF SettingsTypes
  <2>2. CASE Scale(i)
    BY <2>1, <2>2 DEF Scale
  <2>3. CASE ScaleSucceeded(i)
    BY <1>3, <2>1, <2>3, ServiceFields DEF ScaleSucceeded
  <2>4. CASE \E st \in {"queued", "performed"} : ScaleFailed(i, st)
    <3>1. service' = [service EXCEPT !.active = scales[i].previousActive, !.status = "error"]
      BY <2>4 DEF ScaleFailed
    <3> QED
      BY <1>3, <2>1, <3>1, ServiceFields
  <2> QED
    BY <2>2, <2>3, <2>4
<1>7. PastScale' = PastScale /\ UpdatesInFlight' = UpdatesInFlight
  BY <1>4 DEF PastScale, UpdatesInFlight
<1> QED
  BY <1>2, <1>4, <1>5, <1>6, <1>7 DEF SettingsTypes

LEMMA ScaleLateTypes ==
    ASSUME SettingsTypes, calm' \in BOOLEAN, unapplied' \subseteq Losses, NEW i \in DOMAIN scales, ScaleLate(i)
    PROVE  SettingsTypes'
<1>1. scales[i].active \in BOOLEAN /\ scales[i].size \in STRING
  <2>1. scales[i] \in ScaleDoc
    BY DEF SettingsTypes
  <2> QED
    BY <2>1 DEF ScaleDoc
<1>2. workload' \in Workload
  BY <1>1 DEF SettingsTypes, ScaleLate, Workload
<1>3. UNCHANGED <<service, update, scales, rollout, rules, report>>
  BY DEF ScaleLate
<1>4. PastScale' = PastScale /\ UpdatesInFlight' = UpdatesInFlight
  BY <1>3 DEF PastScale, UpdatesInFlight
<1> QED
  BY <1>2, <1>3, <1>4 DEF SettingsTypes

LEMMA RolloutStepTypes ==
    ASSUME SettingsTypes, calm' \in BOOLEAN, unapplied' \subseteq Losses, NEW e \in Environment,
           RolloutStarts(e) \/ RolloutRuns(e) \/ RolloutSucceeded(e) \/ RolloutFailed(e)
    PROVE  SettingsTypes'
<1>1. /\ rollout' \in [Environment -> {"ended", "queued", "running", "performed"}]
      /\ UNCHANGED <<update, scales, rules, report>>
  BY DEF SettingsTypes, RolloutStarts, RolloutRuns, RolloutSucceeded, RolloutFailed, RolloutAt
<1>2. service' \in ServiceDoc
  <2>1. service \in ServiceDoc
    BY DEF SettingsTypes
  <2>2. CASE RolloutFailed(e)
    <3>1. PICK active \in BOOLEAN, status \in {"running", "error"} :
              service' = [service EXCEPT !.active = active, !.status = status]
      BY <2>2 DEF RolloutFailed
    <3> QED
      BY <2>1, <3>1, ServiceFields
  <2> QED
    BY <2>1, <2>2, ServiceFields DEF RolloutStarts, RolloutRuns, RolloutSucceeded
<1>3. workload' \in Workload
  <2>1. CASE RolloutRuns(e)
    <3>1. service.size \in STRING /\ service.schedule \in STRING
      BY ServiceFields DEF SettingsTypes
    <3>2. [workload.schedule EXCEPT ![e] = service.schedule] \in [Environment -> STRING]
      BY <3>1 DEF SettingsTypes, Workload
    <3> QED
      BY <2>1, <3>1, <3>2 DEF RolloutRuns, Workload
  <2>2. CASE UNCHANGED workload
    BY <2>2 DEF SettingsTypes
  <2> QED
    BY <2>1, <2>2 DEF RolloutStarts, RolloutSucceeded, RolloutFailed
<1>4. PastScale' = PastScale /\ UpdatesInFlight' = UpdatesInFlight
  BY <1>1 DEF PastScale, UpdatesInFlight
<1> QED
  BY <1>1, <1>2, <1>3, <1>4 DEF SettingsTypes

LEMMA ReportStepTypes ==
    ASSUME SettingsTypes, calm' \in BOOLEAN, unapplied' \subseteq Losses,
           (\E s \in {"healthy", "idle", "unknown", "crashloop"} : ReportRuntime(s)) \/ WriteRuntime
    PROVE  SettingsTypes'
<1>1. /\ report' \in ReportDoc
      /\ report'.pc = "write" => report'.next # "none"
      /\ service' \in ServiceDoc /\ UNCHANGED <<update, scales, rollout, rules, workload>>
  <2>1. CASE WriteRuntime
    <3>1. report.next \in {"running", "pending", "idle", "error"}
      BY <2>1 DEF SettingsTypes, WriteRuntime, ReportDoc
    <3> QED
      BY <2>1, <3>1, ServiceFields DEF SettingsTypes, WriteRuntime, ReportDoc, NoReport
  <2>2. CASE \E s \in {"healthy", "idle", "unknown", "crashloop"} : ReportRuntime(s)
    <3>1. PICK s \in {"healthy", "idle", "unknown", "crashloop"} : ReportRuntime(s)
      BY <2>2
    <3>2. ServiceStatusOf(s) \in {"running", "pending", "idle", "error"}
      BY DEF ServiceStatusOf
    <3> QED
      BY <3>1, <3>2, ServiceFields DEF SettingsTypes, ReportRuntime, ReportDoc
  <2> QED
    BY <2>1, <2>2
<1>2. PastScale' = PastScale /\ UpdatesInFlight' = UpdatesInFlight
  BY <1>1 DEF PastScale, UpdatesInFlight
<1> QED
  BY <1>1, <1>2 DEF SettingsTypes

LEMMA SettingsTypesStep == SettingsTypes /\ [SettingsNext]_settingsVars => SettingsTypes'
<1> SUFFICES ASSUME SettingsTypes, [SettingsNext]_settingsVars PROVE SettingsTypes'
  OBVIOUS
<1>1. CASE SettingsNext
  <2>1. calm' \in BOOLEAN /\ unapplied' \subseteq Losses
    BY <1>1, HistoryTypes
  <2> QED
    BY <1>1, <2>1, LoadServiceTypes, EndsTypes, WriteServiceTypes, ReloadServiceTypes,
       RepublishRulesTypes, QueueScaleTypes, QueueScheduleTypes, ScaleStepTypes, RolloutStepTypes,
       ReportStepTypes, PublishRulesTypes, ScaleLateTypes
    DEF SettingsNext
<1>2. CASE UNCHANGED settingsVars
  BY <1>2 DEF settingsVars, SettingsTypes, PastScale, UpdatesInFlight
<1> QED
  BY <1>1, <1>2

LEMMA SettingsTypesAlways == SettingsSpec => []SettingsTypes
  BY SettingsTypesInit, SettingsTypesStep, PTL DEF SettingsSpec

\* Services, update requests, scale operations, rollouts, the workload and reports
\* keep their types, and an update queues at most one scale operation.
THEOREM SettingsTypeCorrect == SettingsSpec => []SettingsTypeOK
<1>1. SettingsTypes => SettingsTypeOK
  <2> SUFFICES ASSUME SettingsTypes PROVE SettingsTypeOK
    OBVIOUS
  <2>1. PastScale \subseteq Update
    BY DEF PastScale
  <2>2. Cardinality(PastScale) <= Cardinality(Update) /\ Cardinality(Update) \in Nat
        /\ Cardinality(PastScale) \in Nat /\ Len(scales) \in Nat
    BY <2>1, SettingsAssumption, FS_Subset, FS_CardinalityType DEF SettingsTypes
  <2>3. \A i \in DOMAIN scales : scales[i].status \in {"queued", "performed", "succeeded", "failed"}
    <3>1. \A i \in DOMAIN scales : scales[i] \in ScaleDoc
      BY DEF SettingsTypes
    <3> QED
      BY <3>1 DEF ScaleDoc
  <2> QED
    BY <2>2, <2>3 DEF SettingsTypes, SettingsTypeOK, RulesDoc, Losses
<1> QED
  BY <1>1, SettingsTypesAlways, PTL

(* ServiceSettings: updates take effect *)

NoneFailed == \A i \in DOMAIN scales : scales[i].status # "failed"

\* The document d agrees with what runs.
Agrees(d) ==
    /\ "availability" \notin unapplied =>
         /\ d.active = workload.active
         /\ ~d.active => d.status # "running"
         /\ NoneFailed => d.size = workload.size
    /\ "schedule" \notin unapplied => \A e \in Environment : d.schedule = workload.schedule[e]
PortKnown(d) ==
    "port" \notin unapplied =>
        /\ rules.pending = 0 => rules.published = rules.port
        /\ d.port > 0 => rules.port = d.port

\* A request between its write of the service and the operations it queues: what
\* it found agreed with what runs, and nothing else has changed since.
Applying(u) == update[u].pc \in {"reload", "republish", "scale"}
ApplyKnows(u) ==
    /\ ~Working
    /\ service = Overlay(update[u].before, update[u].payload)
    /\ ~Given(update[u].payload, "status")
    /\ Agrees(update[u].before)
    /\ update[u].pc # "reload" => update[u].after = service
    /\ PortKnown(IF update[u].pc = "scale" THEN service ELSE update[u].before)

\* Outside of that, what does not agree yet is the work of an operation, or of
\* the deploys a request still has to queue.
InTodo(e) == \E u \in Update : e \in update[u].todo
ScaleKnows(i) ==
    /\ scales[i].size = service.size
    /\ "availability" \notin unapplied =>
         /\ scales[i].status = "queued" => scales[i].previousActive = workload.active
         /\ scales[i].status = "performed" =>
               workload.active = scales[i].active /\ workload.size = scales[i].size
RolloutKnows(e) ==
    /\ "schedule" \notin unapplied /\ rollout[e] \in {"ended", "performed"} /\ ~InTodo(e) =>
          service.schedule = workload.schedule[e]
    /\ "availability" \notin unapplied /\ rollout[e] = "performed" => workload.active
Settling ==
    /\ PortKnown(service)
    /\ "availability" \notin unapplied /\ ~Working =>
          service.active = workload.active /\ (~service.active => service.status # "running")
    /\ \A i \in Scaling : ScaleKnows(i)
    /\ "availability" \notin unapplied /\ Scaling = {} /\ NoneFailed => service.size = workload.size
    /\ \A e \in Environment : RolloutKnows(e)

Calm ==
    /\ ~Overlap
    /\ \A u \in Update : update[u].pc = "write" => update[u].before = service
    /\ \A u \in Update : Applying(u) => ApplyKnows(u)
    /\ \A u \in Update : update[u].todo # {} => update[u].pc = "schedule"
    /\ \A e \in Environment : InTodo(e) => rollout[e] = "ended"
    /\ (\A u \in Update : ~Applying(u)) => Settling
    /\ report.pc = "write" => report.active = service.active

SettingsInv == SettingsTypes /\ (calm => Calm)

LEMMA SettingsInvInit == SettingsInit => SettingsInv
<1> SUFFICES ASSUME SettingsInit PROVE SettingsTypes /\ Calm
  BY DEF SettingsInv
<1>1. SettingsTypes
  BY SettingsTypesInit
<1>2. /\ \A u \in Update : update[u].pc = "new" /\ update[u].todo = {}
      /\ DOMAIN scales = {} /\ report.pc = "idle"
      /\ \A e \in Environment : rollout[e] = "ended"
  BY DEF SettingsInit, NewUpdate, NoReport
<1>3. UpdatesInFlight = {} /\ Reading = {} /\ Scaling = {} /\ RollingOut = {} /\ ~Working /\ ~Reporting
  BY <1>2 DEF UpdatesInFlight, Reading, Scaling, RollingOut, Working, Reporting
<1>4. ~Overlap
  BY <1>3 DEF Overlap
<1>5. Settling
  <2>1. service.active = workload.active /\ service.size = workload.size
        /\ \A e \in Environment : service.schedule = workload.schedule[e]
    BY DEF SettingsInit
  <2>2. PortKnown(service) /\ (~service.active => service.status # "running")
    BY SettingsAssumption DEF SettingsInit, PortKnown
  <2> QED
    BY <1>2, <1>3, <2>1, <2>2 DEF Settling, RolloutKnows
<1> QED
  BY <1>1, <1>2, <1>4, <1>5 DEF Calm, Applying, InTodo

\* What is under way in a calm state is alone.
UpdateAlone ==
    \A u, v \in Update :
        update[u].pc \notin {"new", "done"} /\ update[v].pc \notin {"new", "done"} => u = v
ReaderAlone ==
    \A u \in Update : update[u].pc \in {"write", "reload"} =>
                          ~Working /\ ~Given(update[u].payload, "status")
ReportAlone == Reporting => ~Working /\ \A u \in Update : update[u].pc \in {"new", "done"}
WorkAlone ==
    /\ \A i, j \in Scaling : i = j
    /\ \A e, f \in RollingOut : e = f
    /\ Scaling = {} \/ RollingOut = {}

LEMMA SettingsAlone == ~Overlap => UpdateAlone /\ ReaderAlone /\ ReportAlone /\ WorkAlone
<1>1. \A u \in Update : update[u].pc \notin {"new", "done"} => u \in UpdatesInFlight
  BY DEF UpdatesInFlight
<1>2. \A u \in Update : update[u].pc \in {"write", "reload"} => u \in Reading
  BY DEF Reading, UpdatesInFlight
<1>3. ~Overlap => UpdateAlone
  <2> SUFFICES ASSUME ~Overlap, NEW u \in Update, NEW v \in Update,
                      update[u].pc \notin {"new", "done"}, update[v].pc \notin {"new", "done"}
               PROVE  u = v
    BY DEF UpdateAlone
  <2>1. u \in UpdatesInFlight /\ v \in UpdatesInFlight
    BY <1>1
  <2> QED
    BY <2>1 DEF Overlap
<1>4. ~Overlap => ReaderAlone
  BY <1>2 DEF Overlap, ReaderAlone
<1>5. ~Overlap => ReportAlone
  BY <1>1 DEF Overlap, ReportAlone
<1>6. ~Overlap => WorkAlone
  BY DEF Overlap, WorkAlone
<1> QED
  BY <1>3, <1>4, <1>5, <1>6

LEMMA SettingsAloneNext == ~Overlap' => UpdateAlone' /\ ReaderAlone' /\ ReportAlone' /\ WorkAlone'
  BY SettingsAlone, PTL

LEMMA StepOf ==
    ASSUME SettingsTypes, NEW u \in Update, NEW doc \in UpdateDoc, update' = [update EXCEPT ![u] = doc]
    PROVE  \A v \in Update : update'[v] = IF v = u THEN doc ELSE update[v]
  BY DEF SettingsTypes

\* While a request is reading, only it is under way, and the service agrees with what runs.
LEMMA WritingAgrees ==
    ASSUME SettingsTypes, Calm, NEW u \in Update, update[u].pc = "write"
    PROVE  Agrees(service) /\ PortKnown(service) /\ ~Working /\ report.pc # "write"
<1>1. ~Working /\ ~Reporting /\ \A v \in Update : v # u => update[v].pc \in {"new", "done"}
  BY SettingsAlone DEF Calm, UpdateAlone, ReaderAlone, ReportAlone
<1>2. \A v \in Update : ~Applying(v) /\ update[v].todo = {}
  BY <1>1 DEF Calm, Applying
<1>3. Settling
  BY <1>2 DEF Calm
<1>4. Scaling = {} /\ \A e \in Environment : rollout[e] = "ended"
  BY <1>1 DEF Working, RollingOut
<1> QED
  BY <1>1, <1>2, <1>3, <1>4 DEF Settling, RolloutKnows, InTodo, Agrees, Reporting

\* A request begins, is refused or ends.
LEMMA BoundaryCalm ==
    ASSUME SettingsTypes, Calm, ~Overlap', unapplied' = unapplied, NEW u \in Update, NEW doc \in UpdateDoc,
           update' = [update EXCEPT ![u] = doc],
           UNCHANGED <<service, scales, rollout, rules, workload, report>>,
           ~Applying(u), update[u].todo = {}, doc.todo = {},
           \/ doc.pc = "write" /\ doc.before = service
           \/ doc.pc = "done" /\ update[u].pc \notin {"new", "done"}
    PROVE  Calm'
<1>1. \A v \in Update : update'[v] = IF v = u THEN doc ELSE update[v]
  BY StepOf
<1>2. \A v \in Update : v # u => update[v].pc \in {"new", "done"}
  <2>1. UpdateAlone' /\ UpdateAlone
    BY SettingsAlone, SettingsAloneNext DEF Calm
  <2> QED
    BY <1>1, <2>1 DEF UpdateAlone
<1>3. \A v \in Update : ~Applying(v) /\ ~Applying(v)'
  BY <1>1, <1>2 DEF Applying
<1>4. Settling'
  <2>1. Settling
    BY <1>3 DEF Calm
  <2>2. \A e \in Environment : InTodo(e)' <=> InTodo(e)
    BY <1>1 DEF InTodo
  <2> QED
    BY <2>1, <2>2
    DEF Settling, PortKnown, Working, Scaling, RollingOut, ScaleKnows, RolloutKnows, NoneFailed
<1>5. \A v \in Update : update'[v].pc = "write" => update'[v].before = service'
  BY <1>1, <1>2
<1>6. \A v \in Update : update'[v].todo # {} => update'[v].pc = "schedule"
  BY <1>1 DEF Calm
<1>7. \A e \in Environment : InTodo(e)' => rollout'[e] = "ended"
  BY <1>1 DEF Calm, InTodo
<1>8. report'.pc = "write" => report'.active = service'.active
  BY DEF Calm
<1> QED
  BY <1>3, <1>4, <1>5, <1>6, <1>7, <1>8 DEF Calm

LEMMA LoadServiceCalm ==
    ASSUME SettingsTypes, Calm, ~Overlap', unapplied' = unapplied, NEW u \in Update, NEW p \in Settings, LoadService(u, p)
    PROVE  Calm'
<1> DEFINE doc == [pc |-> "write", payload |-> Normalize(p), before |-> service, after |-> service,
                   todo |-> {}]
<1>1. doc \in UpdateDoc /\ doc.pc = "write" /\ doc.before = service /\ doc.todo = {}
  BY DEF SettingsTypes, UpdateDoc, Payloads
<1>2. update' = [update EXCEPT ![u] = doc] /\ update[u].pc = "new"
      /\ UNCHANGED <<service, scales, rollout, rules, workload, report>>
  BY DEF LoadService, UpdateAt
<1>3. ~Applying(u) /\ update[u].todo = {}
  BY <1>2 DEF Applying, Calm
<1> HIDE DEF doc
<1> QED
  BY <1>1, <1>2, <1>3, BoundaryCalm

LEMMA EndsCalm ==
    ASSUME SettingsTypes, Calm, ~Overlap', unapplied' = unapplied, NEW u \in Update, Refuse(u) \/ FinishUpdate(u)
    PROVE  Calm'
<1>1. /\ update' = [update EXCEPT ![u] = Ended]
      /\ UNCHANGED <<service, scales, rollout, rules, workload, report>>
      /\ update[u].pc = "write" \/ (update[u].pc = "schedule" /\ update[u].todo = {})
  BY DEF Refuse, FinishUpdate, UpdateAt
<1>2. ~Applying(u) /\ update[u].todo = {} /\ update[u].pc \notin {"new", "done"}
  BY <1>1 DEF Applying, Calm
<1>3. Ended \in UpdateDoc /\ Ended.pc = "done" /\ Ended.todo = {}
  BY EndedFits DEF Ended, NewUpdate
<1> QED
  BY <1>1, <1>2, <1>3, BoundaryCalm

\* A request goes on to one of the steps between its write and its operations.
LEMMA ApplyingCalm ==
    ASSUME SettingsTypes, Calm, ~Overlap', NEW u \in Update, NEW doc \in UpdateDoc,
           update' = [update EXCEPT ![u] = doc], update[u].pc \notin {"new", "done"},
           UNCHANGED <<rollout, report>>, report.pc # "write",
           update[u].todo = {}, doc.todo = {}, doc.pc \in {"reload", "republish", "scale"},
           ApplyKnows(u)'
    PROVE  Calm'
<1>1. \A v \in Update : update'[v] = IF v = u THEN doc ELSE update[v]
  BY StepOf
<1>2. \A v \in Update : v # u => update[v].pc \in {"new", "done"}
  BY SettingsAlone DEF Calm, UpdateAlone
<1>3. Applying(u)' /\ \A v \in Update : v # u => ~Applying(v)'
  BY <1>1, <1>2 DEF Applying
<1>4. \A v \in Update : update'[v].pc # "write"
  BY <1>1, <1>2
<1>5. \A v \in Update : update'[v].todo # {} => update'[v].pc = "schedule"
  BY <1>1 DEF Calm
<1>6. \A e \in Environment : InTodo(e)' => rollout'[e] = "ended"
  BY <1>1 DEF Calm, InTodo
<1> QED
  BY <1>3, <1>4, <1>5, <1>6 DEF Calm

\* What a request had not queued when it stopped is left undone, and no more.
LEMMA StopCalm ==
    ASSUME SettingsTypes, Calm, ~Overlap', NEW u \in Update, StopUpdate(u),
           unapplied' = unapplied \cup Unqueued(u)
    PROVE  Calm'
<1>1. /\ update' = [update EXCEPT ![u] = Ended]
      /\ update[u].pc \in {"reload", "republish", "scale", "schedule"}
      /\ UNCHANGED <<service, scales, rollout, rules, workload, report>>
  BY DEF StopUpdate
<1>2. Ended \in UpdateDoc /\ Ended.pc = "done" /\ Ended.todo = {}
  BY EndedFits DEF Ended, NewUpdate
<1>3. \A v \in Update : update'[v] = IF v = u THEN Ended ELSE update[v]
  BY <1>1, <1>2, StepOf
<1>4. \A v \in Update : v # u => update[v].pc \in {"new", "done"} /\ update[v].todo = {}
  BY <1>1, SettingsAlone DEF Calm, UpdateAlone
<1>5. \A v \in Update : ~Applying(v)' /\ update'[v].todo = {} /\ update'[v].pc # "write"
  BY <1>2, <1>3, <1>4 DEF Applying
<1>6. \A e \in Environment : ~InTodo(e)'
  BY <1>5 DEF InTodo
<1>7. "schedule" \in unapplied'
  BY DEF Unqueued
<1>8. Settling'
  <2>1. CASE update[u].pc = "schedule"
    <3>1. Settling
      BY <1>4, <2>1 DEF Calm, Applying
    <3> QED
      BY <1>1, <1>7, <3>1
      DEF Settling, PortKnown, Working, Scaling, RollingOut, ScaleKnows, RolloutKnows, NoneFailed
  <2>2. CASE update[u].pc # "schedule"
    <3>1. ApplyKnows(u)
      BY <1>1, <2>2 DEF Calm, Applying
    <3>2. Scaling' = {} /\ "availability" \in unapplied'
      BY <1>1, <2>2, <3>1 DEF ApplyKnows, Working, Scaling, Unqueued
    <3>3. PortKnown(service)'
      BY <1>1, <2>2, <3>1 DEF ApplyKnows, PortKnown, Unqueued
    <3> QED
      BY <1>7, <3>2, <3>3 DEF Settling, RolloutKnows
  <2> QED
    BY <2>1, <2>2
<1> QED
  BY <1>1, <1>5, <1>6, <1>8 DEF Calm

LEMMA OverlaidFields ==
    ASSUME NEW d \in ServiceDoc, NEW p, NEW f \in Field
    PROVE  /\ Given(p, f) => Overlay(d, p)[f] = p[f]
           /\ ~Given(p, f) => Overlay(d, p)[f] = d[f]
  BY DEF Overlay, ServiceDoc, ServiceOf, Field

LEMMA WriteServiceCalm ==
    ASSUME SettingsTypes, Calm, ~Overlap', unapplied' = unapplied, NEW u \in Update, WriteService(u)
    PROVE  Calm'
<1> DEFINE doc == [update[u] EXCEPT !.pc = "reload"]
<1>1. /\ doc \in UpdateDoc /\ doc.pc = "reload" /\ doc.payload = update[u].payload
      /\ doc.before = update[u].before /\ doc.todo = update[u].todo
  BY GoesFits
<1>2. /\ update' = [update EXCEPT ![u] = doc] /\ update[u].pc = "write"
      /\ service' = Overlay(service, update[u].payload)
      /\ UNCHANGED <<scales, rollout, rules, workload, report>>
  BY DEF WriteService, UpdateAt, UpdateGoes
<1> HIDE DEF doc
<1>3. update'[u] = doc
  BY <1>1, <1>2, StepOf
<1>4. Agrees(service) /\ PortKnown(service) /\ ~Working /\ report.pc # "write"
  BY <1>2, WritingAgrees
<1>5. update[u].before = service /\ update[u].todo = {} /\ ~Given(update[u].payload, "status")
  BY <1>2, SettingsAlone DEF Calm, ReaderAlone
<1>6. Working' = Working
  BY <1>2 DEF Working, Scaling, RollingOut
<1>7. ApplyKnows(u)'
  <2>1. update'[u].before = service /\ update'[u].payload = update[u].payload
        /\ update'[u].pc = "reload"
    BY <1>1, <1>3, <1>5
  <2>2. Agrees(update[u].before)'
    BY <1>2, <1>4, <2>1 DEF Agrees, NoneFailed
  <2>3. PortKnown(update[u].before)'
    BY <1>2, <1>4, <2>1 DEF PortKnown
  <2> QED
    BY <1>2, <1>4, <1>5, <1>6, <2>1, <2>2, <2>3 DEF ApplyKnows
<1> QED
  BY <1>1, <1>2, <1>4, <1>5, <1>7, ApplyingCalm

\* While a request applies its payload it is the only one, and nothing is under way.
LEMMA ApplyingAlone ==
    ASSUME Calm, NEW u \in Update, Applying(u)
    PROVE  /\ ApplyKnows(u) /\ report.pc # "write" /\ update[u].todo = {}
           /\ \A v \in Update : v # u => update[v].pc \in {"new", "done"}
           /\ \A v \in Update : update[v].todo = {}
  BY SettingsAlone DEF Calm, UpdateAlone, ReportAlone, Applying, Reporting

LEMMA ReloadServiceCalm ==
    ASSUME SettingsTypes, Calm, ~Overlap', unapplied' = unapplied, NEW u \in Update, ReloadService(u)
    PROVE  Calm'
<1> DEFINE doc == [update[u] EXCEPT !.pc = "republish", !.after = service]
<1>1. /\ doc \in UpdateDoc /\ doc.pc = "republish" /\ doc.payload = update[u].payload
      /\ doc.before = update[u].before /\ doc.todo = update[u].todo /\ doc.after = service
  BY DEF SettingsTypes, UpdateDoc
<1>2. /\ update' = [update EXCEPT ![u] = doc] /\ update[u].pc = "reload"
      /\ UNCHANGED <<service, scales, rollout, rules, workload, report>>
  BY DEF ReloadService, UpdateAt
<1> HIDE DEF doc
<1>3. update'[u] = doc
  BY <1>1, <1>2, StepOf
<1>4. ApplyKnows(u) /\ report.pc # "write" /\ update[u].todo = {}
  BY <1>2, ApplyingAlone DEF Applying
<1>5. ApplyKnows(u)'
  BY <1>1, <1>2, <1>3, <1>4
  DEF ApplyKnows, Agrees, PortKnown, NoneFailed, Working, Scaling, RollingOut
<1> QED
  BY <1>1, <1>2, <1>4, <1>5, ApplyingCalm

LEMMA RepublishRulesCalm ==
    ASSUME SettingsTypes, Calm, ~Overlap', unapplied' = unapplied, NEW u \in Update, RepublishRules(u)
    PROVE  Calm'
<1> DEFINE doc == [update[u] EXCEPT !.pc = "scale"]
<1>1. /\ doc \in UpdateDoc /\ doc.pc = "scale" /\ doc.payload = update[u].payload
      /\ doc.before = update[u].before /\ doc.after = update[u].after
      /\ doc.todo = update[u].todo
  BY GoesFits
<1>2. /\ update' = [update EXCEPT ![u] = doc] /\ update[u].pc = "republish"
      /\ UNCHANGED <<service, scales, rollout, workload, report>>
  BY DEF RepublishRules, UpdateAt, UpdateGoes
<1> HIDE DEF doc
<1>3. update'[u] = doc
  BY <1>1, <1>2, StepOf
<1>4. ApplyKnows(u) /\ report.pc # "write" /\ update[u].todo = {}
  BY <1>2, ApplyingAlone DEF Applying
<1>5. PortKnown(service)'
  <2> DEFINE p == update[u].payload
             b == update[u].before
  <2>1. b \in ServiceDoc /\ Fits(p) /\ service = Overlay(b, p) /\ PortKnown(b) /\ rules \in RulesDoc
    BY <1>2, <1>4, PayloadInFlight DEF ApplyKnows, SettingsTypes
  <2>2. service.port = IF Given(p, "port") THEN p["port"] ELSE b.port
    BY <2>1, OverlaidFields DEF Field
  <2>3. /\ Given(p, "port") => p["port"] \in Int
        /\ b.port \in Int
    BY <2>1, ServiceFields DEF Fits
  <2>4. ChangesPort(u) <=> Given(p, "port") /\ p["port"] > 0 /\ p["port"] # b.port /\ p["port"] # rules.port
    BY DEF ChangesPort
  <2>5. /\ rules.pending \in Nat
        /\ ChangesPort(u) => rules'.port = p["port"] /\ rules'.pending = rules.pending + 1
        /\ ~ChangesPort(u) => rules'.port = rules.port /\ rules'.published = rules.published
                              /\ (rules'.pending = 0 => rules.pending = 0)
    BY <2>1 DEF RepublishRules, RulesDoc
  <2> HIDE DEF p, b
  <2>6. CASE ChangesPort(u)
    BY <1>2, <2>2, <2>4, <2>5, <2>6 DEF PortKnown
  <2>7. CASE ~ChangesPort(u)
    BY <1>2, <2>1, <2>2, <2>3, <2>4, <2>5, <2>7 DEF PortKnown
  <2> QED
    BY <2>6, <2>7
<1>6. ApplyKnows(u)'
  BY <1>1, <1>2, <1>3, <1>4, <1>5
  DEF ApplyKnows, Agrees, NoneFailed, Working, Scaling, RollingOut
<1> QED
  BY <1>1, <1>2, <1>4, <1>6, ApplyingCalm

LEMMA SkipRulesCalm ==
    ASSUME SettingsTypes, Calm, ~Overlap', unapplied' = unapplied \cup {"port"}, NEW u \in Update, SkipRules(u)
    PROVE  Calm'
<1> DEFINE doc == [update[u] EXCEPT !.pc = "scale"]
<1>1. /\ doc \in UpdateDoc /\ doc.pc = "scale" /\ doc.payload = update[u].payload
      /\ doc.before = update[u].before /\ doc.after = update[u].after
      /\ doc.todo = update[u].todo
  BY GoesFits
<1>2. /\ update' = [update EXCEPT ![u] = doc] /\ update[u].pc = "republish"
      /\ UNCHANGED <<service, scales, rollout, workload, report>>
  BY DEF SkipRules, UpdateAt, UpdateGoes
<1> HIDE DEF doc
<1>3. update'[u] = doc
  BY <1>1, <1>2, StepOf
<1>4. ApplyKnows(u) /\ report.pc # "write" /\ update[u].todo = {}
  BY <1>2, ApplyingAlone DEF Applying
<1>5. ApplyKnows(u)'
  BY <1>1, <1>2, <1>3, <1>4
  DEF ApplyKnows, Agrees, PortKnown, NoneFailed, Working, Scaling, RollingOut
<1> QED
  BY <1>1, <1>2, <1>4, <1>5, ApplyingCalm

LEMMA QueueScaleCalm ==
    ASSUME SettingsTypes, Calm, ~Overlap', unapplied' = unapplied, NEW u \in Update, QueueImmediateScale(u)
    PROVE  Calm'
<1> DEFINE b == update[u].before
           p == update[u].payload
           doc == [update[u] EXCEPT !.pc = "schedule", !.todo = ScheduleTargets(u)]
           s == ScaleOperation(b, update[u].after)
<1>1. doc \in UpdateDoc /\ doc.pc = "schedule" /\ doc.todo = ScheduleTargets(u)
  BY DEF SettingsTypes, UpdateDoc, ScheduleTargets
<1>2. /\ update' = [update EXCEPT ![u] = doc] /\ update[u].pc = "scale"
      /\ scales' = IF NeedsScale(b, p) THEN Append(scales, s) ELSE scales
      /\ UNCHANGED <<service, rollout, rules, workload, report>>
  BY DEF QueueImmediateScale, UpdateAt
<1>3. /\ ~Working /\ service = Overlay(b, p) /\ ~Given(p, "status") /\ Agrees(b)
      /\ update[u].after = service /\ PortKnown(service)
      /\ report.pc # "write"
      /\ \A v \in Update : v # u => update[v].pc \in {"new", "done"}
      /\ \A v \in Update : update[v].todo = {}
  BY <1>2, ApplyingAlone DEF Applying, ApplyKnows
<1>4. b \in ServiceDoc /\ s \in ScaleDoc
  BY <1>2, PayloadInFlight, ScaleOperationFits
<1>5. \A f \in Field : service[f] = IF Given(p, f) THEN p[f] ELSE b[f]
  BY <1>3, <1>4, OverlaidFields
<1>6. s.size = service.size /\ s.status = "queued" /\ s.previousActive = b.active
  BY <1>3 DEF ScaleOperation
<1>7. ScheduleTargets(u) = IF Changes(b, p, "schedule") THEN Environment ELSE {}
  BY DEF ScheduleTargets
<1> HIDE DEF b, p, doc, s
<1>8. \A v \in Update : update'[v] = IF v = u THEN doc ELSE update[v]
  BY <1>1, <1>2, StepOf
<1>9. Scaling = {} /\ \A e \in Environment : rollout[e] = "ended"
  BY <1>3 DEF Working, RollingOut
<1>10. \A e \in Environment : RolloutKnows(e)'
  <2>1. \A e \in Environment : InTodo(e)' <=> Changes(b, p, "schedule")
    BY <1>1, <1>3, <1>7, <1>8 DEF InTodo
  <2>2. ~Changes(b, p, "schedule") => service.schedule = b.schedule
    BY <1>5 DEF Changes, Field
  <2> QED
    BY <1>2, <1>3, <1>9, <2>1, <2>2 DEF RolloutKnows, Agrees
<1>11. Settling'
  <2>1. PortKnown(service)'
    BY <1>2, <1>3 DEF PortKnown
  <2>2. CASE NeedsScale(b, p)
    <3>1. scales' = Append(scales, s) /\ scales \in Seq(ScaleDoc)
      BY <1>2, <2>2 DEF SettingsTypes
    <3>2. /\ DOMAIN scales' = 1 .. Len(scales) + 1 /\ Len(scales) \in Nat
          /\ DOMAIN scales = 1 .. Len(scales)
          /\ scales'[Len(scales) + 1] = s
          /\ \A i \in DOMAIN scales : scales'[i] = scales[i]
      BY <1>4, <3>1
    <3>3. Scaling' = {Len(scales) + 1}
      BY <1>6, <1>9, <3>2 DEF Scaling
    <3>4. \A i \in Scaling' : ScaleKnows(i)'
      BY <1>2, <1>3, <1>6, <3>2, <3>3 DEF ScaleKnows, Agrees
    <3> QED
      BY <1>10, <2>1, <3>3, <3>4 DEF Settling, Working
  <2>3. CASE ~NeedsScale(b, p)
    <3>1. ~Changes(b, p, "active") /\ ~Changes(b, p, "size")
      BY <2>3 DEF NeedsScale
    <3>2. service.active = b.active /\ service.size = b.size /\ service.status = b.status
      BY <1>3, <1>5, <3>1 DEF Changes, Field
    <3>3. scales' = scales /\ Scaling' = {}
      BY <1>2, <1>9, <2>3 DEF Scaling
    <3> QED
      BY <1>2, <1>3, <1>10, <2>1, <3>2, <3>3 DEF Settling, Agrees, NoneFailed
  <2> QED
    BY <2>2, <2>3
<1>12. \A v \in Update : ~Applying(v)'
  BY <1>1, <1>3, <1>8 DEF Applying
<1>13. \A v \in Update : update'[v].pc # "write"
  BY <1>1, <1>3, <1>8
<1>14. \A v \in Update : update'[v].todo # {} => update'[v].pc = "schedule"
  BY <1>1, <1>3, <1>8
<1>15. \A e \in Environment : rollout'[e] = "ended"
  BY <1>2, <1>9
<1> QED
  BY <1>2, <1>3, <1>11, <1>12, <1>13, <1>14, <1>15 DEF Calm

LEMMA QueueScaleFailsCalm ==
    ASSUME SettingsTypes, Calm, ~Overlap', unapplied' = unapplied \cup {"availability"}, NEW u \in Update,
           QueueImmediateScaleFails(u)
    PROVE  Calm'
<1> DEFINE b == update[u].before
           p == update[u].payload
           doc == [update[u] EXCEPT !.pc = "schedule", !.todo = ScheduleTargets(u)]
<1>1. doc \in UpdateDoc /\ doc.pc = "schedule" /\ doc.todo = ScheduleTargets(u)
  BY DEF SettingsTypes, UpdateDoc, ScheduleTargets
<1>2. /\ update' = [update EXCEPT ![u] = doc] /\ update[u].pc = "scale"
      /\ UNCHANGED <<service, scales, rollout, rules, workload, report>>
  BY DEF QueueImmediateScaleFails, UpdateAt
<1>3. /\ ~Working /\ service = Overlay(b, p) /\ Agrees(b) /\ PortKnown(service)
      /\ report.pc # "write"
      /\ \A v \in Update : v # u => update[v].pc \in {"new", "done"}
      /\ \A v \in Update : update[v].todo = {}
  BY <1>2, ApplyingAlone DEF Applying, ApplyKnows
<1>4. b \in ServiceDoc
  BY <1>2, PayloadInFlight
<1>5. service.schedule = IF Given(p, "schedule") THEN p["schedule"] ELSE b.schedule
  BY <1>3, <1>4, OverlaidFields DEF Field
<1>6. ScheduleTargets(u) = IF Changes(b, p, "schedule") THEN Environment ELSE {}
  BY DEF ScheduleTargets
<1> HIDE DEF b, p, doc
<1>7. \A v \in Update : update'[v] = IF v = u THEN doc ELSE update[v]
  BY <1>1, <1>2, StepOf
<1>8. Scaling = {} /\ Scaling' = {} /\ \A e \in Environment : rollout[e] = "ended"
  BY <1>2, <1>3 DEF Working, RollingOut, Scaling
<1>9. \A e \in Environment : RolloutKnows(e)'
  <2>1. \A e \in Environment : InTodo(e)' <=> Changes(b, p, "schedule")
    BY <1>1, <1>3, <1>6, <1>7 DEF InTodo
  <2>2. ~Changes(b, p, "schedule") => service.schedule = b.schedule
    BY <1>5 DEF Changes
  <2> QED
    BY <1>2, <1>3, <1>8, <2>1, <2>2 DEF RolloutKnows, Agrees
<1>10. Settling'
  BY <1>2, <1>3, <1>8, <1>9 DEF Settling, PortKnown
<1>11. \A v \in Update : ~Applying(v)' /\ update'[v].pc # "write"
  BY <1>1, <1>3, <1>7 DEF Applying
<1>12. \A v \in Update : update'[v].todo # {} => update'[v].pc = "schedule"
  BY <1>1, <1>3, <1>7
<1>13. \A e \in Environment : rollout'[e] = "ended"
  BY <1>2, <1>8
<1> QED
  BY <1>2, <1>3, <1>10, <1>11, <1>12, <1>13 DEF Calm

LEMMA QueueScheduleCalm ==
    ASSUME SettingsTypes, Calm, ~Overlap', unapplied' = unapplied, NEW u \in Update, NEW e \in Environment,
           QueueScheduleDeploy(u, e)
    PROVE  Calm'
<1> DEFINE doc == [update[u] EXCEPT !.todo = @ \ {e}]
<1>1. doc \in UpdateDoc /\ doc.pc = "schedule" /\ doc.todo = update[u].todo \ {e}
  BY DEF SettingsTypes, UpdateDoc, QueueScheduleDeploy
<1>2. /\ update' = [update EXCEPT ![u] = doc] /\ update[u].pc = "schedule"
      /\ UNCHANGED <<service, scales, rules, workload, report>>
  BY DEF QueueScheduleDeploy
<1> HIDE DEF doc
<1>3. \A v \in Update : update'[v] = IF v = u THEN doc ELSE update[v]
  BY <1>1, <1>2, StepOf
<1>4. \A v \in Update : v # u => update[v].pc \in {"new", "done"} /\ update[v].todo = {}
  BY <1>2, SettingsAlone DEF Calm, UpdateAlone
<1>5. rollout[e] = "ended"
  BY DEF QueueScheduleDeploy, Calm, InTodo
<1>6. \A f \in Environment : rollout'[f] = IF f = e THEN "queued" ELSE rollout[f]
  BY <1>5 DEF QueueScheduleDeploy, SettingsTypes
<1>7. \A f \in Environment : InTodo(f)' <=> InTodo(f) /\ f # e
  BY <1>1, <1>3, <1>4 DEF InTodo
<1>8. \A v \in Update : ~Applying(v) /\ ~Applying(v)' /\ update'[v].pc # "write"
  BY <1>1, <1>2, <1>3, <1>4 DEF Applying
<1>9. Settling'
  <2>1. Settling
    BY <1>8 DEF Calm
  <2>2. e \in RollingOut'
    BY <1>6 DEF RollingOut
  <2>3. \A f \in Environment : RolloutKnows(f)'
    BY <1>2, <1>6, <1>7, <2>1 DEF Settling, RolloutKnows
  <2> QED
    BY <1>2, <2>1, <2>2, <2>3 DEF Settling, Working, Scaling, ScaleKnows, PortKnown, NoneFailed
<1>10. \A f \in Environment : InTodo(f)' => rollout'[f] = "ended"
  BY <1>6, <1>7 DEF Calm
<1>11. \A v \in Update : update'[v].todo # {} => update'[v].pc = "schedule"
  BY <1>1, <1>3, <1>4
<1> QED
  BY <1>2, <1>8, <1>9, <1>10, <1>11 DEF Calm

\* While an operation works nobody is reading the service.
LEMMA WorkingAlone ==
    ASSUME Calm, Working
    PROVE  /\ Settling /\ WorkAlone /\ report.pc # "write"
           /\ \A u \in Update : ~Applying(u) /\ update[u].pc # "write"
  BY SettingsAlone DEF Calm, ReaderAlone, ReportAlone, Applying, ApplyKnows, Reporting

LEMMA WorkCalm ==
    ASSUME Calm, ~Overlap', Working, UNCHANGED <<update, report>>, Settling',
           \A e \in Environment : rollout[e] = "ended" => rollout'[e] = "ended"
    PROVE  Calm'
  BY WorkingAlone DEF Calm, Applying, InTodo

LEMMA ScaleCalm ==
    ASSUME SettingsTypes, Calm, ~Overlap', unapplied' = unapplied, NEW i \in DOMAIN scales,
           Scale(i) \/ ScaleSucceeded(i) \/ ScaleFailed(i, "queued")
    PROVE  Calm'
<1>1. i \in Scaling /\ Working
  BY DEF Scale, ScaleSucceeded, ScaleFailed, Scaling, Working
<1>2. Settling /\ ScaleKnows(i) /\ \A j \in Scaling : j = i
  BY <1>1, WorkingAlone DEF Settling, WorkAlone
<1>3. \A e \in Environment : rollout[e] = "ended"
  BY <1>1, WorkingAlone DEF WorkAlone, RollingOut
<1>4. UNCHANGED <<update, report, rollout, rules>>
  BY DEF Scale, ScaleSucceeded, ScaleFailed
<1>5. RollingOut' = {}
  BY <1>3, <1>4 DEF RollingOut
<1>6. service \in ServiceDoc /\ workload \in Workload
  BY DEF SettingsTypes
<1>7. CASE Scale(i)
  <2>1. /\ SetScale(i, "performed") /\ service' = service /\ scales[i].status = "queued"
        /\ workload' = [workload EXCEPT !.active = scales[i].active, !.size = scales[i].size]
    BY <1>7 DEF Scale
  <2>2. /\ DOMAIN scales' = DOMAIN scales
        /\ \A j \in DOMAIN scales :
             /\ scales'[j].status = IF j = i THEN "performed" ELSE scales[j].status
             /\ scales'[j].active = scales[j].active /\ scales'[j].size = scales[j].size
    BY <2>1, ScaleKeepsTypes
  <2>3. Scaling' = {i}
    BY <1>1, <1>2, <2>2 DEF Scaling
  <2>4. /\ workload'.active = scales[i].active /\ workload'.size = scales[i].size
        /\ workload'.schedule = workload.schedule
    BY <1>6, <2>1 DEF Workload
  <2>5. ScaleKnows(i)'
    BY <1>2, <2>1, <2>2, <2>4 DEF ScaleKnows
  <2>6. Settling'
    BY <1>2, <1>3, <1>4, <2>1, <2>3, <2>4, <2>5
    DEF Settling, Working, PortKnown, RolloutKnows, InTodo
  <2> QED
    BY <1>1, <1>4, <2>6, WorkCalm
<1>8. ASSUME NEW s \in {"succeeded", "failed"}, SetScale(i, s), workload' = workload,
             "availability" \notin unapplied => service'.active = workload.active,
             service'.status # "running",
             service'.size = service.size, service'.port = service.port,
             service'.schedule = service.schedule,
             "availability" \notin unapplied /\ s = "succeeded" => workload.size = service.size
      PROVE  Calm'
  <2>1. /\ DOMAIN scales' = DOMAIN scales
        /\ \A j \in DOMAIN scales : scales'[j].status = IF j = i THEN s ELSE scales[j].status
    BY <1>8, ScaleKeepsTypes
  <2>2. Scaling' = {}
    BY <1>2, <1>8, <2>1 DEF Scaling
  <2>3. NoneFailed' => s = "succeeded"
    BY <1>8, <2>1 DEF NoneFailed
  <2>4. Settling'
    BY <1>2, <1>3, <1>4, <1>8, <2>2, <2>3 DEF Settling, PortKnown, RolloutKnows, InTodo
  <2> QED
    BY <1>1, <1>4, <2>4, WorkCalm
<1>9. CASE ScaleSucceeded(i)
  <2>1. /\ service'.active = scales[i].active /\ service'.status \in {"pending", "idle"}
        /\ service'.size = service.size /\ service'.port = service.port
        /\ service'.schedule = service.schedule
    BY <1>6, <1>9 DEF ScaleSucceeded, ServiceDoc, ServiceOf
  <2>2. /\ scales[i].status = "performed" /\ SetScale(i, "succeeded") /\ workload' = workload
    BY <1>9 DEF ScaleSucceeded
  <2> QED
    BY <1>2, <1>8, <2>1, <2>2 DEF ScaleKnows
<1>10. CASE ScaleFailed(i, "queued")
  <2>1. /\ service'.active = scales[i].previousActive /\ service'.status = "error"
        /\ service'.size = service.size /\ service'.port = service.port
        /\ service'.schedule = service.schedule
    BY <1>6, <1>10 DEF ScaleFailed, ServiceDoc, ServiceOf
  <2>2. /\ scales[i].status = "queued" /\ SetScale(i, "failed") /\ workload' = workload
    BY <1>10 DEF ScaleFailed
  <2> QED
    BY <1>2, <1>8, <2>1, <2>2 DEF ScaleKnows
<1> QED
  BY <1>7, <1>9, <1>10

LEMMA RolloutCalm ==
    ASSUME SettingsTypes, Calm, ~Overlap', unapplied' = unapplied, NEW e \in Environment,
           RolloutStarts(e) \/ RolloutRuns(e) \/ RolloutSucceeded(e)
    PROVE  Calm'
<1>1. e \in RollingOut /\ Working
  BY DEF RolloutStarts, RolloutRuns, RolloutSucceeded, RolloutAt, RollingOut, Working
<1>2. Settling /\ Scaling = {} /\ \A f \in Environment : f # e => rollout[f] = "ended"
  BY <1>1, WorkingAlone DEF WorkAlone, RollingOut
<1>3. UNCHANGED <<update, report, scales, rules>>
  BY DEF RolloutStarts, RolloutRuns, RolloutSucceeded, RolloutAt
<1>4. Scaling' = {} /\ (NoneFailed' <=> NoneFailed)
  BY <1>2, <1>3 DEF Scaling, NoneFailed
<1>5. service \in ServiceDoc /\ workload \in Workload
  BY DEF SettingsTypes
<1>6. \A f \in Environment : InTodo(f)' <=> InTodo(f)
  BY <1>3 DEF InTodo
<1>7. \A f \in Environment : f # e => rollout'[f] = rollout[f]
  BY DEF SettingsTypes, RolloutStarts, RolloutRuns, RolloutSucceeded, RolloutAt
<1>8. \A f \in Environment : rollout[f] = "ended" => rollout'[f] = "ended"
  BY <1>1, <1>7 DEF RollingOut
<1>9. CASE RolloutStarts(e)
  <2>1. rollout'[e] = "running" /\ workload' = workload
    BY <1>9 DEF RolloutStarts, RolloutAt, SettingsTypes
  <2>2. /\ service'.size = service.size /\ service'.port = service.port
        /\ service'.schedule = service.schedule
    BY <1>5, <1>9 DEF RolloutStarts, ServiceDoc, ServiceOf
  <2>3. Working'
    BY <2>1 DEF Working, RollingOut
  <2>4. Settling'
    BY <1>2, <1>3, <1>4, <1>6, <1>7, <2>1, <2>2, <2>3 DEF Settling, PortKnown, RolloutKnows
  <2> QED
    BY <1>1, <1>3, <1>8, <2>4, WorkCalm
<1>10. CASE RolloutRuns(e)
  <2>1. rollout'[e] = "performed" /\ service' = service
    BY <1>10 DEF RolloutRuns, RolloutAt, SettingsTypes
  <2>2. /\ workload'.active = TRUE /\ workload'.size = service.size
        /\ \A f \in Environment :
             workload'.schedule[f] = IF f = e THEN service.schedule ELSE workload.schedule[f]
    BY <1>5, <1>10 DEF RolloutRuns, Workload
  <2>3. Working'
    BY <2>1 DEF Working, RollingOut
  <2>4. Settling'
    BY <1>2, <1>3, <1>4, <1>6, <1>7, <2>1, <2>2, <2>3 DEF Settling, PortKnown, RolloutKnows
  <2> QED
    BY <1>1, <1>3, <1>8, <2>4, WorkCalm
<1>11. CASE RolloutSucceeded(e)
  <2>1. rollout[e] = "performed" /\ rollout'[e] = "ended" /\ workload' = workload
    BY <1>11 DEF RolloutSucceeded, RolloutAt, SettingsTypes
  <2>2. /\ service'.size = service.size /\ service'.port = service.port
        /\ service'.schedule = service.schedule /\ service'.active = TRUE
        /\ service'.status = "created"
    BY <1>5, <1>11 DEF RolloutSucceeded, ServiceDoc, ServiceOf
  <2>3. "availability" \notin unapplied => workload.active = TRUE
    BY <1>2, <1>5, <2>1 DEF Settling, RolloutKnows, Workload
  <2>4. \A f \in Environment : RolloutKnows(f)'
    BY <1>2, <1>6, <1>7, <2>1, <2>2, <2>3 DEF Settling, RolloutKnows
  <2>5. Settling'
    BY <1>2, <1>3, <1>4, <2>1, <2>2, <2>3, <2>4 DEF Settling, PortKnown
  <2> QED
    BY <1>1, <1>3, <1>8, <2>5, WorkCalm
<1> QED
  BY <1>9, <1>10, <1>11

\* An operation of the rules ends.
LEMMA PublishRulesCalm ==
    ASSUME SettingsTypes, Calm, ~Overlap',
           \/ PublishRules /\ unapplied' = unapplied
           \/ PublishRulesFails /\ unapplied' = unapplied \cup {"port"}
    PROVE  Calm'
<1>1. UNCHANGED <<service, update, scales, rollout, workload, report>>
  BY DEF PublishRules, PublishRulesFails
<1>2. "port" \notin unapplied' =>
         /\ "port" \notin unapplied /\ rules'.port = rules.port
         /\ rules'.pending = 0 => rules'.published = rules'.port
  BY DEF SettingsTypes, RulesDoc, PublishRules, PublishRulesFails
<1>3. /\ "availability" \notin unapplied' => "availability" \notin unapplied
      /\ "schedule" \notin unapplied' => "schedule" \notin unapplied
  OBVIOUS
<1>4. ASSUME NEW u \in Update, ApplyKnows(u) PROVE ApplyKnows(u)'
  <2>1. PortKnown(IF update[u].pc = "scale" THEN service ELSE update[u].before)'
    BY <1>1, <1>2, <1>4 DEF ApplyKnows, PortKnown
  <2>2. Agrees(update[u].before)'
    BY <1>1, <1>3, <1>4 DEF ApplyKnows, Agrees, NoneFailed
  <2> QED
    BY <1>1, <1>4, <2>1, <2>2 DEF ApplyKnows, Working, Scaling, RollingOut
<1>5. ASSUME Settling PROVE Settling'
  <2>1. PortKnown(service)'
    BY <1>1, <1>2, <1>5 DEF Settling, PortKnown
  <2> QED
    BY <1>1, <1>3, <1>5, <2>1
    DEF Settling, Working, Scaling, RollingOut, ScaleKnows, RolloutKnows, InTodo, NoneFailed
<1> QED
  BY <1>1, <1>4, <1>5 DEF Calm, Applying, InTodo

\* A worker changes the workload against what is recorded, at any time.
LEMMA ScaleLateCalm ==
    ASSUME SettingsTypes, Calm, ~Overlap', unapplied' = unapplied \cup {"availability"},
           NEW i \in DOMAIN scales, ScaleLate(i)
    PROVE  Calm'
<1>1. UNCHANGED <<service, update, scales, rollout, rules, report>> /\ workload'.schedule = workload.schedule
  BY DEF ScaleLate, SettingsTypes, Workload
<1>2. /\ "availability" \in unapplied'
      /\ "schedule" \notin unapplied' => "schedule" \notin unapplied
      /\ "port" \notin unapplied' => "port" \notin unapplied
  OBVIOUS
<1>3. ASSUME NEW u \in Update, ApplyKnows(u) PROVE ApplyKnows(u)'
  BY <1>1, <1>2, <1>3 DEF ApplyKnows, Agrees, PortKnown, Working, Scaling, RollingOut
<1>4. ASSUME Settling PROVE Settling'
  BY <1>1, <1>2, <1>4 DEF Settling, PortKnown, Scaling, ScaleKnows, RolloutKnows, InTodo
<1> QED
  BY <1>1, <1>3, <1>4 DEF Calm, Applying, InTodo

LEMMA ScaleFailedLateCalm ==
    ASSUME SettingsTypes, Calm, ~Overlap', unapplied' = unapplied \cup {"availability"},
           NEW i \in DOMAIN scales, ScaleFailed(i, "performed")
    PROVE  Calm'
<1>1. i \in Scaling /\ Working
  BY DEF ScaleFailed, Scaling, Working
<1>2. Settling /\ \A j \in Scaling : j = i
  BY <1>1, WorkingAlone DEF WorkAlone
<1>3. UNCHANGED <<update, report, rollout, rules, workload>> /\ SetScale(i, "failed")
  BY DEF ScaleFailed
<1>4. service'.port = service.port /\ service'.schedule = service.schedule
  BY DEF ScaleFailed, SettingsTypes, ServiceDoc, ServiceOf
<1>5. /\ DOMAIN scales' = DOMAIN scales
      /\ \A j \in DOMAIN scales : scales'[j].status = IF j = i THEN "failed" ELSE scales[j].status
  BY <1>3, ScaleKeepsTypes
<1>6. Scaling' = {}
  BY <1>2, <1>5 DEF Scaling
<1>7. Settling'
  BY <1>2, <1>3, <1>4, <1>6 DEF Settling, PortKnown, RolloutKnows, InTodo
<1> QED
  BY <1>1, <1>3, <1>7, WorkCalm

LEMMA RolloutFailedCalm ==
    ASSUME SettingsTypes, Calm, ~Overlap', unapplied' = unapplied \cup {"availability", "schedule"},
           NEW e \in Environment, RolloutFailed(e)
    PROVE  Calm'
<1>1. e \in RollingOut /\ Working
  BY DEF RolloutFailed, RolloutAt, RollingOut, Working
<1>2. Settling /\ Scaling = {}
  BY <1>1, WorkingAlone DEF WorkAlone
<1>3. UNCHANGED <<update, report, scales, rules, workload>>
  BY DEF RolloutFailed, RolloutAt
<1>4. service'.port = service.port
  BY DEF RolloutFailed, SettingsTypes, ServiceDoc, ServiceOf
<1>5. \A f \in Environment : rollout[f] = "ended" => rollout'[f] = "ended"
  BY DEF SettingsTypes, RolloutFailed, RolloutAt
<1>6. Scaling' = {}
  BY <1>2, <1>3 DEF Scaling
<1>7. Settling'
  BY <1>2, <1>3, <1>4, <1>6 DEF Settling, PortKnown, RolloutKnows
<1> QED
  BY <1>1, <1>3, <1>5, <1>7, WorkCalm

LEMMA ReportCalm ==
    ASSUME SettingsTypes, Calm, ~Overlap', unapplied' = unapplied,
           (\E s \in {"healthy", "idle", "unknown", "crashloop"} : ReportRuntime(s)) \/ WriteRuntime
    PROVE  Calm'
<1>1. CASE \E s \in {"healthy", "idle", "unknown", "crashloop"} : ReportRuntime(s)
  <2>1. /\ report'.pc = "write" /\ report'.active = service.active
        /\ UNCHANGED <<service, update, scales, rollout, rules, workload>>
    BY <1>1 DEF ReportRuntime
  <2> QED
    BY <2>1 DEF Calm, Settling, Working, Scaling, RollingOut, ScaleKnows, RolloutKnows, InTodo,
                PortKnown, NoneFailed, Applying, ApplyKnows, Agrees
<1>2. CASE WriteRuntime
  <2>1. /\ report.pc = "write" /\ report'.pc = "idle"
        /\ UNCHANGED <<update, scales, rollout, rules, workload>>
    BY <1>2 DEF WriteRuntime, NoReport
  <2>2. ~Working /\ \A u \in Update : update[u].pc \in {"new", "done"}
    BY <2>1, SettingsAlone DEF Calm, ReportAlone, Reporting
  <2>3. /\ service'.active = service.active /\ service'.port = service.port
        /\ service'.size = service.size /\ service'.schedule = service.schedule
        /\ service'.status # service.status => service.active
    <3>1. service \in ServiceDoc /\ report.active = service.active
      BY <2>1 DEF SettingsTypes, Calm
    <3> QED
      BY <1>2, <3>1 DEF WriteRuntime, ShouldUpdateServiceStatus, ServiceDoc, ServiceOf
  <2>4. Settling
    BY <2>2 DEF Calm, Applying
  <2>5. Settling'
    BY <2>1, <2>3, <2>4
    DEF Settling, Working, Scaling, RollingOut, ScaleKnows, RolloutKnows, InTodo, PortKnown, NoneFailed
  <2> QED
    BY <2>1, <2>2, <2>5 DEF Calm, Applying, InTodo
<1> QED
  BY <1>1, <1>2

LEMMA SettingsInvStep == SettingsInv /\ [SettingsNext]_settingsVars => SettingsInv'
<1> SUFFICES ASSUME SettingsInv, [SettingsNext]_settingsVars PROVE SettingsInv'
  OBVIOUS
<1>1. SettingsTypes /\ SettingsTypes'
  BY SettingsTypesStep DEF SettingsInv
<1>2. ASSUME SettingsNext, calm' PROVE Calm'
  <2>1. Calm /\ ~Overlap'
    BY <1>1, <1>2 DEF SettingsNext, SettingsInv, SettingsTypes
  <2>2. /\ Leaves({}) => unapplied' = unapplied
        /\ \A what : Leaves(what) => unapplied' = unapplied \cup what
    BY DEF Leaves
  <2> HIDE DEF Leaves
  <2> QED
    BY <1>1, <1>2, <2>1, <2>2, LoadServiceCalm, EndsCalm, WriteServiceCalm, ReloadServiceCalm,
       RepublishRulesCalm, QueueScaleCalm, QueueScheduleCalm, ScaleCalm, RolloutCalm, ReportCalm,
       PublishRulesCalm, SkipRulesCalm, QueueScaleFailsCalm, ScaleLateCalm, ScaleFailedLateCalm,
       RolloutFailedCalm, StopCalm
    DEF SettingsNext
<1>3. CASE UNCHANGED settingsVars
  <2>1. Calm' <=> Calm
    BY <1>3
    DEF settingsVars, Calm, Overlap, UpdatesInFlight, Reading, Reporting, Settling, Working, Scaling,
        RollingOut, ScaleKnows, RolloutKnows, InTodo, PortKnown, NoneFailed, Applying, ApplyKnows, Agrees
  <2> QED
    BY <1>1, <1>3, <2>1 DEF SettingsInv, settingsVars
<1> QED
  BY <1>1, <1>2, <1>3 DEF SettingsInv

\* Updates, operations and reports that do not overlap, and of which nothing is
\* unapplied, leave the service as it runs, for any settings, requests and environments.
THEOREM UpdatesTakeEffect == SettingsSpec => []SettledMeansApplied
<1>1. SettingsInv => SettledMeansApplied
  <2> SUFFICES ASSUME SettingsInv, calm, UpdatesInFlight = {}, ~Working, ~Reporting
               PROVE  /\ "availability" \notin unapplied =>
                           /\ service.active = workload.active
                           /\ ~service.active => service.status # "running"
                           /\ (\A i \in DOMAIN scales : scales[i].status = "succeeded") =>
                                 service.size = workload.size
                      /\ "schedule" \notin unapplied =>
                           \A e \in Environment : service.schedule = workload.schedule[e]
                      /\ "port" \notin unapplied /\ rules.pending = 0 /\ service.port > 0 =>
                           rules.published = service.port
    BY DEF SettledMeansApplied
  <2>1. Calm
    BY DEF SettingsInv
  <2>2. \A u \in Update : ~Applying(u) /\ update[u].todo = {}
    BY <2>1 DEF Calm, UpdatesInFlight, Applying
  <2>3. Settling /\ Scaling = {} /\ \A e \in Environment : rollout[e] = "ended"
    BY <2>1, <2>2 DEF Calm, Working, RollingOut
  <2> QED
    BY <2>2, <2>3 DEF Settling, RolloutKnows, InTodo, PortKnown, NoneFailed
<1> QED
  BY <1>1, SettingsInvInit, SettingsInvStep, PTL DEF SettingsSpec

-----------------------------------------------------------------------------
(* DeployResolution *)

\* The records a request found when it began are still there.
Kept(known, now) == Len(known) <= Len(now) /\ \A i \in DOMAIN known : known[i] = now[i]

\* The releases of the source environment, and those of them that could not be
\* reproduced when the request began.
Mine == {i \in DOMAIN releases : releases[i].environment = asked.request.from}
Lost(i) == ImagesOfRelease(before.releases[i], before.builds) = {}

\* What a request has established, at each of its lookups: a release it has
\* tried could not be reproduced.
Established ==
    /\ asked.pc = "commit" => asked.request.source # "registry"
    /\ asked.pc \in {"releases", "release"} => asked.request.kind = "promote"
    /\ asked.pc = "release" =>
         /\ asked.todo # {} /\ asked.todo \subseteq Mine
         /\ \A i \in Mine \cap DOMAIN before.releases : i \in asked.todo \/ Lost(i)

\* The two parts of ResolutionIsAsNamed, of an image.
IsVersion(image) ==
    image # NoImage /\ image \in ImagesOf(asked.request.version, asked.request.image)

IsRelease(image) ==
    \E i \in Mine :
        /\ image \in ImagesOfRelease(releases[i], builds)
        /\ \A j \in Mine \cap DOMAIN before.releases : j > i => Lost(j)

AsksVersion ==
    asked.request.kind = "deploy" /\ asked.request.source = "registry"
    /\ asked.request.version \notin Aliases

AsNamed(image) ==
    (AsksVersion => IsVersion(image)) /\ (asked.request.kind = "promote" => IsRelease(image))

AnsweredAsNamed ==
    asked.pc = "done" /\ asked.result.status = "ok" => AsNamed(asked.result.image)

ResolutionInv ==
    /\ ResolutionTypeOK
    /\ before.builds \in Seq(BuildDoc) /\ before.releases \in Seq(ReleaseDoc)
    /\ Kept(before.builds, builds) /\ Kept(before.releases, releases)
    /\ asked.pc # "idle" => asked.request \in Ask
    /\ Established
    /\ ResolutionIsAsNamed

LEMMA NamedParts == ResolutionIsAsNamed <=> AnsweredAsNamed
  BY DEF ResolutionIsAsNamed, AnsweredAsNamed, AsNamed, AsksVersion, IsVersion, IsRelease, Mine, Lost

LEMMA NamedPartsNext == ResolutionIsAsNamed' <=> AnsweredAsNamed'
  BY NamedParts, PTL

ResultDoc == [status : {"ok", "failed"}, version : Word, image : ImageRef]
AskPc == {"idle", "commit", "environment", "anywhere", "fallback", "releases", "release", "done"}

LEMMA ImagesTyped ==
    /\ NoImage \in ImageRef /\ Failed \in ResultDoc /\ Failed.status = "failed"
    /\ \A image \in ImageRef, tag \in Word : Tagged(image, tag) \in ImageRef
    /\ \A status \in {"ok", "failed"}, version \in Word, image \in ImageRef :
         /\ Result(status, version, image) \in ResultDoc
         /\ Result(status, version, image).status = status
         /\ Result(status, version, image).image = image
<1>1. NoImage \in ImageRef
  BY RecordAssumption DEF NoImage, ImageRef
<1>2. \A status \in {"ok", "failed"}, version \in Word, image \in ImageRef :
         /\ Result(status, version, image) \in ResultDoc
         /\ Result(status, version, image).status = status
         /\ Result(status, version, image).image = image
  BY DEF Result, ResultDoc
<1>3. Failed \in ResultDoc /\ Failed.status = "failed"
  BY <1>1, <1>2, RecordAssumption DEF Failed
<1>4. ASSUME NEW image \in ImageRef, NEW tag \in Word PROVE Tagged(image, tag) \in ImageRef
  <2>1. [image EXCEPT !.tag = tag] \in ImageRef
    BY DEF ImageRef
  <2> QED
    BY <1>1, <2>1 DEF Tagged
<1> QED
  BY <1>1, <1>2, <1>3, <1>4

LEMMA AskedFields ==
    ASSUME ResolutionTypeOK
    PROVE  /\ asked \in [pc : AskPc, todo : SUBSET DOMAIN releases, request : Ask \cup {NoAsk.request},
                         result : ResultDoc]
           /\ builds \in Seq(BuildDoc) /\ releases \in Seq(ReleaseDoc)
  BY DEF ResolutionTypeOK, AskPc, ResultDoc

-----------------------------------------------------------------------------
\* A lookup leaves the records alone.
LEMMA LookupGoesOn ==
    ASSUME ResolutionInv, UNCHANGED <<builds, releases, before>>, asked.pc # "idle",
           NEW pc \in {"anywhere", "fallback", "releases"},
           pc = "releases" => asked.request.kind = "promote",
           asked' = [asked EXCEPT !.pc = pc]
    PROVE  ResolutionInv'
<1>1. asked \in [pc : AskPc, todo : SUBSET DOMAIN releases, request : Ask \cup {NoAsk.request},
                 result : ResultDoc]
  BY AskedFields DEF ResolutionInv
<1>2. asked' \in [pc : AskPc, todo : SUBSET DOMAIN releases, request : Ask \cup {NoAsk.request},
                  result : ResultDoc]
  BY <1>1 DEF AskPc
<1>3. asked'.pc = pc /\ asked'.request = asked.request
  BY <1>1
<1>4. ResolutionTypeOK'
  BY <1>2 DEF ResolutionInv, ResolutionTypeOK, AskPc, ResultDoc
<1>5. Established' /\ ResolutionIsAsNamed'
  BY <1>3 DEF Established, ResolutionIsAsNamed
<1> QED
  BY <1>3, <1>4, <1>5 DEF ResolutionInv, Kept

LEMMA LookupAnswers ==
    ASSUME ResolutionInv, UNCHANGED <<builds, releases, before>>, asked.pc # "idle",
           NEW result \in ResultDoc, result.status = "ok" => AsNamed(result.image),
           Resolved(result)
    PROVE  ResolutionInv'
<1>1. asked \in [pc : AskPc, todo : SUBSET DOMAIN releases, request : Ask \cup {NoAsk.request},
                 result : ResultDoc]
  BY AskedFields DEF ResolutionInv
<1>2. asked' \in [pc : AskPc, todo : SUBSET DOMAIN releases, request : Ask \cup {NoAsk.request},
                  result : ResultDoc]
  BY <1>1 DEF AskPc, Resolved
<1>3. asked'.pc = "done" /\ asked'.request = asked.request /\ asked'.result = result
  BY <1>1 DEF Resolved
<1>4. ResolutionTypeOK'
  BY <1>2 DEF ResolutionInv, ResolutionTypeOK, AskPc, ResultDoc
<1>5. Established'
  BY <1>3 DEF Established
<1>6. result.status = "ok" => AsNamed(asked.result.image)'
  <2>1. AsksVersion' <=> AsksVersion
    BY <1>3 DEF AsksVersion
  <2>2. IsVersion(result.image) => IsVersion(asked.result.image)'
    BY <1>3 DEF IsVersion, ImagesOf
  <2>3. Mine' = Mine
    BY <1>3 DEF Mine
  <2>4. \A j : Lost(j)' <=> Lost(j)
    BY DEF Lost
  <2>5. IsRelease(result.image) => IsRelease(asked.result.image)'
    BY <1>3, <2>3, <2>4 DEF IsRelease
  <2> QED
    BY <1>3, <2>1, <2>2, <2>5 DEF AsNamed
<1>7. ResolutionIsAsNamed'
  BY <1>3, <1>6, NamedPartsNext DEF AnsweredAsNamed
<1> QED
  BY <1>3, <1>4, <1>5, <1>7 DEF ResolutionInv, Kept

LEMMA LookupTargets ==
    ASSUME ResolutionInv, UNCHANGED <<builds, releases, before>>, asked.pc # "idle",
           NEW result \in ResultDoc, result.status = "ok" /\ AsksVersion => IsVersion(result.image),
           Targeted(result)
    PROVE  ResolutionInv'
<1>1. CASE asked.request.kind = "promote" /\ result # Failed
  BY <1>1, LookupGoesOn DEF Targeted
<1>2. CASE ~(asked.request.kind = "promote" /\ result # Failed)
  <2>1. Resolved(result)
    BY <1>2 DEF Targeted
  <2>2. result.status = "ok" => asked.request.kind # "promote"
    BY <1>2, ImagesTyped
  <2> QED
    BY <2>1, <2>2, LookupAnswers DEF AsNamed
<1> QED
  BY <1>1, <1>2

-----------------------------------------------------------------------------
\* What a record that is added leaves as it was.
LEMMA RecordAdded ==
    ASSUME NEW S, NEW s \in Seq(S), NEW e \in S
    PROVE  /\ Append(s, e) \in Seq(S) /\ Len(Append(s, e)) = Len(s) + 1
           /\ DOMAIN s \subseteq DOMAIN Append(s, e)
           /\ \A i \in DOMAIN s : Append(s, e)[i] = s[i]
           /\ Range(s) \subseteq Range(Append(s, e))
           /\ \A known \in Seq(S) : Kept(known, s) => Kept(known, Append(s, e))
<1> DEFINE t == Append(s, e)
<1>1. t \in Seq(S) /\ Len(t) = Len(s) + 1 /\ DOMAIN s \subseteq DOMAIN t /\ \A i \in DOMAIN s : t[i] = s[i]
  OBVIOUS
<1> HIDE DEF t
<1>2. Range(s) \subseteq Range(t)
  BY <1>1 DEF Range
<1>3. ASSUME NEW known \in Seq(S), Kept(known, s) PROVE Kept(known, t)
  <2>1. Len(known) \in Nat /\ Len(s) \in Nat /\ DOMAIN known = 1 .. Len(known) /\ DOMAIN s = 1 .. Len(s)
    OBVIOUS
  <2>2. DOMAIN known \subseteq DOMAIN s
    BY <1>3, <2>1 DEF Kept
  <2> QED
    BY <1>1, <1>3, <2>1, <2>2 DEF Kept
<1> QED
  BY <1>1, <1>2, <1>3 DEF t

LEMMA KeptRange ==
    ASSUME NEW S, NEW known \in Seq(S), NEW now \in Seq(S), Kept(known, now)
    PROVE  DOMAIN known \subseteq DOMAIN now /\ Range(known) \subseteq Range(now)
<1>1. Len(known) \in Nat /\ Len(now) \in Nat /\ DOMAIN known = 1 .. Len(known) /\ DOMAIN now = 1 .. Len(now)
  OBVIOUS
<1>2. DOMAIN known \subseteq DOMAIN now
  BY <1>1 DEF Kept
<1> QED
  BY <1>2 DEF Kept, Range

\* More builds reproduce more.
LEMMA MoreImages ==
    ASSUME NEW known, NEW now, Range(known) \subseteq Range(now), NEW d
    PROVE  ImagesOfRelease(d, known) \subseteq ImagesOfRelease(d, now)
<1>1. CASE d.image # NoImage
  BY <1>1 DEF ImagesOfRelease
<1>2. CASE d.image = NoImage
  <2> DEFINE Of(s) == {x \in Range(s) : IF d.commit # "" THEN x.commit = d.commit
                                         ELSE x.environment = d.environment}
  <2>1. \A s : ImagesOfRelease(d, s) = {b.image : b \in Of(s)} \ {NoImage}
    BY <1>2 DEF ImagesOfRelease
  <2>2. Of(known) \subseteq Of(now)
    OBVIOUS
  <2> HIDE DEF Of
  <2> QED
    BY <2>1, <2>2
<1> QED
  BY <1>1, <1>2

LEMMA MoreVersions ==
    ASSUME Range(builds) \subseteq Range(builds'), NEW version, NEW image
    PROVE  ImagesOf(version, image) \subseteq ImagesOf(version, image)'
<1> DEFINE Named(s) == {b \in Range(s) : version \in {b.tag, b.sha, b.commit}}
<1>1. /\ ImagesOf(version, image) =
             {b.image : b \in Named(builds)}
             \cup {Tagged(image, t) : t \in {version} \cup {Text(b.tag) : b \in Named(builds)}}
             \cup {ReferenceOf[version]}
      /\ ImagesOf(version, image)' =
             {b.image : b \in Named(builds')}
             \cup {Tagged(image, t) : t \in {version} \cup {Text(b.tag) : b \in Named(builds')}}
             \cup {ReferenceOf[version]}
  BY DEF ImagesOf
<1>2. Named(builds) \subseteq Named(builds')
  OBVIOUS
<1> HIDE DEF Named
<1> QED
  BY <1>1, <1>2

\* A record that is added while a request is resolved takes nothing from it.
LEMMA RecordKeepsInv ==
    ASSUME ResolutionInv, UNCHANGED <<asked, before>>,
           \/ /\ \E b \in BuildDoc : builds' = Append(builds, b)
              /\ UNCHANGED releases
           \/ /\ \E d \in ReleaseDoc : releases' = Append(releases, d)
              /\ UNCHANGED builds,
           Len(builds) + Len(releases) < MaxRecords
    PROVE  ResolutionInv'
<1>1. /\ builds \in Seq(BuildDoc) /\ releases \in Seq(ReleaseDoc)
      /\ before.builds \in Seq(BuildDoc) /\ before.releases \in Seq(ReleaseDoc)
      /\ Kept(before.builds, builds) /\ Kept(before.releases, releases)
      /\ Len(builds) \in Nat /\ Len(releases) \in Nat
  BY AskedFields DEF ResolutionInv
<1>2. /\ builds' \in Seq(BuildDoc) /\ releases' \in Seq(ReleaseDoc)
      /\ Kept(before.builds, builds') /\ Kept(before.releases, releases')
      /\ Len(builds') + Len(releases') <= MaxRecords
      /\ Range(builds) \subseteq Range(builds')
      /\ DOMAIN releases \subseteq DOMAIN releases'
      /\ \A i \in DOMAIN releases : releases'[i] = releases[i]
  <2>1. CASE (\E b \in BuildDoc : builds' = Append(builds, b)) /\ UNCHANGED releases
    <3>1. PICK b \in BuildDoc : builds' = Append(builds, b)
      BY <2>1
    <3>2. /\ builds' \in Seq(BuildDoc) /\ Len(builds') = Len(builds) + 1
          /\ Kept(before.builds, builds') /\ Range(builds) \subseteq Range(builds')
      BY <1>1, <3>1, RecordAdded
    <3> QED
      <4>1. releases' = releases /\ Kept(before.releases, releases')
        BY <1>1, <2>1
      <4>2. Len(builds') + Len(releases') <= MaxRecords
        <5>1. Len(releases') = Len(releases)
          BY <4>1
        <5>2. MaxRecords \in Nat
          BY RecordAssumption
        <5> QED
          BY <1>1, <3>2, <5>1, <5>2
      <4> QED
        BY <1>1, <3>2, <4>1, <4>2
  <2>2. CASE (\E d \in ReleaseDoc : releases' = Append(releases, d)) /\ UNCHANGED builds
    <3>1. PICK d \in ReleaseDoc : releases' = Append(releases, d)
      BY <2>2
    <3>2. /\ releases' \in Seq(ReleaseDoc) /\ Len(releases') = Len(releases) + 1
          /\ Kept(before.releases, releases') /\ DOMAIN releases \subseteq DOMAIN releases'
          /\ \A i \in DOMAIN releases : releases'[i] = releases[i]
      BY <1>1, <3>1, RecordAdded
    <3> QED
      <4>1. builds' = builds /\ Kept(before.builds, builds')
        BY <1>1, <2>2
      <4>2. Len(builds') + Len(releases') <= MaxRecords
        <5>1. Len(builds') = Len(builds)
          BY <4>1
        <5>2. MaxRecords \in Nat
          BY RecordAssumption
        <5> QED
          BY <1>1, <3>2, <5>1, <5>2
      <4> QED
        BY <1>1, <3>2, <4>1, <4>2
  <2> QED
    BY <2>1, <2>2
<1>3. ResolutionTypeOK'
  <2>1. asked.todo \subseteq DOMAIN releases'
    BY <1>2 DEF ResolutionInv, ResolutionTypeOK
  <2> QED
    BY <1>2, <2>1 DEF ResolutionInv, ResolutionTypeOK
<1>4. Mine \subseteq Mine' /\ Mine' \cap DOMAIN before.releases \subseteq Mine
  <2>1. DOMAIN before.releases \subseteq DOMAIN releases
    BY <1>1, KeptRange
  <2> QED
    BY <1>2, <2>1 DEF Mine
<1>5. \A i : Lost(i)' <=> Lost(i)
  BY DEF Lost
<1>6. Established'
  BY <1>4, <1>5 DEF ResolutionInv, Established
<1>7. AsNamed(asked.result.image) => AsNamed(asked.result.image)'
  <2>1. IsVersion(asked.result.image) => IsVersion(asked.result.image)'
    BY <1>2, MoreVersions DEF IsVersion
  <2>2. IsRelease(asked.result.image) => IsRelease(asked.result.image)'
    <3> SUFFICES ASSUME IsRelease(asked.result.image) PROVE IsRelease(asked.result.image)'
      OBVIOUS
    <3>1. PICK i \in Mine :
             /\ asked.result.image \in ImagesOfRelease(releases[i], builds)
             /\ \A j \in Mine \cap DOMAIN before.releases : j > i => Lost(j)
      BY DEF IsRelease
    <3>2. asked.result.image \in ImagesOfRelease(releases'[i], builds')
      BY <1>2, <3>1, MoreImages DEF Mine
    <3>3. \A j \in Mine' \cap DOMAIN before.releases : j > i => Lost(j)'
      BY <1>4, <1>5, <3>1
    <3> QED
      BY <1>4, <3>2, <3>3 DEF IsRelease
  <2> QED
    BY <2>1, <2>2 DEF AsNamed, AsksVersion
<1>8. ResolutionIsAsNamed'
  BY <1>7, NamedParts, NamedPartsNext DEF ResolutionInv, AnsweredAsNamed
<1> QED
  BY <1>2, <1>3, <1>6, <1>8 DEF ResolutionInv

-----------------------------------------------------------------------------
\* A build that was found is one that the version names.
LEMMA FoundBuild ==
    ASSUME builds \in Seq(BuildDoc), NEW environment, NEW version,
           LatestBuild(environment, version) # 0
    PROVE  LET i == LatestBuild(environment, version)
           IN  /\ i \in DOMAIN builds /\ builds[i] \in BuildDoc /\ builds[i] \in Range(builds)
               /\ version \notin Aliases => Names(builds[i], version)
<1> DEFINE i == LatestBuild(environment, version)
           matching == {j \in DOMAIN builds :
              /\ environment \in {"", builds[j].environment}
              /\ IF version \in Aliases THEN builds[j].tag \notin {"", "latest"}
                 ELSE Names(builds[j], version)}
<1>1. i = (IF matching = {} THEN 0 ELSE Max(matching))
  BY DEF LatestBuild
<1>2. DOMAIN builds = 1 .. Len(builds) /\ Len(builds) \in Nat
  OBVIOUS
<1>3. matching \subseteq 1 .. Len(builds)
  BY <1>2
<1>4. i \in matching
  <2> HIDE DEF matching
  <2> QED
    BY <1>1, <1>2, <1>3, MaxInSet
<1>5. i \in DOMAIN builds /\ (version \notin Aliases => Names(builds[i], version))
  <2> HIDE DEF i
  <2> QED
    BY <1>4
<1> HIDE DEF i, matching
<1>6. builds[i] \in BuildDoc /\ builds[i] \in Range(builds)
  BY <1>5 DEF Range
<1> QED
  BY <1>5, <1>6 DEF i

\* What is taken from a build, or without one, is an image of that version.
LEMMA BuildTargetNamed ==
    ASSUME builds \in Seq(BuildDoc), NEW build \in BuildDoc, build \in Range(builds),
           NEW version \in Word, NEW image \in ImageRef,
           version \notin Aliases => Names(build, version)
    PROVE  LET target == BuildTarget(build, version, image)
           IN  /\ target \in ResultDoc
               /\ target.status = "ok" /\ version \notin Aliases =>
                    target.image # NoImage /\ target.image \in ImagesOf(version, image)
<1> DEFINE v == IF Text(build.tag) # "" THEN build.tag
                ELSE IF version \notin Aliases THEN version
                ELSE IF build.sha # "" THEN build.sha ELSE build.commit
           found == IF build.image # NoImage THEN build.image ELSE Tagged(image, v)
<1>1. BuildTarget(build, version, image) = IF v = "" \/ found = NoImage THEN Failed ELSE Result("ok", v, found)
  BY DEF BuildTarget
<1>2. v \in Word /\ build.image \in ImageRef /\ build.tag \in Word \cup {NoTag}
  BY RecordAssumption DEF Text
<1>3. found \in ImageRef
  BY <1>2, ImagesTyped
<1>4. version \notin Aliases => found \in ImagesOf(version, image)
  <2> SUFFICES ASSUME version \notin Aliases PROVE found \in ImagesOf(version, image)
    OBVIOUS
  <2> DEFINE named == {b \in Range(builds) : version \in {b.tag, b.sha, b.commit}}
  <2>1. build \in named
    BY DEF Names
  <2>2. ImagesOf(version, image) =
          {b.image : b \in named}
          \cup {Tagged(image, t) : t \in {version} \cup {Text(b.tag) : b \in named}}
          \cup {ReferenceOf[version]}
    BY DEF ImagesOf
  <2>3. v \in {version} \cup {Text(b.tag) : b \in named}
    BY <2>1 DEF Text
  <2> HIDE DEF named, v
  <2> QED
    BY <2>1, <2>2, <2>3
<1> HIDE DEF found, v
<1>5. /\ Result("ok", v, found) \in ResultDoc /\ Result("ok", v, found).image = found
      /\ Failed \in ResultDoc /\ Failed.status = "failed"
  BY <1>2, <1>3, ImagesTyped
<1> QED
  BY <1>1, <1>4, <1>5

LEMMA FallbackNamed ==
    ASSUME NEW version \in Word, NEW image \in ImageRef
    PROVE  LET target == FallbackTarget(version, image)
           IN  /\ target \in ResultDoc
               /\ target.status = "ok" /\ version \notin Aliases =>
                    target.image # NoImage /\ target.image \in ImagesOf(version, image)
<1> DEFINE tagged == Tagged(image, version)
<1>1. tagged \in ImagesOf(version, image)
  BY DEF ImagesOf
<1>2. tagged \in ImageRef /\ image.tag \in Word /\ "latest" \in Word
  BY ImagesTyped, RecordAssumption DEF ImageRef
<1>3. \A w \in Word, x \in ImageRef :
         /\ Result("ok", w, x) \in ResultDoc /\ Result("ok", w, x).image = x
         /\ Result("ok", w, x).status = "ok"
  BY ImagesTyped
<1>4. Failed \in ResultDoc /\ Failed.status = "failed"
  BY ImagesTyped
<1> DEFINE current == IF image.tag = "" THEN "latest" ELSE image.tag
<1>5. current \in Word
  BY <1>2
<1>6. FallbackTarget(version, image) =
        IF image = NoImage THEN Failed
        ELSE IF version \in Aliases THEN Result("ok", current, image)
        ELSE IF tagged = NoImage THEN Failed
        ELSE Result("ok", version, tagged)
  BY DEF FallbackTarget
<1> HIDE DEF tagged, current
<1> QED
  BY <1>1, <1>2, <1>3, <1>4, <1>5, <1>6

-----------------------------------------------------------------------------
\* The newest of the builds that reproduce a release, or none at all.
LEMMA ReleaseTried ==
    ASSUME builds \in Seq(BuildDoc), NEW release \in ReleaseDoc
    PROVE  LET target == ReleaseTarget(release)
           IN  /\ target \in ResultDoc
               /\ target.status = "ok" => target.image \in ImagesOfRelease(release, builds)
               /\ target = Failed => ImagesOfRelease(release, builds) = {}
<1> DEFINE usable == {i \in BuildsOf(release) : builds[i].image # NoImage}
           newest == Max(usable)
           b == builds[newest]
           own == IF release.commit # "" THEN release.commit ELSE release.image.tag
           found == IF b.commit # "" THEN b.commit ELSE b.image.tag
<1>1. ReleaseTarget(release) = IF release.image # NoImage THEN Result("ok", own, release.image)
                               ELSE IF usable = {} THEN Failed ELSE Result("ok", found, b.image)
  BY DEF ReleaseTarget
<1>2. DOMAIN builds = 1 .. Len(builds) /\ Len(builds) \in Nat /\ \A i \in DOMAIN builds : builds[i] \in BuildDoc
  OBVIOUS
<1>3. Failed \in ResultDoc /\ Failed.status = "failed"
  BY ImagesTyped
<1>4. \A w \in Word, x \in ImageRef :
         /\ Result("ok", w, x) \in ResultDoc /\ Result("ok", w, x).image = x
         /\ Result("ok", w, x).status = "ok"
  BY ImagesTyped
<1>5. CASE release.image # NoImage
  <2>1. release.image \in ImageRef /\ own \in Word
    BY RecordAssumption DEF ImageRef
  <2>2. ImagesOfRelease(release, builds) = {release.image}
    BY <1>5 DEF ImagesOfRelease
  <2> HIDE DEF own
  <2>3. ReleaseTarget(release) = Result("ok", own, release.image)
    BY <1>1, <1>5
  <2> QED
    BY <1>3, <1>4, <2>1, <2>2, <2>3
<1>6. CASE release.image = NoImage
  <2> DEFINE fits(x) == IF release.commit # "" THEN x.commit = release.commit
                        ELSE x.environment = release.environment
  <2>1. ImagesOfRelease(release, builds) = {x.image : x \in {y \in Range(builds) : fits(y)}} \ {NoImage}
    BY <1>6 DEF ImagesOfRelease
  <2>2. \A i : i \in usable <=> i \in DOMAIN builds /\ fits(builds[i]) /\ builds[i].image # NoImage
    BY DEF BuildsOf
  <2> HIDE DEF usable, fits
  <2>3. CASE usable = {}
    <3>1. \A x \in Range(builds) : fits(x) => x.image = NoImage
      BY <2>2, <2>3 DEF Range
    <3>2. ImagesOfRelease(release, builds) = {}
      BY <2>1, <3>1
    <3> QED
      BY <1>1, <1>3, <1>6, <2>3, <3>2
  <2>4. CASE usable # {}
    <3>1. usable \subseteq 1 .. Len(builds)
      BY <1>2, <2>2
    <3>2. newest \in usable
      BY <1>2, <2>4, <3>1, MaxInSet
    <3>3. newest \in DOMAIN builds /\ fits(b) /\ b.image # NoImage
      BY <2>2, <3>2
    <3> HIDE DEF newest
    <3>4. b \in BuildDoc /\ b \in Range(builds)
      BY <1>2, <3>3 DEF Range
    <3> HIDE DEF b
    <3>5. b.image \in ImageRef /\ found \in Word
      BY <3>4, RecordAssumption DEF ImageRef
    <3> HIDE DEF found
    <3>6. b.image \in ImagesOfRelease(release, builds)
      BY <2>1, <3>3, <3>4
    <3>7. ReleaseTarget(release) = Result("ok", found, b.image)
      BY <1>1, <1>6, <2>4
    <3> QED
      BY <1>3, <1>4, <3>5, <3>6, <3>7
  <2> QED
    BY <2>3, <2>4
<1> QED
  BY <1>5, <1>6

LEMMA AskTyped ==
    ASSUME ResolutionInv, asked.pc # "idle"
    PROVE  /\ asked.request \in Ask /\ asked.request.version \in Word /\ asked.request.image \in ImageRef
           /\ builds \in Seq(BuildDoc) /\ releases \in Seq(ReleaseDoc)
  BY AskedFields, RecordAssumption DEF ResolutionInv

LEMMA BeginAskInv == ASSUME ResolutionInv, NEW request \in Ask, BeginAsk(request) PROVE ResolutionInv'
<1>1. asked \in [pc : AskPc, todo : SUBSET DOMAIN releases, request : Ask \cup {NoAsk.request},
                 result : ResultDoc] /\ builds \in Seq(BuildDoc) /\ releases \in Seq(ReleaseDoc)
  BY AskedFields DEF ResolutionInv
<1>2. NoAsk \in [pc : AskPc, todo : SUBSET DOMAIN releases, request : Ask \cup {NoAsk.request},
                 result : ResultDoc]
  BY ImagesTyped DEF NoAsk, AskPc
<1> DEFINE pc == IF request.source = "registry" THEN "environment" ELSE "commit"
<1>3. asked' = [NoAsk EXCEPT !.request = request, !.pc = pc] /\ UNCHANGED <<builds, releases>>
      /\ before' = [builds |-> builds, releases |-> releases]
  BY DEF BeginAsk
<1>4. asked' \in [pc : AskPc, todo : SUBSET DOMAIN releases, request : Ask \cup {NoAsk.request},
                  result : ResultDoc] /\ asked'.pc = pc /\ asked'.request = request
  BY <1>2, <1>3 DEF AskPc
<1>5. ResolutionTypeOK'
  BY <1>3, <1>4 DEF ResolutionInv, ResolutionTypeOK, AskPc, ResultDoc
<1>6. Established' /\ ResolutionIsAsNamed'
  BY <1>4 DEF Established, ResolutionIsAsNamed
<1>7. before'.builds = builds /\ before'.releases = releases
  BY <1>3
<1>8. Kept(before.builds, builds)' /\ Kept(before.releases, releases)'
  BY <1>1, <1>3, <1>7 DEF Kept
<1> QED
  BY <1>1, <1>4, <1>5, <1>6, <1>7, <1>8 DEF ResolutionInv

LEMMA NextAskInv == ASSUME ResolutionInv, NextAsk PROVE ResolutionInv'
<1>1. builds \in Seq(BuildDoc) /\ releases \in Seq(ReleaseDoc)
  BY AskedFields DEF ResolutionInv
<1>2. NoAsk \in [pc : AskPc, todo : SUBSET DOMAIN releases, request : Ask \cup {NoAsk.request},
                 result : ResultDoc] /\ NoAsk.pc = "idle"
  BY ImagesTyped DEF NoAsk, AskPc
<1>3. asked' = NoAsk /\ UNCHANGED <<builds, releases>> /\ before' = [builds |-> <<>>, releases |-> <<>>]
  BY DEF NextAsk
<1>4. ResolutionTypeOK'
  BY <1>2, <1>3 DEF ResolutionInv, ResolutionTypeOK, AskPc, ResultDoc
<1>5. Established' /\ ResolutionIsAsNamed'
  BY <1>2, <1>3 DEF Established, ResolutionIsAsNamed
<1>6. before'.builds = <<>> /\ before'.releases = <<>>
  BY <1>3
<1>7. Kept(before.builds, builds)' /\ Kept(before.releases, releases)'
  BY <1>1, <1>3, <1>6 DEF Kept
<1> QED
  BY <1>2, <1>3, <1>4, <1>5, <1>6, <1>7 DEF ResolutionInv

LEMMA ResolveCommitInv ==
    ASSUME ResolutionInv, NEW commit \in {b.commit : b \in BuildDoc} \cup {""}, ResolveCommit(commit)
    PROVE  ResolutionInv'
<1> DEFINE version == asked.request.version
           result == Result("ok", IF version \in Aliases THEN commit ELSE version, NoImage)
<1>1. asked.pc = "commit" /\ UNCHANGED <<builds, releases, before>> /\ Targeted(result)
  BY DEF ResolveCommit, Resolving
<1>2. version \in Word /\ commit \in Word
  BY <1>1, AskTyped, RecordAssumption
<1>3. result \in ResultDoc
  BY <1>2, ImagesTyped
<1>4. ~AsksVersion
  BY <1>1 DEF ResolutionInv, Established, AsksVersion
<1> HIDE DEF result
<1> QED
  BY <1>1, <1>3, <1>4, LookupTargets

LEMMA ImageReferenceInv == ASSUME ResolutionInv, ResolveImageReference PROVE ResolutionInv'
<1> DEFINE version == asked.request.version
           image == ReferenceOf[version]
           name == IF image.tag = "" THEN version ELSE image.tag
           result == Result("ok", name, image)
<1>1. asked.pc = "environment" /\ UNCHANGED <<builds, releases, before>> /\ Targeted(result)
      /\ image # NoImage
  BY DEF ResolveImageReference, Resolving, IsReference
<1>2. version \in Word
  BY <1>1, AskTyped
<1>3. image \in ImageRef
  BY <1>2, RecordAssumption
<1>4. name \in Word
  BY <1>2, <1>3 DEF ImageRef
<1>5. image \in ImagesOf(version, asked.request.image)
  BY DEF ImagesOf
<1>6. AsksVersion => IsVersion(image)
  BY <1>1, <1>5 DEF IsVersion
<1> HIDE DEF image, name
<1>7. result \in ResultDoc /\ result.image = image
  BY <1>3, <1>4, ImagesTyped
<1> HIDE DEF result
<1> QED
  BY <1>1, <1>6, <1>7, LookupTargets

LEMMA FindBuildInv ==
    ASSUME ResolutionInv, NEW pc, NEW environment, NEW otherwise \in {"anywhere", "fallback"},
           pc # "idle", FindBuild(pc, environment, otherwise)
    PROVE  ResolutionInv'
<1> DEFINE i == LatestBuild(environment, asked.request.version)
           target == BuildTarget(builds[i], asked.request.version, asked.request.image)
<1>1. asked.pc = pc /\ UNCHANGED <<builds, releases, before>>
  BY DEF FindBuild, Resolving
<1>2. \/ i = 0 /\ asked' = [asked EXCEPT !.pc = otherwise]
      \/ asked' = [asked EXCEPT !.pc = "fallback"]
      \/ i # 0 /\ Targeted(target)
  BY DEF FindBuild
<1>3. CASE i = 0 /\ asked' = [asked EXCEPT !.pc = otherwise]
  BY <1>1, <1>3, LookupGoesOn
<1>4. CASE asked' = [asked EXCEPT !.pc = "fallback"]
  BY <1>1, <1>4, LookupGoesOn
<1>5. CASE i # 0 /\ Targeted(target)
  <2>1. /\ asked.request.version \in Word /\ asked.request.image \in ImageRef
        /\ builds \in Seq(BuildDoc)
    BY <1>1, AskTyped
  <2>2. /\ builds[i] \in BuildDoc /\ builds[i] \in Range(builds)
        /\ asked.request.version \notin Aliases => Names(builds[i], asked.request.version)
    BY <1>5, <2>1, FoundBuild
  <2> HIDE DEF i
  <2>3. /\ target \in ResultDoc
        /\ target.status = "ok" /\ asked.request.version \notin Aliases =>
             target.image # NoImage /\ target.image \in ImagesOf(asked.request.version, asked.request.image)
    BY <2>1, <2>2, BuildTargetNamed
  <2> HIDE DEF target
  <2>4. target.status = "ok" /\ AsksVersion => IsVersion(target.image)
    BY <2>3 DEF AsksVersion, IsVersion
  <2> QED
    BY <1>1, <1>5, <2>3, <2>4, LookupTargets
<1> QED
  BY <1>2, <1>3, <1>4, <1>5

LEMMA FallbackInv == ASSUME ResolutionInv, Fallback PROVE ResolutionInv'
<1> DEFINE target == FallbackTarget(asked.request.version, asked.request.image)
<1>1. asked.pc = "fallback" /\ UNCHANGED <<builds, releases, before>> /\ Targeted(target)
  BY DEF Fallback, Resolving
<1>2. /\ target \in ResultDoc
      /\ target.status = "ok" /\ asked.request.version \notin Aliases =>
           target.image # NoImage /\ target.image \in ImagesOf(asked.request.version, asked.request.image)
  BY <1>1, AskTyped, FallbackNamed
<1> HIDE DEF target
<1>3. target.status = "ok" /\ AsksVersion => IsVersion(target.image)
  BY <1>2 DEF AsksVersion, IsVersion
<1> QED
  BY <1>1, <1>2, <1>3, LookupTargets

LEMMA FindReleasesInv == ASSUME ResolutionInv, FindReleases PROVE ResolutionInv'
<1>1. asked.pc = "releases" /\ UNCHANGED <<builds, releases, before>>
  BY DEF FindReleases, Resolving
<1>2. \/ Resolved(Failed)
      \/ Mine # {} /\ asked' = [asked EXCEPT !.pc = "release", !.todo = Mine]
  BY DEF FindReleases, Mine
<1>3. CASE Resolved(Failed)
  BY <1>1, <1>3, ImagesTyped, LookupAnswers
<1>4. CASE Mine # {} /\ asked' = [asked EXCEPT !.pc = "release", !.todo = Mine]
  <2>1. asked \in [pc : AskPc, todo : SUBSET DOMAIN releases, request : Ask \cup {NoAsk.request},
                   result : ResultDoc]
    BY AskedFields DEF ResolutionInv
  <2>2. Mine \in SUBSET DOMAIN releases
    BY DEF Mine
  <2>3. asked' \in [pc : AskPc, todo : SUBSET DOMAIN releases, request : Ask \cup {NoAsk.request},
                    result : ResultDoc]
    BY <1>4, <2>1, <2>2 DEF AskPc
  <2>4. asked'.pc = "release" /\ asked'.todo = Mine /\ asked'.request = asked.request
    BY <1>4, <2>1
  <2>5. ResolutionTypeOK'
    BY <1>1, <2>3 DEF ResolutionInv, ResolutionTypeOK, AskPc, ResultDoc
  <2>6. Mine' = Mine
    BY <1>1, <2>4 DEF Mine
  <2>7. Established'
    BY <1>1, <1>4, <2>4, <2>6 DEF ResolutionInv, Established
  <2>8. ResolutionIsAsNamed'
    BY <2>4 DEF ResolutionIsAsNamed
  <2> QED
    BY <1>1, <2>4, <2>5, <2>7, <2>8 DEF ResolutionInv, Kept
<1> QED
  BY <1>2, <1>3, <1>4

LEMMA TryReleaseInv == ASSUME ResolutionInv, TryRelease PROVE ResolutionInv'
<1> DEFINE newest == Max(asked.todo)
           target == ReleaseTarget(releases[newest])
<1>1. asked.pc = "release" /\ UNCHANGED <<builds, releases, before>>
  BY DEF TryRelease, Resolving
<1>2. /\ asked \in [pc : AskPc, todo : SUBSET DOMAIN releases, request : Ask \cup {NoAsk.request},
                    result : ResultDoc]
      /\ builds \in Seq(BuildDoc) /\ releases \in Seq(ReleaseDoc)
      /\ before.builds \in Seq(BuildDoc) /\ before.releases \in Seq(ReleaseDoc)
      /\ Kept(before.builds, builds) /\ Kept(before.releases, releases)
  BY AskedFields DEF ResolutionInv
<1>3. /\ asked.request.kind = "promote" /\ asked.todo # {} /\ asked.todo \subseteq Mine
      /\ \A i \in Mine \cap DOMAIN before.releases : i \in asked.todo \/ Lost(i)
  BY <1>1 DEF ResolutionInv, Established
<1>4. newest \in asked.todo /\ \A i \in asked.todo : newest >= i
  <2>1. asked.todo \subseteq 1 .. Len(releases) /\ Len(releases) \in Nat
    BY <1>2
  <2> QED
    BY <1>3, <2>1, MaxInSet
<1>5. newest \in Mine /\ newest \in DOMAIN releases /\ releases[newest] \in ReleaseDoc /\ newest \in Int
  BY <1>2, <1>3, <1>4
<1>6. \/ target # Failed /\ Resolved(target)
      \/ Resolved(Failed)
      \/ target = Failed /\ asked.todo # {newest} /\ asked' = [asked EXCEPT !.todo = @ \ {newest}]
  BY DEF TryRelease
<1> HIDE DEF newest
<1>7. /\ target \in ResultDoc
      /\ target.status = "ok" => target.image \in ImagesOfRelease(releases[newest], builds)
      /\ target = Failed => ImagesOfRelease(releases[newest], builds) = {}
  BY <1>2, <1>5, ReleaseTried
<1> HIDE DEF target
\* The releases that are newer have been tried, or were not there when the request began.
<1>8. CASE target # Failed /\ Resolved(target)
  <2>1. \A j \in Mine \cap DOMAIN before.releases : j > newest => Lost(j)
    <3> SUFFICES ASSUME NEW j \in Mine \cap DOMAIN before.releases, j > newest, ~Lost(j) PROVE FALSE
      OBVIOUS
    <3>1. j \in asked.todo /\ j \in Int
      BY <1>2, <1>3
    <3> QED
      BY <1>4, <1>5, <3>1
  <2>2. target.status = "ok" => IsRelease(target.image)
    BY <1>5, <1>7, <2>1 DEF IsRelease
  <2> QED
    BY <1>1, <1>3, <1>7, <1>8, <2>2, LookupAnswers DEF AsNamed, AsksVersion
<1>9. CASE Resolved(Failed)
  BY <1>1, <1>9, ImagesTyped, LookupAnswers
\* A release that cannot be reproduced now could not be when the request began.
<1>10. CASE target = Failed /\ asked.todo # {newest} /\ asked' = [asked EXCEPT !.todo = @ \ {newest}]
  <2>1. asked' \in [pc : AskPc, todo : SUBSET DOMAIN releases, request : Ask \cup {NoAsk.request},
                    result : ResultDoc]
    BY <1>2, <1>10
  <2>2. asked'.pc = "release" /\ asked'.todo = asked.todo \ {newest} /\ asked'.request = asked.request
    BY <1>1, <1>2, <1>10
  <2>3. ResolutionTypeOK'
    BY <1>1, <2>1 DEF ResolutionInv, ResolutionTypeOK, AskPc, ResultDoc
  <2>4. newest \in DOMAIN before.releases => Lost(newest)
    <3> SUFFICES ASSUME newest \in DOMAIN before.releases PROVE Lost(newest)
      OBVIOUS
    <3>1. before.releases[newest] = releases[newest]
      BY <1>2 DEF Kept
    <3>2. Range(before.builds) \subseteq Range(builds)
      BY <1>2, KeptRange
    <3>3. ImagesOfRelease(releases[newest], before.builds) \subseteq ImagesOfRelease(releases[newest], builds)
      BY <3>2, MoreImages
    <3> QED
      BY <1>7, <1>10, <3>1, <3>3 DEF Lost
  <2>5. Mine' = Mine /\ \A i : Lost(i)' <=> Lost(i)
    BY <1>1, <2>2 DEF Mine, Lost
  <2>6. Established'
    <3>1. asked'.todo # {} /\ asked'.todo \subseteq Mine'
      BY <1>3, <1>4, <1>10, <2>2, <2>5
    <3>2. \A i \in Mine' \cap DOMAIN before'.releases : i \in asked'.todo \/ Lost(i)'
      BY <1>1, <1>3, <2>2, <2>4, <2>5
    <3> QED
      BY <1>3, <2>2, <3>1, <3>2 DEF Established
  <2>7. ResolutionIsAsNamed'
    BY <2>2 DEF ResolutionIsAsNamed
  <2> QED
    BY <1>1, <2>2, <2>3, <2>6, <2>7 DEF ResolutionInv, Kept
<1> QED
  BY <1>6, <1>8, <1>9, <1>10

LEMMA LookupFailsInv == ASSUME ResolutionInv, LookupFails PROVE ResolutionInv'
<1>1. /\ asked.pc # "idle" /\ UNCHANGED <<builds, releases, before>>
      /\ asked' = [asked EXCEPT !.pc = "fallback"] \/ Resolved(Failed)
  BY DEF LookupFails
<1>2. CASE asked' = [asked EXCEPT !.pc = "fallback"]
  BY <1>1, <1>2, LookupGoesOn
<1>3. CASE Resolved(Failed)
  BY <1>1, <1>3, ImagesTyped, LookupAnswers
<1> QED
  BY <1>1, <1>2, <1>3

LEMMA ResolutionInitInv == ResolutionInit => ResolutionInv
<1> SUFFICES ASSUME ResolutionInit PROVE ResolutionInv
  OBVIOUS
<1>1. builds = <<>> /\ releases = <<>> /\ asked = NoAsk /\ before.builds = <<>> /\ before.releases = <<>>
  BY DEF ResolutionInit
<1>2. NoAsk \in [pc : AskPc, todo : SUBSET DOMAIN releases, request : Ask \cup {NoAsk.request},
                 result : ResultDoc] /\ NoAsk.pc = "idle"
  BY ImagesTyped DEF NoAsk, AskPc
<1>3. builds \in Seq(BuildDoc) /\ releases \in Seq(ReleaseDoc) /\ Len(builds) = 0 /\ Len(releases) = 0
      /\ before.builds \in Seq(BuildDoc) /\ before.releases \in Seq(ReleaseDoc)
  BY <1>1
<1>4. ResolutionTypeOK
  <2>1. MaxRecords \in Nat
    BY RecordAssumption
  <2>2. Len(builds) + Len(releases) <= MaxRecords
    BY <1>3, <2>1
  <2> QED
    BY <1>1, <1>2, <1>3, <2>2 DEF ResolutionTypeOK, AskPc, ResultDoc
<1>5. Kept(before.builds, builds) /\ Kept(before.releases, releases)
  BY <1>1 DEF Kept
<1>6. Established /\ ResolutionIsAsNamed
  BY <1>1, <1>2 DEF Established, ResolutionIsAsNamed
<1> QED
  BY <1>1, <1>2, <1>3, <1>4, <1>5, <1>6 DEF ResolutionInv

LEMMA ResolutionInvStep == ResolutionInv /\ [ResolutionNext]_resolutionVars => ResolutionInv'
<1> SUFFICES ASSUME ResolutionInv, [ResolutionNext]_resolutionVars PROVE ResolutionInv'
  OBVIOUS
<1>1. ASSUME NEW b \in BuildDoc, RecordBuild(b) PROVE ResolutionInv'
  BY <1>1, RecordKeepsInv DEF RecordBuild
<1>2. ASSUME NEW d \in ReleaseDoc, RecordRelease(d) PROVE ResolutionInv'
  BY <1>2, RecordKeepsInv DEF RecordRelease
<1>3. ASSUME NEW request \in Ask, BeginAsk(request) PROVE ResolutionInv'
  BY <1>3, BeginAskInv
<1>4. ASSUME NEW commit \in {b.commit : b \in BuildDoc} \cup {""}, ResolveCommit(commit) PROVE ResolutionInv'
  BY <1>4, ResolveCommitInv
<1>5. CASE ResolveImageReference
  BY <1>5, ImageReferenceInv
<1>6. CASE FindBuildOfEnvironment
  BY <1>6, FindBuildInv DEF FindBuildOfEnvironment
<1>7. CASE FindBuildAnywhere
  BY <1>7, FindBuildInv DEF FindBuildAnywhere
<1>8. CASE Fallback
  BY <1>8, FallbackInv
<1>9. CASE FindReleases
  BY <1>9, FindReleasesInv
<1>10. CASE TryRelease
  BY <1>10, TryReleaseInv
<1>11. CASE LookupFails
  BY <1>11, LookupFailsInv
<1>12. CASE NextAsk
  BY <1>12, NextAskInv
<1>13. CASE UNCHANGED resolutionVars
  <2>1. UNCHANGED <<builds, releases, asked, before>>
    BY <1>13 DEF resolutionVars
  <2>2. ResolutionTypeOK'
    BY <2>1 DEF ResolutionInv, ResolutionTypeOK
  <2>3. Established'
    BY <2>1 DEF ResolutionInv, Established, Mine, Lost
  <2>4. ResolutionIsAsNamed'
    <3>1. \A version, image : ImagesOf(version, image)' = ImagesOf(version, image)
      BY <2>1 DEF ImagesOf
    <3> QED
      BY <2>1, <3>1 DEF ResolutionInv, ResolutionIsAsNamed
  <2> QED
    BY <2>1, <2>2, <2>3, <2>4 DEF ResolutionInv
<1> QED
  BY <1>1, <1>2, <1>3, <1>4, <1>5, <1>6, <1>7, <1>8, <1>9, <1>10, <1>11, <1>12, <1>13 DEF ResolutionNext

\* Builds, releases and the request being resolved keep their types.
THEOREM ResolutionTypeCorrect == ResolutionSpec => []ResolutionTypeOK
<1>1. ResolutionInv => ResolutionTypeOK
  BY DEF ResolutionInv
<1> QED
  BY <1>1, ResolutionInitInv, ResolutionInvStep, PTL DEF ResolutionSpec

\* For any builds, releases and requests: whatever is recorded between the
\* lookups, a version gets an image of that version, and a promotion the newest
\* release that could be reproduced when it was asked for, or a newer one.
THEOREM VersionsAreAsNamed == ResolutionSpec => []ResolutionIsAsNamed
<1>1. ResolutionInv => ResolutionIsAsNamed
  BY DEF ResolutionInv
<1> QED
  BY <1>1, ResolutionInitInv, ResolutionInvStep, PTL DEF ResolutionSpec
-----------------------------------------------------------------------------
(* The parts next to each other *)

\* The parts share no state: next to the others, which stand still, each of them
\* behaves as its own specification says.
THEOREM PartsFollowTheirSpecs ==
    MCSpec => ResolutionSpec /\ SettingsSpec /\ SwitchSpec /\ AuthSpec
<1> DEFINE all == <<part, resolutionVars, settingsVars, switchVars, authVars>>
<1>1. MCInit => ResolutionInit /\ SettingsInit /\ SwitchInit /\ AuthInit
  BY DEF MCInit
<1>2. [MCNext]_all => [ResolutionNext]_resolutionVars
  BY DEF MCNext
<1>3. [MCNext]_all => [SettingsNext]_settingsVars
  BY DEF MCNext
<1>4. [MCNext]_all => [SwitchNext]_switchVars
  BY DEF MCNext
<1>5. [MCNext]_all => [AuthNext]_authVars
  BY DEF MCNext
<1> QED
  BY <1>1, <1>2, <1>3, <1>4, <1>5, PTL
     DEF MCSpec, ResolutionSpec, SettingsSpec, SwitchSpec, AuthSpec

\* The documents, requests and operations of every part keep their types.
THEOREM PartsTypeCorrect == MCSpec => []PartsTypeOK
<1>1. ResolutionTypeOK /\ SettingsTypeOK /\ SwitchTypeOK /\ AuthTypeOK
        => PartsTypeOK
  BY DEF PartsTypeOK
<1> QED
  BY <1>1, PartsFollowTheirSpecs, ResolutionTypeCorrect, SettingsTypeCorrect,
     SwitchTypeCorrect, AccountTypeCorrect, PTL
=============================================================================
