------------------------ MODULE AccountSessionsProofs ------------------------
(* Proofs about AccountSessions, for any number of requests, users and     *)
(* sessions: a revocation ends every session it did not overlap, and a     *)
(* session or grant that is to be used once is used once.                  *)
EXTENDS AccountSessions, TLAPS

SessionDoc == [status : {"active", "rotated", "expired", "revoked"}, user : Nat, parent : Nat,
               since : Nat, late : BOOLEAN, known : Nat]
GrantDoc == [kind : {"reset", "state", "ticket"}, status : {"live", "used", "gone", "expired"},
             session : Int, uses : Nat, reused : BOOLEAN, known : Nat]
Position == {"new", "done", "insert-user", "profile", "issue", "ticket", "load-user", "rotate",
             "expire", "revoke", "revoke-all", "clear-resets", "insert-reset", "deliver",
             "find-user", "password", "delete-user", "delete-profile", "use-state", "exchange",
             "map", "use-ticket", "delete-ticket"}
RequestKind == {"none", "signup", "login", "refresh", "expire", "logout", "ask-reset", "confirm",
                "delete", "start", "sso", "exchange"}
AuthRequest == [pc : Position, kind : RequestKind, of : Nat, user : Nat, epoch : Nat, known : Nat]

Documents ==
    /\ account \in [user : 0 .. Len(epoch), password : BOOLEAN]
    /\ account.password => account.user # 0
    /\ profile \subseteq DOMAIN epoch
    /\ epoch \in Seq(Nat)
    /\ sessions \in Seq(SessionDoc)
    /\ \A s \in DOMAIN sessions : sessions[s].user \in DOMAIN epoch
    /\ grants \in Seq(GrantDoc)
    /\ authReq \in [AuthReq -> AuthRequest]

\* What the way of a request to its position tells: the user is known, no
\* revocation is older than the request believes, and a refresh has read a
\* session of its user that was active in the epoch it remembers.
RequestKnows(q) ==
    /\ q.user \in 0 .. Len(epoch)
    /\ q.user \in DOMAIN epoch => q.epoch <= epoch[q.user]
    /\ q.pc \in {"issue", "profile", "rotate", "load-user", "password"} => q.user \in DOMAIN epoch
    /\ q.pc \in {"insert-user", "find-user"} => q.epoch = 0
    /\ q.kind = "refresh" => q.pc \in {"load-user", "rotate", "issue", "done"}
    /\ q.kind = "refresh" /\ q.pc # "done" =>
          /\ q.of \in DOMAIN sessions
          /\ sessions[q.of].user = q.user
          /\ ~sessions[q.of].late /\ epoch[q.user] = q.epoch => sessions[q.of].since = q.epoch

AccountInv ==
    /\ Documents
    /\ \A r \in AuthReq : RequestKnows(authReq[r])
    /\ RevocationEndsSessions

\* Users are added and revocations counted; sessions are added and end.
Grows ==
    /\ Len(epoch) <= Len(epoch')
    /\ \A u \in DOMAIN epoch : epoch[u] <= epoch'[u]
    /\ Len(sessions) <= Len(sessions')
    /\ \A s \in DOMAIN sessions :
          /\ sessions'[s].user = sessions[s].user
          /\ sessions'[s].since = sessions[s].since
          /\ sessions'[s].late = sessions[s].late
          /\ sessions'[s].status = "active" => sessions[s].status = "active"
-----------------------------------------------------------------------------
LEMMA Singleton ==
    ASSUME NEW S, NEW x \in S
    PROVE  <<x>> \in Seq(S) /\ Len(<<x>>) = 1 /\ DOMAIN <<x>> = {1} /\ <<x>>[1] = x
  OBVIOUS

LEMMA InitialAccount == AuthInit => AccountInv
<1> SUFFICES ASSUME AuthInit PROVE AccountInv
  OBVIOUS
<1>1. NewSession(1, 0, 0, FALSE, 0) \in SessionDoc
  BY DEF NewSession, SessionDoc
<1>2. NewAuthReq \in AuthRequest
  BY DEF NewAuthReq, AuthRequest, Position, RequestKind
<1>3. \A kind \in {"reset", "state", "ticket"}, s \in Int : Grant(kind, s, 0) \in GrantDoc
  BY DEF Grant, GrantDoc
<1>4. CASE account = NoUser /\ profile = {} /\ epoch = <<>> /\ sessions = <<>> /\ grants = <<>>
  <2>1. Len(epoch) = 0 /\ DOMAIN epoch = {} /\ DOMAIN sessions = {} /\ epoch \in Seq(Nat)
        /\ sessions \in Seq(SessionDoc) /\ grants \in Seq(GrantDoc)
    BY <1>4
  <2>2. account \in [user : 0 .. Len(epoch), password : BOOLEAN] /\ ~account.password
    BY <1>4, <2>1 DEF NoUser
  <2>3. Documents
    BY <1>2, <1>4, <2>1, <2>2 DEF AuthInit, Documents
  <2>4. \A r \in AuthReq : RequestKnows(authReq[r])
    BY <2>1 DEF AuthInit, RequestKnows, NewAuthReq
  <2> QED
    BY <2>1, <2>3, <2>4 DEF AccountInv, RevocationEndsSessions
<1>5. CASE /\ account = [user |-> 1, password |-> TRUE] /\ profile = {1} /\ epoch = <<0>>
           /\ sessions = <<NewSession(1, 0, 0, FALSE, 0)>>
           /\ \/ grants = <<>>
              \/ \E kind \in {"reset", "state", "ticket"} :
                    grants = <<Grant(kind, IF kind = "ticket" THEN 1 ELSE 0, 0)>>
  <2>1. grants \in Seq(GrantDoc)
    <3>1. CASE grants = <<>>
      BY <3>1
    <3>2. CASE \E kind \in {"reset", "state", "ticket"} :
                  grants = <<Grant(kind, IF kind = "ticket" THEN 1 ELSE 0, 0)>>
      <4>1. PICK kind \in {"reset", "state", "ticket"} :
                grants = <<Grant(kind, IF kind = "ticket" THEN 1 ELSE 0, 0)>>
        BY <3>2
      <4>2. (IF kind = "ticket" THEN 1 ELSE 0) \in Int
        OBVIOUS
      <4>3. Grant(kind, IF kind = "ticket" THEN 1 ELSE 0, 0) \in GrantDoc
        BY <1>3, <4>2
      <4>4. PICK g \in GrantDoc : g = Grant(kind, IF kind = "ticket" THEN 1 ELSE 0, 0)
        BY <4>3
      <4>5. grants = <<g>>
        BY <4>1, <4>4
      <4> QED
        BY <4>5, Singleton
    <3> QED
      BY <1>5, <3>1, <3>2
  <2>2. Len(epoch) = 1 /\ epoch[1] = 0 /\ DOMAIN epoch = {1} /\ epoch \in Seq(Nat)
    BY <1>5
  <2>3. /\ sessions \in Seq(SessionDoc) /\ DOMAIN sessions = {1}
        /\ sessions[1].user = 1 /\ sessions[1].since = 0
    <3>1. sessions \in Seq(SessionDoc) /\ DOMAIN sessions = {1}
          /\ sessions[1] = NewSession(1, 0, 0, FALSE, 0)
      BY <1>1, <1>5, Singleton
    <3> QED
      BY <3>1 DEF NewSession
  <2>4. account \in [user : 0 .. Len(epoch), password : BOOLEAN] /\ account.user = 1
    BY <1>5, <2>2
  <2>5. Documents
    <3>1. authReq \in [AuthReq -> AuthRequest]
      BY <1>2 DEF AuthInit
    <3>2. profile \subseteq DOMAIN epoch /\ account.user # 0
      BY <1>5, <2>2, <2>4
    <3>3. \A s \in DOMAIN sessions : sessions[s].user \in DOMAIN epoch
      BY <2>2, <2>3
    <3> QED
      BY <2>1, <2>2, <2>3, <2>4, <3>1, <3>2, <3>3 DEF Documents
  <2>6. RevocationEndsSessions
    BY <2>2, <2>3 DEF RevocationEndsSessions
  <2>7. \A r \in AuthReq : RequestKnows(authReq[r])
    BY <2>2 DEF AuthInit, RequestKnows, NewAuthReq
  <2> QED
    BY <2>5, <2>6, <2>7 DEF AccountInv
<1> QED
  BY <1>4, <1>5 DEF AuthInit

\* What a request knows stays true, whatever others do.
LEMMA KnowledgeKept ==
    ASSUME Documents, Documents', Grows, NEW q \in AuthRequest, RequestKnows(q)
    PROVE  RequestKnows(q)'
<1>1. /\ DOMAIN epoch = 1 .. Len(epoch) /\ DOMAIN epoch' = 1 .. Len(epoch')
      /\ Len(epoch) \in Nat /\ Len(epoch') \in Nat
      /\ DOMAIN sessions = 1 .. Len(sessions) /\ DOMAIN sessions' = 1 .. Len(sessions')
      /\ Len(sessions) \in Nat /\ Len(sessions') \in Nat
  BY DEF Documents
<1>2. DOMAIN epoch \subseteq DOMAIN epoch' /\ DOMAIN sessions \subseteq DOMAIN sessions'
  BY <1>1 DEF Grows
<1>3. q.user \in DOMAIN epoch' => q.user \in DOMAIN epoch
  BY <1>1 DEF RequestKnows, AuthRequest
<1>4. q.user \in DOMAIN epoch =>
        /\ q.epoch \in Nat /\ epoch[q.user] \in Nat /\ epoch'[q.user] \in Nat
        /\ q.epoch <= epoch[q.user] /\ epoch[q.user] <= epoch'[q.user]
  <2> SUFFICES ASSUME q.user \in DOMAIN epoch
               PROVE  /\ q.epoch \in Nat /\ epoch[q.user] \in Nat /\ epoch'[q.user] \in Nat
                      /\ q.epoch <= epoch[q.user] /\ epoch[q.user] <= epoch'[q.user]
    OBVIOUS
  <2>1. q.epoch \in Nat
    BY DEF AuthRequest
  <2>2. q.epoch <= epoch[q.user]
    BY DEF RequestKnows
  <2>3. epoch[q.user] <= epoch'[q.user]
    BY DEF Grows
  <2>4. epoch \in Seq(Nat) /\ epoch' \in Seq(Nat) /\ q.user \in DOMAIN epoch'
    BY <1>2 DEF Documents
  <2>5. epoch[q.user] \in Nat /\ epoch'[q.user] \in Nat
    BY <2>4
  <2> QED
    BY <2>1, <2>2, <2>3, <2>5
<1>5. q.user \in DOMAIN epoch =>
        /\ q.epoch <= epoch'[q.user]
        /\ epoch'[q.user] = q.epoch => epoch[q.user] = q.epoch
  BY <1>4
<1>6. q.user \in 0 .. Len(epoch')
  BY <1>1 DEF RequestKnows, Grows
<1>7. ASSUME q.kind = "refresh", q.pc # "done"
      PROVE  /\ q.of \in DOMAIN sessions'
             /\ sessions'[q.of].user = q.user
             /\ ~sessions'[q.of].late /\ epoch'[q.user] = q.epoch => sessions'[q.of].since = q.epoch
  BY <1>2, <1>5, <1>7 DEF RequestKnows, Grows
<1> QED
  BY <1>2, <1>3, <1>5, <1>6, <1>7 DEF RequestKnows

\* A request goes on, with what it then knows.
LEMMA RequestsKept ==
    ASSUME AccountInv, Documents', Grows, NEW r \in AuthReq,
           \A d \in AuthReq : d # r => authReq'[d] = authReq[d],
           RequestKnows(authReq[r])'
    PROVE  \A d \in AuthReq : RequestKnows(authReq[d])'
<1> SUFFICES ASSUME NEW d \in AuthReq, d # r PROVE RequestKnows(authReq[d])'
  OBVIOUS
<1>1. authReq[d] \in AuthRequest /\ RequestKnows(authReq[d]) /\ authReq'[d] = authReq[d]
  BY DEF AccountInv, Documents
<1>2. PICK q \in AuthRequest : q = authReq[d]
  BY <1>1
<1>3. RequestKnows(q)'
  BY <1>1, <1>2, KnowledgeKept DEF AccountInv
<1> QED
  BY <1>1, <1>2, <1>3 DEF RequestKnows
-----------------------------------------------------------------------------
(* Steps that leave sessions and revocations alone *)

LEMMA QuietStep ==
    ASSUME AccountInv, UNCHANGED <<sessions, epoch>>,
           account' \in [user : 0 .. Len(epoch), password : BOOLEAN],
           account'.password => account'.user # 0,
           profile' \subseteq DOMAIN epoch, grants' \in Seq(GrantDoc),
           NEW r \in AuthReq, NEW q \in AuthRequest,
           authReq' = [authReq EXCEPT ![r] = q], RequestKnows(q)
    PROVE  AccountInv'
<1>1. authReq \in [AuthReq -> AuthRequest] /\ authReq' \in [AuthReq -> AuthRequest]
  BY DEF AccountInv, Documents
<1>2. Documents'
  BY <1>1 DEF AccountInv, Documents
<1>3. Grows
  BY DEF AccountInv, Documents, Grows, SessionDoc
<1>4. RequestKnows(authReq[r])'
  BY <1>1 DEF RequestKnows
<1>5. \A d \in AuthReq : d # r => authReq'[d] = authReq[d]
  BY <1>1
<1>6. \A d \in AuthReq : RequestKnows(authReq[d])'
  BY <1>2, <1>3, <1>4, <1>5, RequestsKept
<1> QED
  BY <1>2, <1>6 DEF AccountInv, RevocationEndsSessions

\* The request moves on, and account and profile may change.
LEMMA QuietPass ==
    ASSUME AccountInv, UNCHANGED <<sessions, epoch>>,
           account' \in [user : 0 .. Len(epoch), password : BOOLEAN],
           account'.password => account'.user # 0,
           profile' \subseteq DOMAIN epoch, grants' \in Seq(GrantDoc),
           NEW r \in AuthReq, NEW from, NEW to \in Position, Pass(r, from, to),
           RequestKnows([authReq[r] EXCEPT !.pc = to])
    PROVE  AccountInv'
<1>1. authReq \in [AuthReq -> AuthRequest] /\ authReq[r] \in AuthRequest
  BY DEF AccountInv, Documents
<1>2. [authReq[r] EXCEPT !.pc = to] \in AuthRequest
  BY <1>1 DEF AuthRequest
<1>3. PICK q \in AuthRequest : q = [authReq[r] EXCEPT !.pc = to]
  BY <1>2
<1>4. authReq' = [authReq EXCEPT ![r] = q]
  BY <1>3 DEF Pass
<1>5. RequestKnows(q)
  BY <1>3
<1> QED
  BY <1>4, <1>5, QuietStep

\* A request begins.
LEMMA QuietEnter ==
    ASSUME AccountInv, UNCHANGED <<account, profile, sessions, epoch>>, grants' \in Seq(GrantDoc),
           NEW r \in AuthReq, NEW kind \in RequestKind, NEW of \in Nat, NEW user \in 0 .. Len(epoch),
           NEW known \in Nat, NEW pc \in Position, Enter(r, kind, of, user, known, pc),
           pc \in {"issue", "profile", "rotate", "load-user", "password"} => user # 0,
           pc \in {"insert-user", "find-user"} => user = 0,
           kind = "refresh" => /\ pc = "load-user"
                               /\ of \in DOMAIN sessions /\ sessions[of].user = user
                               /\ sessions[of].status = "active"
    PROVE  AccountInv'
<1>1. /\ epoch \in Seq(Nat) /\ Len(epoch) \in Nat /\ DOMAIN epoch = 1 .. Len(epoch)
      /\ authReq \in [AuthReq -> AuthRequest]
  BY DEF AccountInv, Documents
<1>2. user = 0 \/ user \in DOMAIN epoch
  BY <1>1
<1>3. EpochOf(user) \in Nat /\ (user # 0 => EpochOf(user) = epoch[user])
  BY <1>1, <1>2 DEF EpochOf
<1>4. PICK e \in Nat : e = EpochOf(user)
  BY <1>3
<1>5. PICK q \in AuthRequest : q = [pc |-> pc, kind |-> kind, of |-> of, user |-> user,
                                     epoch |-> e, known |-> known]
  <2>1. user \in Nat
    BY <1>1
  <2>2. [pc |-> pc, kind |-> kind, of |-> of, user |-> user, epoch |-> e, known |-> known]
          \in AuthRequest
    BY <2>1 DEF AuthRequest
  <2> QED
    BY <2>2
<1>6. authReq' = [authReq EXCEPT ![r] = q]
  BY <1>4, <1>5 DEF Enter
<1>7. 0 \notin DOMAIN epoch /\ (user # 0 => e = epoch[user]) /\ (user = 0 => e = 0)
  BY <1>1, <1>3, <1>4 DEF EpochOf
<1>8. kind = "refresh" => (~sessions[of].late => sessions[of].since = epoch[user])
  BY DEF AccountInv, RevocationEndsSessions
<1>9. user \in DOMAIN epoch => e <= epoch[user]
  BY <1>1, <1>7
<1>10. RequestKnows(q)
  BY <1>2, <1>5, <1>7, <1>8, <1>9 DEF RequestKnows
<1>11. /\ account' \in [user : 0 .. Len(epoch), password : BOOLEAN]
       /\ account'.password => account'.user # 0
       /\ profile' \subseteq DOMAIN epoch
  BY DEF AccountInv, Documents
<1> QED
  BY <1>6, <1>10, <1>11, QuietStep

KnownUser == {"issue", "profile", "rotate", "load-user", "password"}

\* What a request knows when it moves on.
LEMMA PassKnows ==
    ASSUME AccountInv, NEW r \in AuthReq, NEW from, NEW to, authReq[r].pc = from, from # "done",
           to \in KnownUser => authReq[r].user \in DOMAIN epoch,
           to \notin {"insert-user", "find-user"},
           from \in {"load-user", "rotate", "issue"} => to \in {"rotate", "issue", "done"}
    PROVE  RequestKnows([authReq[r] EXCEPT !.pc = to])
<1>1. authReq[r] \in AuthRequest /\ RequestKnows(authReq[r])
  BY DEF AccountInv, Documents
<1>2. PICK q \in AuthRequest : q = authReq[r]
  BY <1>1
<1>3. /\ [q EXCEPT !.pc = to].pc = to /\ [q EXCEPT !.pc = to].kind = q.kind
      /\ [q EXCEPT !.pc = to].of = q.of /\ [q EXCEPT !.pc = to].user = q.user
      /\ [q EXCEPT !.pc = to].epoch = q.epoch
  BY DEF AuthRequest
<1>4. RequestKnows(q) /\ q.pc = from
  BY <1>1, <1>2
<1>5. RequestKnows([q EXCEPT !.pc = to])
  BY <1>2, <1>3, <1>4 DEF RequestKnows, KnownUser
<1> QED
  BY <1>2, <1>5

\* Nothing but the request and the grants changes.
LEMMA PassStep ==
    ASSUME AccountInv, UNCHANGED <<account, profile, sessions, epoch>>, grants' \in Seq(GrantDoc),
           NEW r \in AuthReq, NEW from, NEW to \in Position, Pass(r, from, to), from # "done",
           to \in KnownUser => authReq[r].user \in DOMAIN epoch,
           to \notin {"insert-user", "find-user"},
           from \in {"load-user", "rotate", "issue"} => to \in {"rotate", "issue", "done"}
    PROVE  AccountInv'
<1>1. RequestKnows([authReq[r] EXCEPT !.pc = to])
  BY PassKnows DEF Pass
<1>2. /\ account' \in [user : 0 .. Len(epoch), password : BOOLEAN]
      /\ account'.password => account'.user # 0
      /\ profile' \subseteq DOMAIN epoch
  BY DEF AccountInv, Documents
<1> QED
  BY <1>1, <1>2, QuietPass

\* Replacing one entry of a sequence.
LEMMA Replaced ==
    ASSUME NEW S, NEW f \in Seq(S), NEW i, NEW v, i \in DOMAIN f => v \in S
    PROVE  /\ [f EXCEPT ![i] = v] \in Seq(S)
           /\ Len([f EXCEPT ![i] = v]) = Len(f)
           /\ DOMAIN [f EXCEPT ![i] = v] = DOMAIN f
<1>1. DOMAIN f = 1 .. Len(f) /\ Len(f) \in Nat /\ f \in [1 .. Len(f) -> S]
  OBVIOUS
<1>2. [f EXCEPT ![i] = v] \in [1 .. Len(f) -> S]
  BY <1>1
<1>3. DOMAIN [f EXCEPT ![i] = v] = 1 .. Len(f)
  BY <1>1
<1> QED
  BY <1>1, <1>2, <1>3

\* Replacing every entry.
LEMMA Mapped ==
    ASSUME NEW S, NEW f \in Seq(S), NEW h, DOMAIN h = DOMAIN f, h = [i \in DOMAIN f |-> h[i]],
           \A i \in DOMAIN f : h[i] \in S
    PROVE  h \in Seq(S)
<1>1. DOMAIN f = 1 .. Len(f) /\ Len(f) \in Nat
  OBVIOUS
<1>2. h \in [1 .. Len(f) -> S]
  BY <1>1
<1> QED
  BY <1>1, <1>2

LEMMA SetGrantTyped ==
    ASSUME Documents, NEW g, NEW status \in {"live", "used", "gone", "expired"}, SetGrant(g, status)
    PROVE  grants' \in Seq(GrantDoc)
<1>1. grants \in Seq(GrantDoc)
  BY DEF Documents
<1>2. g \in DOMAIN grants => [grants[g] EXCEPT !.status = status] \in GrantDoc
  <2> SUFFICES ASSUME g \in DOMAIN grants PROVE [grants[g] EXCEPT !.status = status] \in GrantDoc
    OBVIOUS
  <2>1. PICK d \in GrantDoc : d = grants[g]
    BY <1>1
  <2>2. [d EXCEPT !.status = status] \in GrantDoc
    BY DEF GrantDoc
  <2> QED
    BY <2>1, <2>2
<1>3. grants' = [grants EXCEPT ![g] = [grants[g] EXCEPT !.status = status]]
  BY DEF SetGrant
<1> QED
  BY <1>1, <1>2, <1>3, Replaced

LEMMA UseGrantTyped ==
    ASSUME Documents, NEW r \in AuthReq, NEW from, NEW to, UseGrant(r, from, to)
    PROVE  grants' \in Seq(GrantDoc)
<1>1. grants \in Seq(GrantDoc)
  BY DEF Documents
<1>2. \A d \in GrantDoc : \A known : Used(d, known) \in GrantDoc
  <2> SUFFICES ASSUME NEW d \in GrantDoc, NEW known PROVE Used(d, known) \in GrantDoc
    OBVIOUS
  <2>1. d.uses + 1 \in Nat /\ (d.reused \/ known > 0) \in BOOLEAN
        /\ (IF d.status = "gone" THEN d.status ELSE "used") \in {"live", "used", "gone", "expired"}
    BY DEF GrantDoc
  <2> QED
    BY <2>1 DEF GrantDoc, Used
<1>3. PICK g, known : grants' = [grants EXCEPT ![g] = Used(grants[g], known)]
  BY DEF UseGrant
<1>4. g \in DOMAIN grants => Used(grants[g], known) \in GrantDoc
  <2>1. g \in DOMAIN grants => grants[g] \in GrantDoc
    BY <1>1
  <2> QED
    BY <1>2, <2>1
<1> QED
  BY <1>1, <1>3, <1>4, Replaced

LEMMA AddGrantTyped ==
    ASSUME Documents, NEW kind \in {"reset", "state", "ticket"}, NEW session \in Int, NEW known \in Nat,
           grants' = Append(grants, Grant(kind, session, known))
    PROVE  grants' \in Seq(GrantDoc)
<1>1. Grant(kind, session, known) \in GrantDoc
  BY DEF Grant, GrantDoc
<1>2. grants \in Seq(GrantDoc)
  BY DEF Documents
<1> QED
  BY <1>1, <1>2
-----------------------------------------------------------------------------
(* Steps that write sessions, or count users and revocations *)

\* One session is marked; no mark makes a session active.
LEMMA SetSessionKeeps ==
    ASSUME AccountInv, UNCHANGED <<account, profile, grants, epoch>>, NEW r \in AuthReq, NEW s,
           NEW status \in {"rotated", "expired", "revoked"}, SetSession(s, status) \/ UNCHANGED sessions,
           NEW from, NEW to \in Position, Pass(r, from, to), from # "done", to \notin {"insert-user", "find-user"},
           to \in KnownUser => authReq[r].user \in DOMAIN epoch,
           from \in {"load-user", "rotate", "issue"} => to \in {"rotate", "issue", "done"}
    PROVE  AccountInv'
<1>1. /\ Documents /\ sessions \in Seq(SessionDoc) /\ DOMAIN sessions = 1 .. Len(sessions)
      /\ authReq \in [AuthReq -> AuthRequest] /\ authReq[r] \in AuthRequest
      /\ epoch \in Seq(Nat)
  BY DEF AccountInv, Documents
<1>2. \A i \in DOMAIN sessions : [sessions[i] EXCEPT !.status = status] \in SessionDoc
  <2> SUFFICES ASSUME NEW i \in DOMAIN sessions
               PROVE  [sessions[i] EXCEPT !.status = status] \in SessionDoc
    OBVIOUS
  <2>1. PICK d \in SessionDoc : d = sessions[i]
    BY <1>1
  <2>2. [d EXCEPT !.status = status] \in SessionDoc
    BY DEF SessionDoc
  <2> QED
    BY <2>1, <2>2
<1>3. /\ sessions' \in Seq(SessionDoc) /\ Len(sessions') = Len(sessions)
      /\ DOMAIN sessions' = DOMAIN sessions
  <2>1. CASE UNCHANGED sessions
    BY <1>1, <2>1
  <2>2. CASE SetSession(s, status)
    <3>1. PICK d : d = [sessions[s] EXCEPT !.status = status]
      OBVIOUS
    <3>2. sessions' = [sessions EXCEPT ![s] = d] /\ (s \in DOMAIN sessions => d \in SessionDoc)
      BY <1>2, <2>2, <3>1 DEF SetSession
    <3> QED
      BY <1>1, <3>2, Replaced
  <2> QED
    BY <2>1, <2>2
<1>4. \A i \in DOMAIN sessions :
         /\ sessions'[i].user = sessions[i].user
         /\ sessions'[i].since = sessions[i].since
         /\ sessions'[i].late = sessions[i].late
         /\ sessions'[i].status = "active" => sessions[i].status = "active"
  <2> SUFFICES ASSUME NEW i \in DOMAIN sessions
               PROVE  /\ sessions'[i].user = sessions[i].user
                      /\ sessions'[i].since = sessions[i].since
                      /\ sessions'[i].late = sessions[i].late
                      /\ sessions'[i].status = "active" => sessions[i].status = "active"
    OBVIOUS
  <2>1. PICK d \in SessionDoc : d = sessions[i]
    BY <1>1
  <2>2. sessions'[i] = d \/ sessions'[i] = [d EXCEPT !.status = status]
    BY <2>1 DEF SetSession
  <2> QED
    BY <2>1, <2>2 DEF SessionDoc
<1>5. authReq' \in [AuthReq -> AuthRequest]
  <2>1. [authReq[r] EXCEPT !.pc = to] \in AuthRequest
    BY <1>1 DEF AuthRequest
  <2> QED
    BY <1>1, <2>1 DEF Pass
<1>6. Documents'
  BY <1>3, <1>4, <1>5 DEF AccountInv, Documents
<1>7. Grows
  BY <1>1, <1>3, <1>4 DEF Grows
<1>8. RequestKnows(authReq[r])'
  <2>1. RequestKnows([authReq[r] EXCEPT !.pc = to])
    BY PassKnows DEF Pass
  <2>2. PICK q \in AuthRequest : q = [authReq[r] EXCEPT !.pc = to]
    BY <1>1 DEF AuthRequest
  <2>3. authReq'[r] = q
    BY <1>1, <2>2 DEF Pass
  <2>4. RequestKnows(q)'
    BY <1>1, <1>6, <1>7, <2>1, <2>2, KnowledgeKept
  <2> QED
    BY <2>3, <2>4 DEF RequestKnows
<1>9. \A d \in AuthReq : d # r => authReq'[d] = authReq[d]
  BY <1>1 DEF Pass
<1>10. \A d \in AuthReq : RequestKnows(authReq[d])'
  BY <1>6, <1>7, <1>8, <1>9, RequestsKept
<1>11. RevocationEndsSessions'
  BY <1>3, <1>4 DEF AccountInv, RevocationEndsSessions
<1> QED
  BY <1>6, <1>10, <1>11 DEF AccountInv

\* A user is added; nobody revoked sessions of that user yet.
LEMMA InsertUserKeeps ==
    ASSUME AccountInv, NEW r \in AuthReq, InsertUser(r)
    PROVE  AccountInv'
<1>1. /\ Documents /\ epoch \in Seq(Nat) /\ Len(epoch) \in Nat /\ DOMAIN epoch = 1 .. Len(epoch)
      /\ authReq \in [AuthReq -> AuthRequest] /\ authReq[r] \in AuthRequest
      /\ RequestKnows(authReq[r])
      /\ grants' \in Seq(GrantDoc)
  BY DEF AccountInv, Documents, InsertUser
<1>2. CASE account.user # 0 /\ authReq' = [authReq EXCEPT ![r].pc = "done"]
           /\ UNCHANGED <<account, epoch>>
  <2>1. Pass(r, "insert-user", "done")
    BY <1>2 DEF InsertUser, Pass
  <2> QED
    BY <1>1, <1>2, <2>1, PassStep DEF InsertUser, Position, KnownUser
<1>3. CASE /\ authReq' = [authReq EXCEPT ![r].pc = "profile", ![r].user = Len(epoch) + 1]
           /\ account' = [user |-> Len(epoch) + 1, password |-> authReq[r].kind = "signup"]
           /\ epoch' = Append(epoch, 0)
  <2>1. /\ epoch' \in Seq(Nat) /\ Len(epoch') = Len(epoch) + 1
        /\ DOMAIN epoch' = 1 .. Len(epoch) + 1
        /\ \A u \in DOMAIN epoch : epoch'[u] = epoch[u]
        /\ epoch'[Len(epoch) + 1] = 0
    BY <1>1, <1>3
  <2>2. authReq' \in [AuthReq -> AuthRequest]
    <3>1. PICK q \in AuthRequest : q = authReq[r]
      BY <1>1
    <3>2. PICK q2 \in AuthRequest : q2 = [q EXCEPT !.pc = "profile"]
      BY DEF AuthRequest, Position
    <3>3. PICK n \in Nat : n = Len(epoch) + 1
      BY <1>1
    <3>4. [q2 EXCEPT !.user = n] \in AuthRequest
      BY DEF AuthRequest
    <3> QED
      BY <1>1, <1>3, <3>1, <3>2, <3>3, <3>4
  <2>3. account' \in [user : 0 .. Len(epoch'), password : BOOLEAN] /\ account'.user # 0
    BY <1>1, <1>3, <2>1
  <2>4. Documents'
    BY <1>1, <2>1, <2>2, <2>3 DEF InsertUser, Documents
  <2>5. Grows
    BY <1>1, <2>1 DEF InsertUser, Documents, Grows, SessionDoc
  <2>6. RequestKnows(authReq[r])'
    <3>1. PICK q \in AuthRequest : q = authReq[r]
      BY <1>1
    <3>2. q.epoch = 0 /\ q.kind # "refresh"
      BY <1>1, <3>1 DEF InsertUser, RequestKnows
    <3>3. /\ authReq'[r].pc = "profile" /\ authReq'[r].kind = q.kind
          /\ authReq'[r].user = Len(epoch) + 1 /\ authReq'[r].epoch = q.epoch
      BY <1>1, <1>3, <3>1 DEF AuthRequest
    <3> QED
      BY <1>1, <2>1, <3>2, <3>3 DEF RequestKnows
  <2>7. \A d \in AuthReq : d # r => authReq'[d] = authReq[d]
    BY <1>1, <1>3
  <2>8. \A d \in AuthReq : RequestKnows(authReq[d])'
    BY <2>4, <2>5, <2>6, <2>7, RequestsKept
  <2>9. RevocationEndsSessions'
    BY <1>1, <2>1 DEF AccountInv, Documents, InsertUser, RevocationEndsSessions
  <2> QED
    BY <2>4, <2>8, <2>9 DEF AccountInv
<1> QED
  BY <1>2, <1>3 DEF InsertUser

\* The new session is active in the epoch its line began in, unless a
\* revocation overlapped the line.
LEMMA IssueKeeps ==
    ASSUME AccountInv, NEW r \in AuthReq, IssueSessionTokens(r)
    PROVE  AccountInv'
<1>1. /\ Documents /\ sessions \in Seq(SessionDoc) /\ DOMAIN sessions = 1 .. Len(sessions)
      /\ Len(sessions) \in Nat /\ epoch \in Seq(Nat) /\ RevocationEndsSessions
      /\ authReq \in [AuthReq -> AuthRequest] /\ authReq[r] \in AuthRequest
      /\ RequestKnows(authReq[r])
  BY DEF AccountInv, Documents
<1>2. PICK q \in AuthRequest : q = authReq[r]
  BY <1>1
<1> DEFINE parent == IF q.kind = "refresh" THEN q.of ELSE 0
           since == IF parent = 0 THEN q.epoch ELSE sessions[parent].since
           late == epoch[q.user] # q.epoch \/ (parent # 0 /\ sessions[parent].late)
           pc == IF q.kind = "sso" THEN "ticket" ELSE "done"
<1>3. /\ q.pc = "issue" /\ RequestKnows(q) /\ q.user \in DOMAIN epoch
      /\ q.epoch \in Nat /\ q.user \in Nat /\ q.of \in Nat /\ q.known \in Nat
  BY <1>1, <1>2 DEF IssueSessionTokens, RequestKnows, AuthRequest
<1>4. parent \in Nat /\ (parent # 0 => q.kind = "refresh" /\ parent = q.of /\ parent \in DOMAIN sessions)
  BY <1>3 DEF RequestKnows
<1>5. since \in Nat /\ late \in BOOLEAN
  <2>1. parent # 0 => sessions[parent] \in SessionDoc
    BY <1>1, <1>4
  <2> QED
    BY <1>3, <2>1 DEF SessionDoc
<1>6. ~late => since = epoch[q.user]
  BY <1>3, <1>4 DEF RequestKnows
<1>7. /\ sessions' = Append(sessions, NewSession(q.user, parent, since, late, q.known))
      /\ authReq' = [authReq EXCEPT ![r].pc = pc, ![r].of = Len(sessions) + 1]
      /\ UNCHANGED <<account, profile, grants, epoch, unmarked>>
  BY <1>2 DEF IssueSessionTokens
<1> HIDE DEF parent, since, late
<1>8. PICK new \in SessionDoc : new = NewSession(q.user, parent, since, late, q.known)
  BY <1>3, <1>4, <1>5 DEF NewSession, SessionDoc
<1>9. new.user = q.user /\ new.since = since /\ new.late = late
  BY <1>8 DEF NewSession
<1>10. /\ sessions' \in Seq(SessionDoc) /\ Len(sessions') = Len(sessions) + 1
       /\ DOMAIN sessions' = 1 .. Len(sessions) + 1
       /\ \A s \in DOMAIN sessions : sessions'[s] = sessions[s]
       /\ sessions'[Len(sessions) + 1] = new
  BY <1>1, <1>7, <1>8
<1>11. \A s \in DOMAIN sessions' : s \in DOMAIN sessions \/ s = Len(sessions) + 1
  BY <1>1, <1>10
<1>12. authReq' \in [AuthReq -> AuthRequest]
  <2>1. PICK q2 \in AuthRequest : q2 = [q EXCEPT !.pc = pc]
    BY DEF AuthRequest, Position
  <2>2. PICK n \in Nat : n = Len(sessions) + 1
    BY <1>1
  <2>3. [q2 EXCEPT !.of = n] \in AuthRequest
    BY DEF AuthRequest
  <2> QED
    BY <1>1, <1>2, <1>7, <2>1, <2>2, <2>3
<1>13. Documents'
  <2>1. \A s \in DOMAIN sessions' : sessions'[s].user \in DOMAIN epoch'
    BY <1>1, <1>3, <1>7, <1>9, <1>10, <1>11 DEF Documents
  <2> QED
    BY <1>1, <1>7, <1>10, <1>12, <2>1 DEF Documents
<1>14. Grows
  <2>1. \A u \in DOMAIN epoch : epoch[u] <= epoch'[u]
    BY <1>1, <1>7
  <2>2. Len(epoch) <= Len(epoch') /\ Len(sessions) <= Len(sessions')
    BY <1>1, <1>7, <1>10
  <2> QED
    BY <1>10, <2>1, <2>2 DEF Grows
<1>15. RequestKnows(authReq[r])'
  <2>1. /\ authReq'[r].pc = pc /\ authReq'[r].kind = q.kind
        /\ authReq'[r].user = q.user /\ authReq'[r].epoch = q.epoch
    BY <1>1, <1>2, <1>7 DEF AuthRequest
  <2>2. pc \in {"ticket", "done"} /\ (q.kind = "refresh" => pc = "done")
    OBVIOUS
  <2> QED
    BY <1>3, <1>7, <2>1, <2>2 DEF RequestKnows
<1>16. \A d \in AuthReq : d # r => authReq'[d] = authReq[d]
  BY <1>1, <1>7
<1>17. \A d \in AuthReq : RequestKnows(authReq[d])'
  BY <1>13, <1>14, <1>15, <1>16, RequestsKept
<1>18. RevocationEndsSessions'
  BY <1>1, <1>6, <1>7, <1>9, <1>10, <1>11 DEF RevocationEndsSessions
<1> QED
  BY <1>13, <1>17, <1>18 DEF AccountInv

\* Nothing of the user stays active.
LEMMA RevokeUserKeeps ==
    ASSUME AccountInv, NEW r \in AuthReq, RevokeUserSessions(r)
    PROVE  AccountInv'
<1>1. /\ Documents /\ sessions \in Seq(SessionDoc) /\ DOMAIN sessions = 1 .. Len(sessions)
      /\ Len(sessions) \in Nat /\ epoch \in Seq(Nat) /\ DOMAIN epoch = 1 .. Len(epoch)
      /\ authReq \in [AuthReq -> AuthRequest] /\ authReq[r] \in AuthRequest
      /\ RequestKnows(authReq[r]) /\ RevocationEndsSessions
  BY DEF AccountInv, Documents
<1>2. PICK user \in Nat : user = authReq[r].user
  BY <1>1 DEF AuthRequest
<1>3. /\ epoch' = [epoch EXCEPT ![user] = @ + 1]
      /\ Pass(r, "revoke-all", "done")
      /\ UNCHANGED <<account, profile, grants, unmarked>>
  BY <1>2 DEF RevokeUserSessions
<1>4. /\ epoch' \in Seq(Nat) /\ Len(epoch') = Len(epoch) /\ DOMAIN epoch' = DOMAIN epoch
      /\ \A u \in DOMAIN epoch : epoch'[u] = IF u = user THEN epoch[u] + 1 ELSE epoch[u]
  <2>1. user \in DOMAIN epoch => epoch[user] + 1 \in Nat
    BY <1>1
  <2>2. PICK n : n = epoch[user] + 1
    OBVIOUS
  <2>3. epoch' = [epoch EXCEPT ![user] = n] /\ (user \in DOMAIN epoch => n \in Nat)
    BY <1>3, <2>1, <2>2
  <2>4. epoch' \in Seq(Nat) /\ Len(epoch') = Len(epoch) /\ DOMAIN epoch' = DOMAIN epoch
    <3> DEFINE S == Nat
    <3>1. epoch \in Seq(S) /\ (user \in DOMAIN epoch => n \in S)
      BY <1>1, <2>3
    <3> HIDE DEF S
    <3>2. [epoch EXCEPT ![user] = n] \in Seq(S)
          /\ Len([epoch EXCEPT ![user] = n]) = Len(epoch)
          /\ DOMAIN [epoch EXCEPT ![user] = n] = DOMAIN epoch
      BY <3>1, Replaced
    <3> QED
      BY <2>3, <3>2 DEF S
  <2> QED
    BY <1>1, <2>2, <2>3, <2>4
<1>5. \A s \in DOMAIN sessions :
         /\ sessions'[s] \in SessionDoc
         /\ sessions'[s].user = sessions[s].user
         /\ sessions'[s].since = sessions[s].since
         /\ sessions'[s].late = sessions[s].late
         /\ sessions'[s].status = "active" =>
               sessions[s].status = "active" /\ sessions[s].user # user
  <2> SUFFICES ASSUME NEW s \in DOMAIN sessions
               PROVE  /\ sessions'[s] \in SessionDoc
                      /\ sessions'[s].user = sessions[s].user
                      /\ sessions'[s].since = sessions[s].since
                      /\ sessions'[s].late = sessions[s].late
                      /\ sessions'[s].status = "active" =>
                            sessions[s].status = "active" /\ sessions[s].user # user
    OBVIOUS
  <2>1. PICK d \in SessionDoc : d = sessions[s]
    BY <1>1
  <2>2. sessions'[s] = IF d.user = user /\ d.status \in {"active", "rotated"}
                       THEN [d EXCEPT !.status = "revoked"] ELSE d
    BY <1>2, <2>1 DEF RevokeUserSessions
  <2> QED
    BY <2>1, <2>2 DEF SessionDoc
<1>6. sessions' \in Seq(SessionDoc) /\ Len(sessions') = Len(sessions)
      /\ DOMAIN sessions' = DOMAIN sessions
  <2>1. DOMAIN sessions' = DOMAIN sessions
        /\ sessions' = [s \in DOMAIN sessions |-> sessions'[s]]
    BY DEF RevokeUserSessions
  <2> QED
    BY <1>1, <1>5, <2>1
<1>7. authReq' \in [AuthReq -> AuthRequest]
  <2>1. [authReq[r] EXCEPT !.pc = "done"] \in AuthRequest
    BY <1>1 DEF AuthRequest, Position
  <2> QED
    BY <1>1, <1>3, <2>1 DEF Pass
<1>8. Documents'
  BY <1>1, <1>3, <1>4, <1>5, <1>6, <1>7 DEF Documents
<1>9. Grows
  <2>1. \A u \in DOMAIN epoch : epoch[u] <= epoch'[u]
    <3> SUFFICES ASSUME NEW u \in DOMAIN epoch PROVE epoch[u] <= epoch'[u]
      OBVIOUS
    <3>1. epoch[u] \in Nat /\ epoch'[u] \in {epoch[u], epoch[u] + 1}
      BY <1>1, <1>4
    <3> QED
      BY <3>1
  <2> QED
    BY <1>1, <1>4, <1>5, <1>6, <2>1 DEF Grows
<1>10. RequestKnows(authReq[r])'
  <2>1. RequestKnows([authReq[r] EXCEPT !.pc = "done"])
    BY <1>3, PassKnows DEF Pass, KnownUser
  <2>2. PICK q \in AuthRequest : q = [authReq[r] EXCEPT !.pc = "done"]
    BY <1>1 DEF AuthRequest, Position
  <2>3. authReq'[r] = q
    BY <1>1, <1>3, <2>2 DEF Pass
  <2>4. RequestKnows(q)'
    BY <1>1, <1>8, <1>9, <2>1, <2>2, KnowledgeKept
  <2> QED
    BY <2>3, <2>4 DEF RequestKnows
<1>11. \A d \in AuthReq : d # r => authReq'[d] = authReq[d]
  BY <1>1, <1>3 DEF Pass
<1>12. \A d \in AuthReq : RequestKnows(authReq[d])'
  BY <1>8, <1>9, <1>10, <1>11, RequestsKept
<1>13. RevocationEndsSessions'
  <2> SUFFICES ASSUME NEW s \in DOMAIN sessions, sessions'[s].status = "active", ~sessions'[s].late
               PROVE  sessions'[s].since = epoch'[sessions'[s].user]
    BY <1>6 DEF RevocationEndsSessions
  <2>1. sessions[s].since = epoch[sessions[s].user] /\ sessions[s].user # user
    BY <1>1, <1>5 DEF RevocationEndsSessions
  <2>2. sessions[s].user \in DOMAIN epoch
    BY <1>1 DEF Documents
  <2>3. epoch'[sessions[s].user] = epoch[sessions[s].user]
    BY <1>4, <2>1, <2>2
  <2> QED
    BY <1>5, <2>1, <2>3
<1> QED
  BY <1>8, <1>12, <1>13 DEF AccountInv
-----------------------------------------------------------------------------
(* Every step *)

\* The requests that begin.
AuthBegins(r) ==
    \/ Signup(r) \/ Login(r)
    \/ \E s \in DOMAIN sessions : RefreshSessionTokens(r, s) \/ RefreshExpired(r, s)
    \/ \E s \in 0 .. Len(sessions), u \in 0 .. Len(epoch) : s + u > 0 /\ Logout(r, s, u)
    \/ RequestPasswordReset(r)
    \/ \E g \in DOMAIN grants : \/ ConfirmPasswordReset(r, g) \/ CompleteSSO(r, g)
                                \/ ExchangeSSOTicket(r, g)
    \/ \E u \in profile : DeleteProfile(r, u)
    \/ StartSSO(r)

LEMMA AuthBeginsKeeps ==
    ASSUME AccountInv, NEW r \in AuthReq, AuthBegins(r)
    PROVE  AccountInv'
<1>1. /\ Documents /\ sessions \in Seq(SessionDoc) /\ Len(sessions) \in Nat
      /\ DOMAIN sessions = 1 .. Len(sessions)
      /\ epoch \in Seq(Nat) /\ Len(epoch) \in Nat /\ DOMAIN epoch = 1 .. Len(epoch)
      /\ grants \in Seq(GrantDoc) /\ Len(grants) \in Nat /\ DOMAIN grants = 1 .. Len(grants)
      /\ account.user \in 0 .. Len(epoch) /\ (account.password => account.user # 0)
      /\ profile \subseteq DOMAIN epoch
  BY DEF AccountInv, Documents
<1>2. CASE Signup(r)
  BY <1>1, <1>2, QuietEnter DEF Signup, Position, RequestKind
<1>3. CASE Login(r)
  BY <1>1, <1>3, QuietEnter DEF Login, Position, RequestKind
<1>4. ASSUME NEW s \in DOMAIN sessions, RefreshSessionTokens(r, s) PROVE AccountInv'
  <2>1. /\ sessions[s].user \in DOMAIN epoch /\ sessions[s].user \in 0 .. Len(epoch)
        /\ sessions[s].user # 0 /\ s \in Nat
    BY <1>1 DEF Documents
  <2> QED
    BY <1>1, <1>4, <2>1, QuietEnter DEF RefreshSessionTokens, Refreshable, Position, RequestKind
<1>5. ASSUME NEW s \in DOMAIN sessions, RefreshExpired(r, s) PROVE AccountInv'
  <2>1. sessions[s].user \in 0 .. Len(epoch) /\ s \in Nat
    BY <1>1 DEF Documents
  <2> QED
    BY <1>1, <1>5, <2>1, QuietEnter DEF RefreshExpired, Position, RequestKind
<1>6. ASSUME NEW s \in 0 .. Len(sessions), NEW u \in 0 .. Len(epoch), Logout(r, s, u)
      PROVE  AccountInv'
  <2>1. s \in Nat
    BY <1>1
  <2>2. PICK pc \in {"revoke", "revoke-all"} : Enter(r, "logout", s, u, 0, pc)
    BY <1>6 DEF Logout
  <2>3. UNCHANGED <<account, profile, sessions, epoch>> /\ grants' \in Seq(GrantDoc)
    BY <1>1, <1>6 DEF Logout
  <2> QED
    BY <2>1, <2>2, <2>3, QuietEnter DEF Position, RequestKind
<1>7. CASE RequestPasswordReset(r)
  BY <1>1, <1>7, QuietEnter DEF RequestPasswordReset, Position, RequestKind
<1>8. ASSUME NEW g \in DOMAIN grants, ConfirmPasswordReset(r, g) PROVE AccountInv'
  <2>1. PICK d \in GrantDoc : d = grants[g]
    BY <1>1
  <2>2. PICK d2 \in GrantDoc : d2 = [[d EXCEPT !.status = "gone"] EXCEPT !.uses = d.uses + 1]
    <3>1. PICK d1 \in GrantDoc : d1 = [d EXCEPT !.status = "gone"]
      BY DEF GrantDoc
    <3>2. PICK n \in Nat : n = d.uses + 1
      BY DEF GrantDoc
    <3>3. [d1 EXCEPT !.uses = n] \in GrantDoc
      BY DEF GrantDoc
    <3> QED
      BY <3>1, <3>2, <3>3
  <2>3. grants' = [grants EXCEPT ![g] = d2]
    BY <1>8, <2>1, <2>2 DEF ConfirmPasswordReset
  <2>4. grants' \in Seq(GrantDoc) /\ g \in Nat
    BY <1>1, <2>3, Replaced
  <2> QED
    BY <1>1, <1>8, <2>4, QuietEnter DEF ConfirmPasswordReset, Position, RequestKind
<1>9. ASSUME NEW g \in DOMAIN grants, CompleteSSO(r, g) PROVE AccountInv'
  <2>1. grants[g] \in GrantDoc /\ g \in Nat
    BY <1>1
  <2>2. grants[g].uses \in Nat
    BY <2>1 DEF GrantDoc
  <2> QED
    BY <1>1, <1>9, <2>1, <2>2, QuietEnter DEF CompleteSSO, ReadGrant, Position, RequestKind
<1>10. ASSUME NEW g \in DOMAIN grants, ExchangeSSOTicket(r, g) PROVE AccountInv'
  <2>1. grants[g] \in GrantDoc /\ g \in Nat
    BY <1>1
  <2>2. grants[g].uses \in Nat
    BY <2>1 DEF GrantDoc
  <2> QED
    BY <1>1, <1>10, <2>1, <2>2, QuietEnter DEF ExchangeSSOTicket, ReadGrant, Position, RequestKind
<1>11. ASSUME NEW u \in profile, DeleteProfile(r, u) PROVE AccountInv'
  <2>1. u \in 0 .. Len(epoch)
    BY <1>1
  <2> QED
    BY <1>1, <1>11, <2>1, QuietEnter DEF DeleteProfile, Position, RequestKind
<1>12. CASE StartSSO(r)
  <2>1. grants' \in Seq(GrantDoc)
    BY <1>1, <1>12, AddGrantTyped DEF StartSSO
  <2> QED
    BY <1>1, <1>12, <2>1, QuietEnter DEF StartSSO, Position, RequestKind
<1> QED
  BY <1>2, <1>3, <1>4, <1>5, <1>6, <1>7, <1>8, <1>9, <1>10, <1>11, <1>12 DEF AuthBegins

\* The requests that go on or end, and change nothing but themselves, the
\* account, its profile, or grants.
AuthGoesOn(r) ==
    \/ EnsureProfile(r) \/ LoadUser(r)
    \/ ClearResets(r) \/ InsertReset(r) \/ DeliverReset(r) \/ FindUser(r) \/ ResetPassword(r)
    \/ DeleteUser(r) \/ DeleteProfileDocument(r)
    \/ UseState(r) \/ ExchangeCode(r) \/ MapIdentity(r) \/ CreateSSOTicket(r)
    \/ UseTicket(r) \/ DeleteTicket(r) \/ AuthReqFails(r)

LEMMA AuthGoesOnKeeps ==
    ASSUME AccountInv, NEW r \in AuthReq, AuthGoesOn(r)
    PROVE  AccountInv'
<1>1. /\ Documents /\ epoch \in Seq(Nat) /\ Len(epoch) \in Nat /\ DOMAIN epoch = 1 .. Len(epoch)
      /\ grants \in Seq(GrantDoc) /\ Len(grants) \in Nat /\ DOMAIN grants = 1 .. Len(grants)
      /\ account \in [user : 0 .. Len(epoch), password : BOOLEAN]
      /\ (account.password => account.user # 0)
      /\ sessions \in Seq(SessionDoc) /\ Len(sessions) \in Nat
      /\ profile \subseteq DOMAIN epoch
      /\ authReq[r] \in AuthRequest /\ RequestKnows(authReq[r])
  BY DEF AccountInv, Documents
<1>2. PICK q \in AuthRequest : q = authReq[r]
  BY <1>1
<1>3. RequestKnows(q)
  BY <1>1, <1>2
<1>4. NoUser \in [user : 0 .. Len(epoch), password : BOOLEAN] /\ ~NoUser.password
  BY <1>1 DEF NoUser
<1>5. CASE EnsureProfile(r)
  <2>1. authReq[r].user \in DOMAIN epoch /\ Pass(r, "profile", "issue")
    BY <1>1, <1>5 DEF EnsureProfile, Pass, RequestKnows
  <2>2. RequestKnows([authReq[r] EXCEPT !.pc = "issue"])
    BY <2>1, PassKnows DEF Pass
  <2>3. profile' \subseteq DOMAIN epoch
    BY <1>1, <1>5, <2>1 DEF EnsureProfile
  <2> QED
    BY <1>1, <1>5, <2>1, <2>2, <2>3, QuietPass DEF EnsureProfile, Position
<1>6. CASE LoadUser(r)
  <2>1. PICK to \in {"rotate", "done"} : Pass(r, "load-user", to)
    BY <1>6 DEF LoadUser
  <2>2. authReq[r].user \in DOMAIN epoch
    BY <1>1, <2>1 DEF Pass, RequestKnows
  <2> QED
    BY <1>1, <1>6, <2>1, <2>2, PassStep DEF LoadUser, Position, KnownUser
<1>7. CASE ClearResets(r)
  <2>1. PICK q2 \in AuthRequest : q2 = [[q EXCEPT !.pc = "insert-reset"] EXCEPT !.known = Len(grants)]
    <3>1. PICK q1 \in AuthRequest : q1 = [q EXCEPT !.pc = "insert-reset"]
      BY DEF AuthRequest, Position
    <3>2. PICK n \in Nat : n = Len(grants)
      BY <1>1
    <3>3. [q1 EXCEPT !.known = n] \in AuthRequest
      BY DEF AuthRequest
    <3> QED
      BY <3>1, <3>2, <3>3
  <2>2. authReq' = [authReq EXCEPT ![r] = q2]
    BY <1>2, <1>7, <2>1 DEF ClearResets
  <2>3. /\ q2.pc = "insert-reset" /\ q2.kind = q.kind /\ q2.of = q.of /\ q2.user = q.user
        /\ q2.epoch = q.epoch /\ q.pc = "clear-resets"
    BY <1>2, <1>7, <2>1 DEF ClearResets, AuthRequest
  <2>4. RequestKnows(q2)
    BY <1>3, <2>3 DEF RequestKnows
  <2>5. grants' \in Seq(GrantDoc)
    <3>1. \A g \in DOMAIN grants : grants'[g] \in GrantDoc
      <4> SUFFICES ASSUME NEW g \in DOMAIN grants PROVE grants'[g] \in GrantDoc
        OBVIOUS
      <4>1. PICK d \in GrantDoc : d = grants[g]
        BY <1>1
      <4>2. grants'[g] \in {d, [d EXCEPT !.status = "gone"]}
        BY <1>7, <4>1 DEF ClearResets
      <4>3. [d EXCEPT !.status = "gone"] \in GrantDoc
        BY DEF GrantDoc
      <4> QED
        BY <4>2, <4>3
    <3>2. DOMAIN grants' = DOMAIN grants /\ grants' = [g \in DOMAIN grants |-> grants'[g]]
      BY <1>7 DEF ClearResets
    <3>3. PICK h : h = grants'
      OBVIOUS
    <3>4. h \in Seq(GrantDoc)
      BY <1>1, <3>1, <3>2, <3>3, Mapped
    <3> QED
      BY <3>3, <3>4
  <2> QED
    BY <1>1, <1>7, <2>2, <2>4, <2>5, QuietStep DEF ClearResets
<1>8. CASE InsertReset(r)
  <2>1. PICK q2 \in AuthRequest : q2 = [[q EXCEPT !.pc = "deliver"] EXCEPT !.of = Len(grants) + 1]
    <3>1. PICK q1 \in AuthRequest : q1 = [q EXCEPT !.pc = "deliver"]
      BY DEF AuthRequest, Position
    <3>2. PICK n \in Nat : n = Len(grants) + 1
      BY <1>1
    <3>3. [q1 EXCEPT !.of = n] \in AuthRequest
      BY DEF AuthRequest
    <3> QED
      BY <3>1, <3>2, <3>3
  <2>2. authReq' = [authReq EXCEPT ![r] = q2]
    BY <1>2, <1>8, <2>1 DEF InsertReset
  <2>3. /\ q2.pc = "deliver" /\ q2.kind = q.kind /\ q2.user = q.user
        /\ q2.epoch = q.epoch /\ q.pc = "insert-reset"
    BY <1>2, <1>8, <2>1 DEF InsertReset, AuthRequest
  <2>4. RequestKnows(q2)
    BY <1>3, <2>3 DEF RequestKnows
  <2>5. PICK known \in Nat : known = authReq[r].known
    BY <1>1 DEF AuthRequest
  <2>6. grants' \in Seq(GrantDoc)
    <3>1. grants' = Append(grants, Grant("reset", 0, known))
      BY <1>8, <2>5 DEF InsertReset
    <3> QED
      BY <1>1, <3>1, AddGrantTyped
  <2> QED
    BY <1>1, <1>8, <2>2, <2>4, <2>6, QuietStep DEF InsertReset
<1>9. CASE DeliverReset(r)
  <2>1. grants' \in Seq(GrantDoc)
    BY <1>1, <1>9, SetGrantTyped DEF DeliverReset
  <2> QED
    BY <1>9, <2>1, PassStep DEF DeliverReset, Position, KnownUser
<1>10. CASE FindUser(r)
  <2>1. PICK to \in {"password", "done"} :
           /\ to = (IF account.user # 0 THEN "password" ELSE "done")
           /\ authReq' = [authReq EXCEPT ![r].pc = to, ![r].user = account.user]
    BY <1>10 DEF FindUser
  <2>2. PICK q2 \in AuthRequest : q2 = [[q EXCEPT !.pc = to] EXCEPT !.user = account.user]
    <3>1. PICK q1 \in AuthRequest : q1 = [q EXCEPT !.pc = to]
      BY DEF AuthRequest, Position
    <3>2. PICK n \in Nat : n = account.user
      BY <1>1
    <3>3. [q1 EXCEPT !.user = n] \in AuthRequest
      BY DEF AuthRequest
    <3> QED
      BY <3>1, <3>2, <3>3
  <2>3. authReq' = [authReq EXCEPT ![r] = q2]
    BY <1>2, <2>1, <2>2
  <2>4. /\ q2.pc = to /\ q2.kind = q.kind /\ q2.user = account.user
        /\ q2.epoch = q.epoch /\ q.pc = "find-user"
    BY <1>2, <1>10, <2>2 DEF FindUser, AuthRequest
  <2>5. q2.epoch = 0 /\ q2.kind # "refresh" /\ account.user \in 0 .. Len(epoch)
    BY <1>1, <1>3, <2>4 DEF RequestKnows
  <2>6. \A u \in DOMAIN epoch : 0 <= epoch[u]
    BY <1>1
  <2>7. to = "password" => account.user \in DOMAIN epoch
    BY <1>1, <2>1
  <2>8. RequestKnows(q2)
    BY <2>4, <2>5, <2>6, <2>7 DEF RequestKnows
  <2> QED
    BY <1>1, <1>10, <2>3, <2>8, QuietStep DEF FindUser
<1>11. CASE ResetPassword(r)
  <2>1. authReq[r].user \in DOMAIN epoch /\ Pass(r, "password", "revoke-all")
    BY <1>1, <1>11 DEF ResetPassword, Pass, RequestKnows
  <2>2. RequestKnows([authReq[r] EXCEPT !.pc = "revoke-all"])
    BY <2>1, PassKnows DEF Pass, KnownUser
  <2>3. account' \in [user : 0 .. Len(epoch), password : BOOLEAN]
    BY <1>1, <1>11 DEF ResetPassword
  <2>4. account'.password => account'.user # 0
    BY <1>1, <1>11, <2>1 DEF ResetPassword
  <2> QED
    BY <1>1, <1>11, <2>1, <2>2, <2>3, <2>4, QuietPass DEF ResetPassword, Position
<1>12. CASE DeleteUser(r)
  <2>1. Pass(r, "delete-user", "delete-profile") /\ account' \in {account, NoUser}
    BY <1>12 DEF DeleteUser
  <2>2. RequestKnows([authReq[r] EXCEPT !.pc = "delete-profile"])
    BY <2>1, PassKnows DEF Pass, KnownUser
  <2> QED
    BY <1>1, <1>4, <1>12, <2>1, <2>2, QuietPass DEF DeleteUser, Position
<1>13. CASE DeleteProfileDocument(r)
  <2>1. Pass(r, "delete-profile", "done")
    BY <1>13 DEF DeleteProfileDocument
  <2>2. RequestKnows([authReq[r] EXCEPT !.pc = "done"])
    BY <2>1, PassKnows DEF Pass, KnownUser
  <2>3. profile' \subseteq DOMAIN epoch
    BY <1>1, <1>13 DEF DeleteProfileDocument
  <2> QED
    BY <1>1, <1>13, <2>1, <2>2, <2>3, QuietPass DEF DeleteProfileDocument, Position
<1>14. CASE UseState(r)
  <2>1. grants' \in Seq(GrantDoc)
    BY <1>1, <1>14, UseGrantTyped DEF UseState
  <2> QED
    BY <1>14, <2>1, PassStep DEF UseState, UseGrant, Position, KnownUser
<1>15. CASE ExchangeCode(r)
  <2>1. PICK g : grants' = [grants EXCEPT ![g] = [grants[g] EXCEPT !.session = -1]]
    BY <1>15 DEF ExchangeCode
  <2>2. g \in DOMAIN grants => [grants[g] EXCEPT !.session = -1] \in GrantDoc
    <3> SUFFICES ASSUME g \in DOMAIN grants PROVE [grants[g] EXCEPT !.session = -1] \in GrantDoc
      OBVIOUS
    <3>1. PICK d \in GrantDoc : d = grants[g]
      BY <1>1
    <3>2. [d EXCEPT !.session = -1] \in GrantDoc
      BY DEF GrantDoc
    <3> QED
      BY <3>1, <3>2
  <2>3. grants' \in Seq(GrantDoc)
    BY <1>1, <2>1, <2>2, Replaced
  <2> QED
    BY <1>15, <2>3, PassStep DEF ExchangeCode, Position, KnownUser
<1>16. CASE MapIdentity(r)
  <2>1. PICK e \in Nat : e = EpochOf(account.user)
    BY <1>1 DEF EpochOf
  <2>2. account.user # 0 => account.user \in DOMAIN epoch /\ e = epoch[account.user]
    BY <1>1, <2>1 DEF EpochOf
  <2>3. account.user = 0 => e = 0
    BY <2>1 DEF EpochOf
  <2>4. PICK to \in {"profile", "insert-user"} :
           to = (IF account.user # 0 THEN "profile" ELSE "insert-user")
    OBVIOUS
  <2>5. PICK u \in Nat : u = account.user
    BY <1>1
  <2>6. PICK n \in Nat : n = Len(sessions)
    BY <1>1
  <2>7. PICK q2 \in AuthRequest :
           q2 = [[[[q EXCEPT !.pc = to] EXCEPT !.user = u] EXCEPT !.epoch = e] EXCEPT !.known = n]
    <3>1. PICK q3 \in AuthRequest : q3 = [q EXCEPT !.pc = to]
      BY DEF AuthRequest, Position
    <3>2. PICK q4 \in AuthRequest : q4 = [q3 EXCEPT !.user = u]
      BY DEF AuthRequest
    <3>3. PICK q5 \in AuthRequest : q5 = [q4 EXCEPT !.epoch = e]
      BY DEF AuthRequest
    <3>4. [q5 EXCEPT !.known = n] \in AuthRequest
      BY DEF AuthRequest
    <3> QED
      BY <3>1, <3>2, <3>3, <3>4
  <2>8. authReq' = [authReq EXCEPT ![r] = q2]
    BY <1>2, <1>16, <2>1, <2>4, <2>5, <2>6, <2>7 DEF MapIdentity
  <2>9. q.pc = "map" /\ q.kind # "refresh"
    BY <1>2, <1>3, <1>16 DEF MapIdentity, RequestKnows
  <2>10. /\ q2.pc = to /\ q2.kind # "refresh" /\ q2.user = account.user /\ q2.epoch = e
    BY <2>5, <2>7, <2>9 DEF AuthRequest
  <2>11. account.user \in DOMAIN epoch => e <= epoch[account.user]
    BY <1>1, <2>2
  <2>12. account.user \in 0 .. Len(epoch)
    BY <1>1
  <2>13. RequestKnows(q2)
    BY <2>2, <2>3, <2>4, <2>10, <2>11, <2>12 DEF RequestKnows
  <2> QED
    BY <1>1, <1>16, <2>8, <2>13, QuietStep DEF MapIdentity
<1>17. CASE CreateSSOTicket(r)
  <2>1. authReq[r].of \in Int
    BY <1>1 DEF AuthRequest
  <2>2. grants' \in Seq(GrantDoc)
    BY <1>1, <1>17, <2>1, AddGrantTyped DEF CreateSSOTicket
  <2> QED
    BY <1>17, <2>2, PassStep DEF CreateSSOTicket, Position, KnownUser
<1>18. CASE UseTicket(r)
  <2>1. grants' \in Seq(GrantDoc)
    BY <1>1, <1>18, UseGrantTyped DEF UseTicket
  <2> QED
    BY <1>18, <2>1, PassStep DEF UseTicket, UseGrant, Position, KnownUser
<1>19. CASE DeleteTicket(r)
  <2>1. grants' \in Seq(GrantDoc)
    BY <1>1, <1>19, SetGrantTyped DEF DeleteTicket
  <2> QED
    BY <1>19, <2>1, PassStep DEF DeleteTicket, Position, KnownUser
<1>20. CASE AuthReqFails(r)
  <2>1. PICK from : from = authReq[r].pc
    OBVIOUS
  <2>2. Pass(r, from, "done") /\ from # "done"
    BY <1>20, <2>1 DEF AuthReqFails, Pass
  <2> QED
    BY <1>1, <1>20, <2>2, PassStep DEF AuthReqFails, Position, KnownUser
<1> QED
  BY <1>5, <1>6, <1>7, <1>8, <1>9, <1>10, <1>11, <1>12, <1>13, <1>14, <1>15, <1>16, <1>17,
     <1>18, <1>19, <1>20 DEF AuthGoesOn

\* The steps of an account, in groups.
LEMMA AuthSteps ==
    AuthNext =>
        \/ \E r \in AuthReq :
              \/ AuthBegins(r) \/ AuthGoesOn(r) \/ InsertUser(r)
              \/ IssueSessionTokens(r) \/ RevokeUserSessions(r)
              \/ MarkRotated(r) \/ MarkRotatedFails(r) \/ MarkExpired(r)
              \/ RevokeSessionToken(r)
        \/ \E g \in DOMAIN grants : GrantExpires(g)
BY Zenon DEF AuthNext, AuthBegins, AuthGoesOn

LEMMA AccountKept == AccountInv /\ [AuthNext]_authVars => AccountInv'
<1> SUFFICES ASSUME AccountInv, [AuthNext]_authVars PROVE AccountInv'
  OBVIOUS
<1>1. ASSUME NEW r \in AuthReq, AuthBegins(r) PROVE AccountInv'
  BY <1>1, AuthBeginsKeeps
<1>2. ASSUME NEW r \in AuthReq, AuthGoesOn(r) PROVE AccountInv'
  BY <1>2, AuthGoesOnKeeps
<1>3. ASSUME NEW r \in AuthReq, InsertUser(r) PROVE AccountInv'
  BY <1>3, InsertUserKeeps
<1>4. ASSUME NEW r \in AuthReq, IssueSessionTokens(r) PROVE AccountInv'
  BY <1>4, IssueKeeps
<1>5. ASSUME NEW r \in AuthReq, RevokeUserSessions(r) PROVE AccountInv'
  BY <1>5, RevokeUserKeeps
<1>6. ASSUME NEW r \in AuthReq, MarkRotated(r) \/ MarkRotatedFails(r) PROVE AccountInv'
  <2>1. Pass(r, "rotate", "issue")
    BY <1>6 DEF MarkRotated, MarkRotatedFails
  <2>2. authReq[r].user \in DOMAIN epoch
    BY <2>1 DEF Pass, AccountInv, RequestKnows
  <2>3. PICK s : SetSession(s, "rotated") \/ UNCHANGED sessions
    BY <1>6 DEF MarkRotated, MarkRotatedFails, RotatedStatus
  <2>4. UNCHANGED <<account, profile, grants, epoch>>
    BY <1>6 DEF MarkRotated, MarkRotatedFails
  <2> QED
    BY <2>1, <2>2, <2>3, <2>4, SetSessionKeeps DEF Position
<1>7. ASSUME NEW r \in AuthReq, MarkExpired(r) PROVE AccountInv'
  <2>1. PICK s : SetSession(s, "expired")
    BY <1>7 DEF MarkExpired
  <2> QED
    BY <1>7, <2>1, SetSessionKeeps DEF MarkExpired, Position, KnownUser
<1>8. ASSUME NEW r \in AuthReq, RevokeSessionToken(r) PROVE AccountInv'
  <2>1. PICK to \in {"revoke-all", "done"} : Pass(r, "revoke", to)
    BY <1>8 DEF RevokeSessionToken
  <2>2. PICK s : SetSession(s, "revoked") \/ UNCHANGED sessions
    BY <1>8 DEF RevokeSessionToken
  <2> QED
    BY <1>8, <2>1, <2>2, SetSessionKeeps DEF RevokeSessionToken, Position, KnownUser
<1>9. ASSUME NEW g \in DOMAIN grants, GrantExpires(g) PROVE AccountInv'
  <2>1. grants' \in Seq(GrantDoc)
    BY <1>9, SetGrantTyped DEF AccountInv, GrantExpires
  <2> QED
    BY <1>9, <2>1 DEF GrantExpires, AccountInv, Documents, RequestKnows, RevocationEndsSessions
<1>10. CASE UNCHANGED authVars
  BY <1>10 DEF authVars, AccountInv, Documents, RequestKnows, RevocationEndsSessions
<1> QED
  BY <1>1, <1>2, <1>3, <1>4, <1>5, <1>6, <1>7, <1>8, <1>9, <1>10, AuthSteps

\* For any number of requests, users and sessions: once a logout or a password
\* reset revoked the sessions of a user, no session of an earlier login is
\* active, unless the revocation overlapped a request of its line.
THEOREM RevocationIsFinal == AuthSpec => []RevocationEndsSessions
<1>1. AccountInv => RevocationEndsSessions
  BY DEF AccountInv
<1> QED
  BY <1>1, InitialAccount, AccountKept, PTL DEF AuthSpec
-----------------------------------------------------------------------------
(* What is to be used once *)

Spent(s) == sessions[s].status # "active" \/ s \in unmarked

LiveReset(g) == grants[g].kind = "reset" /\ grants[g].status = "live"

\* A refresh knows how many sessions there were when it read, none of which
\* was issued for its token then; once it marked its session, that is spent.
RefreshKnows(q) ==
    q.kind = "refresh" /\ q.pc # "done" =>
        /\ q.of \in DOMAIN sessions /\ q.known <= Len(sessions)
        /\ \A i \in DOMAIN sessions :
              sessions[i].parent = q.of => i > q.known \/ q.of \in unmarked
        /\ q.pc = "issue" => Spent(q.of)

\* A sign-on read its state or ticket unused, and a reset was asked for after
\* the older ones had been deleted.
GrantKnows(q) ==
    /\ q.pc \in {"use-state", "use-ticket"} =>
          q.known = 0 /\ q.of \in DOMAIN grants /\ grants[q.of].kind # "reset"
    /\ q.pc = "insert-reset" =>
          /\ q.known <= Len(grants)
          /\ \A g \in DOMAIN grants : LiveReset(g) => g > q.known

SessionsOnce ==
    \A j \in DOMAIN sessions : sessions[j].parent # 0 =>
        /\ sessions[j].parent \in DOMAIN sessions /\ Spent(sessions[j].parent)
        /\ \A i \in DOMAIN sessions :
              i < j /\ sessions[i].parent = sessions[j].parent =>
                 sessions[j].known < i \/ sessions[j].parent \in unmarked

GrantsOnce ==
    \A j \in DOMAIN grants :
        /\ ~grants[j].reused
        /\ grants[j].status = "live" => grants[j].uses = 0
        /\ grants[j].kind = "reset" => grants[j].uses <= 1
        /\ LiveReset(j) => \A i \in DOMAIN grants : i < j /\ LiveReset(i) => grants[j].known < i

OnceInv ==
    /\ SessionsOnce /\ GrantsOnce
    /\ \A r \in AuthReq : RefreshKnows(authReq[r]) /\ GrantKnows(authReq[r])

\* Sessions and grants end, and are used at most once more.
SessionsEnd ==
    /\ Len(sessions') = Len(sessions) /\ DOMAIN sessions' = DOMAIN sessions
    /\ \A s \in DOMAIN sessions :
          /\ sessions'[s].parent = sessions[s].parent
          /\ sessions'[s].known = sessions[s].known
          /\ sessions'[s].status = "active" => sessions[s].status = "active"
    /\ unmarked \subseteq unmarked'

GrantsEnd ==
    /\ Len(grants') = Len(grants) /\ DOMAIN grants' = DOMAIN grants
    /\ \A g \in DOMAIN grants :
          /\ grants'[g].kind = grants[g].kind
          /\ grants'[g].known = grants[g].known
          /\ grants'[g].status = "live" =>
                grants[g].status = "live" /\ grants'[g].uses = grants[g].uses
          /\ ~grants'[g].reused
          /\ grants[g].kind = "reset" => grants'[g].uses <= 1

LEMMA InitialOnce == AuthInit => OnceInv
<1> SUFFICES ASSUME AuthInit PROVE OnceInv
  OBVIOUS
<1>1. sessions = <<>> \/ sessions = <<NewSession(1, 0, 0, FALSE, 0)>>
  BY DEF AuthInit
<1>2. \A s \in DOMAIN sessions : sessions[s].parent = 0
  BY <1>1 DEF NewSession
<1>3. grants = <<>> \/ \E kind, session : grants = <<Grant(kind, session, 0)>>
  BY DEF AuthInit
<1>4. \A g \in DOMAIN grants : g = 1 /\ ~grants[g].reused /\ grants[g].uses = 0
  BY <1>3 DEF Grant
<1>5. \A r \in AuthReq : authReq[r] = NewAuthReq
  BY DEF AuthInit
<1>6. \A r \in AuthReq : RefreshKnows(authReq[r]) /\ GrantKnows(authReq[r])
  BY <1>5 DEF NewAuthReq, RefreshKnows, GrantKnows
<1>7. SessionsOnce
  BY <1>2 DEF SessionsOnce
<1>8. GrantsOnce
  BY <1>4 DEF GrantsOnce
<1> QED
  BY <1>6, <1>7, <1>8 DEF OnceInv

LEMMA OnceStep ==
    ASSUME AccountInv, OnceInv, SessionsEnd, GrantsEnd, NEW r \in AuthReq,
           \A d \in AuthReq : d # r => authReq'[d] = authReq[d],
           RefreshKnows(authReq[r])', GrantKnows(authReq[r])'
    PROVE  OnceInv'
<1>1. SessionsOnce'
  BY DEF OnceInv, SessionsOnce, SessionsEnd, Spent
<1>2. GrantsOnce'
  BY DEF OnceInv, GrantsOnce, GrantsEnd, LiveReset
<1>3. ASSUME NEW d \in AuthReq, d # r PROVE RefreshKnows(authReq[d])'
  <2>1. RefreshKnows(authReq[d]) /\ authReq'[d] = authReq[d]
    BY <1>3 DEF OnceInv
  <2> QED
    BY <2>1 DEF RefreshKnows, SessionsEnd, Spent
<1>4. ASSUME NEW d \in AuthReq, d # r PROVE GrantKnows(authReq[d])'
  <2>1. GrantKnows(authReq[d]) /\ authReq'[d] = authReq[d]
    BY <1>4 DEF OnceInv
  <2> QED
    BY <2>1 DEF GrantKnows, GrantsEnd, LiveReset
<1> QED
  BY <1>1, <1>2, <1>3, <1>4 DEF OnceInv

LEMMA NothingEnds ==
    /\ UNCHANGED <<sessions, unmarked>> => SessionsEnd
    /\ OnceInv /\ UNCHANGED grants => GrantsEnd
<1>1. UNCHANGED <<sessions, unmarked>> => SessionsEnd
  BY DEF SessionsEnd
<1>2. ASSUME OnceInv, UNCHANGED grants PROVE GrantsEnd
  BY <1>2 DEF OnceInv, GrantsOnce, GrantsEnd
<1> QED
  BY <1>1, <1>2

\* A request that is no refresh, and reads no grant.
Idle(q) ==
    /\ q.kind = "refresh" => q.pc = "done"
    /\ q.pc \notin {"use-state", "use-ticket", "insert-reset"}

LEMMA EnterIdles ==
    ASSUME AccountInv, NEW r \in AuthReq, NEW kind, NEW of, NEW user, NEW known, NEW pc,
           Enter(r, kind, of, user, known, pc), kind # "refresh",
           pc \notin {"use-state", "use-ticket", "insert-reset"}
    PROVE  Idle(authReq'[r]) /\ \A d \in AuthReq : d # r => authReq'[d] = authReq[d]
<1>1. authReq \in [AuthReq -> AuthRequest]
  BY DEF AccountInv, Documents
<1> QED
  BY <1>1 DEF Enter, Idle

LEMMA PassIdles ==
    ASSUME AccountInv, NEW r \in AuthReq, NEW from, NEW to, Pass(r, from, to),
           from \notin {"load-user", "rotate", "issue", "done"} \/ to = "done",
           to \notin {"use-state", "use-ticket", "insert-reset"}
    PROVE  Idle(authReq'[r]) /\ \A d \in AuthReq : d # r => authReq'[d] = authReq[d]
<1>1. authReq \in [AuthReq -> AuthRequest] /\ RequestKnows(authReq[r])
  BY DEF AccountInv, Documents
<1>2. PICK q \in AuthRequest : q = authReq[r]
  BY <1>1
<1>3. authReq'[r] = [q EXCEPT !.pc = to] /\ q.pc = from
  BY <1>1, <1>2 DEF Pass
<1>4. authReq'[r].pc = to /\ authReq'[r].kind = q.kind
  BY <1>3 DEF AuthRequest
<1>5. q.kind = "refresh" => q.pc \in {"load-user", "rotate", "issue", "done"}
  BY <1>1, <1>2 DEF RequestKnows
<1> QED
  BY <1>1, <1>3, <1>4, <1>5 DEF Pass, Idle

LEMMA IdleStep ==
    ASSUME AccountInv, OnceInv, SessionsEnd, GrantsEnd, NEW r \in AuthReq,
           \A d \in AuthReq : d # r => authReq'[d] = authReq[d], Idle(authReq'[r])
    PROVE  OnceInv'
<1>1. RefreshKnows(authReq[r])' /\ GrantKnows(authReq[r])'
  BY DEF Idle, RefreshKnows, GrantKnows
<1> QED
  BY <1>1, OnceStep

\* A grant is added; if it is a reset, those alive are not older than it knows.
LEMMA AddGrantOnce ==
    ASSUME AccountInv, OnceInv, UNCHANGED <<sessions, unmarked>>,
           NEW kind, NEW session, NEW known, grants' = Append(grants, Grant(kind, session, known)),
           kind = "reset" => \A g \in DOMAIN grants : LiveReset(g) => known < g,
           NEW r \in AuthReq, \A d \in AuthReq : d # r => authReq'[d] = authReq[d], Idle(authReq'[r])
    PROVE  OnceInv'
<1>1. /\ grants \in Seq(GrantDoc) /\ Len(grants) \in Nat /\ DOMAIN grants = 1 .. Len(grants)
      /\ authReq \in [AuthReq -> AuthRequest]
  BY DEF AccountInv, Documents
<1>2. PICK new : new = Grant(kind, session, known)
  OBVIOUS
<1>3. new.kind = kind /\ new.uses = 0 /\ ~new.reused /\ new.known = known
  BY <1>2 DEF Grant
<1>4. /\ DOMAIN grants' = 1 .. Len(grants) + 1 /\ Len(grants') = Len(grants) + 1
      /\ \A g \in DOMAIN grants : grants'[g] = grants[g]
      /\ grants'[Len(grants) + 1] = new
  BY <1>1, <1>2
<1>5. SessionsOnce'
  BY DEF OnceInv, SessionsOnce, Spent
<1>6. GrantsOnce'
  <2> SUFFICES ASSUME NEW j \in DOMAIN grants'
               PROVE  /\ ~grants'[j].reused
                      /\ grants'[j].status = "live" => grants'[j].uses = 0
                      /\ grants'[j].kind = "reset" => grants'[j].uses <= 1
                      /\ LiveReset(j)' => \A i \in DOMAIN grants' :
                                             i < j /\ LiveReset(i)' => grants'[j].known < i
    BY DEF GrantsOnce
  <2>1. CASE j \in DOMAIN grants
    <3>1. \A i \in DOMAIN grants' : i < j => i \in DOMAIN grants
      BY <1>1, <1>4, <2>1
    <3> QED
      BY <1>4, <2>1, <3>1 DEF OnceInv, GrantsOnce, LiveReset
  <2>2. CASE j = Len(grants) + 1
    <3>1. \A i \in DOMAIN grants' : i < j => i \in DOMAIN grants
      BY <1>1, <1>4, <2>2
    <3> QED
      BY <1>3, <1>4, <2>2, <3>1 DEF LiveReset
  <2> QED
    BY <1>1, <1>4, <2>1, <2>2
<1>7. RefreshKnows(authReq[r])' /\ GrantKnows(authReq[r])'
  BY DEF Idle, RefreshKnows, GrantKnows
<1>8. ASSUME NEW d \in AuthReq, d # r PROVE RefreshKnows(authReq[d])'
  BY <1>8 DEF OnceInv, RefreshKnows, Spent
<1>9. ASSUME NEW d \in AuthReq, d # r PROVE GrantKnows(authReq[d])'
  <2>1. PICK q \in AuthRequest : q = authReq[d]
    BY <1>1
  <2>2. GrantKnows(q) /\ authReq'[d] = q
    BY <1>9, <2>1 DEF OnceInv
  <2>3. q.known \in Nat
    BY DEF AuthRequest
  <2>4. q.pc = "insert-reset" =>
           /\ q.known <= Len(grants')
           /\ \A g \in DOMAIN grants' : LiveReset(g)' => g > q.known
    <3> SUFFICES ASSUME q.pc = "insert-reset"
                 PROVE  /\ q.known <= Len(grants')
                        /\ \A g \in DOMAIN grants' : LiveReset(g)' => g > q.known
      OBVIOUS
    <3>1. q.known <= Len(grants) /\ \A g \in DOMAIN grants : LiveReset(g) => g > q.known
      BY <2>2 DEF GrantKnows
    <3>2. \A g \in DOMAIN grants' : g \in DOMAIN grants \/ g > q.known
      BY <1>1, <1>4, <2>3, <3>1
    <3>3. \A g \in DOMAIN grants : LiveReset(g)' => LiveReset(g)
      BY <1>4 DEF LiveReset
    <3> QED
      BY <1>1, <1>4, <2>3, <3>1, <3>2, <3>3
  <2>5. q.pc \in {"use-state", "use-ticket"} =>
           q.known = 0 /\ q.of \in DOMAIN grants' /\ grants'[q.of].kind # "reset"
    BY <1>1, <1>4, <2>2 DEF GrantKnows
  <2> QED
    BY <2>2, <2>4, <2>5 DEF GrantKnows
<1> QED
  BY <1>5, <1>6, <1>7, <1>8, <1>9 DEF OnceInv

\* A session is marked.
LEMMA MarkEnds ==
    ASSUME Documents, NEW s, NEW status \in {"rotated", "expired", "revoked"},
           SetSession(s, status), UNCHANGED unmarked
    PROVE  SessionsEnd /\ (s \in DOMAIN sessions => sessions'[s].status # "active")
<1>1. sessions \in Seq(SessionDoc) /\ DOMAIN sessions = 1 .. Len(sessions)
  BY DEF Documents
<1>2. PICK d : d = [sessions[s] EXCEPT !.status = status]
  OBVIOUS
<1>3. sessions' = [sessions EXCEPT ![s] = d]
  BY <1>2 DEF SetSession
<1>4. \A i \in DOMAIN sessions :
         /\ sessions'[i].parent = sessions[i].parent
         /\ sessions'[i].known = sessions[i].known
         /\ sessions'[i].status = "active" => sessions[i].status = "active"
         /\ i = s => sessions'[i].status # "active"
  <2> SUFFICES ASSUME NEW i \in DOMAIN sessions
               PROVE  /\ sessions'[i].parent = sessions[i].parent
                      /\ sessions'[i].known = sessions[i].known
                      /\ sessions'[i].status = "active" => sessions[i].status = "active"
                      /\ i = s => sessions'[i].status # "active"
    OBVIOUS
  <2>1. PICK e \in SessionDoc : e = sessions[i]
    BY <1>1
  <2>2. sessions'[i] = IF i = s THEN [e EXCEPT !.status = status] ELSE e
    BY <1>2, <1>3, <2>1
  <2> QED
    BY <2>1, <2>2 DEF SessionDoc
<1>5. Len(sessions') = Len(sessions) /\ DOMAIN sessions' = DOMAIN sessions
  <2>1. s \in DOMAIN sessions => d \in SessionDoc
    <3> SUFFICES ASSUME s \in DOMAIN sessions PROVE d \in SessionDoc
      OBVIOUS
    <3>1. PICK e \in SessionDoc : e = sessions[s]
      BY <1>1
    <3> QED
      BY <1>2, <3>1 DEF SessionDoc
  <2> QED
    BY <1>1, <1>3, <2>1, Replaced
<1> QED
  BY <1>4, <1>5 DEF SessionsEnd

\* All sessions of a user are revoked.
LEMMA RevocationEnds ==
    ASSUME Documents, NEW r \in AuthReq, RevokeUserSessions(r)
    PROVE  SessionsEnd
<1>1. sessions \in Seq(SessionDoc) /\ Len(sessions) \in Nat /\ DOMAIN sessions = 1 .. Len(sessions)
  BY DEF Documents
<1>2. PICK user : user = authReq[r].user
  OBVIOUS
<1>3. \A s \in DOMAIN sessions :
         /\ sessions'[s] \in SessionDoc
         /\ sessions'[s].parent = sessions[s].parent
         /\ sessions'[s].known = sessions[s].known
         /\ sessions'[s].status = "active" => sessions[s].status = "active"
  <2> SUFFICES ASSUME NEW s \in DOMAIN sessions
               PROVE  /\ sessions'[s] \in SessionDoc
                      /\ sessions'[s].parent = sessions[s].parent
                      /\ sessions'[s].known = sessions[s].known
                      /\ sessions'[s].status = "active" => sessions[s].status = "active"
    OBVIOUS
  <2>1. PICK d \in SessionDoc : d = sessions[s]
    BY <1>1
  <2>2. sessions'[s] = IF d.user = user /\ d.status \in {"active", "rotated"}
                       THEN [d EXCEPT !.status = "revoked"] ELSE d
    BY <1>2, <2>1 DEF RevokeUserSessions
  <2> QED
    BY <2>1, <2>2 DEF SessionDoc
<1>4. Len(sessions') = Len(sessions) /\ DOMAIN sessions' = DOMAIN sessions
  <2>1. DOMAIN sessions' = DOMAIN sessions
        /\ sessions' = [s \in DOMAIN sessions |-> sessions'[s]]
    BY DEF RevokeUserSessions
  <2> QED
    BY <1>1, <1>3, <2>1
<1> QED
  BY <1>3, <1>4 DEF SessionsEnd, RevokeUserSessions

\* One grant changes, and is used at most once more.
LEMMA GrantEnds ==
    ASSUME Documents, OnceInv, NEW g, NEW new \in GrantDoc,
           grants' = [grants EXCEPT ![g] = new],
           g \in DOMAIN grants =>
              /\ new.kind = grants[g].kind /\ new.known = grants[g].known /\ ~new.reused
              /\ new.status = "live" => grants[g].status = "live" /\ new.uses = grants[g].uses
              /\ new.kind = "reset" => new.uses <= 1
    PROVE  GrantsEnd
<1>1. grants \in Seq(GrantDoc)
  BY DEF Documents
<1>2. Len(grants') = Len(grants) /\ DOMAIN grants' = DOMAIN grants
  BY <1>1, Replaced
<1>3. \A i \in DOMAIN grants : grants'[i] = IF i = g THEN new ELSE grants[i]
  BY <1>1
<1> QED
  BY <1>2, <1>3 DEF GrantsEnd, OnceInv, GrantsOnce

LEMMA MarkedGrantEnds ==
    ASSUME Documents, OnceInv, NEW g, NEW status \in {"gone", "expired"}, SetGrant(g, status)
    PROVE  GrantsEnd
<1>1. CASE g \in DOMAIN grants
  <2>1. PICK d \in GrantDoc : d = grants[g]
    BY <1>1 DEF Documents
  <2>2. PICK new \in GrantDoc : new = [d EXCEPT !.status = status]
    BY DEF GrantDoc
  <2>3. /\ new.kind = d.kind /\ new.known = d.known /\ new.reused = d.reused
        /\ new.uses = d.uses /\ new.status = status
    BY <2>2 DEF GrantDoc
  <2>4. ~d.reused /\ (d.kind = "reset" => d.uses <= 1)
    BY <1>1, <2>1 DEF OnceInv, GrantsOnce
  <2>5. grants' = [grants EXCEPT ![g] = new]
    BY <2>1, <2>2 DEF SetGrant
  <2> QED
    BY <2>1, <2>3, <2>4, <2>5, GrantEnds
<1>2. CASE g \notin DOMAIN grants
  <2>1. UNCHANGED grants
    BY <1>2 DEF SetGrant, Documents
  <2> QED
    BY <2>1, NothingEnds
<1> QED
  BY <1>1, <1>2

\* A sign-on marks the state or the ticket it has read unused.
LEMMA UseGrantOnce ==
    ASSUME AccountInv, OnceInv, NEW r \in AuthReq, NEW from \in {"use-state", "use-ticket"}, NEW to,
           UseGrant(r, from, to)
    PROVE  GrantsEnd
<1>1. /\ Documents /\ GrantKnows(authReq[r])
  BY DEF AccountInv, OnceInv
<1>2. PICK g : g = authReq[r].of
  OBVIOUS
<1>3. /\ g \in DOMAIN grants /\ grants[g].kind # "reset" /\ authReq[r].known = 0
  BY <1>1, <1>2 DEF GrantKnows, UseGrant, Pass
<1>4. PICK d \in GrantDoc : d = grants[g]
  BY <1>1, <1>3 DEF Documents
<1>5. ~d.reused
  BY <1>3, <1>4 DEF OnceInv, GrantsOnce
<1>6. PICK new : new = Used(d, 0)
  OBVIOUS
<1>7. /\ new \in GrantDoc /\ new.kind = d.kind /\ new.known = d.known /\ ~new.reused
      /\ new.status # "live"
  <2>1. /\ d.uses + 1 \in Nat /\ (d.reused \/ 0 > 0) = FALSE
        /\ (IF d.status = "gone" THEN d.status ELSE "used") \in {"used", "gone"}
    BY <1>5 DEF GrantDoc
  <2> QED
    BY <1>6, <2>1 DEF GrantDoc, Used
<1>8. grants' = [grants EXCEPT ![g] = new]
  BY <1>2, <1>3, <1>4, <1>6 DEF UseGrant
<1> QED
  BY <1>1, <1>3, <1>4, <1>7, <1>8, GrantEnds
-----------------------------------------------------------------------------
(* Refreshing a session *)

\* No session was issued for the token of an active session, unless its mark was lost.
LEMMA RefreshBeginsOnce ==
    ASSUME AccountInv, OnceInv, NEW r \in AuthReq, NEW s \in DOMAIN sessions, RefreshSessionTokens(r, s)
    PROVE  OnceInv'
<1>1. /\ sessions \in Seq(SessionDoc) /\ Len(sessions) \in Nat /\ DOMAIN sessions = 1 .. Len(sessions)
      /\ authReq \in [AuthReq -> AuthRequest]
  BY DEF AccountInv, Documents
<1>2. /\ authReq'[r].kind = "refresh" /\ authReq'[r].pc = "load-user"
      /\ authReq'[r].of = s /\ authReq'[r].known = Len(sessions)
      /\ \A d \in AuthReq : d # r => authReq'[d] = authReq[d]
      /\ UNCHANGED <<sessions, grants, unmarked>>
      /\ sessions[s].status = "active"
  BY <1>1 DEF RefreshSessionTokens, Enter, Refreshable
<1>3. s # 0 /\ \A i \in DOMAIN sessions : sessions[i].parent = s => s \in unmarked
  BY <1>1, <1>2 DEF OnceInv, SessionsOnce, Spent
<1>4. RefreshKnows(authReq[r])'
  BY <1>1, <1>2, <1>3 DEF RefreshKnows
<1>5. GrantKnows(authReq[r])'
  BY <1>2 DEF GrantKnows
<1> QED
  BY <1>2, <1>4, <1>5, NothingEnds, OnceStep

\* The refresh found its user, and marks its session; the mark may be lost.
LEMMA RefreshGoesOnOnce ==
    ASSUME AccountInv, OnceInv, NEW r \in AuthReq,
           LoadUser(r) \/ MarkRotated(r) \/ MarkRotatedFails(r)
    PROVE  OnceInv'
<1>1. authReq \in [AuthReq -> AuthRequest] /\ Documents
  BY DEF AccountInv, Documents
<1>2. PICK q \in AuthRequest : q = authReq[r]
  BY <1>1
<1>3. PICK to \in {"rotate", "issue", "done"} :
         /\ authReq' = [authReq EXCEPT ![r].pc = to]
         /\ to = "issue" => MarkRotated(r) \/ MarkRotatedFails(r)
         /\ q.pc \in {"load-user", "rotate"}
  BY <1>2 DEF LoadUser, MarkRotated, MarkRotatedFails, Pass
<1>4. /\ authReq'[r].pc = to /\ authReq'[r].kind = q.kind
      /\ authReq'[r].of = q.of /\ authReq'[r].known = q.known
      /\ \A d \in AuthReq : d # r => authReq'[d] = authReq[d]
  <2>1. authReq'[r] = [q EXCEPT !.pc = to] /\ \A d \in AuthReq : d # r => authReq'[d] = authReq[d]
    BY <1>1, <1>2, <1>3
  <2> QED
    BY <2>1 DEF AuthRequest
<1>5. /\ SessionsEnd /\ UNCHANGED grants
      /\ MarkRotated(r) \/ MarkRotatedFails(r) => (q.of \in DOMAIN sessions => Spent(q.of)')
  <2>1. CASE MarkRotated(r)
    <3>1. SetSession(q.of, "rotated") /\ UNCHANGED <<grants, unmarked>>
      BY <1>2, <2>1 DEF MarkRotated, RotatedStatus
    <3>2. SessionsEnd /\ (q.of \in DOMAIN sessions => sessions'[q.of].status # "active")
      BY <1>1, <3>1, MarkEnds
    <3> QED
      BY <3>1, <3>2 DEF Spent
  <2>2. CASE MarkRotatedFails(r)
    <3>1. /\ UNCHANGED <<sessions, grants>> /\ unmarked' = unmarked \cup {q.of}
      BY <1>2, <2>2 DEF MarkRotatedFails
    <3> QED
      BY <3>1 DEF SessionsEnd, Spent
  <2>3. CASE LoadUser(r)
    <3>1. UNCHANGED <<sessions, grants, unmarked>> /\ ~MarkRotated(r) /\ ~MarkRotatedFails(r)
      BY <2>3 DEF LoadUser, MarkRotated, MarkRotatedFails, Pass
    <3> QED
      BY <3>1, NothingEnds
  <2> QED
    BY <2>1, <2>2, <2>3
<1>6. RefreshKnows(authReq[r])'
  <2>1. RefreshKnows(q)
    BY <1>2 DEF OnceInv
  <2>2. q.pc # "done"
    BY <1>3
  <2> QED
    BY <1>3, <1>4, <1>5, <2>1, <2>2 DEF RefreshKnows, SessionsEnd
<1>7. GrantKnows(authReq[r])'
  BY <1>4 DEF GrantKnows
<1> QED
  BY <1>4, <1>5, <1>6, <1>7, NothingEnds, OnceStep

\* The next session is issued: no other has the same parent, or the refresh
\* had read before that one was issued, or the mark was lost.
LEMMA IssueOnce ==
    ASSUME AccountInv, OnceInv, NEW r \in AuthReq, IssueSessionTokens(r)
    PROVE  OnceInv'
<1>1. /\ Documents /\ sessions \in Seq(SessionDoc) /\ DOMAIN sessions = 1 .. Len(sessions)
      /\ Len(sessions) \in Nat /\ authReq \in [AuthReq -> AuthRequest]
  BY DEF AccountInv, Documents
<1>2. PICK q \in AuthRequest : q = authReq[r]
  BY <1>1
<1>3. q.pc = "issue" /\ RefreshKnows(q) /\ q.known \in Nat
  BY <1>2 DEF IssueSessionTokens, OnceInv, AuthRequest
<1>4. PICK parent, since, late :
         /\ sessions' = Append(sessions, NewSession(q.user, parent, since, late, q.known))
         /\ parent # 0 => q.kind = "refresh" /\ parent = q.of
  BY <1>2 DEF IssueSessionTokens
<1>5. PICK new : new = NewSession(q.user, parent, since, late, q.known)
  OBVIOUS
<1>6. new.parent = parent /\ new.known = q.known
  BY <1>5 DEF NewSession
<1>7. /\ DOMAIN sessions' = 1 .. Len(sessions) + 1 /\ Len(sessions') = Len(sessions) + 1
      /\ \A s \in DOMAIN sessions : sessions'[s] = sessions[s]
      /\ sessions'[Len(sessions) + 1] = new
      /\ UNCHANGED <<grants, unmarked>>
  BY <1>1, <1>4, <1>5 DEF IssueSessionTokens
<1>8. \A s \in DOMAIN sessions : Spent(s)' <=> Spent(s)
  BY <1>7 DEF Spent
<1>9. parent # 0 =>
         /\ parent \in DOMAIN sessions /\ Spent(parent)
         /\ \A i \in DOMAIN sessions :
               sessions[i].parent = parent => q.known < i \/ parent \in unmarked
  BY <1>1, <1>3, <1>4 DEF RefreshKnows
<1>10. SessionsOnce'
  <2> SUFFICES ASSUME NEW j \in DOMAIN sessions', sessions'[j].parent # 0
               PROVE  /\ sessions'[j].parent \in DOMAIN sessions' /\ Spent(sessions[j].parent)'
                      /\ \A i \in DOMAIN sessions' :
                            i < j /\ sessions'[i].parent = sessions'[j].parent =>
                               sessions'[j].known < i \/ sessions'[j].parent \in unmarked'
    BY DEF SessionsOnce
  <2>1. \A i \in DOMAIN sessions' : i < j => i \in DOMAIN sessions
    BY <1>1, <1>7
  <2>2. \A i \in DOMAIN sessions : i \in DOMAIN sessions'
    BY <1>1, <1>7
  <2>3. CASE j \in DOMAIN sessions
    <3>1. /\ sessions'[j].parent = sessions[j].parent /\ sessions'[j].known = sessions[j].known
          /\ sessions[j].parent \in DOMAIN sessions /\ Spent(sessions[j].parent)
          /\ \A i \in DOMAIN sessions :
                i < j /\ sessions[i].parent = sessions[j].parent =>
                   sessions[j].known < i \/ sessions[j].parent \in unmarked
      BY <1>7, <2>3 DEF OnceInv, SessionsOnce
    <3>2. Spent(sessions[j].parent)'
      BY <1>7, <3>1 DEF Spent
    <3> QED
      BY <1>7, <2>1, <2>2, <3>1, <3>2
  <2>4. CASE j = Len(sessions) + 1
    <3>1. sessions'[j].parent = parent /\ sessions'[j].known = q.known /\ parent # 0
      BY <1>6, <1>7, <2>4
    <3>2. Spent(sessions[j].parent)'
      BY <1>7, <1>9, <3>1 DEF Spent
    <3> QED
      BY <1>7, <1>9, <2>1, <2>2, <3>1, <3>2
  <2> QED
    BY <1>1, <1>7, <2>3, <2>4
<1>11. Idle(authReq'[r]) /\ \A d \in AuthReq : d # r => authReq'[d] = authReq[d]
  <2>1. PICK pc \in {"ticket", "done"} :
           /\ authReq' = [authReq EXCEPT ![r].pc = pc, ![r].of = Len(sessions) + 1]
           /\ q.kind = "refresh" => pc = "done"
    BY <1>2 DEF IssueSessionTokens
  <2>2. authReq'[r].pc = pc /\ authReq'[r].kind = q.kind
    BY <1>1, <1>2, <2>1 DEF AuthRequest
  <2> QED
    BY <1>1, <2>1, <2>2 DEF Idle
<1>12. ASSUME NEW d \in AuthReq, d # r PROVE RefreshKnows(authReq[d])'
  <2>1. PICK p \in AuthRequest : p = authReq[d]
    BY <1>1
  <2>2. p.known \in Nat /\ RefreshKnows(p) /\ authReq'[d] = p
    BY <1>11, <1>12, <2>1 DEF AuthRequest, OnceInv
  <2>3. ASSUME p.kind = "refresh", p.pc # "done"
        PROVE  /\ p.of \in DOMAIN sessions' /\ p.known <= Len(sessions')
               /\ \A i \in DOMAIN sessions' :
                     sessions'[i].parent = p.of => i > p.known \/ p.of \in unmarked'
               /\ p.pc = "issue" => Spent(p.of)'
    <3>1. /\ p.of \in DOMAIN sessions /\ p.known <= Len(sessions)
          /\ \A i \in DOMAIN sessions :
                sessions[i].parent = p.of => i > p.known \/ p.of \in unmarked
          /\ p.pc = "issue" => Spent(p.of)
      BY <2>2, <2>3 DEF RefreshKnows
    <3>2. Spent(p.of)' <=> Spent(p.of)
      BY <1>7, <3>1 DEF Spent
    <3>3. \A i \in DOMAIN sessions' : i \in DOMAIN sessions \/ i > p.known
      BY <1>1, <1>7, <2>2, <3>1
    <3> QED
      BY <1>1, <1>7, <2>2, <3>1, <3>2, <3>3
  <2> QED
    BY <2>2, <2>3 DEF RefreshKnows
<1>13. \A d \in AuthReq : RefreshKnows(authReq[d])'
  BY <1>11, <1>12 DEF Idle, RefreshKnows
<1>14. \A d \in AuthReq : GrantKnows(authReq[d])'
  BY <1>7, <1>11 DEF OnceInv, Idle, GrantKnows, LiveReset
<1>15. GrantsOnce'
  BY <1>7 DEF OnceInv, GrantsOnce, LiveReset
<1> QED
  BY <1>10, <1>13, <1>14, <1>15 DEF OnceInv
-----------------------------------------------------------------------------
(* Every step, again *)

LEMMA BeginsOnce ==
    ASSUME AccountInv, OnceInv, NEW r \in AuthReq, AuthBegins(r)
    PROVE  OnceInv'
<1>1. /\ Documents /\ grants \in Seq(GrantDoc)
      /\ authReq \in [AuthReq -> AuthRequest]
  BY DEF AccountInv, Documents
<1>2. ASSUME NEW s \in DOMAIN sessions, RefreshSessionTokens(r, s) PROVE OnceInv'
  BY <1>2, RefreshBeginsOnce
<1>3. ASSUME \/ Signup(r) \/ Login(r) \/ RequestPasswordReset(r)
             \/ \E s \in DOMAIN sessions : RefreshExpired(r, s)
             \/ \E s, u : Logout(r, s, u)
             \/ \E u \in profile : DeleteProfile(r, u)
      PROVE  OnceInv'
  <2>1. PICK kind, of, user, known, pc : Enter(r, kind, of, user, known, pc) /\ kind # "refresh"
           /\ pc \notin {"use-state", "use-ticket", "insert-reset"}
    BY <1>3 DEF Signup, Login, RequestPasswordReset, RefreshExpired, Logout, DeleteProfile
  <2>2. UNCHANGED <<sessions, unmarked, grants>>
    BY <1>3 DEF Signup, Login, RequestPasswordReset, RefreshExpired, Logout, DeleteProfile
  <2>3. Idle(authReq'[r]) /\ \A d \in AuthReq : d # r => authReq'[d] = authReq[d]
    BY <2>1, EnterIdles
  <2> QED
    BY <2>2, <2>3, NothingEnds, IdleStep
<1>4. ASSUME NEW g \in DOMAIN grants, ConfirmPasswordReset(r, g) PROVE OnceInv'
  <2>1. PICK d \in GrantDoc : d = grants[g]
    BY <1>1
  <2>2. d.kind = "reset" /\ d.status = "live" /\ d.uses = 0 /\ ~d.reused
    BY <1>4, <2>1 DEF ConfirmPasswordReset, OnceInv, GrantsOnce
  <2>3. PICK d1 \in GrantDoc : d1 = [d EXCEPT !.status = "gone"]
    BY DEF GrantDoc
  <2>4. PICK d2 \in GrantDoc : d2 = [d1 EXCEPT !.uses = d.uses + 1]
    <3>1. d.uses + 1 \in Nat
      BY <2>2
    <3> QED
      BY <3>1 DEF GrantDoc
  <2>5. /\ d2.kind = d.kind /\ d2.known = d.known /\ d2.reused = d.reused
        /\ d2.status = "gone" /\ d2.uses = 1
    BY <2>2, <2>3, <2>4 DEF GrantDoc
  <2>6. grants' = [grants EXCEPT ![g] = d2]
    BY <1>4, <2>1, <2>3, <2>4 DEF ConfirmPasswordReset
  <2>7. GrantsEnd
    <3>1. /\ d2.kind = grants[g].kind /\ d2.known = grants[g].known /\ ~d2.reused
          /\ d2.status # "live" /\ d2.uses <= 1
      BY <2>1, <2>2, <2>5
    <3> QED
      BY <1>1, <2>6, <3>1, GrantEnds
  <2>8. Enter(r, "confirm", g, 0, 0, "find-user") /\ UNCHANGED <<sessions, unmarked>>
    BY <1>4 DEF ConfirmPasswordReset
  <2>9. Idle(authReq'[r]) /\ \A d3 \in AuthReq : d3 # r => authReq'[d3] = authReq[d3]
    BY <2>8, EnterIdles
  <2> QED
    BY <2>7, <2>8, <2>9, NothingEnds, IdleStep
<1>5. ASSUME NEW g \in DOMAIN grants, CompleteSSO(r, g) \/ ExchangeSSOTicket(r, g) PROVE OnceInv'
  <2>1. PICK kind \in {"state", "ticket"}, request \in {"sso", "exchange"},
             pc \in {"use-state", "use-ticket"} : ReadGrant(r, g, request, kind, pc)
    BY <1>5 DEF CompleteSSO, ExchangeSSOTicket
  <2>2. grants[g].kind # "reset" /\ grants[g].uses = 0
    BY <2>1 DEF ReadGrant, OnceInv, GrantsOnce
  <2>3. /\ authReq'[r].kind = request /\ authReq'[r].pc = pc /\ authReq'[r].of = g
        /\ authReq'[r].known = 0
        /\ \A d \in AuthReq : d # r => authReq'[d] = authReq[d]
        /\ UNCHANGED <<sessions, unmarked, grants>>
    BY <1>1, <2>1, <2>2 DEF ReadGrant, Enter
  <2>4. RefreshKnows(authReq[r])' /\ GrantKnows(authReq[r])'
    BY <2>2, <2>3 DEF RefreshKnows, GrantKnows
  <2> QED
    BY <2>3, <2>4, NothingEnds, OnceStep
<1>6. ASSUME StartSSO(r) PROVE OnceInv'
  <2>1. /\ Enter(r, "start", 0, 0, 0, "done") /\ UNCHANGED <<sessions, unmarked>>
        /\ grants' = Append(grants, Grant("state", 0, Len(grants)))
    BY <1>6 DEF StartSSO
  <2>2. Idle(authReq'[r]) /\ \A d \in AuthReq : d # r => authReq'[d] = authReq[d]
    BY <2>1, EnterIdles
  <2> QED
    BY <2>1, <2>2, AddGrantOnce
<1> QED
  BY <1>2, <1>3, <1>4, <1>5, <1>6 DEF AuthBegins

\* A reset is asked for: the live ones are deleted, then the new one is inserted.
LEMMA ResetsOnce ==
    ASSUME AccountInv, OnceInv, NEW r \in AuthReq, ClearResets(r) \/ InsertReset(r)
    PROVE  OnceInv'
<1>1. /\ Documents /\ grants \in Seq(GrantDoc) /\ Len(grants) \in Nat
      /\ DOMAIN grants = 1 .. Len(grants) /\ authReq \in [AuthReq -> AuthRequest]
  BY DEF AccountInv, Documents
<1>2. PICK q \in AuthRequest : q = authReq[r]
  BY <1>1
<1>3. q.pc \in {"clear-resets", "insert-reset"} /\ q.kind # "refresh"
  BY <1>2 DEF ClearResets, InsertReset, AccountInv, RequestKnows
<1>4. ASSUME ClearResets(r) PROVE OnceInv'
  <2>1. /\ authReq' = [authReq EXCEPT ![r].pc = "insert-reset", ![r].known = Len(grants)]
        /\ UNCHANGED <<sessions, unmarked>>
    BY <1>4 DEF ClearResets
  <2>2. /\ authReq'[r].pc = "insert-reset" /\ authReq'[r].known = Len(grants)
        /\ authReq'[r].kind = q.kind
        /\ \A d \in AuthReq : d # r => authReq'[d] = authReq[d]
    BY <1>1, <1>2, <2>1 DEF AuthRequest
  <2>3. \A g \in DOMAIN grants :
           /\ grants'[g] \in GrantDoc
           /\ grants'[g].kind = grants[g].kind /\ grants'[g].known = grants[g].known
           /\ grants'[g].uses = grants[g].uses /\ grants'[g].reused = grants[g].reused
           /\ grants'[g].status = "live" => grants[g].status = "live" /\ grants[g].kind # "reset"
    <3> SUFFICES ASSUME NEW g \in DOMAIN grants
                 PROVE  /\ grants'[g] \in GrantDoc
                        /\ grants'[g].kind = grants[g].kind /\ grants'[g].known = grants[g].known
                        /\ grants'[g].uses = grants[g].uses /\ grants'[g].reused = grants[g].reused
                        /\ grants'[g].status = "live" =>
                              grants[g].status = "live" /\ grants[g].kind # "reset"
      OBVIOUS
    <3>1. PICK d \in GrantDoc : d = grants[g]
      BY <1>1
    <3>2. grants'[g] = IF d.kind = "reset" /\ d.status = "live"
                       THEN [d EXCEPT !.status = "gone"] ELSE d
      BY <1>4, <3>1 DEF ClearResets
    <3> QED
      BY <3>1, <3>2 DEF GrantDoc
  <2>4. DOMAIN grants' = DOMAIN grants /\ Len(grants') = Len(grants)
    <3>1. DOMAIN grants' = DOMAIN grants /\ grants' = [g \in DOMAIN grants |-> grants'[g]]
      BY <1>4 DEF ClearResets
    <3> QED
      BY <1>1, <2>3, <3>1
  <2>5. GrantsEnd
    BY <2>3, <2>4 DEF GrantsEnd, OnceInv, GrantsOnce
  <2>6. GrantKnows(authReq[r])'
    BY <1>1, <2>2, <2>3, <2>4 DEF GrantKnows, LiveReset
  <2>7. RefreshKnows(authReq[r])'
    BY <1>3, <2>2 DEF RefreshKnows
  <2> QED
    BY <2>1, <2>2, <2>5, <2>6, <2>7, NothingEnds, OnceStep
<1>5. ASSUME InsertReset(r) PROVE OnceInv'
  <2>1. /\ authReq' = [authReq EXCEPT ![r].pc = "deliver", ![r].of = Len(grants) + 1]
        /\ grants' = Append(grants, Grant("reset", 0, q.known))
        /\ UNCHANGED <<sessions, unmarked>> /\ q.pc = "insert-reset"
    BY <1>2, <1>5 DEF InsertReset
  <2>2. /\ authReq'[r].pc = "deliver" /\ authReq'[r].kind = q.kind
        /\ \A d \in AuthReq : d # r => authReq'[d] = authReq[d]
    BY <1>1, <1>2, <2>1 DEF AuthRequest
  <2>3. \A g \in DOMAIN grants : LiveReset(g) => q.known < g
    BY <1>1, <1>2, <2>1 DEF OnceInv, GrantKnows, AuthRequest
  <2>4. Idle(authReq'[r])
    BY <1>3, <2>2 DEF Idle
  <2> QED
    BY <2>1, <2>2, <2>3, <2>4, AddGrantOnce
<1> QED
  BY <1>4, <1>5

LEMMA GoesOnOnce ==
    ASSUME AccountInv, OnceInv, NEW r \in AuthReq, AuthGoesOn(r)
    PROVE  OnceInv'
<1>1. /\ Documents /\ grants \in Seq(GrantDoc) /\ authReq \in [AuthReq -> AuthRequest]
      /\ RequestKnows(authReq[r])
  BY DEF AccountInv, Documents
<1>2. PICK q \in AuthRequest : q = authReq[r]
  BY <1>1
<1>3. CASE LoadUser(r)
  BY <1>3, RefreshGoesOnOnce
<1>4. CASE ClearResets(r) \/ InsertReset(r)
  BY <1>4, ResetsOnce
<1>5. CASE CreateSSOTicket(r)
  <2>1. /\ Pass(r, "ticket", "done") /\ UNCHANGED <<sessions, unmarked>>
        /\ grants' = Append(grants, Grant("ticket", authReq[r].of, Len(grants)))
    BY <1>5 DEF CreateSSOTicket
  <2>2. Idle(authReq'[r]) /\ \A d \in AuthReq : d # r => authReq'[d] = authReq[d]
    BY <2>1, PassIdles
  <2> QED
    BY <2>1, <2>2, AddGrantOnce
<1>6. CASE FindUser(r) \/ MapIdentity(r)
  <2>1. q.pc \in {"find-user", "map"} /\ q.kind # "refresh"
        /\ UNCHANGED <<sessions, unmarked, grants>>
    BY <1>1, <1>2, <1>6 DEF FindUser, MapIdentity, RequestKnows
  <2>2. /\ authReq'[r].pc \in {"password", "done", "profile", "insert-user"}
        /\ authReq'[r].kind = q.kind
        /\ \A d \in AuthReq : d # r => authReq'[d] = authReq[d]
    BY <1>1, <1>2, <1>6 DEF FindUser, MapIdentity, AuthRequest
  <2>3. Idle(authReq'[r])
    BY <2>1, <2>2 DEF Idle
  <2> QED
    BY <2>1, <2>2, <2>3, NothingEnds, IdleStep
<1>7. ASSUME GrantsEnd, UNCHANGED <<sessions, unmarked>>, NEW from, NEW to, Pass(r, from, to),
             from \notin {"load-user", "rotate", "issue", "done"} \/ to = "done",
             to \notin {"use-state", "use-ticket", "insert-reset"}
      PROVE  OnceInv'
  <2>1. Idle(authReq'[r]) /\ \A d \in AuthReq : d # r => authReq'[d] = authReq[d]
    BY <1>7, PassIdles
  <2> QED
    BY <1>7, <2>1, NothingEnds, IdleStep
<1>8. CASE EnsureProfile(r) \/ ResetPassword(r) \/ DeleteUser(r) \/ DeleteProfileDocument(r)
  <2>1. PICK from \in {"profile", "password", "delete-user", "delete-profile"},
             to \in {"issue", "revoke-all", "delete-profile", "done"} : Pass(r, from, to)
    BY <1>8 DEF EnsureProfile, ResetPassword, DeleteUser, DeleteProfileDocument
  <2>2. UNCHANGED <<sessions, unmarked, grants>>
    BY <1>8 DEF EnsureProfile, ResetPassword, DeleteUser, DeleteProfileDocument
  <2> QED
    BY <1>7, <2>1, <2>2, NothingEnds
<1>9. CASE DeliverReset(r) \/ DeleteTicket(r)
  <2>1. PICK from \in {"deliver", "delete-ticket"} : Pass(r, from, "done")
    BY <1>9 DEF DeliverReset, DeleteTicket
  <2>2. UNCHANGED <<sessions, unmarked>> /\ (UNCHANGED grants \/ SetGrant(authReq[r].of, "gone"))
    BY <1>9 DEF DeliverReset, DeleteTicket
  <2>3. GrantsEnd
    BY <1>1, <2>2, NothingEnds, MarkedGrantEnds
  <2> QED
    BY <1>7, <2>1, <2>2, <2>3
<1>10. CASE UseState(r) \/ UseTicket(r)
  <2>1. PICK from \in {"use-state", "use-ticket"}, to \in {"exchange", "delete-ticket"} :
           UseGrant(r, from, to)
    BY <1>10 DEF UseState, UseTicket
  <2>2. GrantsEnd
    BY <2>1, UseGrantOnce
  <2> QED
    BY <1>7, <2>1, <2>2 DEF UseGrant
<1>11. CASE ExchangeCode(r)
  <2>1. PICK g : g = authReq[r].of
    OBVIOUS
  <2>2. Pass(r, "exchange", "map") /\ UNCHANGED <<sessions, unmarked>>
        /\ grants' = [grants EXCEPT ![g] = [grants[g] EXCEPT !.session = -1]]
    BY <1>11, <2>1 DEF ExchangeCode
  <2>3. GrantsEnd
    <3>1. CASE g \in DOMAIN grants
      <4>1. PICK d \in GrantDoc : d = grants[g]
        BY <1>1, <3>1
      <4>2. PICK new \in GrantDoc : new = [d EXCEPT !.session = -1]
        <5>1. [d EXCEPT !.session = -1] \in GrantDoc
          BY DEF GrantDoc
        <5> QED
          BY <5>1
      <4>3. /\ new.kind = d.kind /\ new.known = d.known /\ new.reused = d.reused
            /\ new.uses = d.uses /\ new.status = d.status
        BY <4>2 DEF GrantDoc
      <4>4. ~d.reused /\ (d.kind = "reset" => d.uses <= 1)
        BY <3>1, <4>1 DEF OnceInv, GrantsOnce
      <4>5. grants' = [grants EXCEPT ![g] = new]
        BY <2>2, <4>1, <4>2
      <4> QED
        BY <1>1, <4>1, <4>3, <4>4, <4>5, GrantEnds
    <3>2. CASE g \notin DOMAIN grants
      <4>1. UNCHANGED grants
        BY <1>1, <2>2, <3>2
      <4> QED
        BY <4>1, NothingEnds
    <3> QED
      BY <3>1, <3>2
  <2> QED
    BY <1>7, <2>2, <2>3
<1>12. CASE AuthReqFails(r)
  <2>1. PICK from : from = authReq[r].pc
    OBVIOUS
  <2>2. Pass(r, from, "done") /\ UNCHANGED <<sessions, unmarked, grants>>
    BY <1>12, <2>1 DEF AuthReqFails, Pass
  <2> QED
    BY <1>7, <2>2, NothingEnds
<1> QED
  BY <1>3, <1>4, <1>5, <1>6, <1>8, <1>9, <1>10, <1>11, <1>12 DEF AuthGoesOn

LEMMA OnceKept == AccountInv /\ OnceInv /\ [AuthNext]_authVars => OnceInv'
<1> SUFFICES ASSUME AccountInv, OnceInv, [AuthNext]_authVars PROVE OnceInv'
  OBVIOUS
<1>1. /\ Documents /\ authReq \in [AuthReq -> AuthRequest]
  BY DEF AccountInv, Documents
<1>2. ASSUME NEW r \in AuthReq, AuthBegins(r) PROVE OnceInv'
  BY <1>2, BeginsOnce
<1>3. ASSUME NEW r \in AuthReq, AuthGoesOn(r) PROVE OnceInv'
  BY <1>3, GoesOnOnce
<1>4. ASSUME NEW r \in AuthReq, InsertUser(r) PROVE OnceInv'
  <2>1. PICK q \in AuthRequest : q = authReq[r]
    BY <1>1
  <2>2. q.kind # "refresh" /\ UNCHANGED <<sessions, unmarked, grants>>
    BY <1>4, <2>1 DEF InsertUser, AccountInv, RequestKnows
  <2>3. authReq'[r].pc \in {"done", "profile"} /\ authReq'[r].kind = q.kind
    BY <1>1, <1>4, <2>1 DEF InsertUser, AuthRequest
  <2>4. Idle(authReq'[r])
    BY <2>2, <2>3 DEF Idle
  <2>5. \A d \in AuthReq : d # r => authReq'[d] = authReq[d]
    BY <1>1, <1>4 DEF InsertUser
  <2> QED
    BY <2>2, <2>4, <2>5, NothingEnds, IdleStep
<1>5. ASSUME NEW r \in AuthReq, IssueSessionTokens(r) PROVE OnceInv'
  BY <1>5, IssueOnce
<1>6. ASSUME NEW r \in AuthReq, MarkRotated(r) \/ MarkRotatedFails(r) PROVE OnceInv'
  BY <1>6, RefreshGoesOnOnce
<1>7. ASSUME NEW r \in AuthReq, MarkExpired(r) \/ RevokeSessionToken(r) \/ RevokeUserSessions(r)
      PROVE  OnceInv'
  <2>1. PICK from \in {"expire", "revoke", "revoke-all"}, to \in {"done", "revoke-all"} :
           Pass(r, from, to)
    BY <1>7 DEF MarkExpired, RevokeSessionToken, RevokeUserSessions
  <2>2. Idle(authReq'[r]) /\ \A d \in AuthReq : d # r => authReq'[d] = authReq[d]
    BY <2>1, PassIdles
  <2>3. PICK s : s = authReq[r].of
    OBVIOUS
  <2>4. SessionsEnd
    <3>1. ASSUME RevokeUserSessions(r) PROVE SessionsEnd
      BY <1>1, <3>1, RevocationEnds
    <3>2. ASSUME MarkExpired(r) \/ RevokeSessionToken(r) PROVE SessionsEnd
      <4>1. /\ \/ SetSession(s, "expired") \/ SetSession(s, "revoked")
               \/ UNCHANGED sessions
            /\ UNCHANGED unmarked
        BY <2>3, <3>2 DEF MarkExpired, RevokeSessionToken
      <4> QED
        BY <1>1, <4>1, MarkEnds, NothingEnds
    <3> QED
      BY <1>7, <3>1, <3>2
  <2>5. UNCHANGED grants
    BY <1>7 DEF MarkExpired, RevokeSessionToken, RevokeUserSessions
  <2> QED
    BY <2>2, <2>4, <2>5, NothingEnds, IdleStep
<1>8. ASSUME NEW g \in DOMAIN grants, GrantExpires(g) PROVE OnceInv'
  <2>1. GrantsEnd /\ UNCHANGED <<sessions, unmarked, authReq>>
    BY <1>1, <1>8, MarkedGrantEnds DEF GrantExpires
  <2>2. SessionsOnce'
    BY <2>1 DEF OnceInv, SessionsOnce, Spent
  <2>3. GrantsOnce'
    BY <2>1 DEF OnceInv, GrantsOnce, GrantsEnd, LiveReset
  <2>4. \A r \in AuthReq : RefreshKnows(authReq[r])'
    BY <2>1 DEF OnceInv, RefreshKnows, Spent
  <2>5. \A r \in AuthReq : GrantKnows(authReq[r])'
    BY <2>1 DEF OnceInv, GrantKnows, GrantsEnd, LiveReset
  <2> QED
    BY <2>2, <2>3, <2>4, <2>5 DEF OnceInv
<1>9. CASE UNCHANGED authVars
  BY <1>9 DEF authVars, OnceInv, SessionsOnce, GrantsOnce, RefreshKnows, GrantKnows, Spent, LiveReset
<1> QED
  BY <1>2, <1>3, <1>4, <1>5, <1>6, <1>7, <1>8, <1>9, AuthSteps

\* For any number of requests, users and sessions: what is to be used once is.
\* Two sessions follow from one refresh token only if the second request had
\* read it before the first issued its session, or the mark was lost; a reset
\* token sets one password; two resets are alive only if their requests
\* overlapped; and no sign-on that read a state or a ticket after another had
\* used it uses it again.
THEOREM GrantsAreUsedOnce == AuthSpec => []UsedOnce
<1>1. AccountInv /\ OnceInv => UsedOnce
  <2> SUFFICES ASSUME AccountInv, OnceInv PROVE UsedOnce
    OBVIOUS
  <2>1. \A i, j \in DOMAIN sessions :
           i < j /\ sessions[i].parent = sessions[j].parent /\ sessions[j].parent # 0 =>
              sessions[j].known < i \/ sessions[j].parent \in unmarked
    BY DEF OnceInv, SessionsOnce
  <2>2. \A g \in DOMAIN grants :
           ~grants[g].reused /\ (grants[g].kind = "reset" => grants[g].uses <= 1)
    BY DEF OnceInv, GrantsOnce
  <2>3. \A i, j \in DOMAIN grants :
           i < j /\ LiveReset(i) /\ LiveReset(j) => grants[j].known < i
    BY DEF OnceInv, GrantsOnce
  <2> QED
    BY <2>1, <2>2, <2>3 DEF UsedOnce, LiveReset
<1>2. AuthSpec => [](AccountInv /\ OnceInv)
  BY InitialAccount, AccountKept, InitialOnce, OnceKept, PTL DEF AuthSpec
<1> QED
  BY <1>1, <1>2, PTL
-----------------------------------------------------------------------------
(* Types: the parent of a session is older, and since no later than its user's epoch *)

Lined(q) ==
    /\ q.pc \in {"load-user", "rotate"} => q.kind = "refresh"
    /\ q.pc = "ticket" => q.of <= Len(sessions)

SessionLines ==
    \A s \in DOMAIN sessions : /\ sessions[s].parent \in 0 .. s - 1
                               /\ sessions[s].since \in 0 .. epoch[sessions[s].user]

GrantLines == \A g \in DOMAIN grants : grants[g].session \in -1 .. Len(sessions)

LineInv ==
    /\ SessionLines /\ GrantLines /\ unmarked \subseteq DOMAIN sessions
    /\ \A r \in AuthReq : Lined(authReq[r])

LEMMA InitialLines == AuthInit => LineInv
<1> SUFFICES ASSUME AuthInit PROVE LineInv
  OBVIOUS
<1>1. \A r \in AuthReq : Lined(authReq[r])
  BY DEF AuthInit, NewAuthReq, Lined
<1>2. CASE sessions = <<>> /\ grants = <<>>
  BY <1>1, <1>2 DEF LineInv, SessionLines, GrantLines, AuthInit
<1>3. CASE /\ epoch = <<0>> /\ sessions = <<NewSession(1, 0, 0, FALSE, 0)>>
           /\ \/ grants = <<>>
              \/ \E kind \in {"reset", "state", "ticket"} :
                    grants = <<Grant(kind, IF kind = "ticket" THEN 1 ELSE 0, 0)>>
  <2>1. /\ DOMAIN sessions = {1} /\ Len(sessions) = 1
        /\ sessions[1].parent = 0 /\ sessions[1].since = 0 /\ sessions[1].user = 1
    BY <1>3 DEF NewSession
  <2>2. SessionLines
    <3>1. epoch[1] = 0 /\ 0 \in 0 .. 0
      BY <1>3
    <3>2. \A s \in DOMAIN sessions :
             s = 1 /\ sessions[s].parent \in 0 .. 0 /\ sessions[s].since \in 0 .. epoch[sessions[s].user]
      BY <2>1, <3>1
    <3> QED
      BY <3>2 DEF SessionLines
  <2>3. GrantLines
    BY <1>3, <2>1 DEF GrantLines, Grant
  <2> QED
    BY <1>1, <2>1, <2>2, <2>3 DEF LineInv, AuthInit
<1> QED
  BY <1>2, <1>3 DEF AuthInit

\* No session is added, and what a session descends from does not change.
SessionsStay ==
    /\ Len(sessions') = Len(sessions) /\ DOMAIN sessions' = DOMAIN sessions
    /\ \A s \in DOMAIN sessions : /\ sessions'[s].parent = sessions[s].parent
                                  /\ sessions'[s].user = sessions[s].user
                                  /\ sessions'[s].since = sessions[s].since

EpochsGrow == \A u \in DOMAIN epoch : u \in DOMAIN epoch' /\ epoch[u] <= epoch'[u]

LEMMA LineStep ==
    ASSUME AccountInv, AccountInv', LineInv, SessionsStay, EpochsGrow, GrantLines',
           unmarked' \subseteq DOMAIN sessions,
           \A d \in AuthReq : authReq'[d] = authReq[d] \/ Lined(authReq'[d])
    PROVE  LineInv'
<1>1. /\ epoch \in Seq(Nat) /\ epoch' \in Seq(Nat)
      /\ \A s \in DOMAIN sessions : sessions[s].user \in DOMAIN epoch
  BY DEF AccountInv, Documents
<1>2. SessionLines'
  <2> SUFFICES ASSUME NEW s \in DOMAIN sessions
               PROVE  /\ sessions'[s].parent \in 0 .. s - 1
                      /\ sessions'[s].since \in 0 .. epoch'[sessions'[s].user]
    BY DEF SessionLines, SessionsStay
  <2>1. PICK u \in DOMAIN epoch : u = sessions[s].user
    BY <1>1
  <2>2. epoch[u] \in Nat /\ epoch'[u] \in Nat /\ epoch[u] <= epoch'[u]
    BY <1>1 DEF EpochsGrow
  <2>3. sessions[s].parent \in 0 .. s - 1 /\ sessions[s].since \in 0 .. epoch[u]
    BY <2>1 DEF LineInv, SessionLines
  <2> QED
    BY <2>1, <2>2, <2>3 DEF SessionsStay
<1>3. \A r \in AuthReq : Lined(authReq[r])'
  BY DEF LineInv, Lined, SessionsStay
<1> QED
  BY <1>2, <1>3 DEF LineInv, SessionsStay

LEMMA NothingMoves ==
    /\ UNCHANGED sessions => SessionsStay
    /\ AccountInv /\ UNCHANGED epoch => EpochsGrow
    /\ LineInv /\ UNCHANGED <<sessions, grants>> => GrantLines'
<1>1. UNCHANGED sessions => SessionsStay
  BY DEF SessionsStay
<1>2. ASSUME AccountInv, UNCHANGED epoch PROVE EpochsGrow
  BY <1>2 DEF AccountInv, Documents, EpochsGrow
<1>3. ASSUME LineInv, UNCHANGED <<sessions, grants>> PROVE GrantLines'
  BY <1>3 DEF LineInv, GrantLines
<1> QED
  BY <1>1, <1>2, <1>3

\* A request enters, or passes to a position without a claim of its own.
LEMMA EnterLined ==
    ASSUME AccountInv, NEW r \in AuthReq, NEW kind, NEW of, NEW user, NEW known, NEW pc,
           Enter(r, kind, of, user, known, pc),
           pc \notin {"load-user", "rotate", "ticket"} \/ (kind = "refresh" /\ pc = "load-user")
    PROVE  \A d \in AuthReq : authReq'[d] = authReq[d] \/ Lined(authReq'[d])
<1>1. authReq \in [AuthReq -> AuthRequest]
  BY DEF AccountInv, Documents
<1> QED
  BY <1>1 DEF Enter, Lined

LEMMA PassLined ==
    ASSUME AccountInv, LineInv, NEW r \in AuthReq, NEW from, NEW to, Pass(r, from, to),
           to \notin {"load-user", "rotate", "ticket"} \/ (from = "load-user" /\ to = "rotate")
    PROVE  \A d \in AuthReq : authReq'[d] = authReq[d] \/ Lined(authReq'[d])
<1>1. authReq \in [AuthReq -> AuthRequest]
  BY DEF AccountInv, Documents
<1>2. PICK q \in AuthRequest : q = authReq[r]
  BY <1>1
<1>3. authReq'[r] = [q EXCEPT !.pc = to] /\ q.pc = from /\ Lined(q)
  BY <1>1, <1>2 DEF Pass, LineInv
<1>4. authReq'[r].pc = to /\ authReq'[r].kind = q.kind
  BY <1>3 DEF AuthRequest
<1>5. Lined(authReq'[r])
  BY <1>3, <1>4 DEF Lined
<1>6. \A d \in AuthReq : d # r => authReq'[d] = authReq[d]
  BY <1>1 DEF Pass
<1> QED
  BY <1>5, <1>6

\* Only the session of a grant matters here.
LEMMA GrantChangeLines ==
    ASSUME AccountInv, LineInv, UNCHANGED sessions, NEW g, NEW new,
           grants' = [grants EXCEPT ![g] = new],
           g \in DOMAIN grants => new.session = grants[g].session \/ new.session = -1
    PROVE  GrantLines'
<1>1. grants \in Seq(GrantDoc) /\ sessions \in Seq(SessionDoc)
  BY DEF AccountInv, Documents
<1>2. /\ DOMAIN grants' = DOMAIN grants /\ Len(sessions) \in Nat
      /\ \A i \in DOMAIN grants : grants'[i] = IF i = g THEN new ELSE grants[i]
  BY <1>1
<1>3. \A i \in DOMAIN grants : grants[i].session \in -1 .. Len(sessions)
  BY DEF LineInv, GrantLines
<1> QED
  BY <1>2, <1>3 DEF GrantLines

LEMMA GrantMarkLines ==
    ASSUME AccountInv, LineInv, UNCHANGED sessions, NEW g, NEW status, SetGrant(g, status)
    PROVE  GrantLines'
<1>1. PICK new : new = [grants[g] EXCEPT !.status = status]
  OBVIOUS
<1>2. grants' = [grants EXCEPT ![g] = new]
  BY <1>1 DEF SetGrant
<1>3. g \in DOMAIN grants => new.session = grants[g].session
  <2> SUFFICES ASSUME g \in DOMAIN grants PROVE new.session = grants[g].session
    OBVIOUS
  <2>1. PICK d \in GrantDoc : d = grants[g]
    BY DEF AccountInv, Documents
  <2> QED
    BY <1>1, <2>1 DEF GrantDoc
<1> QED
  BY <1>2, <1>3, GrantChangeLines

LEMMA UseGrantLines ==
    ASSUME AccountInv, LineInv, UNCHANGED sessions, NEW r \in AuthReq, NEW from, NEW to,
           UseGrant(r, from, to)
    PROVE  GrantLines'
<1>1. PICK g, known : g = authReq[r].of /\ known = authReq[r].known
  OBVIOUS
<1>2. PICK new : new = Used(grants[g], known)
  OBVIOUS
<1>3. grants' = [grants EXCEPT ![g] = new]
  BY <1>1, <1>2 DEF UseGrant
<1>4. g \in DOMAIN grants => new.session = grants[g].session
  <2> SUFFICES ASSUME g \in DOMAIN grants PROVE new.session = grants[g].session
    OBVIOUS
  <2>1. PICK d \in GrantDoc : d = grants[g]
    BY DEF AccountInv, Documents
  <2> QED
    BY <1>2, <2>1 DEF GrantDoc, Used
<1> QED
  BY <1>3, <1>4, GrantChangeLines

LEMMA GrantAddLines ==
    ASSUME AccountInv, LineInv, UNCHANGED sessions, NEW kind, NEW known,
           NEW session \in 0 .. Len(sessions),
           grants' = Append(grants, Grant(kind, session, known))
    PROVE  GrantLines'
<1>1. grants \in Seq(GrantDoc) /\ Len(grants) \in Nat /\ DOMAIN grants = 1 .. Len(grants)
      /\ sessions \in Seq(SessionDoc) /\ Len(sessions) \in Nat
  BY DEF AccountInv, Documents
<1>2. PICK new : new = Grant(kind, session, known)
  OBVIOUS
<1>3. new.session = session
  BY <1>2 DEF Grant
<1>4. /\ DOMAIN grants' = 1 .. Len(grants) + 1
      /\ \A i \in DOMAIN grants : grants'[i] = grants[i]
      /\ grants'[Len(grants) + 1] = new
  BY <1>1, <1>2
<1>5. \A i \in DOMAIN grants : grants[i].session \in -1 .. Len(sessions)
  BY DEF LineInv, GrantLines
<1> QED
  BY <1>1, <1>3, <1>4, <1>5 DEF GrantLines

\* A mark leaves alone what a session descends from.
LEMMA MarkStays ==
    ASSUME AccountInv, NEW s, NEW status \in {"rotated", "expired", "revoked"}, SetSession(s, status)
    PROVE  SessionsStay
<1>1. sessions \in Seq(SessionDoc)
  BY DEF AccountInv, Documents
<1>2. PICK new : new = [sessions[s] EXCEPT !.status = status]
  OBVIOUS
<1>3. sessions' = [sessions EXCEPT ![s] = new]
  BY <1>2 DEF SetSession
<1>4. s \in DOMAIN sessions =>
         /\ new \in SessionDoc
         /\ new.parent = sessions[s].parent /\ new.user = sessions[s].user
         /\ new.since = sessions[s].since
  <2> SUFFICES ASSUME s \in DOMAIN sessions
               PROVE  /\ new \in SessionDoc
                      /\ new.parent = sessions[s].parent /\ new.user = sessions[s].user
                      /\ new.since = sessions[s].since
    OBVIOUS
  <2>1. PICK d \in SessionDoc : d = sessions[s]
    BY <1>1
  <2> QED
    BY <1>2, <2>1 DEF SessionDoc
<1>5. Len(sessions') = Len(sessions) /\ DOMAIN sessions' = DOMAIN sessions
  BY <1>1, <1>3, <1>4, Replaced
<1>6. \A i \in DOMAIN sessions : sessions'[i] = IF i = s THEN new ELSE sessions[i]
  BY <1>1, <1>3
<1> QED
  BY <1>4, <1>5, <1>6 DEF SessionsStay

LEMMA RevocationStays ==
    ASSUME AccountInv, NEW r \in AuthReq, RevokeUserSessions(r)
    PROVE  SessionsStay /\ EpochsGrow
<1>1. /\ Documents /\ sessions \in Seq(SessionDoc) /\ epoch \in Seq(Nat)
  BY DEF AccountInv, Documents
<1>2. PICK user : user = authReq[r].user
  OBVIOUS
<1>3. \A s \in DOMAIN sessions :
         /\ sessions'[s].parent = sessions[s].parent /\ sessions'[s].user = sessions[s].user
         /\ sessions'[s].since = sessions[s].since
  <2> SUFFICES ASSUME NEW s \in DOMAIN sessions
               PROVE  /\ sessions'[s].parent = sessions[s].parent
                      /\ sessions'[s].user = sessions[s].user
                      /\ sessions'[s].since = sessions[s].since
    OBVIOUS
  <2>1. PICK d \in SessionDoc : d = sessions[s]
    BY <1>1
  <2>2. sessions'[s] = IF d.user = user /\ d.status \in {"active", "rotated"}
                       THEN [d EXCEPT !.status = "revoked"] ELSE d
    BY <1>2, <2>1 DEF RevokeUserSessions
  <2> QED
    BY <2>1, <2>2 DEF SessionDoc
<1>4. Len(sessions') = Len(sessions) /\ DOMAIN sessions' = DOMAIN sessions
  BY <1>1, RevocationEnds DEF SessionsEnd
<1>5. EpochsGrow
  <2>1. epoch' = [epoch EXCEPT ![user] = epoch[user] + 1]
    BY <1>2 DEF RevokeUserSessions
  <2> QED
    BY <1>1, <2>1 DEF EpochsGrow
<1> QED
  BY <1>3, <1>4, <1>5 DEF SessionsStay
-----------------------------------------------------------------------------
(* Types: every step *)

LEMMA BeginsLined ==
    ASSUME AccountInv, AccountInv', LineInv, NEW r \in AuthReq, AuthBegins(r)
    PROVE  LineInv'
<1>1. UNCHANGED <<sessions, epoch, unmarked>>
  BY DEF AuthBegins, Signup, Login, RefreshSessionTokens, RefreshExpired, Logout,
     RequestPasswordReset, ConfirmPasswordReset, CompleteSSO, ExchangeSSOTicket, ReadGrant,
     DeleteProfile, StartSSO
<1>2. \A d \in AuthReq : authReq'[d] = authReq[d] \/ Lined(authReq'[d])
  <2>1. CASE \/ Signup(r) \/ Login(r) \/ RequestPasswordReset(r) \/ StartSSO(r)
             \/ \E u \in profile : DeleteProfile(r, u)
    BY <2>1, EnterLined DEF Signup, Login, RequestPasswordReset, StartSSO, DeleteProfile
  <2>2. CASE \E s \in DOMAIN sessions : RefreshSessionTokens(r, s) \/ RefreshExpired(r, s)
    BY <2>2, EnterLined DEF RefreshSessionTokens, RefreshExpired
  <2>3. ASSUME NEW s, NEW u, Logout(r, s, u)
        PROVE  \A d \in AuthReq : authReq'[d] = authReq[d] \/ Lined(authReq'[d])
    <3>1. PICK pc \in {"revoke", "revoke-all"} : Enter(r, "logout", s, u, 0, pc)
      BY <2>3 DEF Logout
    <3> QED
      BY <3>1, EnterLined
  <2>4. CASE \E g \in DOMAIN grants : \/ ConfirmPasswordReset(r, g) \/ CompleteSSO(r, g)
                                      \/ ExchangeSSOTicket(r, g)
    BY <2>4, EnterLined DEF ConfirmPasswordReset, CompleteSSO, ExchangeSSOTicket, ReadGrant
  <2> QED
    BY <2>1, <2>2, <2>3, <2>4 DEF AuthBegins
<1>3. GrantLines'
  <2>1. CASE UNCHANGED grants
    BY <1>1, <2>1, NothingMoves
  <2>2. CASE StartSSO(r)
    <3>1. 0 \in 0 .. Len(sessions)
      BY DEF AccountInv, Documents
    <3> QED
      BY <1>1, <2>2, <3>1, GrantAddLines DEF StartSSO
  <2>3. ASSUME NEW g \in DOMAIN grants, ConfirmPasswordReset(r, g) PROVE GrantLines'
    <3>1. PICK d \in GrantDoc : d = grants[g]
      BY DEF AccountInv, Documents
    <3>2. PICK d1 : d1 = [d EXCEPT !.status = "gone"]
      OBVIOUS
    <3>3. PICK d2 : d2 = [d1 EXCEPT !.uses = d.uses + 1]
      OBVIOUS
    <3>4. d2.session = d.session
      BY <3>2, <3>3 DEF GrantDoc
    <3>5. grants' = [grants EXCEPT ![g] = d2]
      BY <2>3, <3>1, <3>2, <3>3 DEF ConfirmPasswordReset
    <3> QED
      BY <1>1, <3>1, <3>4, <3>5, GrantChangeLines
  <2> QED
    BY <2>1, <2>2, <2>3 DEF AuthBegins, Signup, Login, RefreshSessionTokens, RefreshExpired, Logout,
       RequestPasswordReset, CompleteSSO, ExchangeSSOTicket, ReadGrant, DeleteProfile
<1>4. unmarked \subseteq DOMAIN sessions
  BY DEF LineInv
<1> QED
  BY <1>1, <1>2, <1>3, <1>4, NothingMoves, LineStep

LEMMA GoesOnLined ==
    ASSUME AccountInv, AccountInv', LineInv, NEW r \in AuthReq, AuthGoesOn(r)
    PROVE  LineInv'
<1>1. UNCHANGED <<sessions, epoch, unmarked>>
  BY DEF AuthGoesOn, EnsureProfile, LoadUser, ClearResets, InsertReset, DeliverReset, FindUser,
     ResetPassword, DeleteUser, DeleteProfileDocument, UseState, UseGrant, ExchangeCode,
     MapIdentity, CreateSSOTicket, UseTicket, DeleteTicket, AuthReqFails
<1>2. /\ sessions \in Seq(SessionDoc) /\ grants \in Seq(GrantDoc)
      /\ authReq \in [AuthReq -> AuthRequest]
  BY DEF AccountInv, Documents
<1>3. PICK q \in AuthRequest : q = authReq[r]
  BY <1>2
<1>4. \A d \in AuthReq : authReq'[d] = authReq[d] \/ Lined(authReq'[d])
  <2>1. CASE ClearResets(r) \/ InsertReset(r) \/ FindUser(r) \/ MapIdentity(r)
    <3>1. /\ authReq'[r].pc \in {"insert-reset", "deliver", "password", "done", "profile", "insert-user"}
          /\ \A d \in AuthReq : d # r => authReq'[d] = authReq[d]
      BY <1>2, <1>3, <2>1 DEF ClearResets, InsertReset, FindUser, MapIdentity, AuthRequest
    <3> QED
      BY <3>1 DEF Lined
  <2>2. ASSUME NEW from, NEW to, Pass(r, from, to),
               to \notin {"load-user", "rotate", "ticket"} \/ (from = "load-user" /\ to = "rotate")
        PROVE  \A d \in AuthReq : authReq'[d] = authReq[d] \/ Lined(authReq'[d])
    BY <2>2, PassLined
  <2>3. CASE EnsureProfile(r) \/ ResetPassword(r) \/ DeleteUser(r) \/ DeleteProfileDocument(r)
    BY <2>2, <2>3 DEF EnsureProfile, ResetPassword, DeleteUser, DeleteProfileDocument
  <2>4. CASE LoadUser(r)
    <3>1. Pass(r, "load-user", "rotate") \/ Pass(r, "load-user", "done")
      BY <2>4 DEF LoadUser
    <3> QED
      BY <2>2, <3>1
  <2>5. CASE DeliverReset(r) \/ DeleteTicket(r) \/ ExchangeCode(r) \/ CreateSSOTicket(r)
    BY <2>2, <2>5 DEF DeliverReset, DeleteTicket, ExchangeCode, CreateSSOTicket
  <2>6. CASE UseState(r) \/ UseTicket(r)
    BY <2>2, <2>6 DEF UseState, UseTicket, UseGrant
  <2>7. CASE AuthReqFails(r)
    <3>1. Pass(r, authReq[r].pc, "done")
      BY <2>7 DEF AuthReqFails, Pass
    <3> QED
      BY <2>2, <3>1
  <2> QED
    BY <2>1, <2>3, <2>4, <2>5, <2>6, <2>7 DEF AuthGoesOn
<1>5. GrantLines'
  <2>1. CASE UNCHANGED grants
    BY <1>1, <2>1, NothingMoves
  <2>2. CASE ClearResets(r)
    <3>1. \A g \in DOMAIN grants : grants'[g].session = grants[g].session
      <4> SUFFICES ASSUME NEW g \in DOMAIN grants PROVE grants'[g].session = grants[g].session
        OBVIOUS
      <4>1. PICK d \in GrantDoc : d = grants[g]
        BY <1>2
      <4>2. grants'[g] = IF d.kind = "reset" /\ d.status = "live"
                         THEN [d EXCEPT !.status = "gone"] ELSE d
        BY <2>2, <4>1 DEF ClearResets
      <4> QED
        BY <4>1, <4>2 DEF GrantDoc
    <3>2. DOMAIN grants' = DOMAIN grants
      BY <2>2 DEF ClearResets
    <3> QED
      BY <1>1, <3>1, <3>2 DEF LineInv, GrantLines
  <2>3. CASE InsertReset(r)
    <3>1. 0 \in 0 .. Len(sessions)
      BY <1>2
    <3> QED
      BY <1>1, <2>3, <3>1, GrantAddLines DEF InsertReset
  <2>4. CASE CreateSSOTicket(r)
    <3>1. q.pc = "ticket" /\ Lined(q) /\ q.of \in Nat
      BY <1>3, <2>4 DEF CreateSSOTicket, Pass, LineInv, AuthRequest
    <3>2. q.of \in 0 .. Len(sessions)
      BY <1>2, <3>1 DEF Lined
    <3> QED
      BY <1>1, <1>3, <2>4, <3>2, GrantAddLines DEF CreateSSOTicket
  <2>5. CASE DeliverReset(r) \/ DeleteTicket(r)
    BY <1>1, <2>1, <2>5, GrantMarkLines DEF DeliverReset, DeleteTicket
  <2>6. CASE UseState(r) \/ UseTicket(r)
    BY <1>1, <2>6, UseGrantLines DEF UseState, UseTicket
  <2>7. CASE ExchangeCode(r)
    <3>1. PICK g : g = authReq[r].of
      OBVIOUS
    <3>2. PICK new : new = [grants[g] EXCEPT !.session = -1]
      OBVIOUS
    <3>3. grants' = [grants EXCEPT ![g] = new]
      BY <2>7, <3>1, <3>2 DEF ExchangeCode
    <3>4. g \in DOMAIN grants => new.session = -1
      <4> SUFFICES ASSUME g \in DOMAIN grants PROVE new.session = -1
        OBVIOUS
      <4>1. PICK d \in GrantDoc : d = grants[g]
        BY <1>2
      <4> QED
        BY <3>2, <4>1 DEF GrantDoc
    <3> QED
      BY <1>1, <3>3, <3>4, GrantChangeLines
  <2> QED
    BY <2>1, <2>2, <2>3, <2>4, <2>5, <2>6, <2>7 DEF AuthGoesOn, EnsureProfile, LoadUser, FindUser,
       ResetPassword, DeleteUser, DeleteProfileDocument, MapIdentity, AuthReqFails
<1>6. unmarked \subseteq DOMAIN sessions
  BY DEF LineInv
<1> QED
  BY <1>1, <1>4, <1>5, <1>6, NothingMoves, LineStep

\* A user is inserted; sessions are marked and revoked.
LEMMA UsersAndMarksLined ==
    ASSUME AccountInv, AccountInv', LineInv, NEW r \in AuthReq,
           \/ InsertUser(r) \/ MarkRotated(r) \/ MarkRotatedFails(r) \/ MarkExpired(r)
           \/ RevokeSessionToken(r) \/ RevokeUserSessions(r)
    PROVE  LineInv'
<1>1. /\ sessions \in Seq(SessionDoc) /\ epoch \in Seq(Nat) /\ authReq \in [AuthReq -> AuthRequest]
      /\ RequestKnows(authReq[r]) /\ Lined(authReq[r])
  BY DEF AccountInv, Documents, LineInv
<1>2. PICK q \in AuthRequest : q = authReq[r]
  BY <1>1
<1>3. \A d \in AuthReq : authReq'[d] = authReq[d] \/ Lined(authReq'[d])
  <2>1. CASE InsertUser(r)
    <3>1. /\ authReq'[r].pc \in {"done", "profile"}
          /\ \A d \in AuthReq : d # r => authReq'[d] = authReq[d]
      BY <1>1, <1>2, <2>1 DEF InsertUser, AuthRequest
    <3> QED
      BY <3>1 DEF Lined
  <2>2. ASSUME ~InsertUser(r) PROVE \A d \in AuthReq : authReq'[d] = authReq[d] \/ Lined(authReq'[d])
    <3>1. CASE MarkRotated(r) \/ MarkRotatedFails(r)
      BY <3>1, PassLined DEF MarkRotated, MarkRotatedFails
    <3>2. CASE MarkExpired(r) \/ RevokeUserSessions(r)
      BY <3>2, PassLined DEF MarkExpired, RevokeUserSessions
    <3>3. CASE RevokeSessionToken(r)
      <4>1. PICK to \in {"revoke-all", "done"} : Pass(r, "revoke", to)
        BY <3>3 DEF RevokeSessionToken
      <4> QED
        BY <4>1, PassLined
    <3> QED
      BY <2>2, <3>1, <3>2, <3>3
  <2> QED
    BY <2>1, <2>2
<1>4. SessionsStay
  <2>1. CASE InsertUser(r) \/ MarkRotatedFails(r)
    BY <2>1, NothingMoves DEF InsertUser, MarkRotatedFails
  <2>2. CASE RevokeUserSessions(r)
    BY <2>2, RevocationStays
  <2>3. CASE MarkRotated(r) \/ MarkExpired(r) \/ RevokeSessionToken(r)
    <3>1. PICK s : s = authReq[r].of
      OBVIOUS
    <3>2. \/ SetSession(s, "rotated") \/ SetSession(s, "expired") \/ SetSession(s, "revoked")
          \/ UNCHANGED sessions
      BY <2>3, <3>1 DEF MarkRotated, MarkExpired, RevokeSessionToken, RotatedStatus
    <3> QED
      BY <3>2, MarkStays, NothingMoves
  <2> QED
    BY <2>1, <2>2, <2>3
<1>5. EpochsGrow
  <2>1. CASE InsertUser(r)
    <3>1. epoch' = epoch \/ epoch' = Append(epoch, 0)
      BY <2>1 DEF InsertUser
    <3>2. Len(epoch) \in Nat /\ DOMAIN epoch = 1 .. Len(epoch) /\ \A u \in DOMAIN epoch : epoch[u] \in Nat
      BY <1>1
    <3>3. CASE epoch' = Append(epoch, 0)
      <4>1. DOMAIN epoch' = 1 .. Len(epoch) + 1 /\ \A u \in DOMAIN epoch : epoch'[u] = epoch[u]
        BY <1>1, <3>3
      <4> QED
        BY <3>2, <4>1 DEF EpochsGrow
    <3>4. CASE epoch' = epoch
      BY <3>4, NothingMoves
    <3> QED
      BY <3>1, <3>3, <3>4
  <2>2. CASE RevokeUserSessions(r)
    BY <2>2, RevocationStays
  <2>3. CASE UNCHANGED epoch
    BY <2>3, NothingMoves
  <2> QED
    BY <2>1, <2>2, <2>3 DEF MarkRotated, MarkRotatedFails, MarkExpired, RevokeSessionToken
<1>6. GrantLines'
  <2>1. UNCHANGED grants
    BY DEF InsertUser, MarkRotated, MarkRotatedFails, MarkExpired, RevokeSessionToken, RevokeUserSessions
  <2> QED
    BY <1>4, <2>1 DEF SessionsStay, LineInv, GrantLines
<1>7. unmarked' \subseteq DOMAIN sessions
  <2>1. unmarked \subseteq DOMAIN sessions
    BY DEF LineInv
  <2>2. CASE MarkRotatedFails(r)
    <3>1. q.pc = "rotate" /\ unmarked' = unmarked \cup {q.of}
      BY <1>2, <2>2 DEF MarkRotatedFails, Pass
    <3>2. q.of \in DOMAIN sessions
      BY <1>1, <1>2, <3>1 DEF RequestKnows, Lined
    <3> QED
      BY <2>1, <3>1, <3>2
  <2>3. CASE UNCHANGED unmarked
    BY <2>1, <2>3
  <2> QED
    BY <2>2, <2>3 DEF InsertUser, MarkRotated, MarkExpired, RevokeSessionToken, RevokeUserSessions
<1> QED
  BY <1>3, <1>4, <1>5, <1>6, <1>7, LineStep

\* The session that is issued is younger than its parent, and of its epoch.
LEMMA IssueLined ==
    ASSUME AccountInv, LineInv, NEW r \in AuthReq, IssueSessionTokens(r)
    PROVE  LineInv'
<1>1. /\ sessions \in Seq(SessionDoc) /\ Len(sessions) \in Nat /\ DOMAIN sessions = 1 .. Len(sessions)
      /\ epoch \in Seq(Nat) /\ authReq \in [AuthReq -> AuthRequest] /\ RequestKnows(authReq[r])
      /\ grants \in Seq(GrantDoc)
  BY DEF AccountInv, Documents
<1>2. PICK q \in AuthRequest : q = authReq[r]
  BY <1>1
<1>3. q.pc = "issue" /\ UNCHANGED <<epoch, grants, unmarked>>
  BY <1>2 DEF IssueSessionTokens
<1>4. q.user \in DOMAIN epoch /\ q.epoch <= epoch[q.user] /\ q.epoch \in Nat /\ q.of \in Nat
  BY <1>1, <1>2, <1>3 DEF RequestKnows, AuthRequest
<1>5. PICK parent : parent = IF q.kind = "refresh" THEN q.of ELSE 0
  OBVIOUS
<1>6. PICK since : since = IF parent = 0 THEN q.epoch ELSE sessions[parent].since
  OBVIOUS
<1>7. PICK late : sessions' = Append(sessions, NewSession(q.user, parent, since, late, q.known))
  BY <1>2, <1>5, <1>6 DEF IssueSessionTokens
<1>8. parent \in 0 .. Len(sessions) /\ since \in 0 .. epoch[q.user]
  <2>1. epoch[q.user] \in Nat
    BY <1>1, <1>4
  <2>2. CASE parent = 0
    BY <1>1, <1>4, <1>6, <2>1, <2>2
  <2>3. CASE parent # 0
    <3>1. parent \in DOMAIN sessions /\ sessions[parent].user = q.user
      BY <1>1, <1>2, <1>3, <1>5, <2>3 DEF RequestKnows
    <3> QED
      BY <1>1, <1>6, <2>3, <3>1 DEF LineInv, SessionLines
  <2> QED
    BY <2>2, <2>3
<1>9. PICK new : new = NewSession(q.user, parent, since, late, q.known)
  OBVIOUS
<1>10. new.parent = parent /\ new.since = since /\ new.user = q.user
  BY <1>9 DEF NewSession
<1>11. /\ DOMAIN sessions' = 1 .. Len(sessions) + 1 /\ Len(sessions') = Len(sessions) + 1
       /\ \A s \in DOMAIN sessions : sessions'[s] = sessions[s]
       /\ sessions'[Len(sessions) + 1] = new
  BY <1>1, <1>7, <1>9
<1>12. SessionLines'
  <2> SUFFICES ASSUME NEW s \in DOMAIN sessions'
               PROVE  /\ sessions'[s].parent \in 0 .. s - 1
                      /\ sessions'[s].since \in 0 .. epoch[sessions'[s].user]
    BY <1>3 DEF SessionLines
  <2>1. CASE s \in DOMAIN sessions
    BY <1>11, <2>1 DEF LineInv, SessionLines
  <2>2. CASE s = Len(sessions) + 1
    BY <1>1, <1>8, <1>10, <1>11, <2>2
  <2> QED
    BY <1>1, <1>11, <2>1, <2>2
<1>13. GrantLines'
  BY <1>1, <1>3, <1>11 DEF LineInv, GrantLines
<1>14. \A d \in AuthReq : Lined(authReq[d])'
  <2>1. /\ authReq'[r].pc \in {"ticket", "done"} /\ authReq'[r].of = Len(sessions) + 1
        /\ \A d \in AuthReq : d # r => authReq'[d] = authReq[d]
    BY <1>1, <1>2 DEF IssueSessionTokens, AuthRequest
  <2>2. Lined(authReq[r])'
    BY <1>1, <1>11, <2>1 DEF Lined
  <2>3. ASSUME NEW d \in AuthReq, d # r PROVE Lined(authReq[d])'
    <3>1. PICK p \in AuthRequest : p = authReq[d]
      BY <1>1
    <3>2. Lined(p) /\ p.of \in Nat /\ authReq'[d] = p
      BY <2>1, <2>3, <3>1 DEF LineInv, AuthRequest
    <3> QED
      BY <1>1, <1>11, <3>2 DEF Lined
  <2> QED
    BY <2>2, <2>3
<1> QED
  BY <1>1, <1>3, <1>11, <1>12, <1>13, <1>14 DEF LineInv

LEMMA LinesKept == AccountInv /\ AccountInv' /\ LineInv /\ [AuthNext]_authVars => LineInv'
<1> SUFFICES ASSUME AccountInv, AccountInv', LineInv, [AuthNext]_authVars PROVE LineInv'
  OBVIOUS
<1>1. ASSUME NEW r \in AuthReq, AuthBegins(r) PROVE LineInv'
  BY <1>1, BeginsLined
<1>2. ASSUME NEW r \in AuthReq, AuthGoesOn(r) PROVE LineInv'
  BY <1>2, GoesOnLined
<1>3. ASSUME NEW r \in AuthReq, IssueSessionTokens(r) PROVE LineInv'
  BY <1>3, IssueLined
<1>4. ASSUME NEW r \in AuthReq,
             \/ InsertUser(r) \/ MarkRotated(r) \/ MarkRotatedFails(r) \/ MarkExpired(r)
             \/ RevokeSessionToken(r) \/ RevokeUserSessions(r)
      PROVE  LineInv'
  BY <1>4, UsersAndMarksLined
<1>5. ASSUME NEW g \in DOMAIN grants, GrantExpires(g) PROVE LineInv'
  <2>1. UNCHANGED <<sessions, authReq, epoch, unmarked>> /\ SetGrant(g, "expired")
    BY <1>5 DEF GrantExpires
  <2>2. GrantLines'
    BY <2>1, GrantMarkLines
  <2> QED
    BY <2>1, <2>2 DEF LineInv, SessionLines, Lined
<1>6. CASE UNCHANGED authVars
  BY <1>6 DEF authVars, LineInv, SessionLines, GrantLines, Lined
<1> QED
  BY <1>1, <1>2, <1>3, <1>4, <1>5, <1>6, AuthSteps

\* For any number of requests, users and sessions, the documents keep their
\* types: a session has an older parent and an epoch its user has reached, a
\* ticket carries a session that was issued, and only sessions lose a mark.
THEOREM AccountTypeCorrect == AuthSpec => []AuthTypeOK
<1>1. AccountInv /\ LineInv => AuthTypeOK
  <2> SUFFICES ASSUME AccountInv, LineInv PROVE AuthTypeOK
    OBVIOUS
  <2>1. /\ account \in [user : 0 .. Len(epoch), password : BOOLEAN] /\ profile \subseteq DOMAIN epoch
        /\ sessions \in Seq(SessionDoc) /\ grants \in Seq(GrantDoc)
        /\ \A s \in DOMAIN sessions : sessions[s].user \in DOMAIN epoch
    BY DEF AccountInv, Documents
  <2>2. \A s \in DOMAIN sessions : sessions[s].status \in {"active", "rotated", "expired", "revoked"}
    <3>1. \A d \in SessionDoc : d.status \in {"active", "rotated", "expired", "revoked"}
      BY DEF SessionDoc
    <3>2. \A s \in DOMAIN sessions : sessions[s] \in SessionDoc
      BY <2>1
    <3> QED
      BY <3>1, <3>2
  <2>3. \A g \in DOMAIN grants : /\ grants[g].kind \in {"reset", "state", "ticket"}
                                 /\ grants[g].status \in {"live", "used", "gone", "expired"}
    <3>1. \A d \in GrantDoc : /\ d.kind \in {"reset", "state", "ticket"}
                              /\ d.status \in {"live", "used", "gone", "expired"}
      BY DEF GrantDoc
    <3>2. \A g \in DOMAIN grants : grants[g] \in GrantDoc
      BY <2>1
    <3> QED
      BY <3>1, <3>2
  <2> QED
    BY <2>1, <2>2, <2>3 DEF LineInv, SessionLines, GrantLines, AuthTypeOK
<1>2. LineInv /\ AccountInv /\ AccountInv' /\ [AuthNext]_authVars => LineInv'
  BY LinesKept
<1> QED
  BY <1>1, <1>2, InitialAccount, InitialLines, AccountKept, PTL DEF AuthSpec
=============================================================================
