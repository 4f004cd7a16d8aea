----------------------------- MODULE AccountSessions -----------------------------
(***************************************************************************)
(* The sessions of one account.  Signup, login and single sign-on issue    *)
(* sessions; a refresh marks its session rotated and issues the next one;  *)
(* a logout and a password reset revoke them all.  Every request is a      *)
(* series of separate reads and writes, so requests of several browsers    *)
(* interleave.  Password resets, sign-on states and sign-on tickets are    *)
(* grants: tokens that are to be used once.                                *)
(*                                                                         *)
(* The account is one email address, whose users follow each other when it *)
(* is deleted and signed up again.  A refresh token is identified with its *)
(* session, whose hash it alone matches.                                   *)
(***************************************************************************)
EXTENDS Integers, Sequences, FiniteSets

CONSTANTS AuthReq   \* requests, each made once

VARIABLES
    account,   \* the user of the email address, 0 for none, and whether it has a password
    profile,   \* the users that have a profile document
    sessions,  \* auth_sessions, in the order they were inserted
    grants,    \* password resets, sign-on states and tickets, likewise
    authReq,   \* the requests
    epoch,     \* history: for each user, how often all sessions were revoked
    unmarked   \* history: sessions whose mark "rotated" was lost

authVars == <<account, profile, sessions, grants, authReq, epoch, unmarked>>
-----------------------------------------------------------------------------
\* A session of a user; since is the epoch in which the login it descends from began,
\* late that a revocation overlapped a request of its line, known how many
\* sessions there were when its request read.
NewSession(user, parent, since, late, known) ==
    [status |-> "active", user |-> user, parent |-> parent, since |-> since, late |-> late,
     known |-> known]

\* A grant; uses and reused count what came of it, known is as for sessions.
Grant(kind, session, known) ==
    [kind |-> kind, status |-> "live", session |-> session, uses |-> 0, reused |-> FALSE,
     known |-> known]

NewAuthReq == [pc |-> "new", kind |-> "none", of |-> 0, user |-> 0, epoch |-> 0, known |-> 0]
NoUser == [user |-> 0, password |-> FALSE]
EpochOf(u) == IF u = 0 THEN 0 ELSE epoch[u]

\* An account with a session, and possibly a grant that was given before, or none.
AuthInit ==
    /\ \/ /\ account = NoUser /\ profile = {} /\ epoch = <<>>
          /\ sessions = <<>> /\ grants = <<>>
       \/ /\ account = [user |-> 1, password |-> TRUE] /\ profile = {1} /\ epoch = <<0>>
          /\ sessions = <<NewSession(1, 0, 0, FALSE, 0)>>
          /\ \/ grants = <<>>
             \/ \E kind \in {"reset", "state", "ticket"} :
                   grants = <<Grant(kind, IF kind = "ticket" THEN 1 ELSE 0, 0)>>
    /\ authReq = [r \in AuthReq |-> NewAuthReq]
    /\ unmarked = {}

\* A request reads before its first write.
Enter(r, kind, of, user, known, pc) ==
    /\ authReq[r].pc = "new"
    /\ authReq' = [authReq EXCEPT ![r] = [pc |-> pc, kind |-> kind, of |-> of, user |-> user,
                                          epoch |-> EpochOf(user), known |-> known]]

Pass(r, from, to) == authReq[r].pc = from /\ authReq' = [authReq EXCEPT ![r].pc = to]

SetSession(s, status) == sessions' = [sessions EXCEPT ![s].status = status]
SetGrant(g, status) == grants' = [grants EXCEPT ![g].status = status]
-----------------------------------------------------------------------------
(* Signup, login *)

Signup(r) ==
    /\ account.user = 0
    /\ Enter(r, "signup", 0, 0, Len(sessions), "insert-user")
    /\ UNCHANGED <<account, profile, sessions, grants, epoch, unmarked>>

\* The index on the email refuses a second user.
InsertUser(r) ==
    /\ authReq[r].pc = "insert-user"
    /\ \/ /\ account.user # 0
          /\ authReq' = [authReq EXCEPT ![r].pc = "done"]
          /\ UNCHANGED <<account, epoch>>
       \/ /\ account.user = 0
          /\ authReq' = [authReq EXCEPT ![r].pc = "profile", ![r].user = Len(epoch) + 1]
          /\ account' = [user |-> Len(epoch) + 1, password |-> authReq[r].kind = "signup"]
          /\ epoch' = Append(epoch, 0)
    /\ UNCHANGED <<profile, sessions, grants, unmarked>>

\* The error of a profile that cannot be written is ignored.
EnsureProfile(r) ==
    /\ Pass(r, "profile", "issue")
    /\ profile' \in {profile, profile \cup {authReq[r].user}}
    /\ UNCHANGED <<account, sessions, grants, epoch, unmarked>>

Login(r) ==
    /\ account.password
    /\ Enter(r, "login", 0, account.user, Len(sessions), "issue")
    /\ UNCHANGED <<account, profile, sessions, grants, epoch, unmarked>>

IssueSessionTokens(r) ==
    /\ authReq[r].pc = "issue"
    /\ authReq' = [authReq EXCEPT ![r].pc = IF authReq[r].kind = "sso" THEN "ticket" ELSE "done",
                                  ![r].of = Len(sessions) + 1]
    /\ LET q == authReq[r]
           parent == IF q.kind = "refresh" THEN q.of ELSE 0
           since == IF parent = 0 THEN q.epoch ELSE sessions[parent].since
           late == epoch[q.user] # q.epoch \/ (parent # 0 /\ sessions[parent].late)
       IN  sessions' = Append(sessions, NewSession(q.user, parent, since, late, q.known))
    /\ UNCHANGED <<account, profile, grants, epoch, unmarked>>
-----------------------------------------------------------------------------
(* Refresh, logout *)

\* Mutated form: what is not rotated may be refreshed.
Refreshable_Revoked(s) == sessions[s].status \in {"active", "revoked"}

Refreshable(s) == sessions[s].status = "active"

\* No request has found that it expired.
NotExpired(s) == \A q \in AuthReq : ~ (authReq[q].kind = "expire" /\ authReq[q].of = s)

RefreshSessionTokens(r, s) ==
    /\ Refreshable(s) /\ NotExpired(s)
    /\ Enter(r, "refresh", s, sessions[s].user, Len(sessions), "load-user")
    /\ UNCHANGED <<account, profile, sessions, grants, epoch, unmarked>>

LoadUser(r) ==
    /\ Pass(r, "load-user", IF account.user = authReq[r].user THEN "rotate" ELSE "done")
    /\ UNCHANGED <<account, profile, sessions, grants, epoch, unmarked>>

\* Mutated form: the session stays active.
RotatedStatus_Active == "active"
RotatedStatus == "rotated"

MarkRotated(r) ==
    /\ Pass(r, "rotate", "issue")
    /\ SetSession(authReq[r].of, RotatedStatus)
    /\ UNCHANGED <<account, profile, grants, epoch, unmarked>>

\* The error is ignored: the next session is issued all the same.
MarkRotatedFails(r) ==
    /\ Pass(r, "rotate", "issue")
    /\ unmarked' = unmarked \cup {authReq[r].of}
    /\ UNCHANGED <<account, profile, sessions, grants, epoch>>

\* The session was found expired; the mark follows, whatever it has become.
RefreshExpired(r, s) ==
    /\ Refreshable(s)
    /\ Enter(r, "expire", s, sessions[s].user, 0, "expire")
    /\ UNCHANGED <<account, profile, sessions, grants, epoch, unmarked>>

MarkExpired(r) ==
    /\ Pass(r, "expire", "done")
    /\ SetSession(authReq[r].of, "expired")
    /\ UNCHANGED <<account, profile, grants, epoch, unmarked>>

\* With the refresh token of a session, an access token of a user, or both.
Logout(r, s, u) ==
    /\ Enter(r, "logout", s, u, 0, IF s > 0 THEN "revoke" ELSE "revoke-all")
    /\ UNCHANGED <<account, profile, sessions, grants, epoch, unmarked>>

\* Its error is ignored.
RevokeSessionToken(r) ==
    /\ Pass(r, "revoke", IF authReq[r].user > 0 THEN "revoke-all" ELSE "done")
    /\ \/ SetSession(authReq[r].of, "revoked")
       \/ UNCHANGED sessions
    /\ UNCHANGED <<account, profile, grants, epoch, unmarked>>

RevokeUserSessions(r) ==
    /\ Pass(r, "revoke-all", "done")
    /\ sessions' = [s \in DOMAIN sessions |->
                      IF /\ sessions[s].user = authReq[r].user
                         /\ sessions[s].status \in {"active", "rotated"}
                      THEN [sessions[s] EXCEPT !.status = "revoked"] ELSE sessions[s]]
    /\ epoch' = [epoch EXCEPT ![authReq[r].user] = @ + 1]
    /\ UNCHANGED <<account, profile, grants, unmarked>>
-----------------------------------------------------------------------------
(* Passwords *)

RequestPasswordReset(r) ==
    /\ account.user # 0
    /\ Enter(r, "ask-reset", 0, 0, 0, "clear-resets")
    /\ UNCHANGED <<account, profile, sessions, grants, epoch, unmarked>>

\* DeleteMany; its error is ignored, but no reset can be inserted then either.
ClearResets(r) ==
    /\ authReq[r].pc = "clear-resets"
    /\ authReq' = [authReq EXCEPT ![r].pc = "insert-reset", ![r].known = Len(grants)]
    /\ grants' = [g \in DOMAIN grants |->
                    IF grants[g].kind = "reset" /\ grants[g].status = "live"
                    THEN [grants[g] EXCEPT !.status = "gone"] ELSE grants[g]]
    /\ UNCHANGED <<account, profile, sessions, epoch, unmarked>>

InsertReset(r) ==
    /\ authReq[r].pc = "insert-reset"
    /\ authReq' = [authReq EXCEPT ![r].pc = "deliver", ![r].of = Len(grants) + 1]
    /\ grants' = Append(grants, Grant("reset", 0, authReq[r].known))
    /\ UNCHANGED <<account, profile, sessions, epoch, unmarked>>

\* The mail is sent, or the reset is deleted again.
DeliverReset(r) ==
    /\ Pass(r, "deliver", "done")
    /\ \/ UNCHANGED grants
       \/ SetGrant(authReq[r].of, "gone")
    /\ UNCHANGED <<account, profile, sessions, epoch, unmarked>>

\* FindOneAndDelete: found and deleted at once.
ConfirmPasswordReset(r, g) ==
    /\ grants[g].kind = "reset" /\ grants[g].status = "live"
    /\ Enter(r, "confirm", g, 0, 0, "find-user")
    /\ grants' = [grants EXCEPT ![g].status = "gone", ![g].uses = @ + 1]
    /\ UNCHANGED <<account, profile, sessions, epoch, unmarked>>

FindUser(r) ==
    /\ authReq[r].pc = "find-user"
    /\ authReq' = [authReq EXCEPT ![r].pc = IF account.user # 0 THEN "password" ELSE "done",
                                  ![r].user = account.user]
    /\ UNCHANGED <<account, profile, sessions, grants, epoch, unmarked>>

\* A user that is gone by now is not brought back.
ResetPassword(r) ==
    /\ Pass(r, "password", "revoke-all")
    /\ account' = IF account.user = authReq[r].user THEN [account EXCEPT !.password = TRUE]
                  ELSE account
    /\ UNCHANGED <<profile, sessions, grants, epoch, unmarked>>
-----------------------------------------------------------------------------
(* Deletion of the account; its sessions stay, but a refresh finds no user. *)

DeleteProfile(r, u) ==
    /\ u \in profile
    /\ Enter(r, "delete", 0, u, 0, "delete-user")
    /\ UNCHANGED <<account, profile, sessions, grants, epoch, unmarked>>

\* Its error is ignored, too.
DeleteUser(r) ==
    /\ Pass(r, "delete-user", "delete-profile")
    /\ account' \in {account, IF account.user = authReq[r].user THEN NoUser ELSE account}
    /\ UNCHANGED <<profile, sessions, grants, epoch, unmarked>>

DeleteProfileDocument(r) ==
    /\ Pass(r, "delete-profile", "done")
    /\ profile' \in {profile, profile \ {authReq[r].user}}
    /\ UNCHANGED <<account, sessions, grants, epoch, unmarked>>
-----------------------------------------------------------------------------
(* Single sign-on *)

StartSSO(r) ==
    /\ Enter(r, "start", 0, 0, 0, "done")
    /\ grants' = Append(grants, Grant("state", 0, Len(grants)))
    /\ UNCHANGED <<account, profile, sessions, epoch, unmarked>>

\* consumeSSOState, consumeSSOTicket: read the grant, then mark it used.
ReadGrant(r, g, request, kind, pc) ==
    /\ grants[g].kind = kind /\ grants[g].status = "live"
    /\ Enter(r, request, g, 0, grants[g].uses, pc)
    /\ UNCHANGED <<account, profile, sessions, grants, epoch, unmarked>>

\* The mark of a grant that others may have used or deleted since it was read.
Used(g, known) ==
    [g EXCEPT !.status = IF @ = "gone" THEN @ ELSE "used", !.uses = @ + 1,
              !.reused = @ \/ known > 0]

UseGrant(r, from, to) ==
    /\ Pass(r, from, to)
    /\ LET g == authReq[r].of
       IN  grants' = [grants EXCEPT ![g] = Used(grants[g], authReq[r].known)]
    /\ UNCHANGED <<account, profile, sessions, epoch, unmarked>>

CompleteSSO(r, g) == ReadGrant(r, g, "sso", "state", "use-state")
UseState(r) == UseGrant(r, "use-state", "exchange")

\* The provider accepts the code of a state once, and says who signs on.
ExchangeCode(r) ==
    /\ Pass(r, "exchange", "map")
    /\ grants[authReq[r].of].session = 0
    /\ grants' = [grants EXCEPT ![authReq[r].of].session = -1]
    /\ UNCHANGED <<account, profile, sessions, epoch, unmarked>>

\* The identity is found among the users, or a user is inserted for it.
MapIdentity(r) ==
    /\ authReq[r].pc = "map"
    /\ authReq' = [authReq EXCEPT ![r].pc = IF account.user # 0 THEN "profile" ELSE "insert-user",
                                  ![r].user = account.user,
                                  ![r].epoch = EpochOf(account.user), ![r].known = Len(sessions)]
    /\ UNCHANGED <<account, profile, sessions, grants, epoch, unmarked>>

\* createSSOTicket: the session of this request is carried by the ticket.
CreateSSOTicket(r) ==
    /\ Pass(r, "ticket", "done")
    /\ grants' = Append(grants, Grant("ticket", authReq[r].of, Len(grants)))
    /\ UNCHANGED <<account, profile, sessions, epoch, unmarked>>

ExchangeSSOTicket(r, g) == ReadGrant(r, g, "exchange", "ticket", "use-ticket")
UseTicket(r) == UseGrant(r, "use-ticket", "delete-ticket")

\* Its error is ignored.
DeleteTicket(r) ==
    /\ Pass(r, "delete-ticket", "done")
    /\ SetGrant(authReq[r].of, "gone") \/ UNCHANGED grants
    /\ UNCHANGED <<account, profile, sessions, epoch, unmarked>>
-----------------------------------------------------------------------------
\* A read or a write fails, or the provider refuses: the request ends.  The
\* errors that are ignored have actions of their own.
AuthReqFails(r) ==
    /\ authReq[r].pc \notin {"new", "done", "rotate", "revoke", "profile", "delete-user"}
    /\ authReq' = [authReq EXCEPT ![r].pc = "done"]
    /\ UNCHANGED <<account, profile, sessions, grants, epoch, unmarked>>

GrantExpires(g) ==
    /\ grants[g].status = "live"
    /\ SetGrant(g, "expired")
    /\ UNCHANGED <<account, profile, sessions, authReq, epoch, unmarked>>

AuthNext ==
    \/ \E r \in AuthReq :
          \/ Signup(r) \/ InsertUser(r) \/ EnsureProfile(r) \/ Login(r) \/ IssueSessionTokens(r)
          \/ \E s \in DOMAIN sessions : RefreshSessionTokens(r, s) \/ RefreshExpired(r, s)
          \/ \E s \in 0 .. Len(sessions), u \in 0 .. Len(epoch) : s + u > 0 /\ Logout(r, s, u)
          \/ LoadUser(r) \/ MarkRotated(r) \/ MarkRotatedFails(r) \/ MarkExpired(r)
          \/ RevokeSessionToken(r) \/ RevokeUserSessions(r)
          \/ RequestPasswordReset(r) \/ ClearResets(r) \/ InsertReset(r) \/ DeliverReset(r)
          \/ \E g \in DOMAIN grants : \/ ConfirmPasswordReset(r, g) \/ CompleteSSO(r, g)
                                      \/ ExchangeSSOTicket(r, g)
          \/ FindUser(r) \/ ResetPassword(r)
          \/ \E u \in profile : DeleteProfile(r, u)
          \/ DeleteUser(r) \/ DeleteProfileDocument(r)
          \/ StartSSO(r) \/ UseState(r) \/ ExchangeCode(r) \/ MapIdentity(r) \/ CreateSSOTicket(r)
          \/ UseTicket(r) \/ DeleteTicket(r)
          \/ AuthReqFails(r)
    \/ \E g \in DOMAIN grants : GrantExpires(g)

AuthSpec == AuthInit /\ [][AuthNext]_authVars
-----------------------------------------------------------------------------
AuthTypeOK ==
    /\ account \in [user : 0 .. Len(epoch), password : BOOLEAN]
    /\ profile \subseteq DOMAIN epoch
    /\ \A s \in DOMAIN sessions :
          /\ sessions[s].status \in {"active", "rotated", "expired", "revoked"}
          /\ sessions[s].parent \in 0 .. s - 1
          /\ sessions[s].user \in DOMAIN epoch
          /\ sessions[s].since \in 0 .. epoch[sessions[s].user]
    /\ \A g \in DOMAIN grants :
          /\ grants[g].kind \in {"reset", "state", "ticket"}
          /\ grants[g].status \in {"live", "used", "gone", "expired"}
          /\ grants[g].session \in -1 .. Len(sessions)
    /\ unmarked \subseteq DOMAIN sessions

\* When a logout or a password reset has revoked the sessions of a user,
\* no session of an earlier login is active, however it was refreshed since,
\* except for sessions that were issued by a request the revocation overlapped.
RevocationEndsSessions ==
    \A s \in DOMAIN sessions :
        sessions[s].status = "active" /\ ~sessions[s].late =>
            sessions[s].since = epoch[sessions[s].user]

\* Everything that is to be used once is: two sessions follow from one refresh
\* token only if the second request had read it before the first issued its
\* session, or the mark was lost; a reset token sets one password; two reset
\* tokens are alive only if their requests overlapped; and a sign-on state or
\* ticket is not used by a request that read it after another had used it.
UsedOnce ==
    /\ \A i, j \in DOMAIN sessions :
          i < j /\ sessions[i].parent = sessions[j].parent /\ sessions[j].parent # 0 =>
              sessions[j].known < i \/ sessions[j].parent \in unmarked
    /\ \A g \in DOMAIN grants : ~grants[g].reused /\ (grants[g].kind = "reset" => grants[g].uses <= 1)
    /\ \A i, j \in DOMAIN grants :
          /\ i < j
          /\ grants[i].kind = "reset" /\ grants[j].kind = "reset"
          /\ grants[i].status = "live" /\ grants[j].status = "live"
          => grants[j].known < i
=============================================================================
