------------------------------ MODULE Sessions ------------------------------
(***************************************************************************)
(* Accounts and refresh-token sessions (src/src/auth/auth.service.ts).     *)
(*                                                                         *)
(* A session is a Redis key refresh:{user}:{jti}; the refresh token is a   *)
(* JWT that carries user and jti.  A request is one call of register,      *)
(* login, refresh or logout; each of its Redis commands and SQL statements *)
(* is a step, and requests interleave between them.                        *)
(*                                                                         *)
(* The jti is a randomUUID(), so a token never carries the jti of another; *)
(* a token here is its jti.  Users are not deleted by any code.            *)
(***************************************************************************)
EXTENDS Integers, Durations

CONSTANTS
    Users,     \* accounts, each with its email address
    Members,   \* the accounts that exist at the start
    Tokens,    \* the refresh tokens that may ever be issued
    Requests,  \* the calls clients make
    Nobody,    \* the owner of a token not yet issued
    Careful,   \* users whose client has a token in flight at most once
    Fragile,   \* the requests whose process or connections may fail
    Lifetimes  \* the values JWT_REFRESH_TTL may have

ASSUME UsersAssumption ==
    /\ Members \subseteq Users
    /\ Careful \subseteq Users
    /\ Nobody \notin Users
ASSUME FragileAssumption == Fragile \subseteq Requests
ASSUME LifetimesAssumption == Lifetimes \subseteq Settings

VARIABLES
    ttl,       \* JWT_REFRESH_TTL
    users,     \* the accounts that exist (rows of User, with their wallets)
    owner,     \* the user each issued token belongs to
    sessions,  \* the tokens whose Redis key exists
    expired,   \* the tokens whose JWT has expired
    pc,        \* where each request is
    call,      \* what each request asked for
    listed,    \* the keys a revocation read with KEYS
    earlier,   \* history: the sessions there were when the request came
    late,      \* history: the requests whose token ran out before its key was read
    reply      \* the answer of each request

vars == <<ttl, users, owner, sessions, expired, pc, call, listed, earlier, late, reply>>

-----------------------------------------------------------------------------
(* Data. *)

\* A call names a user, by the email, or sends a token.
Accesses == [op : {"register", "login"}, user : Users]
Renewals == [op : {"refresh", "logout"}, token : Tokens]
NoCall == [op |-> "none"]
\* HTTP 409, 401 (thrice) and 500; 204 for a logout.
Outcomes == {"taken", "badCredentials", "invalid", "reused", "failed", "loggedOut"}
NoAnswer == [status |-> "none"]
Answers == [status : {"ok"}, token : Tokens] \cup [status : Outcomes]
Steps == {"idle", "find", "create", "check", "get", "rotate", "logout",
          "list", "wipe", "issue", "answered"}

Told(why) == [status |-> why]

InFlight(r) == pc[r] \notin {"idle", "answered"}
Presented(r, t) == call[r].op \in {"refresh", "logout"} /\ call[r].token = t

\* A client can only send a token that an answer brought it.
Given(t) == \E r \in Requests : reply[r].status = "ok" /\ reply[r].token = t

\* Variant of the operator below with a mistake in it, as are the others called
\* variants: the claims sub and jti of the token are swapped.
UserOfSwapped(r) == IF call[r].op \in {"register", "login"}
                      THEN call[r].user ELSE call[r].token

UserOf(r) == IF call[r].op \in {"register", "login"}
               THEN call[r].user ELSE owner[call[r].token]

SessionsOf(u) == {t \in sessions : owner[t] = u}

-----------------------------------------------------------------------------
(* Pieces of a step. *)

Goto(r, step) == pc' = [pc EXCEPT ![r] = step] /\ UNCHANGED reply

Answer(r, a) ==
    /\ pc' = [pc EXCEPT ![r] = "answered"]
    /\ reply' = [reply EXCEPT ![r] = a]

Ask(r, c) ==
    /\ pc[r] = "idle"
    /\ call' = [call EXCEPT ![r] = c]

-----------------------------------------------------------------------------
Init ==
    /\ ttl \in Lifetimes
    /\ users = Members
    /\ owner = [t \in Tokens |-> Nobody]
    /\ sessions = {}
    /\ expired = {}
    /\ pc = [r \in Requests |-> "idle"]
    /\ call = [r \in Requests |-> NoCall]
    /\ listed = [r \in Requests |-> {}]
    /\ earlier = [r \in Requests |-> {}]
    /\ late = {}
    /\ reply = [r \in Requests |-> NoAnswer]

-----------------------------------------------------------------------------
(* register and login. *)

CallRegister(r, u) ==
    /\ Ask(r, [op |-> "register", user |-> u])
    /\ Goto(r, "find")
    /\ UNCHANGED <<ttl, users, owner, sessions, expired, listed, earlier, late>>

\* findUnique by email, before the password is hashed.
FindEmail(r) ==
    LET taken == call[r].user \in users
    IN  /\ pc[r] = "find"
        /\ \/ taken /\ Answer(r, Told("taken"))
           \/ ~taken /\ Goto(r, "create")
        /\ UNCHANGED <<ttl, users, owner, sessions, expired, call, listed, earlier, late>>

\* Variant: the email has no unique constraint.
CreateUserAgain(r) ==
    /\ pc[r] = "create"
    /\ users' = users \cup {call[r].user}
    /\ Goto(r, "issue")
    /\ UNCHANGED <<ttl, owner, sessions, expired, call, listed, earlier, late>>

\* The transaction that creates the user and the wallet.  A violation of the
\* unique email is not caught: the caller is told of an internal error.
CreateUser(r) ==
    LET taken == call[r].user \in users
    IN  /\ pc[r] = "create"
        /\ \/ taken /\ Answer(r, Told("failed")) /\ UNCHANGED users
           \/ ~taken /\ Goto(r, "issue") /\ users' = users \cup {call[r].user}
        /\ UNCHANGED <<ttl, owner, sessions, expired, call, listed, earlier, late>>

CallLogin(r, u) ==
    /\ Ask(r, [op |-> "login", user |-> u])
    /\ Goto(r, "check")
    /\ UNCHANGED <<ttl, users, owner, sessions, expired, listed, earlier, late>>

\* The account must exist and the password match.
CheckCredentials(r) ==
    /\ pc[r] = "check"
    /\ \/ call[r].user \in users /\ Goto(r, "issue")
       \/ Answer(r, Told("badCredentials"))
    /\ UNCHANGED <<ttl, users, owner, sessions, expired, call, listed, earlier, late>>

-----------------------------------------------------------------------------
(* refresh and logout. *)

MaySend(t) ==
    /\ Given(t)
    /\ owner[t] \in Careful => \A s \in Requests : InFlight(s) => ~Presented(s, t)

\* verifyRefreshToken refuses a token past its expiry.
CallRefresh(r, t) ==
    /\ MaySend(t)
    /\ Ask(r, [op |-> "refresh", token |-> t])
    /\ earlier' = [earlier EXCEPT ![r] = SessionsOf(owner[t])]
    /\ \/ t \in expired /\ Answer(r, Told("invalid"))
       \/ t \notin expired /\ Goto(r, "get")
    /\ UNCHANGED <<ttl, users, owner, sessions, expired, listed, late>>

\* redis.get: a token without a session is taken for one used before, also when
\* it was still valid when it was verified and has run out since.
GetSession(r) ==
    LET t == call[r].token
    IN  /\ pc[r] = "get"
        /\ \/ t \in sessions /\ Goto(r, "rotate") /\ UNCHANGED late
           \/ /\ t \notin sessions /\ Goto(r, "list")
              /\ late' = IF t \in expired THEN late \cup {r} ELSE late
        /\ UNCHANGED <<ttl, users, owner, sessions, expired, call, listed, earlier>>

\* Variant: the token that was used is not deleted.
RotateKeepingUsed(r) ==
    /\ pc[r] = "rotate"
    /\ Goto(r, "issue")
    /\ UNCHANGED <<ttl, users, owner, sessions, expired, call, listed, earlier, late>>

\* redis.del of the used token; the user it names exists.
Rotate(r) ==
    /\ pc[r] = "rotate"
    /\ sessions' = sessions \ {call[r].token}
    /\ Goto(r, "issue")
    /\ UNCHANGED <<ttl, users, owner, expired, call, listed, earlier, late>>

\* revokeAllSessions, redis.keys.
ListSessions(r) ==
    /\ pc[r] = "list"
    /\ listed' = [listed EXCEPT ![r] = SessionsOf(UserOf(r))]
    /\ Goto(r, "wipe")
    /\ UNCHANGED <<ttl, users, owner, sessions, expired, call, earlier, late>>

\* Variant: only the first of the keys is deleted.
WipeSessionsFirst(r) ==
    /\ pc[r] = "wipe"
    /\ \/ listed[r] = {} /\ UNCHANGED sessions
       \/ \E t \in listed[r] : sessions' = sessions \ {t}
    /\ Answer(r, Told("reused"))
    /\ UNCHANGED <<ttl, users, owner, expired, call, listed, earlier, late>>

\* revokeAllSessions, redis.del of the keys read before.  When the connection
\* fails the sessions may have ended although the caller is told of an error.
WipeSessions(r) ==
    /\ pc[r] = "wipe"
    /\ sessions' = sessions \ listed[r]
    /\ \/ Answer(r, Told("reused"))
       \/ r \in Fragile /\ Answer(r, Told("failed"))
    /\ UNCHANGED <<ttl, users, owner, expired, call, listed, earlier, late>>

\* A logout takes expired tokens too.
CallLogout(r, t) ==
    /\ MaySend(t)
    /\ Ask(r, [op |-> "logout", token |-> t])
    /\ Goto(r, "logout")
    /\ UNCHANGED <<ttl, users, owner, sessions, expired, listed, earlier, late>>

\* Variant: the key that is deleted is one no session has.
EndSessionKeeping(r) ==
    /\ pc[r] = "logout"
    /\ Answer(r, Told("loggedOut"))
    /\ UNCHANGED <<ttl, users, owner, sessions, expired, call, listed, earlier, late>>

\* redis.del of the one session.
EndSession(r) ==
    /\ pc[r] = "logout"
    /\ sessions' = sessions \ {call[r].token}
    /\ \/ Answer(r, Told("loggedOut"))
       \/ r \in Fragile /\ Answer(r, Told("failed"))
    /\ UNCHANGED <<ttl, users, owner, expired, call, listed, earlier, late>>

-----------------------------------------------------------------------------
\* issueTokenPair: a fresh jti, redis.set, the answer.  Without a lifetime that
\* Redis takes there is no session, whatever the call has done so far.  When the
\* connection fails the session may be there although the caller is told of an
\* error.
IssueTokenPair(r, t) ==
    /\ pc[r] = "issue"
    /\ owner[t] = Nobody
    /\ \/ /\ Storable(ttl)
          /\ owner' = [owner EXCEPT ![t] = UserOf(r)]
          /\ sessions' = sessions \cup {t}
          /\ \/ Answer(r, [status |-> "ok", token |-> t])
             \/ r \in Fragile /\ Answer(r, Told("failed"))
       \/ /\ ~Storable(ttl)
          /\ Answer(r, Told("failed"))
          /\ UNCHANGED <<owner, sessions>>
    /\ UNCHANGED <<ttl, users, expired, call, listed, earlier, late>>

-----------------------------------------------------------------------------
(* Time and faults. *)

TokenExpires(t) ==
    /\ owner[t] # Nobody
    /\ t \notin expired
    /\ expired' = expired \cup {t}
    /\ UNCHANGED <<ttl, users, owner, sessions, pc, call, listed, earlier, late, reply>>

\* The key is set after the JWT is signed: if it lives as long it goes later.
SessionExpires(t) ==
    /\ t \in sessions
    /\ TtlToSeconds(ttl) < JwtSeconds(ttl) \/ t \in expired
    /\ sessions' = sessions \ {t}
    /\ UNCHANGED <<ttl, users, owner, expired, pc, call, listed, earlier, late, reply>>

\* The process dies or Redis or the database refuses a command: what the
\* request has done so far stays.
Crash(r) ==
    /\ r \in Fragile
    /\ InFlight(r)
    /\ Answer(r, Told("failed"))
    /\ UNCHANGED <<ttl, users, owner, sessions, expired, call, listed, earlier, late>>

-----------------------------------------------------------------------------
Step(r) ==
    \/ FindEmail(r) \/ CreateUser(r) \/ CheckCredentials(r)
    \/ GetSession(r) \/ Rotate(r) \/ ListSessions(r) \/ WipeSessions(r)
    \/ EndSession(r)
    \/ \E t \in Tokens : IssueTokenPair(r, t)

Next ==
    \/ \E r \in Requests, u \in Users : CallRegister(r, u) \/ CallLogin(r, u)
    \/ \E r \in Requests, t \in Tokens : CallRefresh(r, t) \/ CallLogout(r, t)
    \/ \E r \in Requests : Step(r)
    \/ \E r \in Requests : Crash(r)
    \/ \E t \in Tokens : TokenExpires(t) \/ SessionExpires(t)

Spec == Init /\ [][Next]_vars

-----------------------------------------------------------------------------
(* Properties. *)

\* Types: every variable holds what the service and its stores put there.
TypeOK ==
    /\ ttl \in Lifetimes
    /\ users \subseteq Users
    /\ owner \in [Tokens -> Users \cup {Nobody}]
    /\ sessions \subseteq {t \in Tokens : owner[t] # Nobody}
    /\ expired \subseteq {t \in Tokens : owner[t] # Nobody}
    /\ pc \in [Requests -> Steps]
    /\ call \in [Requests -> Accesses \cup Renewals \cup {NoCall}]
    /\ listed \in [Requests -> SUBSET Tokens]
    /\ earlier \in [Requests -> SUBSET Tokens]
    /\ late \subseteq Requests
    /\ reply \in [Requests -> Answers \cup {NoAnswer}]

\* Two registrations of one email never both succeed, although each of them
\* looked before either wrote.
RegisteredOnce ==
    \A r, s \in Requests :
        /\ call[r].op = "register" /\ reply[r].status = "ok"
        /\ call[s] = call[r] /\ reply[s].status = "ok"
        => r = s

\* Logging out is final for a client that waits for an answer before it sends a
\* token again: after a logout has been confirmed no refresh with its token gets
\* a new session, whatever was rotated, revoked or cut short before.
LogoutIsFinal ==
    [][\A r, s \in Requests :
          /\ call[r].op = "logout" /\ reply[r] = Told("loggedOut")
          /\ owner[call[r].token] \in Careful
          /\ Presented(s, call[r].token) /\ reply'[s].status = "ok"
          => reply[s].status = "ok"]_vars

\* When a refresh answers that all sessions have been revoked, every session
\* the user had when that refresh came has ended.
RevokedTogether ==
    \A r \in Requests :
        reply[r] = Told("reused") => earlier[r] \cap sessions = {}

\* Another request carries the token of this one, or it ran out while this one
\* was on its way from verifyRefreshToken to redis.get.
SentTwiceOrLate(r) ==
    \/ r \in late
    \/ \E q \in Requests \ {r} : Presented(q, call[r].token)

\* A user is told of a reuse only if some token of theirs was sent twice, or if
\* its age ended while a refresh with it was under way: neither the lifetimes of
\* key and token, nor a crash, nor what another user does looks like a reuse.
SingleUseNeverRevoked ==
    \A r \in Requests :
        reply[r] = Told("reused") =>
            \E s \in Requests :
                /\ call[s].op \in {"refresh", "logout"} /\ UserOf(s) = UserOf(r)
                /\ SentTwiceOrLate(s)

Renewed(r, t) == call[r].op = "refresh" /\ call[r].token = t /\ reply[r].status = "ok"
RotatedOnce(t) == \A r, s \in Requests : Renewed(r, t) /\ Renewed(s, t) => r = s

\* A client that waits for an answer before it sends a token again never gets
\* two new sessions for the old one, crashes or not.
CarefulRotatedOnce == \A t \in Tokens : owner[t] \in Careful => RotatedOnce(t)

\* What the API's documentation says of every client: a refresh token that has
\* been rotated is refused from then on.
TokenRotatedOnce == \A t \in Tokens : RotatedOnce(t)
=============================================================================
