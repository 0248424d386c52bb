--------------------------- MODULE SessionsProofs ---------------------------
(***************************************************************************)
(* Theorems about accounts and sessions for any users, tokens, lifetimes   *)
(* and any number of requests.                                             *)
(***************************************************************************)
EXTENDS Sessions, TLAPS

-----------------------------------------------------------------------------
(* Lifetimes. *)

\* A lifetime that ttlToSeconds takes gives the key at least as many seconds as
\* the token: a key never goes before its token.
THEOREM KeyOutlivesToken ==
    ASSUME NEW v \in Settings, Parsable(v)
    PROVE  JwtSeconds(v) <= TtlToSeconds(v)
<1> DEFINE n == v.amount
<1>1. n \in Nat
  BY DEF Settings
<1>2. CASE v.unit = "none"
  <2>1. JwtSeconds(v) = n \div 1000
    BY <1>1, <1>2 DEF JwtSeconds
  <2>3. TtlToSeconds(v) = n * 1
    BY <1>2 DEF TtlToSeconds, Multiplier
  <2> HIDE DEF n
  <2>2. n \div 1000 <= n * 1
    BY <1>1
  <2> QED
    BY <2>1, <2>2, <2>3
<1>3. CASE v.unit = "s"
  <2>1. JwtSeconds(v) = n /\ TtlToSeconds(v) = n * 1
    BY <1>3 DEF JwtSeconds, TtlToSeconds, Multiplier
  <2> QED
    BY <1>1, <2>1
<1>4. CASE v.unit = "m"
  <2>1. JwtSeconds(v) = n * 60 /\ TtlToSeconds(v) = n * 60
    BY <1>4 DEF JwtSeconds, TtlToSeconds, Multiplier
  <2> QED
    BY <1>1, <2>1
<1>5. CASE v.unit = "h"
  <2>1. JwtSeconds(v) = n * 3600 /\ TtlToSeconds(v) = n * 3600
    BY <1>5 DEF JwtSeconds, TtlToSeconds, Multiplier
  <2> QED
    BY <1>1, <2>1
<1>6. CASE v.unit = "d"
  <2>1. JwtSeconds(v) = n * 86400 /\ TtlToSeconds(v) = n * 86400
    BY <1>6 DEF JwtSeconds, TtlToSeconds, Multiplier
  <2> QED
    BY <1>1, <2>1
<1> QED
  BY <1>2, <1>3, <1>4, <1>5, <1>6 DEF Parsable

\* Both lifetimes are numbers.
LEMMA LifetimeInt ==
    ASSUME NEW v \in Settings, Parsable(v)
    PROVE  JwtSeconds(v) \in Int /\ TtlToSeconds(v) \in Int
<1> DEFINE n == v.amount
<1>1. n \in Nat
  BY DEF Settings
<1>2. \/ JwtSeconds(v) = n \div 1000 /\ TtlToSeconds(v) = n * 1
      \/ \E k \in {1, 60, 3600, 86400} : TtlToSeconds(v) = n * k /\ JwtSeconds(v) = n * k
      \/ JwtSeconds(v) = n /\ TtlToSeconds(v) = n * 1
  BY <1>1 DEF Parsable, JwtSeconds, TtlToSeconds, Multiplier
<1> HIDE DEF n
<1> QED
  BY <1>1, <1>2

-----------------------------------------------------------------------------
(* Types. *)

\* What a request is about at each of its steps; the token it carries has been
\* issued, and so has the one it is answered with.
Stages ==
    \A r \in Requests :
        /\ pc[r] = "idle" => call[r] = NoCall
        /\ pc[r] \in {"find", "create"} => call[r].op = "register"
        /\ pc[r] = "check" => call[r].op = "login"
        /\ pc[r] \in {"get", "rotate", "list", "wipe"} => call[r].op = "refresh"
        /\ pc[r] = "logout" => call[r].op = "logout"
        /\ pc[r] = "issue" => call[r].op \in {"register", "login", "refresh"}
        /\ call[r].op \in {"refresh", "logout"} => owner[call[r].token] # Nobody
        /\ pc[r] # "answered" => reply[r] = NoAnswer
        /\ reply[r].status = "ok" => owner[reply[r].token] # Nobody
        /\ reply[r] = Told("reused") => call[r].op = "refresh"

TInv == TypeOK /\ Stages

LEMMA InitTInv == Init => TInv
<1> SUFFICES ASSUME Init PROVE TInv
  OBVIOUS
<1>1. TypeOK
  BY UsersAssumption DEF Init, TypeOK, Steps
<1>2. Stages
  BY DEF Init, Stages, NoCall, NoAnswer, Told
<1> QED
  BY <1>1, <1>2 DEF TInv

\* A step that only sends a request on, or answers it without a token.
LEMMA MoveTyped ==
    ASSUME TInv, NEW r \in Requests, pc[r] # "idle", late' \subseteq late \cup {r},
           UNCHANGED <<ttl, users, owner, sessions, expired, call, listed, earlier>>,
           \/ /\ pc[r] = "find" /\ Goto(r, "create")
           \/ /\ pc[r] = "check" /\ Goto(r, "issue")
           \/ /\ pc[r] = "get" /\ Goto(r, "rotate")
           \/ /\ pc[r] = "get" /\ Goto(r, "list")
           \/ \E why \in Outcomes \ {"reused"} : Answer(r, Told(why))
    PROVE  TInv'
<1>1. pc' \in [Requests -> Steps] /\ reply' \in [Requests -> Answers \cup {NoAnswer}]
  BY DEF TInv, TypeOK, Goto, Answer, Steps, Answers, Told
<1>2. TypeOK'
  BY <1>1 DEF TInv, TypeOK
<1>3. Stages'
  BY DEF TInv, TypeOK, Stages, Goto, Answer, Told, Outcomes, NoAnswer, Steps
<1> QED
  BY <1>2, <1>3 DEF TInv

\* A client makes a call.
LEMMA CallTyped ==
    ASSUME TInv, NEW r \in Requests,
           \/ \E u \in Users : CallRegister(r, u) \/ CallLogin(r, u)
           \/ \E t \in Tokens : CallRefresh(r, t) \/ CallLogout(r, t)
    PROVE  TInv'
<1> DEFINE Made(c) ==
         /\ call' = [call EXCEPT ![r] = c] /\ pc[r] = "idle"
         /\ UNCHANGED <<ttl, users, owner, sessions, expired, listed, late>>
         /\ \/ c.op = "register" /\ Goto(r, "find")
            \/ c.op = "login" /\ Goto(r, "check")
            \/ c.op = "refresh" /\ (Answer(r, Told("invalid")) \/ Goto(r, "get"))
            \/ c.op = "logout" /\ Goto(r, "logout")
         /\ c.op \in {"refresh", "logout"} => owner[c.token] # Nobody
<1>1. PICK c \in Accesses \cup Renewals : Made(c)
  <2>1. ASSUME NEW u \in Users, CallRegister(r, u)
        PROVE  Made([op |-> "register", user |-> u])
    BY <2>1 DEF CallRegister, Ask
  <2>2. ASSUME NEW u \in Users, CallLogin(r, u)
        PROVE  Made([op |-> "login", user |-> u])
    BY <2>2 DEF CallLogin, Ask
  <2>3. ASSUME NEW t \in Tokens, CallRefresh(r, t)
        PROVE  Made([op |-> "refresh", token |-> t])
    BY <2>3 DEF CallRefresh, Ask, MaySend, Given, TInv, Stages
  <2>4. ASSUME NEW t \in Tokens, CallLogout(r, t)
        PROVE  Made([op |-> "logout", token |-> t])
    BY <2>4 DEF CallLogout, Ask, MaySend, Given, TInv, Stages
  <2>5. /\ \A u \in Users : /\ [op |-> "register", user |-> u] \in Accesses
                            /\ [op |-> "login", user |-> u] \in Accesses
        /\ \A t \in Tokens : /\ [op |-> "refresh", token |-> t] \in Renewals
                             /\ [op |-> "logout", token |-> t] \in Renewals
    BY DEF Accesses, Renewals
  <2> HIDE DEF Made
  <2> QED
    BY <2>1, <2>2, <2>3, <2>4, <2>5
<1>2. earlier' \in [Requests -> SUBSET Tokens]
  <2>1. /\ earlier \in [Requests -> SUBSET Tokens]
        /\ \A u : SessionsOf(u) \in SUBSET Tokens
    BY DEF TInv, TypeOK, SessionsOf
  <2>2. \/ earlier' = earlier
        \/ \E u : earlier' = [earlier EXCEPT ![r] = SessionsOf(u)]
    BY DEF CallRegister, CallLogin, CallRefresh, CallLogout
  <2> QED
    BY <2>1, <2>2
<1>3. /\ pc' \in [Requests -> Steps]
      /\ reply' \in [Requests -> Answers \cup {NoAnswer}]
      /\ call' \in [Requests -> Accesses \cup Renewals \cup {NoCall}]
  BY <1>1 DEF TInv, TypeOK, Goto, Answer, Steps, Answers, Told, Outcomes
<1>4. TypeOK'
  BY <1>1, <1>2, <1>3 DEF TInv, TypeOK
<1>5. Stages'
  BY <1>1 DEF TInv, TypeOK, Stages, Goto, Answer, Told, NoAnswer, NoCall
<1> QED
  BY <1>4, <1>5 DEF TInv

\* A step that ends sessions and, but for a rotation, answers.
LEMMA EndTyped ==
    ASSUME TInv, NEW r \in Requests, Rotate(r) \/ WipeSessions(r) \/ EndSession(r)
    PROVE  TInv'
<1>1. /\ sessions' \subseteq sessions /\ pc[r] \in {"rotate", "wipe", "logout"}
      /\ UNCHANGED <<ttl, users, owner, expired, call, listed, earlier, late>>
      /\ \/ pc[r] = "rotate" /\ Goto(r, "issue")
         \/ pc[r] = "wipe" /\ Answer(r, Told("reused"))
         \/ pc[r] = "logout" /\ Answer(r, Told("loggedOut"))
         \/ Answer(r, Told("failed"))
  BY DEF Rotate, WipeSessions, EndSession
<1>2. pc' \in [Requests -> Steps] /\ reply' \in [Requests -> Answers \cup {NoAnswer}]
  BY <1>1 DEF TInv, TypeOK, Goto, Answer, Steps, Answers, Told, Outcomes
<1>3. TypeOK'
  BY <1>1, <1>2 DEF TInv, TypeOK
<1>4. Stages'
  BY <1>1 DEF TInv, TypeOK, Stages, Goto, Answer, Told, NoAnswer
<1> QED
  BY <1>3, <1>4 DEF TInv

\* The keys a revocation reads are tokens.
LEMMA ListTyped ==
    ASSUME TInv, NEW r \in Requests, ListSessions(r)
    PROVE  TInv'
<1>1. SessionsOf(UserOf(r)) \subseteq Tokens
  BY DEF TInv, TypeOK, SessionsOf
<1>2. listed' \in [Requests -> SUBSET Tokens] /\ pc' \in [Requests -> Steps]
  BY <1>1 DEF TInv, TypeOK, ListSessions, Goto, Steps
<1>3. TypeOK'
  BY <1>2 DEF TInv, TypeOK, ListSessions, Goto
<1>4. Stages'
  BY DEF TInv, TypeOK, Stages, ListSessions, Goto
<1> QED
  BY <1>3, <1>4 DEF TInv

LEMMA CreateTyped ==
    ASSUME TInv, NEW r \in Requests, CreateUser(r)
    PROVE  TInv'
<1>1. call[r].user \in Users
  BY DEF CreateUser, TInv, TypeOK, Stages, Accesses, Renewals, NoCall
<1>2. pc' \in [Requests -> Steps] /\ reply' \in [Requests -> Answers \cup {NoAnswer}]
  BY DEF TInv, TypeOK, CreateUser, Goto, Answer, Steps, Answers, Told, Outcomes
<1>3. TypeOK'
  BY <1>1, <1>2 DEF TInv, TypeOK, CreateUser
<1>4. Stages'
  BY DEF TInv, TypeOK, Stages, CreateUser, Goto, Answer, Told, NoAnswer
<1> QED
  BY <1>3, <1>4 DEF TInv

\* The user a session is issued to is one.
LEMMA UserKnown ==
    ASSUME TInv, NEW r \in Requests, pc[r] = "issue"
    PROVE  UserOf(r) \in Users /\ UserOf(r) # Nobody
<1>1. CASE call[r].op \in {"register", "login"}
  <2>1. call[r].user \in Users
    BY <1>1 DEF TInv, TypeOK, Accesses, Renewals, NoCall
  <2> QED
    BY <1>1, <2>1, UsersAssumption DEF UserOf
<1>2. CASE call[r].op = "refresh"
  <2>1. call[r].token \in Tokens /\ owner[call[r].token] # Nobody
    BY <1>2 DEF TInv, TypeOK, Stages, Accesses, Renewals, NoCall
  <2> QED
    BY <1>2, <2>1, UsersAssumption DEF UserOf, TInv, TypeOK
<1> QED
  BY <1>1, <1>2 DEF TInv, Stages

LEMMA IssueTyped ==
    ASSUME TInv, NEW r \in Requests, NEW t \in Tokens, IssueTokenPair(r, t)
    PROVE  TInv'
<1>1. UserOf(r) \in Users /\ UserOf(r) # Nobody
  BY UserKnown DEF IssueTokenPair
<1> DEFINE u == UserOf(r)
<1>2. /\ pc[r] = "issue" /\ owner[t] = Nobody
      /\ UNCHANGED <<ttl, users, expired, call, listed, earlier, late>>
      /\ \/ UNCHANGED <<owner, sessions>>
         \/ owner' = [owner EXCEPT ![t] = u] /\ sessions' = sessions \cup {t}
      /\ \/ owner'[t] = u /\ Answer(r, [status |-> "ok", token |-> t])
         \/ Answer(r, Told("failed"))
  BY DEF IssueTokenPair, TInv, TypeOK
<1> HIDE DEF u
<1>3. u \in Users /\ u # Nobody
  BY <1>1 DEF u
<1>4. pc' \in [Requests -> Steps] /\ reply' \in [Requests -> Answers \cup {NoAnswer}]
  BY <1>2 DEF TInv, TypeOK, Answer, Steps, Answers, Told, Outcomes
<1>5. /\ owner' \in [Tokens -> Users \cup {Nobody}]
      /\ \A i \in Tokens : owner[i] # Nobody => owner'[i] = owner[i]
      /\ sessions' \subseteq {i \in Tokens : owner'[i] # Nobody}
  BY <1>2, <1>3 DEF TInv, TypeOK
<1>6. TypeOK'
  BY <1>2, <1>4, <1>5 DEF TInv, TypeOK
<1>7. Stages'
  <2>1. \A s \in Requests : call[s].op \in {"refresh", "logout"} => call[s].token \in Tokens
    BY DEF TInv, TypeOK, Accesses, Renewals, NoCall
  <2>2. \A s \in Requests : reply[s].status = "ok" => reply[s].token \in Tokens
    BY DEF TInv, TypeOK, Answers, NoAnswer, Outcomes
  <2> QED
    BY <1>2, <1>3, <1>5, <2>1, <2>2 DEF TInv, TypeOK, Stages, Answer, Told, NoAnswer
<1> QED
  BY <1>6, <1>7 DEF TInv

LEMMA AgeTyped ==
    ASSUME TInv, NEW t \in Tokens, TokenExpires(t) \/ SessionExpires(t)
    PROVE  TInv'
<1>1. TypeOK'
  BY DEF TInv, TypeOK, TokenExpires, SessionExpires
<1>2. Stages'
  BY DEF TInv, Stages, TokenExpires, SessionExpires
<1> QED
  BY <1>1, <1>2 DEF TInv

LEMMA NextTyped ==
    ASSUME TInv, Next
    PROVE  TInv'
<1>1. ASSUME NEW r \in Requests, FindEmail(r) \/ CheckCredentials(r) \/ GetSession(r) \/ Crash(r)
      PROVE  TInv'
  <2>1. /\ pc[r] # "idle" /\ late' \subseteq late \cup {r}
        /\ UNCHANGED <<ttl, users, owner, sessions, expired, call, listed, earlier>>
    BY <1>1 DEF FindEmail, CheckCredentials, GetSession, Crash, InFlight
  <2>2. \/ /\ pc[r] = "find" /\ Goto(r, "create")
        \/ /\ pc[r] = "check" /\ Goto(r, "issue")
        \/ /\ pc[r] = "get" /\ Goto(r, "rotate")
        \/ /\ pc[r] = "get" /\ Goto(r, "list")
        \/ \E why \in Outcomes \ {"reused"} : Answer(r, Told(why))
    BY <1>1 DEF FindEmail, CheckCredentials, GetSession, Crash, Outcomes
  <2> QED
    BY <2>1, <2>2, MoveTyped
<1>2. ASSUME NEW r \in Requests, Step(r)
      PROVE  TInv'
  BY <1>1, <1>2, CreateTyped, EndTyped, ListTyped, IssueTyped DEF Step
<1> QED
  BY <1>1, <1>2, CallTyped, AgeTyped DEF Next

LEMMA StutterTyped == ASSUME TInv, UNCHANGED vars PROVE TInv'
  BY DEF TInv, TypeOK, Stages, vars

\* The variables keep their types, and a request is always about what its step
\* expects.
LEMMA TypedAlways == Spec => []TInv
<1>1. TInv /\ [Next]_vars => TInv'
  BY NextTyped, StutterTyped
<1> QED
  BY <1>1, InitTInv, PTL DEF Spec

\* Types hold for any users, tokens and lifetimes.
THEOREM SessionsTypeCorrect == Spec => []TypeOK
  BY TypedAlways, PTL DEF TInv

-----------------------------------------------------------------------------
(* What one step does. *)

\* Accounts, tokens and answers stay what they are, and a session that has
\* ended stays ended; only a new token gets a session.
Kept ==
    /\ users \subseteq users'
    /\ expired \subseteq expired'
    /\ late \subseteq late'
    /\ \A t \in Tokens :
          /\ owner[t] # Nobody => owner'[t] = owner[t]
          /\ owner[t] # Nobody /\ t \notin sessions => t \notin sessions'
          /\ owner[t] = Nobody /\ owner'[t] # Nobody => t \in sessions'
    /\ \A r \in Requests :
          /\ pc[r] # "idle" => call'[r] = call[r] /\ earlier'[r] = earlier[r]
          /\ pc[r] = "answered" => pc'[r] = "answered" /\ reply'[r] = reply[r]

\* Where a request comes from when it gets to a step or to an answer.
Comes(r) ==
    /\ pc'[r] = "list" =>
          \/ pc[r] = "list"
          \/ /\ pc[r] = "get" /\ call[r].token \notin sessions
             /\ call[r].token \in expired => r \in late'
    /\ pc'[r] = "wipe" => \/ pc[r] = "wipe" /\ listed'[r] = listed[r]
                          \/ pc[r] = "list" /\ listed'[r] = SessionsOf(UserOf(r))
    /\ reply'[r] = Told("reused") =>
          \/ reply[r] = Told("reused")
          \/ pc[r] = "wipe" /\ sessions' = sessions \ listed[r]
    /\ reply'[r] = Told("loggedOut") =>
          \/ reply[r] = Told("loggedOut")
          \/ pc[r] = "logout" /\ sessions' = sessions \ {call[r].token}
    /\ pc'[r] = "rotate" => \/ pc[r] = "rotate"
                            \/ pc[r] = "get" /\ call[r].token \in sessions
    /\ pc'[r] = "issue" =>
          \/ pc[r] \in {"issue", "check"}
          \/ pc[r] = "rotate" /\ sessions' = sessions \ {call[r].token}
          \/ /\ pc[r] = "create" /\ call[r].user \notin users
             /\ users' = users \cup {call[r].user}
             /\ \A s \in Requests \ {r} : pc'[s] = pc[s] /\ reply'[s] = reply[s]
    /\ reply'[r].status = "ok" => \/ reply[r].status = "ok"
                                  \/ pc[r] = "issue" /\ pc'[r] = "answered"
    /\ pc[r] = "idle" =>
          \/ pc'[r] = "idle" /\ earlier'[r] = earlier[r] /\ call'[r] = call[r]
          \/ earlier'[r] = earlier[r] /\ call'[r].op \in {"register", "login"}
          \/ /\ call'[r].op \in {"refresh", "logout"}
             /\ earlier'[r] = earlier[r] \/ earlier'[r] = SessionsOf(UserOf(r))'
             /\ owner'[call'[r].token] \in Careful =>
                   \A s \in Requests \ {r} :
                      InFlight(s)' => ~Presented(s, call[r].token)'

\* A request that does not move comes from where it is.
LEMMA Still ==
    ASSUME NEW r \in Requests, pc'[r] = pc[r], reply'[r] = reply[r], listed'[r] = listed[r],
           call'[r] = call[r], earlier'[r] = earlier[r]
    PROVE  Comes(r)
  BY DEF Comes

\* Steps that leave accounts, tokens and what requests are about alone.
LEMMA KeptByEnding ==
    ASSUME TInv, NEW q \in Requests, pc[q] # "answered", sessions' \subseteq sessions,
           users \subseteq users', expired \subseteq expired', late \subseteq late',
           UNCHANGED <<owner, call, earlier>>,
           \A r \in Requests \ {q} : pc'[r] = pc[r] /\ reply'[r] = reply[r]
    PROVE  Kept
  BY DEF Kept

LEMMA StepKept ==
    ASSUME TInv, NEW q \in Requests, Step(q) \/ Crash(q)
    PROVE  Kept
<1>1. /\ pc[q] # "answered" /\ late \subseteq late' /\ UNCHANGED <<call, earlier, expired>>
      /\ \A r \in Requests \ {q} : pc'[r] = pc[r] /\ reply'[r] = reply[r]
  BY DEF TInv, TypeOK, Step, FindEmail, CreateUser, CheckCredentials, GetSession, Rotate,
         ListSessions, WipeSessions, EndSession, IssueTokenPair, Crash, InFlight, Goto, Answer
<1>2. CASE \E t \in Tokens : IssueTokenPair(q, t)
  <2>1. PICK t \in Tokens : IssueTokenPair(q, t)
    BY <1>2
  <2>2. /\ owner[t] = Nobody /\ users' = users
        /\ \/ UNCHANGED <<owner, sessions>>
           \/ owner' = [owner EXCEPT ![t] = UserOf(q)] /\ sessions' = sessions \cup {t}
    BY <2>1 DEF IssueTokenPair
  <2> QED
    BY <1>1, <2>2 DEF TInv, TypeOK, Kept
<1>3. CASE ~ \E t \in Tokens : IssueTokenPair(q, t)
  <2>1. /\ sessions' \subseteq sessions /\ users \subseteq users' /\ UNCHANGED owner
    BY <1>3 DEF Step, FindEmail, CreateUser, CheckCredentials, GetSession, Rotate,
       ListSessions, WipeSessions, EndSession, Crash
  <2> QED
    BY <1>1, <2>1, KeptByEnding
<1> QED
  BY <1>2, <1>3

LEMMA StepComes ==
    ASSUME TInv, NEW q \in Requests, Step(q) \/ Crash(q)
    PROVE  \A r \in Requests : Comes(r)
<1>1. /\ pc[q] # "idle" /\ UNCHANGED <<call, earlier>>
      /\ \A r \in Requests \ {q} :
            pc'[r] = pc[r] /\ reply'[r] = reply[r] /\ listed'[r] = listed[r]
  BY DEF TInv, TypeOK, Step, FindEmail, CreateUser, CheckCredentials, GetSession, Rotate,
         ListSessions, WipeSessions, EndSession, IssueTokenPair, Crash, InFlight, Goto, Answer
<1>2. ASSUME NEW r \in Requests, r # q
      PROVE  Comes(r)
  BY <1>1, <1>2, Still
<1>3. pc'[q] # pc[q] /\ pc \in [Requests -> Steps] /\ reply \in [Requests -> Answers \cup {NoAnswer}]
  BY DEF TInv, TypeOK, Step, FindEmail, CreateUser, CheckCredentials, GetSession, Rotate,
         ListSessions, WipeSessions, EndSession, IssueTokenPair, Crash, InFlight, Goto, Answer
<1>4. CASE FindEmail(q) \/ CheckCredentials(q) \/ Crash(q)
  <2>1. \/ pc'[q] = "create" /\ reply' = reply
        \/ pc[q] = "check" /\ pc'[q] = "issue" /\ reply' = reply
        \/ pc'[q] = "answered" /\ reply'[q] \in {Told("taken"), Told("badCredentials"), Told("failed")}
    BY <1>3, <1>4 DEF FindEmail, CheckCredentials, Crash, Goto, Answer
  <2> QED
    BY <1>1, <1>2, <2>1 DEF Comes, Told
<1>5. CASE CreateUser(q)
  <2>1. Comes(q)
    BY <1>1, <1>3, <1>5 DEF CreateUser, Goto, Answer, Comes, Told
  <2> QED
    BY <1>2, <2>1
<1>6. CASE GetSession(q)
  <2>1. Comes(q)
    BY <1>1, <1>3, <1>6 DEF GetSession, Goto, Comes
  <2> QED
    BY <1>2, <2>1
<1>7. CASE Rotate(q)
  <2>1. Comes(q)
    BY <1>1, <1>3, <1>7 DEF Rotate, Goto, Comes
  <2> QED
    BY <1>2, <2>1
<1>8. CASE ListSessions(q)
  <2>1. Comes(q)
    <3>1. listed'[q] = SessionsOf(UserOf(q))
      BY <1>8 DEF ListSessions, TInv, TypeOK
    <3> QED
      BY <1>1, <1>3, <1>8, <3>1 DEF ListSessions, Goto, Comes
  <2> QED
    BY <1>2, <2>1
<1>9. CASE WipeSessions(q) \/ EndSession(q)
  <2>1. Comes(q)
    BY <1>1, <1>3, <1>9 DEF WipeSessions, EndSession, Answer, Comes, Told
  <2> QED
    BY <1>2, <2>1
<1>10. CASE \E t \in Tokens : IssueTokenPair(q, t)
  <2>1. Comes(q)
    BY <1>1, <1>3, <1>10 DEF IssueTokenPair, Answer, Comes, Told
  <2> QED
    BY <1>2, <2>1
<1> QED
  BY <1>4, <1>5, <1>6, <1>7, <1>8, <1>9, <1>10 DEF Step

LEMMA CallKept ==
    ASSUME TInv, NEW q \in Requests,
           \/ \E u \in Users : CallRegister(q, u) \/ CallLogin(q, u)
           \/ \E t \in Tokens : CallRefresh(q, t) \/ CallLogout(q, t)
    PROVE  Kept /\ \A r \in Requests : Comes(r)
<1>1. /\ pc[q] = "idle" /\ UNCHANGED <<users, owner, sessions, expired, listed, late>>
      /\ \A r \in Requests \ {q} :
            /\ pc'[r] = pc[r] /\ reply'[r] = reply[r]
            /\ call'[r] = call[r] /\ earlier'[r] = earlier[r]
  BY DEF TInv, TypeOK, CallRegister, CallLogin, CallRefresh, CallLogout, Ask, Goto, Answer
<1>2. Kept
  BY <1>1 DEF Kept
<1>3. ASSUME NEW r \in Requests, r # q
      PROVE  Comes(r)
  BY <1>1, <1>3, Still
<1>4. CASE \E u \in Users : CallRegister(q, u) \/ CallLogin(q, u)
  <2>1. PICK u \in Users : CallRegister(q, u) \/ CallLogin(q, u)
    BY <1>4
  <2>2. /\ call'[q].op \in {"register", "login"} /\ pc'[q] \in {"find", "check"}
        /\ UNCHANGED <<reply, earlier>>
    BY <2>1 DEF CallRegister, CallLogin, Ask, Goto, TInv, TypeOK
  <2> QED
    BY <1>1, <1>2, <1>3, <2>2 DEF Comes
<1>5. CASE \E t \in Tokens : CallRefresh(q, t) \/ CallLogout(q, t)
  <2>1. PICK t \in Tokens : CallRefresh(q, t) \/ CallLogout(q, t)
    BY <1>5
  <2>2. /\ call'[q].op \in {"refresh", "logout"} /\ call'[q].token = t
        /\ earlier'[q] = earlier[q] \/ earlier'[q] = SessionsOf(owner[t])
        /\ pc'[q] \in {"get", "logout", "answered"}
        /\ reply'[q] = reply[q] \/ reply'[q] = Told("invalid")
    BY <2>1 DEF CallRefresh, CallLogout, Ask, Goto, Answer, TInv, TypeOK
  <2>3. UserOf(q)' = owner[t] /\ SessionsOf(UserOf(q))' = SessionsOf(owner[t])
    BY <1>1, <2>2 DEF UserOf, SessionsOf
  <2>4. ASSUME owner[t] \in Careful, NEW s \in Requests \ {q}, InFlight(s)'
        PROVE  ~Presented(s, call[q].token)'
    BY <1>1, <2>1, <2>2, <2>4 DEF CallRefresh, CallLogout, MaySend, InFlight, Presented
  <2>5. owner'[call'[q].token] \in Careful =>
           \A s \in Requests \ {q} : InFlight(s)' => ~Presented(s, call[q].token)'
    BY <1>1, <2>2, <2>4
  <2>6. Comes(q)
    BY <1>1, <2>2, <2>3, <2>5 DEF Comes, Told
  <2> QED
    BY <1>2, <1>3, <2>6
<1> QED
  BY <1>4, <1>5

\* Every step keeps what there is, and takes requests along these ways only.
LEMMA NextKept ==
    ASSUME TInv, Next
    PROVE  Kept /\ \A r \in Requests : Comes(r)
<1>1. ASSUME NEW t \in Tokens, TokenExpires(t) \/ SessionExpires(t)
      PROVE  Kept /\ \A r \in Requests : Comes(r)
  BY <1>1, Still DEF TokenExpires, SessionExpires, Kept
<1> QED
  BY <1>1, StepKept, StepComes, CallKept DEF Next

\* The token a request carries has been issued and keeps its user.
LEMMA Carried ==
    ASSUME TInv, Kept, NEW r \in Requests, call[r].op \in {"refresh", "logout"}
    PROVE  /\ call[r].token \in Tokens /\ owner[call[r].token] # Nobody
           /\ UserOf(r) = owner[call[r].token]
           /\ call'[r] = call[r] /\ owner'[call[r].token] = owner[call[r].token]
<1>1. call[r].token \in Tokens
  BY DEF TInv, TypeOK, Accesses, Renewals, NoCall
<1>2. owner[call[r].token] # Nobody /\ pc[r] # "idle"
  BY DEF TInv, Stages, NoCall
<1> QED
  BY <1>1, <1>2 DEF UserOf, Kept

-----------------------------------------------------------------------------
(* Accounts. *)

Registering(r) ==
    call[r].op = "register" /\ (pc[r] = "issue" \/ reply[r].status = "ok")

\* Who has come past the creation of an account has one, and alone.
Registrations ==
    \A r \in Requests :
        Registering(r) =>
            /\ call[r].user \in users
            /\ \A s \in Requests : Registering(s) /\ call[s] = call[r] => r = s

LEMMA NextRegistrations ==
    ASSUME TInv, Registrations, Next
    PROVE  Registrations'
<1>1. Kept /\ \A r \in Requests : Comes(r)
  BY NextKept
<1> DEFINE Created(r) ==
      /\ pc[r] = "create" /\ call[r].user \notin users
      /\ users' = users \cup {call[r].user}
      /\ \A s \in Requests \ {r} : pc'[s] = pc[s] /\ reply'[s] = reply[s]
<1>2. ASSUME NEW r \in Requests, Registering(r)'
      PROVE  call'[r] = call[r] /\ (Registering(r) \/ Created(r))
  <2>1. \/ pc[r] \in {"issue", "check", "rotate"}
        \/ Created(r)
        \/ reply[r].status = "ok"
    BY <1>1, <1>2 DEF Comes, Registering
  <2>2. pc[r] # "idle"
    BY <2>1 DEF TInv, Stages, NoAnswer
  <2>3. call'[r] = call[r]
    BY <1>1, <2>2 DEF Kept
  <2>4. pc[r] \notin {"check", "rotate"}
    BY <1>2, <2>3 DEF TInv, Stages, Registering
  <2> QED
    BY <1>2, <2>1, <2>3, <2>4 DEF Registering
<1>3. ASSUME NEW r \in Requests, Registering(r)'
      PROVE  call'[r].user \in users'
  BY <1>1, <1>2, <1>3 DEF Registrations, Kept
<1>4. ASSUME NEW r \in Requests, NEW s \in Requests, Registering(r)', Registering(s)',
             call'[s] = call'[r]
      PROVE  r = s
  <2>1. call[s] = call[r]
    BY <1>2, <1>4
  <2>2. CASE Registering(r) /\ Registering(s)
    BY <2>1, <2>2 DEF Registrations
  <2>3. CASE Registering(r) /\ Created(s)
    BY <2>1, <2>3 DEF Registrations
  <2>4. CASE Created(r) /\ Registering(s)
    BY <2>1, <2>4 DEF Registrations
  <2>5. CASE Created(r) /\ Created(s)
    <3>1. ASSUME r # s PROVE FALSE
      <4>1. pc'[s] = pc[s] /\ reply'[s] = reply[s]
        BY <2>5, <3>1
      <4>2. pc[s] = "create" /\ reply[s] = NoAnswer
        BY <2>5 DEF TInv, Stages
      <4> QED
        BY <1>4, <4>1, <4>2 DEF Registering, NoAnswer
    <3> QED
      BY <3>1
  <2> QED
    BY <1>2, <1>4, <2>2, <2>3, <2>4, <2>5
<1> QED
  BY <1>3, <1>4 DEF Registrations

\* Of two registrations of one email at most one succeeds.
THEOREM RegisteredOnceAlways == Spec => []RegisteredOnce
<1>1. Init => Registrations
  BY DEF Init, Registrations, Registering, NoCall
<1>2. TInv /\ Registrations /\ [Next]_vars => Registrations'
  <2>1. ASSUME Registrations, UNCHANGED vars PROVE Registrations'
    BY <2>1 DEF Registrations, Registering, vars
  <2> QED
    BY <2>1, NextRegistrations
<1>3. Registrations => RegisteredOnce
  BY DEF Registrations, Registering, RegisteredOnce
<1> QED
  BY <1>1, <1>2, <1>3, TypedAlways, PTL DEF Spec

-----------------------------------------------------------------------------
(* Revocations. *)

\* A user one of whose tokens was sent twice, or ran out on its way.
Misused(u) ==
    \E s \in Requests :
        call[s].op \in {"refresh", "logout"} /\ UserOf(s) = u /\ SentTwiceOrLate(s)

\* A session has ended because its token was carried by a request that is past
\* its end, because of its age, or because its user has misused a token; who lists
\* sessions to end them, or has, belongs to such a user.
Endings ==
    /\ sessions # {} => Storable(ttl)
    /\ \A t \in Tokens :
          owner[t] # Nobody /\ t \notin sessions =>
              \/ Misused(owner[t])
              \/ t \in expired
              \/ \E r \in Requests : Presented(r, t) /\ pc[r] \in {"issue", "answered"}
    /\ \A r \in Requests :
          /\ pc[r] \in {"list", "wipe"} \/ reply[r] = Told("reused") =>
                Misused(owner[call[r].token])
          /\ pc[r] = "wipe" => \A t \in listed[r] : owner[t] = owner[call[r].token]

LEMMA PresentedKept ==
    ASSUME TInv, Kept, NEW r \in Requests, NEW t \in Tokens, Presented(r, t)
    PROVE  Presented(r, t)'
  BY Carried DEF Presented

LEMMA MisusedKept ==
    ASSUME TInv, Kept, NEW u, Misused(u)
    PROVE  Misused(u)'
<1>1. PICK s \in Requests :
         call[s].op \in {"refresh", "logout"} /\ UserOf(s) = u /\ SentTwiceOrLate(s)
  BY DEF Misused
<1>2. /\ call[s].token \in Tokens /\ UserOf(s) = owner[call[s].token]
      /\ call'[s] = call[s] /\ owner'[call[s].token] = owner[call[s].token]
  BY <1>1, Carried
<1>3. UserOf(s)' = u
  BY <1>1, <1>2 DEF UserOf
<1>4. PICK t \in Tokens : t = call[s].token
  BY <1>2
<1>5. ASSUME NEW q \in Requests \ {s}, Presented(q, t)
      PROVE  Presented(q, t)'
  BY <1>5, PresentedKept
<1>6. SentTwiceOrLate(s)'
  <2>1. CASE s \in late
    BY <2>1 DEF Kept, SentTwiceOrLate
  <2>2. CASE \E q \in Requests \ {s} : Presented(q, t)
    BY <1>2, <1>4, <1>5, <2>2 DEF SentTwiceOrLate
  <2> QED
    BY <1>1, <1>4, <2>1, <2>2 DEF SentTwiceOrLate
<1> QED
  BY <1>1, <1>2, <1>3, <1>6 DEF Misused

\* The same for the user of a token.
LEMMA OwnerMisused ==
    ASSUME TInv, Kept, NEW t \in Tokens, owner[t] # Nobody, Misused(owner[t])
    PROVE  Misused(owner[t])'
<1>1. PICK u : u = owner[t]
  OBVIOUS
<1>2. owner'[t] = u
  BY <1>1 DEF Kept
<1>3. Misused(u)'
  BY <1>1, MisusedKept
<1> QED
  BY <1>2, <1>3

\* What ends a session in one step.
LEMMA EndedBy ==
    ASSUME TInv, Endings, Next, Kept,
           NEW t \in Tokens, t \in sessions, t \notin sessions'
    PROVE  \/ Misused(owner[t])'
           \/ t \in expired'
           \/ \E r \in Requests : Presented(r, t)' /\ pc'[r] \in {"issue", "answered"}
<1>1. owner[t] # Nobody /\ owner'[t] = owner[t]
  BY DEF TInv, TypeOK, Kept
<1>2. ASSUME NEW r \in Requests, Rotate(r) \/ EndSession(r)
      PROVE  Presented(r, t)' /\ pc'[r] \in {"issue", "answered"}
  <2>1. t = call[r].token /\ pc'[r] \in {"issue", "answered"} /\ pc[r] \in {"rotate", "logout"}
    BY <1>2 DEF Rotate, EndSession, Goto, Answer, TInv, TypeOK
  <2>2. Presented(r, t)
    BY <2>1 DEF Presented, TInv, Stages
  <2> QED
    BY <2>1, <2>2, PresentedKept
<1>3. ASSUME NEW r \in Requests, WipeSessions(r)
      PROVE  Misused(owner[t])'
  <2>1. pc[r] = "wipe" /\ t \in listed[r]
    BY <1>3 DEF WipeSessions
  <2>2. Misused(owner[t])
    BY <2>1 DEF Endings
  <2> QED
    BY <1>1, <2>2, OwnerMisused
<1>4. ASSUME NEW i \in Tokens, SessionExpires(i)
      PROVE  t \in expired'
  <2>1. Storable(ttl) /\ ttl \in Settings
    BY LifetimesAssumption DEF Endings, TInv, TypeOK
  <2>2. JwtSeconds(ttl) <= TtlToSeconds(ttl)
    BY <2>1, KeyOutlivesToken DEF Storable
  <2>3. ~(TtlToSeconds(ttl) < JwtSeconds(ttl))
    <3>1. JwtSeconds(ttl) \in Int /\ TtlToSeconds(ttl) \in Int
      BY <2>1, LifetimeInt DEF Storable
    <3> QED
      BY <2>2, <3>1
  <2>4. i = t /\ t \in expired
    BY <1>4, <2>3 DEF SessionExpires
  <2> QED
    BY <2>4 DEF Kept
<1>5. \/ \E r \in Requests : Rotate(r) \/ EndSession(r) \/ WipeSessions(r)
      \/ \E i \in Tokens : SessionExpires(i)
  <2>1. sessions' # sessions
    OBVIOUS
  <2>2. ASSUME NEW r \in Requests, Step(r), ~(Rotate(r) \/ EndSession(r) \/ WipeSessions(r))
        PROVE  sessions \subseteq sessions'
    BY <2>2 DEF Step, FindEmail, CreateUser, CheckCredentials, GetSession, ListSessions,
                IssueTokenPair
  <2>3. ASSUME NEW r \in Requests,
               \/ Crash(r)
               \/ \E u \in Users : CallRegister(r, u) \/ CallLogin(r, u)
               \/ \E i \in Tokens : CallRefresh(r, i) \/ CallLogout(r, i)
        PROVE  sessions \subseteq sessions'
    BY <2>3 DEF Crash, CallRegister, CallLogin, CallRefresh, CallLogout
  <2>4. ASSUME NEW i \in Tokens, TokenExpires(i)
        PROVE  sessions \subseteq sessions'
    BY <2>4 DEF TokenExpires
  <2> QED
    BY <2>1, <2>2, <2>3, <2>4 DEF Next
<1> QED
  BY <1>2, <1>3, <1>4, <1>5

LEMMA NextEndings ==
    ASSUME TInv, Endings, Next
    PROVE  Endings'
<1>1. Kept /\ \A r \in Requests : Comes(r)
  BY NextKept
<1>2. (sessions # {} => Storable(ttl))'
  <2>1. CASE \E r \in Requests, t \in Tokens : IssueTokenPair(r, t)
    BY <2>1 DEF IssueTokenPair, Endings
  <2>2. CASE ~ \E r \in Requests, t \in Tokens : IssueTokenPair(r, t)
    <3>1. sessions' \subseteq sessions /\ ttl' = ttl
      BY <2>2 DEF Next, Step, FindEmail, CreateUser, CheckCredentials, GetSession, Rotate,
         ListSessions, WipeSessions, EndSession, Crash, CallRegister, CallLogin, CallRefresh,
         CallLogout, Ask, TokenExpires, SessionExpires
    <3> QED
      BY <3>1 DEF Endings
  <2> QED
    BY <2>1, <2>2
<1>3. ASSUME NEW t \in Tokens, owner'[t] # Nobody, t \notin sessions'
      PROVE  \/ Misused(owner[t])'
             \/ t \in expired'
             \/ \E r \in Requests : Presented(r, t)' /\ pc'[r] \in {"issue", "answered"}
  <2>1. owner[t] # Nobody /\ owner'[t] = owner[t]
    BY <1>1, <1>3 DEF Kept
  <2>2. CASE t \in sessions
    BY <1>1, <1>3, <2>2, EndedBy
  <2>3. CASE t \notin sessions /\ Misused(owner[t])
    BY <1>1, <2>1, <2>3, OwnerMisused
  <2>4. ASSUME NEW r \in Requests, Presented(r, t), pc[r] \in {"issue", "answered"}
        PROVE  Presented(r, t)' /\ pc'[r] \in {"issue", "answered"}
    <3>1. pc'[r] \in {"issue", "answered"}
      <4>1. CASE pc[r] = "answered"
        BY <1>1, <4>1 DEF Kept
      <4>2. CASE pc[r] = "issue"
        BY <4>2 DEF Next, Step, FindEmail, CreateUser, CheckCredentials, GetSession, Rotate,
           ListSessions, WipeSessions, EndSession, IssueTokenPair, Crash, CallRegister,
           CallLogin, CallRefresh, CallLogout, Ask, TokenExpires, SessionExpires, Goto,
           Answer, TInv, TypeOK
      <4> QED
        BY <2>4, <4>1, <4>2
    <3> QED
      BY <1>1, <2>4, <3>1, PresentedKept
  <2>5. CASE t \in expired
    BY <1>1, <2>5 DEF Kept
  <2> QED
    BY <2>1, <2>2, <2>3, <2>4, <2>5 DEF Endings
<1>4. ASSUME NEW r \in Requests,
             pc'[r] \in {"list", "wipe"} \/ reply'[r] = Told("reused")
      PROVE  /\ call[r].op = "refresh"
             /\ Misused(owner[call[r].token]) \/ r \in late'
  <2>1. \/ pc[r] \in {"list", "wipe"} \/ reply[r] = Told("reused")
        \/ /\ pc[r] = "get" /\ call[r].token \notin sessions
           /\ call[r].token \in expired => r \in late'
    BY <1>1, <1>4 DEF Comes
  <2>2. call[r].op = "refresh"
    BY <2>1 DEF TInv, Stages
  <2>3. call[r].token \in Tokens /\ owner[call[r].token] # Nobody /\ UserOf(r) = owner[call[r].token]
    BY <1>1, <2>2, Carried
  <2>4. CASE /\ pc[r] = "get" /\ call[r].token \notin sessions
             /\ call[r].token \in expired => r \in late'
    <3> DEFINE t == call[r].token
    <3>1. ASSUME NEW s \in Requests, Presented(s, t), pc[s] \in {"issue", "answered"}
          PROVE  Misused(owner[t])
      <4>1. s # r
        BY <2>4, <3>1
      <4> QED
        BY <2>2, <2>3, <3>1, <4>1 DEF Misused, SentTwiceOrLate
    <3>2. \/ Misused(owner[t]) \/ t \in expired
          \/ \E s \in Requests : Presented(s, t) /\ pc[s] \in {"issue", "answered"}
      BY <2>3, <2>4 DEF Endings
    <3> QED
      BY <2>2, <2>4, <3>1, <3>2
  <2>5. CASE pc[r] \in {"list", "wipe"} \/ reply[r] = Told("reused")
    BY <2>2, <2>5 DEF Endings
  <2> QED
    BY <2>1, <2>4, <2>5
<1>5. ASSUME NEW r \in Requests,
             pc'[r] \in {"list", "wipe"} \/ reply'[r] = Told("reused")
      PROVE  Misused(owner[call[r].token])'
  <2>1. call[r].op = "refresh" /\ (Misused(owner[call[r].token]) \/ r \in late')
    BY <1>4, <1>5
  <2>2. /\ call[r].token \in Tokens /\ owner[call[r].token] # Nobody
        /\ call'[r] = call[r] /\ owner'[call[r].token] = owner[call[r].token]
    BY <1>1, <2>1, Carried
  <2>3. CASE Misused(owner[call[r].token])
    <3>1. PICK u : u = owner[call[r].token]
      OBVIOUS
    <3>2. Misused(u)'
      BY <1>1, <2>3, <3>1, MisusedKept
    <3>3. owner'[call'[r].token] = u
      BY <2>2, <3>1
    <3> QED
      BY <3>2, <3>3
  <2>4. CASE r \in late'
    <3>1. UserOf(r)' = owner'[call'[r].token] /\ call'[r].op = "refresh"
      BY <2>1, <2>2 DEF UserOf
    <3> QED
      BY <2>4, <3>1 DEF Misused, SentTwiceOrLate
  <2> QED
    BY <2>1, <2>3, <2>4
<1>6. ASSUME NEW r \in Requests, pc'[r] = "wipe", NEW t \in listed'[r]
      PROVE  owner'[t] = owner'[call'[r].token]
  <2>1. call[r].op = "refresh"
    BY <1>4, <1>6
  <2>2. /\ call[r].token \in Tokens /\ owner[call[r].token] # Nobody
        /\ UserOf(r) = owner[call[r].token]
        /\ call'[r] = call[r] /\ owner'[call[r].token] = owner[call[r].token]
    BY <1>1, <2>1, Carried
  <2>3. \/ pc[r] = "wipe" /\ t \in listed[r]
        \/ t \in SessionsOf(UserOf(r))
    BY <1>1, <1>6 DEF Comes
  <2>4. owner[t] = owner[call[r].token] /\ t \in Tokens
    BY <2>2, <2>3 DEF Endings, SessionsOf, TInv, TypeOK
  <2> QED
    BY <1>1, <2>2, <2>4 DEF Kept
<1> QED
  BY <1>2, <1>3, <1>5, <1>6 DEF Endings

\* A user is told of a reuse only if a token of theirs was sent twice, or ran out
\* while a refresh with it was under way, for any lifetime ttlToSeconds takes.
THEOREM SingleUseNeverRevokedAlways == Spec => []SingleUseNeverRevoked
<1>1. Init => Endings
  BY DEF Init, Endings, Told, NoAnswer
<1>2. TInv /\ Endings /\ [Next]_vars => Endings'
  <2>1. ASSUME Endings, UNCHANGED vars PROVE Endings'
    BY <2>1 DEF Endings, Misused, SentTwiceOrLate, UserOf, Presented, vars
  <2> QED
    BY <2>1, NextEndings
<1>3. TInv /\ Endings => SingleUseNeverRevoked
  <2>1. ASSUME TInv, Endings, NEW r \in Requests, reply[r] = Told("reused")
        PROVE  Misused(UserOf(r))
    BY <2>1 DEF Endings, TInv, Stages, UserOf
  <2> QED
    BY <2>1 DEF Misused, SingleUseNeverRevoked
<1> QED
  BY <1>1, <1>2, <1>3, TypedAlways, PTL DEF Spec

\* What a refresh saw when it came is gone when it answers that it revoked.
Sweeps ==
    \A r \in Requests :
        /\ \A t \in earlier[r] :
              call[r].op \in {"refresh", "logout"} /\ owner[t] = owner[call[r].token]
        /\ pc[r] = "wipe" => earlier[r] \cap sessions \subseteq listed[r]
        /\ reply[r] = Told("reused") => earlier[r] \cap sessions = {}

LEMMA NextSweeps ==
    ASSUME TInv, Sweeps, Next
    PROVE  Sweeps'
<1>1. Kept /\ \A r \in Requests : Comes(r)
  BY NextKept
<1>2. ASSUME NEW r \in Requests, NEW t \in earlier'[r]
      PROVE  call'[r].op \in {"refresh", "logout"} /\ owner'[t] = owner'[call'[r].token]
  <2>1. CASE t \in earlier[r]
    <3>1. call[r].op \in {"refresh", "logout"} /\ owner[t] = owner[call[r].token]
      BY <2>1 DEF Sweeps
    <3>2. /\ owner[call[r].token] # Nobody /\ call'[r] = call[r]
          /\ owner'[call[r].token] = owner[call[r].token]
      BY <1>1, <3>1, Carried
    <3>3. t \in Tokens
      BY <2>1 DEF TInv, TypeOK
    <3> QED
      BY <1>1, <3>1, <3>2, <3>3 DEF Kept
  <2>2. CASE t \notin earlier[r]
    <3>1. pc[r] = "idle"
      BY <1>1, <1>2, <2>2 DEF Kept
    <3>2. call'[r].op \in {"refresh", "logout"} /\ t \in SessionsOf(UserOf(r))'
      BY <1>1, <1>2, <2>2, <3>1 DEF Comes
    <3> QED
      BY <3>2 DEF SessionsOf, UserOf
  <2> QED
    BY <2>1, <2>2
<1>3. ASSUME NEW r \in Requests, pc[r] # "idle", NEW t \in earlier'[r], t \in sessions'
      PROVE  t \in earlier[r] /\ t \in sessions
  <2>1. t \in earlier[r] /\ t \in Tokens
    BY <1>1, <1>3 DEF Kept, TInv, TypeOK
  <2>2. owner[t] # Nobody
    BY <2>1 DEF Sweeps, TInv, Stages
  <2> QED
    BY <1>1, <1>3, <2>1, <2>2 DEF Kept
<1>4. ASSUME NEW r \in Requests, pc'[r] = "wipe", NEW t \in earlier'[r], t \in sessions'
      PROVE  t \in listed'[r]
  <2>1. \/ pc[r] = "wipe" /\ listed'[r] = listed[r]
        \/ pc[r] = "list" /\ listed'[r] = SessionsOf(UserOf(r))
    BY <1>1, <1>4 DEF Comes
  <2>2. t \in earlier[r] /\ t \in sessions
    BY <1>3, <1>4, <2>1
  <2>3. owner[t] = UserOf(r)
    BY <2>2 DEF Sweeps, UserOf
  <2> QED
    BY <2>1, <2>2, <2>3 DEF Sweeps, SessionsOf
<1>5. ASSUME NEW r \in Requests, reply'[r] = Told("reused"), NEW t \in earlier'[r], t \in sessions'
      PROVE  FALSE
  <2>1. \/ reply[r] = Told("reused")
        \/ pc[r] = "wipe" /\ sessions' = sessions \ listed[r]
    BY <1>1, <1>5 DEF Comes
  <2>2. pc[r] # "idle"
    BY <2>1 DEF TInv, Stages, Told, NoAnswer
  <2>3. t \in earlier[r] /\ t \in sessions
    BY <1>3, <1>5, <2>2
  <2> QED
    BY <1>5, <2>1, <2>3 DEF Sweeps
<1> QED
  BY <1>2, <1>4, <1>5 DEF Sweeps

\* A refresh that answers that all sessions are revoked has ended every one
\* there was when it came, although it lists them and then deletes them.
THEOREM RevokedTogetherAlways == Spec => []RevokedTogether
<1>1. Init => Sweeps
  BY DEF Init, Sweeps
<1>2. TInv /\ Sweeps /\ [Next]_vars => Sweeps'
  <2>1. ASSUME Sweeps, UNCHANGED vars PROVE Sweeps'
    BY <2>1 DEF Sweeps, vars
  <2> QED
    BY <2>1, NextSweeps
<1>3. Sweeps => RevokedTogether
  BY DEF Sweeps, RevokedTogether
<1> QED
  BY <1>1, <1>2, <1>3, TypedAlways, PTL DEF Spec

-----------------------------------------------------------------------------
(* Rotations. *)

Refreshing(r) == call[r].op = "refresh" /\ pc[r] = "issue"

\* A token that is being renewed, or has been, has no session; the token of a
\* careful user is in flight once, and not renewed before.
Rotations ==
    /\ \A r \in Requests :
          \A t \in Tokens : Renewed(r, t) \/ (Refreshing(r) /\ Presented(r, t))
                               => t \notin sessions
    /\ \A r, s \in Requests : \A t \in Tokens :
          owner[t] \in Careful /\ Presented(r, t) /\ r # s =>
             /\ ~(InFlight(r) /\ InFlight(s) /\ Presented(s, t))
             /\ pc[r] \in {"rotate", "issue"} => ~Renewed(s, t)
             /\ Renewed(r, t) => ~Renewed(s, t)

LEMMA NextRotations ==
    ASSUME TInv, Rotations, Next
    PROVE  Rotations'
<1>1. Kept /\ \A r \in Requests : Comes(r)
  BY NextKept
<1>2. ASSUME NEW r \in Requests, NEW t \in Tokens, Renewed(r, t)'
      PROVE  \/ Renewed(r, t)
             \/ Refreshing(r) /\ Presented(r, t) /\ pc'[r] = "answered"
  <2>1. \/ reply[r].status = "ok"
        \/ pc[r] = "issue" /\ pc'[r] = "answered"
    BY <1>1, <1>2 DEF Comes, Renewed
  <2>2. pc[r] # "idle"
    BY <2>1 DEF TInv, Stages, NoAnswer
  <2>3. call'[r] = call[r]
    BY <1>1, <2>2 DEF Kept
  <2> QED
    BY <1>2, <2>1, <2>3 DEF Renewed, Refreshing, Presented
<1>3. ASSUME NEW r \in Requests, NEW t \in Tokens, Refreshing(r)', Presented(r, t)'
      PROVE  /\ Presented(r, t) /\ owner[t] # Nobody
             /\ Refreshing(r) \/ sessions' = sessions \ {t}
  <2>1. pc[r] # "idle"
    BY <1>1, <1>3 DEF Comes, Refreshing
  <2>2. call'[r] = call[r] /\ call[r].op = "refresh" /\ call[r].token = t
    BY <1>1, <1>3, <2>1 DEF Kept, Refreshing, Presented
  <2>3. pc[r] \notin {"check", "create"} /\ owner[t] # Nobody
    BY <2>2 DEF TInv, Stages
  <2> QED
    BY <1>1, <1>3, <2>2, <2>3 DEF Comes, Refreshing, Presented
<1>4. ASSUME NEW r \in Requests, NEW t \in Tokens,
             Renewed(r, t)' \/ (Refreshing(r)' /\ Presented(r, t)')
      PROVE  t \notin sessions'
  <2>1. ASSUME Renewed(r, t) \/ (Refreshing(r) /\ Presented(r, t))
        PROVE  t \notin sessions'
    <3>1. t \notin sessions
      BY <2>1 DEF Rotations
    <3>2. owner[t] # Nobody
      BY <2>1 DEF TInv, Stages, Renewed, Presented, Refreshing
    <3> QED
      BY <1>1, <3>1, <3>2 DEF Kept
  <2> QED
    BY <1>2, <1>3, <1>4, <2>1
<1>5. ASSUME NEW r \in Requests, NEW t \in Tokens, Presented(r, t)'
      PROVE  /\ Presented(r, t) => owner'[t] = owner[t]
             /\ ~Presented(r, t) => pc[r] = "idle" /\ UserOf(r)' = owner'[t]
  <2>1. ASSUME Presented(r, t) PROVE owner'[t] = owner[t]
    BY <1>1, <2>1, Carried DEF Presented
  <2>2. ASSUME ~Presented(r, t) PROVE pc[r] = "idle"
    BY <1>1, <1>5, <2>2 DEF Kept, Presented
  <2> QED
    BY <1>5, <2>1, <2>2 DEF Presented, UserOf
<1>6. ASSUME NEW r \in Requests, NEW s \in Requests, NEW t \in Tokens,
             owner'[t] \in Careful, r # s, Presented(r, t)', Presented(s, t)',
             InFlight(r)', InFlight(s)'
      PROVE  FALSE
  <2>1. ASSUME NEW x \in Requests, NEW y \in Requests, x # y, ~Presented(x, t),
               Presented(x, t)', Presented(y, t)', InFlight(y)', pc'[x] # "idle"
        PROVE  FALSE
    <3>1. pc[x] = "idle" /\ call[x] = NoCall
      BY <1>5, <2>1 DEF TInv, Stages
    <3>2. call'[x].op \in {"refresh", "logout"} /\ call'[x].token = t
      BY <2>1 DEF Presented
    <3>3. owner'[call'[x].token] \in Careful =>
             \A z \in Requests \ {x} : InFlight(z)' => ~Presented(z, call[x].token)'
      BY <1>1, <2>1, <3>1, <3>2 DEF Comes
    <3>4. Presented(y, call[x].token)'
      BY <2>1, <3>2 DEF Presented
    <3> QED
      BY <1>6, <2>1, <3>2, <3>3, <3>4
  <2>2. pc'[r] # "idle" /\ pc'[s] # "idle"
    BY <1>6 DEF InFlight
  <2>3. Presented(r, t) /\ Presented(s, t)
    BY <1>6, <2>1, <2>2
  <2>4. InFlight(r) /\ InFlight(s)
    <3>1. pc[r] # "answered" /\ pc[s] # "answered"
      BY <1>1, <1>6 DEF Kept, InFlight
    <3>2. pc[r] # "idle" /\ pc[s] # "idle"
      BY <2>3 DEF TInv, Stages, Presented, NoCall
    <3> QED
      BY <3>1, <3>2 DEF InFlight
  <2> QED
    BY <1>5, <1>6, <2>3, <2>4 DEF Rotations
<1>7. ASSUME NEW r \in Requests, NEW s \in Requests, NEW t \in Tokens,
             owner'[t] \in Careful, r # s, Presented(r, t)', Renewed(s, t)',
             pc'[r] \in {"rotate", "issue"}
      PROVE  FALSE
  <2>1. pc[r] \in {"get", "rotate", "issue", "check", "create"}
    BY <1>1, <1>7 DEF Comes
  <2>2. Presented(r, t) /\ InFlight(r)
    BY <1>5, <1>7, <2>1 DEF InFlight
  <2>3. owner[t] \in Careful
    BY <1>5, <1>7, <2>2
  <2>4. Presented(s, t)
    BY <1>2, <1>7 DEF Renewed, Presented
  <2>5. Renewed(s, t)
    <3>1. ~(Refreshing(s) /\ Presented(s, t))
      BY <1>7, <2>2, <2>3, <2>4 DEF Rotations, InFlight, Refreshing
    <3> QED
      BY <1>2, <1>7, <3>1
  <2>6. pc[r] \notin {"check", "create"}
    BY <2>2 DEF Presented, TInv, Stages
  <2>7. pc[r] \notin {"rotate", "issue"}
    BY <1>7, <2>2, <2>3, <2>5 DEF Rotations
  <2>8. pc[r] = "get" /\ pc'[r] = "rotate" => call[r].token \in sessions
    BY <1>1 DEF Comes
  <2>9. pc[r] = "get" => pc'[r] # "issue"
    BY <1>1 DEF Comes
  <2>10. t \in sessions
    BY <1>7, <2>1, <2>2, <2>6, <2>7, <2>8, <2>9 DEF Presented
  <2> QED
    BY <2>5, <2>10 DEF Rotations
<1>8. ASSUME NEW r \in Requests, NEW s \in Requests, NEW t \in Tokens,
             owner'[t] \in Careful, r # s, Renewed(r, t)', Renewed(s, t)'
      PROVE  FALSE
  <2>1. Presented(r, t) /\ Presented(s, t)
    BY <1>2, <1>8 DEF Renewed, Presented
  <2>2. owner[t] \in Careful
    <3>1. Presented(r, t)'
      BY <1>8 DEF Renewed, Presented
    <3> QED
      BY <1>5, <1>8, <2>1, <3>1
  <2>3. CASE Renewed(r, t) /\ Renewed(s, t)
    BY <1>8, <2>1, <2>2, <2>3 DEF Rotations
  <2>4. CASE Refreshing(r) /\ Renewed(s, t)
    BY <1>8, <2>1, <2>2, <2>4 DEF Rotations, Refreshing
  <2>5. CASE Renewed(r, t) /\ Refreshing(s)
    BY <1>8, <2>1, <2>2, <2>5 DEF Rotations, Refreshing
  <2>6. CASE Refreshing(r) /\ Refreshing(s)
    BY <1>8, <2>1, <2>2, <2>6 DEF Rotations, Refreshing, InFlight
  <2> QED
    BY <1>2, <1>8, <2>3, <2>4, <2>5, <2>6
<1> QED
  BY <1>4, <1>6, <1>7, <1>8 DEF Rotations

\* A client that waits for an answer before it sends a token again gets one new
\* session for the old one, whatever fails.
THEOREM CarefulRotatedOnceAlways == Spec => []CarefulRotatedOnce
<1>1. Init => Rotations
  BY DEF Init, Rotations, Renewed, Refreshing, Presented, NoCall
<1>2. TInv /\ Rotations /\ [Next]_vars => Rotations'
  <2>1. ASSUME Rotations, UNCHANGED vars PROVE Rotations'
    BY <2>1 DEF Rotations, Renewed, Refreshing, Presented, InFlight, vars
  <2> QED
    BY <2>1, NextRotations
<1>3. Rotations => CarefulRotatedOnce
  BY DEF Rotations, CarefulRotatedOnce, RotatedOnce, Renewed, Presented
<1> QED
  BY <1>1, <1>2, <1>3, TypedAlways, PTL DEF Spec

\* A token whose logout was confirmed has no session; if its user is careful, no
\* refresh with it is on its way to a new one.
LoggedOut(r, t) ==
    call[r].op = "logout" /\ call[r].token = t /\ reply[r] = Told("loggedOut")

Logouts ==
    \A r, s \in Requests : \A t \in Tokens :
        LoggedOut(r, t) =>
            /\ t \notin sessions
            /\ owner[t] \in Careful /\ Presented(s, t) => pc[s] \notin {"rotate", "issue"}

LEMMA NextLogouts ==
    ASSUME TInv, Rotations, Logouts, Next
    PROVE  Logouts'
<1>1. Kept /\ \A r \in Requests : Comes(r)
  BY NextKept
<1>2. ASSUME NEW r \in Requests, NEW t \in Tokens, LoggedOut(r, t)'
      PROVE  /\ Presented(r, t) /\ owner[t] # Nobody /\ owner'[t] = owner[t]
             /\ \/ LoggedOut(r, t)
                \/ pc[r] = "logout" /\ sessions' = sessions \ {t}
  <2>1. \/ reply[r] = Told("loggedOut")
        \/ pc[r] = "logout" /\ sessions' = sessions \ {call[r].token}
    BY <1>1, <1>2 DEF Comes, LoggedOut
  <2>2. pc[r] # "idle"
    BY <2>1 DEF TInv, Stages, Told, NoAnswer
  <2>3. call'[r] = call[r]
    BY <1>1, <2>2 DEF Kept
  <2>4. Presented(r, t)
    BY <1>2, <2>3 DEF LoggedOut, Presented
  <2>5. owner[t] # Nobody /\ owner'[t] = owner[t]
    BY <1>1, <2>4, Carried DEF Presented
  <2> QED
    BY <1>2, <2>1, <2>3, <2>4, <2>5 DEF LoggedOut
<1>3. ASSUME NEW r \in Requests, NEW t \in Tokens, LoggedOut(r, t)'
      PROVE  t \notin sessions'
  <2>1. CASE LoggedOut(r, t)
    <3>1. t \notin sessions
      BY <2>1 DEF Logouts
    <3> QED
      BY <1>1, <1>2, <1>3, <3>1 DEF Kept
  <2> QED
    BY <1>2, <1>3, <2>1
<1>4. ASSUME NEW r \in Requests, NEW s \in Requests, NEW t \in Tokens, LoggedOut(r, t)',
             owner'[t] \in Careful, Presented(s, t)', pc'[s] \in {"rotate", "issue"}
      PROVE  FALSE
  <2>1. /\ pc[s] \in {"get", "rotate", "issue", "check", "create"}
        /\ pc[s] = "get" => pc'[s] = "rotate" /\ call[s].token \in sessions
    BY <1>1, <1>4 DEF Comes
  <2>2. Presented(s, t) /\ InFlight(s)
    <3>1. call'[s] = call[s]
      BY <1>1, <2>1 DEF Kept
    <3> QED
      BY <1>4, <2>1, <3>1 DEF Presented, InFlight
  <2>3. pc[s] \in {"get", "rotate", "issue"}
    BY <2>1, <2>2 DEF TInv, Stages, Presented
  <2>4. /\ Presented(r, t) /\ owner[t] \in Careful
        /\ LoggedOut(r, t) \/ pc[r] = "logout"
    BY <1>2, <1>4
  <2>5. CASE LoggedOut(r, t)
    <3>1. t \notin sessions /\ pc[s] \notin {"rotate", "issue"}
      BY <2>2, <2>4, <2>5 DEF Logouts
    <3> QED
      BY <2>1, <2>2, <2>3, <3>1 DEF Presented
  <2>6. CASE pc[r] = "logout"
    <3>1. r # s /\ InFlight(r)
      BY <2>3, <2>6 DEF InFlight
    <3> QED
      BY <2>2, <2>4, <3>1 DEF Rotations
  <2> QED
    BY <2>4, <2>5, <2>6
<1> QED
  BY <1>3, <1>4 DEF Logouts

\* Logging out is final for a client that waits for answers, whatever overlaps,
\* expires or crashes.
THEOREM LogoutAlwaysFinal == Spec => LogoutIsFinal
<1> DEFINE Final(r, s) ==
      /\ call[r].op = "logout" /\ reply[r] = Told("loggedOut")
      /\ owner[call[r].token] \in Careful
      /\ Presented(s, call[r].token) /\ reply'[s].status = "ok"
      => reply[s].status = "ok"
<1>1. Init => Rotations /\ Logouts
  BY DEF Init, Rotations, Logouts, LoggedOut, Renewed, Refreshing, Presented, NoCall
<1>2. TInv /\ Rotations /\ Logouts /\ [Next]_vars => Rotations' /\ Logouts'
  <2>1. ASSUME Rotations, Logouts, UNCHANGED vars PROVE Rotations' /\ Logouts'
    BY <2>1 DEF Rotations, Logouts, LoggedOut, Renewed, Refreshing, Presented, InFlight, vars
  <2> QED
    BY <2>1, NextRotations, NextLogouts
<1>3. TInv /\ Logouts /\ [Next]_vars => [\A r, s \in Requests : Final(r, s)]_vars
  <2>1. ASSUME TInv, Logouts, Next, NEW r \in Requests, NEW s \in Requests
        PROVE  Final(r, s)
    <3> SUFFICES ASSUME call[r].op = "logout", reply[r] = Told("loggedOut"),
                        owner[call[r].token] \in Careful, Presented(s, call[r].token),
                        reply'[s].status = "ok", reply[s].status # "ok"
                 PROVE  FALSE
      OBVIOUS
    <3>1. Comes(s) /\ Kept
      BY <2>1, NextKept
    <3>2. pc[s] = "issue"
      BY <3>1 DEF Comes
    <3>3. call[r].token \in Tokens
      BY <2>1, <3>1, Carried
    <3> QED
      BY <2>1, <3>2, <3>3 DEF Logouts, LoggedOut
  <2> QED
    BY <2>1
<1> QED
  BY <1>1, <1>2, <1>3, TypedAlways, PTL DEF Spec, LogoutIsFinal
=============================================================================
