---------------------------- MODULE GatewayProofs ----------------------------
(***************************************************************************)
(* Theorems about the way of a request for any users, requests, routes     *)
(* called, limits, lifetimes and dates.                                    *)
(***************************************************************************)
EXTENDS Gateway, TLAPS

-----------------------------------------------------------------------------
(* What is known of tokens, calls and answers. *)

Clock ==
    /\ now \in Nat
    /\ role \in [Users -> Roles \cup {"none"}]
    /\ lost \in [Users -> [Roles -> Int]]
    /\ \A u \in Users, x \in Roles : lost[u][x] <= now

Stages == {"idle", "board", "limit", "admit", "probe", "handle", "sign", "answered"}

Functions ==
    /\ pc \in [Requests -> Stages]
    /\ DOMAIN req = Requests /\ req = [r \in Requests |-> req[r]]
    /\ DOMAIN ids = Requests /\ ids = [r \in Requests |-> ids[r]]
    /\ DOMAIN reply = Requests /\ reply = [r \in Requests |-> reply[r]]
    /\ seen \in [Requests -> Roles \cup {"none"}]
    /\ found \in [Requests -> [Parts -> {"pending", "up", "down"}]]

\* A token tells of a role that its user had since it was asked for.
Told(t) ==
    /\ t.sub \in Users /\ t.role \in Roles /\ t.asked \in Int /\ t.iat \in Int
    /\ LastHad(t.sub, t.role) >= t.asked

TokensTold == \A t \in Issued : Told(t)

\* A call that has come in: its route, its credentials and its dates.
Sound(c) ==
    /\ c.route \in Routes
    /\ c.asked \in Int /\ c.asked <= now
    /\ c.route.name \in Issuing => c.user \in Users
    /\ c.token = NoToken \/ Told(c.token)
    /\ c.startsAt \in Int \cup {NotADate}
    /\ c.endsAt \in Int \cup {NotADate}

CallsSound == \A r \in Requests : pc[r] # "idle" => Sound(req[r])

\* What a request that is about to sign has read.
Reading ==
    \A r \in Requests : pc[r] = "sign" =>
        /\ req[r].user \in Users /\ seen[r] \in Roles
        /\ LastHad(req[r].user, seen[r]) >= req[r].asked

Unanswered == \A r \in Requests : pc[r] # "answered" => reply[r] = NoAnswer

RInv == Clock /\ Functions /\ TokensTold /\ CallsSound /\ Reading /\ Unanswered

\* A call carries a route, a user if it is to issue a token, and a token that was
\* issued or none.
LEMMA CallShape ==
    ASSUME NEW route \in Routes, NEW c \in Calls(route)
    PROVE  /\ c.route = route
           /\ c.asked = now
           /\ route.name \in Issuing => c.user \in Users
           /\ c.token = NoToken \/ c.token \in Issued
           /\ c.startsAt \in Int \cup {NotADate}
           /\ c.endsAt \in Int \cup {NotADate}
           /\ c.id \in {NoId, ClientId}
BY GatewayAssumption DEF Calls

\* A step of a request touches that request alone and leaves what it sent.
LEMMA OneRequest ==
    ASSUME Functions, NEW r \in Requests, Step(r)
    PROVE  /\ req' = req /\ ids' = ids /\ now' = now /\ lost' = lost
           /\ pc[r] \notin {"idle", "answered"} /\ pc'[r] # "idle"
           /\ pc' = [pc EXCEPT ![r] = pc'[r]]
           /\ reply' = [reply EXCEPT ![r] = reply'[r]]
           /\ pc'[r] # "answered" => reply' = reply
           /\ seen' = [seen EXCEPT ![r] = seen'[r]]
           /\ pc'[r] \in {"admit", "probe", "handle", "sign", "answered"}
           /\ found' = [found EXCEPT ![r] = found'[r]]
<1> USE DEF Functions, Goto, Answer, Throw, Roles, Stages
<1>1. CASE VisitBoard(r)   BY <1>1 DEF VisitBoard
<1>2. CASE Throttle(r)     BY <1>2 DEF Throttle
<1>3. CASE Admit(r)        BY <1>3 DEF Admit
<1>4. CASE Fail(r)         BY <1>4 DEF Fail
<1>5. CASE Register(r)     BY <1>5 DEF Register
<1>6. CASE ReadRole(r)     BY <1>6 DEF ReadRole
<1>7. CASE Sign(r)         BY <1>7 DEF Sign
<1>8. CASE CreateEvent(r)  BY <1>8 DEF CreateEvent
<1>9. CASE Serve(r)        BY <1>9 DEF Serve
<1>10. CASE \E p \in Parts : Probe(r, p)
  <2>1. PICK p \in Parts : Probe(r, p)
    BY <1>10
  <2>2. /\ pc[r] = "probe" /\ found' = [found EXCEPT ![r] = found'[r]]
        /\ UNCHANGED <<now, lost, req, ids, seen, pc, reply>>
    BY <2>1 DEF Probe
  <2> QED
    BY <2>2
<1>11. CASE Report(r)      BY <1>11 DEF Report
<1> QED
  BY <1>1, <1>2, <1>3, <1>4, <1>5, <1>6, <1>7, <1>8, <1>9, <1>10, <1>11 DEF Step

\* A call comes in, to be given an id or to be refused before.
LEMMA Comes ==
    ASSUME Functions, NEW r \in Requests, NEW route \in Routes, NEW c \in Calls(route),
           Arrive(r, c) \/ RefuseBody(r, c)
    PROVE  /\ pc[r] = "idle" /\ req' = [req EXCEPT ![r] = c]
           /\ pc' = [pc EXCEPT ![r] = pc'[r]] /\ pc'[r] \in {"board", "limit", "answered"}
           /\ reply' = [reply EXCEPT ![r] = reply'[r]]
           /\ ids' = [ids EXCEPT ![r] = ids'[r]]
           /\ pc'[r] # "answered" => reply' = reply
           /\ UNCHANGED <<now, role, lost, windows, hits, seen, found>>
BY DEF Functions, Arrive, RefuseBody, Goto, Throw, Answer

\* Time and changes of role only make a user's last moment in a role later.
LEMMA RolesMove ==
    ASSUME RInv, [Next]_vars
    PROVE  /\ Clock' /\ now <= now'
           /\ \A u \in Users, x \in Roles : LastHad(u, x)' >= LastHad(u, x)
           /\ \A u \in Users, x \in Roles : LastHad(u, x) \in Int /\ LastHad(u, x)' \in Int
<1> USE DEF RInv, Clock, LastHad
<1>1. CASE UNCHANGED <<now, role, lost>>
  BY <1>1
<1>2. ASSUME NEW u \in Users, NEW x \in Roles, SetRole(u, x)
      PROVE  /\ Clock' /\ now <= now'
             /\ \A v \in Users, y \in Roles : LastHad(v, y)' >= LastHad(v, y)
             /\ \A v \in Users, y \in Roles : LastHad(v, y) \in Int /\ LastHad(v, y)' \in Int
  <2>1. /\ now' = now /\ role[u] \in Roles /\ role[u] # x
        /\ role' = [role EXCEPT ![u] = x]
        /\ lost' = [lost EXCEPT ![u] = [lost[u] EXCEPT ![role[u]] = now]]
    BY <1>2 DEF SetRole
  <2>2. \A v \in Users, y \in Roles :
           lost'[v][y] = IF v = u /\ y = role[u] THEN now ELSE lost[v][y]
    BY <2>1
  <2>3. role' \in [Users -> Roles \cup {"none"}] /\ lost' \in [Users -> [Roles -> Int]]
    BY <2>1
  <2> QED
    BY <2>1, <2>2, <2>3
<1>3. CASE Tick
  BY <1>3 DEF Tick
<1>4. ASSUME NEW r \in Requests, Step(r), ~ UNCHANGED <<now, role, lost>>
      PROVE  /\ Clock' /\ now <= now'
             /\ \A v \in Users, y \in Roles : LastHad(v, y)' >= LastHad(v, y)
             /\ \A v \in Users, y \in Roles : LastHad(v, y) \in Int /\ LastHad(v, y)' \in Int
  <2>1. Register(r)
    BY <1>4 DEF Step, VisitBoard, Throttle, Admit, Fail, ReadRole, Sign, CreateEvent, Serve,
                Probe, Report
  <2>2. PICK w \in Users : w = req[r].user
    BY <2>1 DEF Register, CallsSound, Sound, Issuing
  <2>3. /\ now' = now /\ lost' = lost
        /\ role' = [role EXCEPT ![w] = "CUSTOMER"]
        /\ role[w] = "none"
    BY <2>1, <2>2 DEF Register
  <2>4. "CUSTOMER" \in Roles /\ "none" \notin Roles
    BY DEF Roles
  <2>5. role' \in [Users -> Roles \cup {"none"}]
    BY <2>3, <2>4
  <2>6. Clock' /\ now <= now'
    BY <2>3, <2>5
  <2>7. ASSUME NEW v \in Users, NEW y \in Roles
        PROVE  /\ LastHad(v, y)' >= LastHad(v, y)
               /\ LastHad(v, y) \in Int /\ LastHad(v, y)' \in Int
    <3>1. lost[v][y] \in Int /\ lost[v][y] <= now
      OBVIOUS
    <3>2. lost'[v][y] = lost[v][y]
      BY <2>3
    <3>3. CASE v = w
      BY <2>3, <2>4, <3>1, <3>2, <3>3
    <3>4. CASE v # w
      BY <2>3, <3>1, <3>2, <3>4
    <3> QED
      BY <3>3, <3>4
  <2> QED
    BY <2>6, <2>7
<1> QED
  BY <1>1, <1>2, <1>3, <1>4 DEF Next, vars, Arrive, RefuseBody, WindowPasses

\* An error brings no token.
LEMMA Thrown ==
    ASSUME NEW r, NEW code, Throw(r, code)
    PROVE  \E a : reply' = [reply EXCEPT ![r] = a] /\ "token" \notin DOMAIN a
<1> DEFINE id == IF ids[r].filter = NoId THEN Unknown ELSE ids[r].filter
           a  == [status |-> code, id |-> id]
<1>1. reply' = [reply EXCEPT ![r] = a]
  BY DEF Throw, Answer
<1>2. "token" \notin DOMAIN a
  OBVIOUS
<1> QED
  BY <1>1, <1>2

\* The tokens after a step are those before it and the one it has signed.
LEMMA TokensGrow ==
    ASSUME Functions, [Next]_vars
    PROVE  \A t \in Issued' :
              \/ t \in Issued
              \/ \E r \in Requests :
                    /\ Sign(r)
                    /\ t = [sub |-> req[r].user, role |-> seen[r],
                            asked |-> req[r].asked, iat |-> now]
<1> USE DEF Functions
<1>1. CASE reply' = reply
  BY <1>1 DEF Issued
<1>2. ASSUME NEW r \in Requests, Step(r), ~ Sign(r)
      PROVE  Issued' \subseteq Issued
  <2>1. \/ reply' = reply
        \/ \E a : /\ reply' = [reply EXCEPT ![r] = a]
                  /\ "token" \notin DOMAIN a
    <3> USE DEF Goto, Answer, Status
    <3>1. CASE VisitBoard(r)
      <4> DEFINE a == [status |-> BoardVerdict(req[r])]
      <4>1. reply' = [reply EXCEPT ![r] = a]
        BY <3>1 DEF VisitBoard
      <4>2. "token" \notin DOMAIN a
        OBVIOUS
      <4> QED
        BY <4>1, <4>2
    <3>2. CASE Throttle(r)     BY <3>2, Thrown DEF Throttle
    <3>3. CASE Admit(r)        BY <3>3, Thrown DEF Admit
    <3>4. CASE Fail(r)         BY <3>4, Thrown DEF Fail
    <3>5. CASE Register(r) \/ ReadRole(r)
      BY <3>5 DEF Register, ReadRole
    <3>6. CASE CreateEvent(r) \/ Serve(r)
      BY <3>6 DEF CreateEvent, Serve
    <3>7. CASE \E p \in Parts : Probe(r, p)
      BY <3>7 DEF Probe
    <3>8. CASE Report(r)
      <4> DEFINE a == [status |-> req[r].route.ok, parts |-> found[r]]
      <4>1. reply' = [reply EXCEPT ![r] = a]
        BY <3>8 DEF Report
      <4>2. "token" \notin DOMAIN a
        OBVIOUS
      <4> QED
        BY <4>1, <4>2
    <3> QED
      BY <1>2, <3>1, <3>2, <3>3, <3>4, <3>5, <3>6, <3>7, <3>8 DEF Step
  <2>2. CASE reply' = reply
    BY <2>2 DEF Issued
  <2>3. ASSUME NEW a, reply' = [reply EXCEPT ![r] = a], "token" \notin DOMAIN a
        PROVE  Issued' \subseteq Issued
    BY <2>3 DEF Issued
  <2> QED
    BY <2>1, <2>2, <2>3
<1>3. ASSUME NEW r \in Requests, Sign(r)
      PROVE  Issued' \subseteq
                Issued \cup {[sub |-> req[r].user, role |-> seen[r],
                              asked |-> req[r].asked, iat |-> now]}
  BY <1>3 DEF Sign, Answer, Issued
<1>4. ASSUME NEW r \in Requests, NEW c, RefuseBody(r, c)
      PROVE  Issued' \subseteq Issued
  <2>1. PICK a : reply' = [reply EXCEPT ![r] = a] /\ "token" \notin DOMAIN a
    BY <1>4, Thrown DEF RefuseBody
  <2> QED
    BY <2>1 DEF Issued
<1> QED
  BY <1>1, <1>2, <1>3, <1>4 DEF Next, vars, Arrive, Goto, SetRole, Tick, WindowPasses

-----------------------------------------------------------------------------
(* The invariant. *)

LEMMA RInvInit == Init => RInv
BY DEF Init, RInv, Clock, Functions, TokensTold, CallsSound, Reading, Unanswered,
       Roles, Issued, NoAnswer, Stages, Pending

\* What a token tells stays true, and a token that is signed tells the truth.
LEMMA TokensStayTold ==
    ASSUME RInv, [Next]_vars
    PROVE  /\ TokensTold'
           /\ \A t : Told(t) => Told(t)'
<1>1. \A t : Told(t) => Told(t)'
  BY RolesMove DEF Told
<1>2. ASSUME NEW t \in Issued'
      PROVE  Told(t)'
  <2>1. CASE t \in Issued
    BY <1>1, <2>1 DEF RInv, TokensTold
  <2>2. ASSUME NEW r \in Requests, Sign(r),
               t = [sub |-> req[r].user, role |-> seen[r],
                    asked |-> req[r].asked, iat |-> now]
        PROVE  Told(t)'
    <3>1. /\ req[r].user \in Users /\ seen[r] \in Roles
          /\ LastHad(req[r].user, seen[r]) >= req[r].asked
      BY <2>2 DEF Sign, RInv, Reading
    <3>2. req[r].asked \in Int /\ now \in Int
      BY <2>2 DEF Sign, RInv, CallsSound, Sound, Clock
    <3>3. Told(t)
      BY <2>2, <3>1, <3>2 DEF Told
    <3> QED
      BY <1>1, <3>3
  <2> QED
    BY <2>1, <2>2, TokensGrow DEF RInv
<1> QED
  BY <1>1, <1>2 DEF TokensTold

LEMMA FunctionsStay ==
    ASSUME RInv, [Next]_vars
    PROVE  Functions'
<1> USE DEF RInv, Functions
<1>1. ASSUME NEW r \in Requests, Step(r)
      PROVE  Functions'
  <2>1. /\ req' = req /\ ids' = ids
        /\ pc' = [pc EXCEPT ![r] = pc'[r]]
        /\ reply' = [reply EXCEPT ![r] = reply'[r]]
        /\ pc'[r] \in {"admit", "probe", "handle", "sign", "answered"}
    BY <1>1, OneRequest
  <2>2. seen' \in [Requests -> Roles \cup {"none"}]
    <3>1. CASE Register(r)
      BY <3>1 DEF Register, Roles
    <3>2. CASE ReadRole(r)
      <4>1. req[r].user \in Users
        BY <3>2 DEF ReadRole, CallsSound, Sound, Issuing
      <4> QED
        BY <3>2, <4>1 DEF ReadRole, Clock
    <3> QED
      BY <1>1, <3>1, <3>2
      DEF Step, VisitBoard, Throttle, Admit, Fail, Sign, CreateEvent, Serve, Probe, Report
  <2>3. pc' \in [Requests -> Stages]
    BY <2>1 DEF Stages
  <2>4. DOMAIN reply' = Requests /\ reply' = [s \in Requests |-> reply'[s]]
    BY <2>1
  <2>5. found' \in [Requests -> [Parts -> {"pending", "up", "down"}]]
    <3>1. CASE found' = found
      BY <3>1
    <3>2. ASSUME NEW p \in Parts, Probe(r, p)
          PROVE  found' \in [Requests -> [Parts -> {"pending", "up", "down"}]]
      <4> DEFINE x == StateAt(StoreOf(p), now)
      <4>1. x \in {"up", "down"} /\ found' = [found EXCEPT ![r][p] = x]
        BY <3>2 DEF Probe, StateAt
      <4> HIDE DEF x
      <4> QED
        BY <4>1
    <3> QED
      BY <1>1, <3>1, <3>2
      DEF Step, VisitBoard, Throttle, Admit, Fail, Register, ReadRole, Sign, CreateEvent,
          Serve, Report
  <2> QED
    BY <2>1, <2>2, <2>3, <2>4, <2>5
<1>2. ASSUME NEW r \in Requests, NEW route \in Routes, NEW c \in Calls(route),
             Arrive(r, c) \/ RefuseBody(r, c)
      PROVE  Functions'
  BY <1>2, Comes DEF Stages
<1>3. CASE UNCHANGED <<pc, req, ids, seen, found, reply>>
  BY <1>3
<1> QED
  BY <1>1, <1>2, <1>3 DEF Next, vars, SetRole, Tick, WindowPasses

LEMMA CallsStaySound ==
    ASSUME RInv, [Next]_vars
    PROVE  CallsSound'
<1> USE DEF RInv, CallsSound
<1>1. now <= now' /\ now \in Int /\ now' \in Int /\ \A t : Told(t) => Told(t)'
  BY RolesMove, TokensStayTold DEF Clock
<1>2. \A c : Sound(c) => Sound(c)'
  BY <1>1 DEF Sound
<1>3. ASSUME NEW r \in Requests, Step(r)
      PROVE  CallsSound'
  <2>1. /\ req' = req /\ pc[r] # "idle"
        /\ \A s \in Requests : s # r => pc'[s] = pc[s]
    BY <1>3, OneRequest DEF Functions
  <2> QED
    BY <1>2, <2>1
<1>4. ASSUME NEW r \in Requests, NEW route \in Routes, NEW c \in Calls(route),
             Arrive(r, c) \/ RefuseBody(r, c)
      PROVE  CallsSound'
  <2>1. /\ req' = [req EXCEPT ![r] = c]
        /\ \A s \in Requests : s # r => pc'[s] = pc[s]
    BY <1>4, Comes DEF Functions
  <2>2. Sound(c)
    BY <1>1, CallShape DEF Sound, TokensTold
  <2> QED
    BY <1>2, <2>1, <2>2 DEF Functions
<1>5. CASE UNCHANGED <<pc, req>>
  BY <1>2, <1>5
<1> QED
  BY <1>3, <1>4, <1>5 DEF Next, vars, SetRole, Tick, WindowPasses

LEMMA ReadingStays ==
    ASSUME RInv, [Next]_vars
    PROVE  Reading'
<1> DEFINE Read(s) == /\ req[s].user \in Users /\ seen[s] \in Roles
                      /\ LastHad(req[s].user, seen[s]) >= req[s].asked
<1>1. ASSUME NEW s \in Requests, pc[s] = "sign", req'[s] = req[s], seen'[s] = seen[s]
      PROVE  Read(s)'
  <2>1. Read(s) /\ req[s].asked \in Int
    BY <1>1 DEF RInv, Reading, CallsSound, Sound
  <2>2. /\ LastHad(req[s].user, seen[s])' >= LastHad(req[s].user, seen[s])
        /\ LastHad(req[s].user, seen[s])' \in Int /\ LastHad(req[s].user, seen[s]) \in Int
    BY <1>1, <2>1, RolesMove DEF LastHad
  <2> QED
    BY <1>1, <2>1, <2>2
<1>2. ASSUME NEW r \in Requests, Step(r), pc'[r] = "sign"
      PROVE  Read(r)'
  <2>1. (Register(r) \/ ReadRole(r)) /\ req' = req
    <3>1. req' = req /\ pc \in [Requests -> Stages]
      BY <1>2, OneRequest DEF RInv, Functions
    <3>2. ~VisitBoard(r) /\ ~Throttle(r) /\ ~Admit(r) /\ ~Fail(r)
      BY <1>2, <3>1 DEF VisitBoard, Throttle, Admit, Fail, Answer, Goto, Throw
    <3>3. ~Sign(r) /\ ~CreateEvent(r) /\ ~Serve(r)
      BY <1>2, <3>1 DEF Sign, CreateEvent, Serve, Answer, Goto, Throw
    <3>4. ~Report(r) /\ \A p \in Parts : ~Probe(r, p)
      BY <1>2, <3>1 DEF Report, Probe, Answer
    <3> QED
      BY <1>2, <3>1, <3>2, <3>3, <3>4 DEF Step
  <2>2. req[r].user \in Users /\ req[r].asked \in Int /\ req[r].asked <= now
    BY <2>1 DEF Register, ReadRole, RInv, CallsSound, Sound, Issuing
  <2>3. CASE Register(r)
    BY <2>1, <2>2, <2>3 DEF Register, RInv, Functions, Clock, Roles, LastHad
  <2>4. CASE ReadRole(r)
    BY <2>1, <2>2, <2>4 DEF ReadRole, RInv, Functions, Clock, LastHad
  <2> QED
    BY <2>1, <2>3, <2>4
<1>3. ASSUME NEW s \in Requests, pc'[s] = "sign"
      PROVE  Read(s)'
  <2>1. ASSUME NEW r \in Requests, Step(r)
        PROVE  Read(s)'
    <3>1. CASE s = r
      BY <1>2, <1>3, <2>1, <3>1
    <3>2. CASE s # r
      BY <1>1, <1>3, <2>1, <3>2, OneRequest DEF RInv, Functions
    <3> QED
      BY <3>1, <3>2
  <2>2. ASSUME NEW r \in Requests, NEW route \in Routes, NEW c \in Calls(route),
             Arrive(r, c) \/ RefuseBody(r, c)
        PROVE  Read(s)'
    <3>1. /\ req' = [req EXCEPT ![r] = c] /\ seen' = seen
          /\ pc' = [pc EXCEPT ![r] = pc'[r]] /\ pc'[r] \in {"board", "limit", "answered"}
      BY <2>2, Comes DEF RInv
    <3>2. s # r
      BY <1>3, <3>1
    <3>3. pc[s] = "sign" /\ req'[s] = req[s] /\ seen'[s] = seen[s]
      BY <1>3, <3>1, <3>2 DEF RInv, Functions
    <3> QED
      BY <1>1, <3>3
  <2>3. CASE UNCHANGED <<pc, req, seen>>
    BY <1>1, <1>3, <2>3
  <2> QED
    BY <2>1, <2>2, <2>3 DEF Next, vars, SetRole, Tick, WindowPasses
<1> QED
  BY <1>3 DEF Reading

LEMMA UnansweredStays ==
    ASSUME RInv, [Next]_vars
    PROVE  Unanswered'
<1> USE DEF RInv, Functions, Unanswered
<1>1. ASSUME NEW r \in Requests, Step(r)
      PROVE  Unanswered'
  BY <1>1, OneRequest
<1>2. ASSUME NEW r \in Requests, NEW route \in Routes, NEW c \in Calls(route),
             Arrive(r, c) \/ RefuseBody(r, c)
      PROVE  Unanswered'
  BY <1>2, Comes
<1> QED
  BY <1>1, <1>2 DEF Next, vars, SetRole, Tick, WindowPasses

LEMMA RInvHolds == Spec => []RInv
<1>1. ASSUME RInv, [Next]_vars
      PROVE  RInv'
  BY <1>1, RolesMove, FunctionsStay, TokensStayTold, CallsStaySound, ReadingStays,
     UnansweredStays
  DEF RInv
<1> QED
  BY <1>1, RInvInit, PTL DEF Spec

\* README.md, "logging in again or refreshing gets a token with the new role": the
\* role in a token is one its user had since the call that issued it came in.
THEOREM TokensAlwaysTellRoles == Spec => []TokensTellRoles
<1>1. RInv => TokensTellRoles
  BY DEF RInv, TokensTold, Told, TokensTellRoles
<1> QED
  BY <1>1, RInvHolds, PTL

\* JwtAuthGuard, RolesGuard and BullBoardAdminMiddleware: who is let in to an
\* administrator's route has a token of an ADMIN that has not expired.
LEMMA LetIn ==
    ASSUME RInv, NEW r \in Requests, pc[r] # "idle",
           \/ Privileged(r) /\ GuardVerdict(req[r].route.access, req[r]) = 200
           \/ BoardVerdict(req[r]) = 200
    PROVE  /\ LastHad(req[r].token.sub, "ADMIN") >= req[r].token.asked
           /\ now - req[r].token.iat < AccessTtl
<1>1. Authentic(req[r]) /\ req[r].token.role = "ADMIN"
  BY DEF Privileged, GuardVerdict, BoardVerdict, Permitted
<1>2. Told(req[r].token)
  BY <1>1 DEF RInv, CallsSound, Sound, Authentic
<1>3. now \in Int /\ AccessTtl \in Int /\ req[r].token.iat \in Int
  BY <1>2, GatewayAssumption DEF RInv, Clock, Told
<1>4. now < req[r].token.iat + AccessTtl
  BY <1>1 DEF Authentic
<1> QED
  BY <1>1, <1>2, <1>3, <1>4 DEF Told

\* Taking the role ADMIN away ends with the tokens that tell of it, at an
\* administrator's route and at the board.
THEOREM RightsAlwaysExpire == Spec => RightsExpire
<1> DEFINE Admission(r) ==
      LET t == req[r].token
      IN  \/ /\ pc[r] = "admit" /\ pc'[r] = "handle"
             /\ Privileged(r)
          \/ pc[r] = "board" /\ reply'[r].status = 200
          => LastHad(t.sub, "ADMIN") >= t.asked /\ now - t.iat < AccessTtl
<1>1. ASSUME RInv, [Next]_vars, NEW r \in Requests
      PROVE  Admission(r)
  <2>1. CASE pc[r] = "admit" /\ pc'[r] = "handle" /\ Privileged(r)
    <3>1. Admit(r)
      <4>1. PICK s \in Requests : Step(s)
        BY <1>1, <2>1 DEF Next, vars, Arrive, Goto, RefuseBody, Throw, Answer, SetRole, Tick,
           WindowPasses, RInv, Functions
      <4>2. s = r
        BY <1>1, <2>1, <4>1, OneRequest DEF RInv, Functions
      <4> QED
        BY <2>1, <4>1, <4>2
        DEF Step, VisitBoard, Throttle, Fail, Register, ReadRole, Sign, CreateEvent, Serve,
            Probe, Report
    <3>2. GuardVerdict(req[r].route.access, req[r]) = 200
      BY <1>1, <2>1, <3>1 DEF Admit, Throw, Answer, RInv, Functions
    <3> QED
      BY <1>1, <2>1, <3>2, LetIn
  <2>2. CASE pc[r] = "board" /\ reply'[r].status = 200
    <3>1. reply[r].status # 200
      BY <1>1, <2>2 DEF RInv, Unanswered, NoAnswer
    <3>2. VisitBoard(r)
      <4>1. PICK s \in Requests : Step(s)
        BY <1>1, <2>2, <3>1
        DEF Next, vars, Arrive, Goto, RefuseBody, Throw, Answer, SetRole, Tick, WindowPasses,
            RInv, Functions
      <4>2. s = r
        BY <1>1, <2>2, <3>1, <4>1, OneRequest DEF RInv, Functions
      <4> QED
        BY <2>2, <4>1, <4>2
        DEF Step, Throttle, Admit, Fail, Register, ReadRole, Sign, CreateEvent, Serve, Probe,
            Report
    <3>3. BoardVerdict(req[r]) = 200
      <4>1. reply'[r] = [status |-> BoardVerdict(req[r])]
        BY <1>1, <3>2 DEF VisitBoard, Answer, Status, RInv, Functions
      <4> QED
        BY <2>2, <4>1
    <3> QED
      BY <1>1, <2>2, <3>3, LetIn
  <2> QED
    BY <2>1, <2>2
<1>2. RInv /\ [Next]_vars => [\A r \in Requests : Admission(r)]_vars
  BY <1>1
<1> QED
  BY <1>2, RInvHolds, PTL DEF Spec, RightsExpire

-----------------------------------------------------------------------------
(* The correlation ids and the windows of events. *)

\* What an error says for an id.
IdOrUnknown(id) == IF id = NoId THEN Unknown ELSE id

\* Every part of the application has the same id for a request, and an error says
\* no other; a request without one has been refused.
IdInv ==
    \A r \in Requests :
        IF pc[r] = "idle" THEN ids[r] = NoIds
        ELSE /\ ids[r].header = ids[r].log
             /\ ids[r].filter = ids[r].log
             /\ ids[r].log # NoId /\ req[r].id # NoId => ids[r].log = req[r].id
             /\ "id" \in DOMAIN reply[r] => reply[r].id = IdOrUnknown(ids[r].log)
             /\ ids[r].log = NoId => pc[r] = "answered" /\ "id" \in DOMAIN reply[r]

\* An answer is an error with the id the filter has or no error at all.
LEMMA AnswerIds ==
    ASSUME Functions, NEW r \in Requests, Step(r)
    PROVE  \/ reply' = reply
           \/ "id" \notin DOMAIN reply'[r]
           \/ reply'[r].id = IdOrUnknown(ids[r].filter)
<1> USE DEF Functions, Goto, Answer, Throw, Status, IdOrUnknown
<1>1. CASE VisitBoard(r)
  <2> DEFINE a == [status |-> BoardVerdict(req[r])]
  <2>1. reply'[r] = a
    BY <1>1 DEF VisitBoard
  <2>2. "id" \notin DOMAIN a
    OBVIOUS
  <2> QED
    BY <2>1, <2>2
<1>2. CASE Throttle(r)     BY <1>2 DEF Throttle
<1>3. CASE Admit(r)        BY <1>3 DEF Admit
<1>4. CASE Fail(r)         BY <1>4 DEF Fail
<1>5. CASE Register(r)     BY <1>5 DEF Register
<1>6. CASE ReadRole(r)     BY <1>6 DEF ReadRole
<1>7. CASE Sign(r)         BY <1>7 DEF Sign
<1>8. CASE CreateEvent(r)  BY <1>8 DEF CreateEvent
<1>9. CASE Serve(r)        BY <1>9 DEF Serve
<1>10. CASE \E p \in Parts : Probe(r, p)
  BY <1>10 DEF Probe
<1>11. CASE Report(r)      BY <1>11 DEF Report
<1> QED
  BY <1>1, <1>2, <1>3, <1>4, <1>5, <1>6, <1>7, <1>8, <1>9, <1>10, <1>11 DEF Step

\* The middleware looks at the id of the logger first, so that the two agree.
LEMMA ArrivalIds ==
    ASSUME NEW r \in Requests, NEW sent \in {NoId, ClientId}
    PROVE  /\ CorrelationId(PinoId(sent, r), sent, r) = PinoId(sent, r)
           /\ sent # NoId => PinoId(sent, r) = sent
           /\ PinoId(sent, r) # NoId
BY GatewayAssumption DEF CorrelationId, PinoId

LEMMA IdsStay ==
    ASSUME RInv, RInv', IdInv, [Next]_vars
    PROVE  IdInv'
<1> USE DEF RInv, Functions, IdInv
<1>1. ASSUME NEW r \in Requests, Step(r)
      PROVE  IdInv'
  <2>1. /\ req' = req /\ ids' = ids /\ pc[r] \notin {"idle", "answered"} /\ pc'[r] # "idle"
        /\ pc' = [pc EXCEPT ![r] = pc'[r]]
        /\ reply' = [reply EXCEPT ![r] = reply'[r]]
    BY <1>1, OneRequest
  <2>2. "id" \in DOMAIN reply'[r] => reply'[r].id = IdOrUnknown(ids[r].log)
    BY <1>1, <2>1, AnswerIds
  <2>3. ids[r].log # NoId
    BY <2>1
  <2> QED
    BY <2>1, <2>2, <2>3
<1>2. ASSUME NEW r \in Requests, NEW route \in Routes, NEW c \in Calls(route), Arrive(r, c)
      PROVE  IdInv'
  <2> DEFINE log == PinoId(c.id, r)
             id  == CorrelationId(log, c.id, r)
  <2>1. /\ req' = [req EXCEPT ![r] = c] /\ reply' = reply
        /\ pc[r] = "idle" /\ pc'[r] # "idle"
        /\ \A s \in Requests : s # r => pc'[s] = pc[s]
        /\ ids' = [ids EXCEPT ![r] = [log |-> log, header |-> id, filter |-> id]]
    BY <1>2 DEF Arrive, Goto
  <2>2. id = log /\ log # NoId /\ (c.id # NoId => log = c.id)
    BY CallShape, ArrivalIds
  <2>3. "id" \notin DOMAIN reply[r]
    <3>1. reply[r] = [status |-> 0]
      BY <2>1 DEF Unanswered, NoAnswer
    <3> QED
      BY <3>1
  <2> HIDE DEF log, id
  <2>4. ids'[r].log = log /\ ids'[r].header = log /\ ids'[r].filter = log
    BY <2>1, <2>2
  <2>5. ASSUME NEW s \in Requests, s # r
        PROVE  pc'[s] = pc[s] /\ req'[s] = req[s] /\ reply'[s] = reply[s] /\ ids'[s] = ids[s]
    BY <2>1, <2>5
  <2>6. req'[r] = c /\ reply'[r] = reply[r] /\ pc'[r] # "idle"
    BY <2>1
  <2> QED
    BY <2>2, <2>3, <2>4, <2>5, <2>6
<1>3. ASSUME NEW r \in Requests, NEW c, RefuseBody(r, c)
      PROVE  IdInv'
  <2>1. PICK code \in {400, 413, 500} : Throw(r, code)
    BY <1>3 DEF RefuseBody
  <2>2. /\ pc[r] = "idle" /\ pc' = [pc EXCEPT ![r] = "answered"]
        /\ ids' = ids /\ req' = [req EXCEPT ![r] = c]
    BY <1>3, <2>1 DEF RefuseBody, Throw, Answer
  <2>3. ids[r] = NoIds /\ ids[r].filter = NoId /\ ids[r].header = NoId /\ ids[r].log = NoId
    BY <2>2 DEF NoIds
  <2>4. reply' = [reply EXCEPT ![r] = [status |-> code, id |-> Unknown]]
    BY <2>1, <2>3 DEF Throw, Answer
  <2>5. "id" \in DOMAIN reply'[r] /\ reply'[r].id = Unknown
    BY <2>4
  <2>6. ASSUME NEW s \in Requests, s # r
        PROVE  pc'[s] = pc[s] /\ req'[s] = req[s] /\ reply'[s] = reply[s]
    BY <2>2, <2>4, <2>6
  <2> QED
    BY <2>2, <2>3, <2>5, <2>6 DEF IdOrUnknown
<1>4. CASE UNCHANGED <<pc, req, ids, reply>>
  BY <1>4
<1> QED
  BY <1>1, <1>2, <1>3, <1>4 DEF Next, vars, SetRole, Tick, WindowPasses

\* One id follows a request through the log, the header and the error body, the
\* one its client sent if there was one; only a request the body parser refused has
\* none, and its error says so.
THEOREM IdsAlwaysAgree == Spec => []IdsAgree
<1>1. Init => IdInv
  BY DEF Init, IdInv
<1>2. RInv /\ RInv' /\ IdInv /\ [Next]_vars => IdInv'
  BY IdsStay
<1>3. IdInv => IdsAgree
  BY DEF IdInv, IdsAgree, IdOrUnknown
<1> QED
  BY <1>1, <1>2, <1>3, RInvHolds, PTL DEF Spec

\* A call that has passed the pipe keeps the window the pipe let pass.
WindowInv ==
    /\ EventsHaveWindow
    /\ \A r \in Requests :
          pc[r] = "handle" /\ req[r].route.name = "createEvent" =>
              req[r].asked < req[r].startsAt /\ req[r].startsAt < req[r].endsAt

LEMMA WindowsStay ==
    ASSUME RInv, WindowInv, [Next]_vars
    PROVE  WindowInv'
<1> USE DEF RInv, Functions, WindowInv, EventsHaveWindow
<1>1. ASSUME NEW r \in Requests, Step(r)
      PROVE  WindowInv'
  <2>1. req' = req /\ \A s \in Requests : s # r => pc'[s] = pc[s]
    BY <1>1, OneRequest
  <2>2. CASE Admit(r)
    <3>1. windows' = windows
      BY <2>2 DEF Admit
    <3>2. ASSUME pc'[r] = "handle", req[r].route.name = "createEvent"
          PROVE  req[r].asked < req[r].startsAt /\ req[r].startsAt < req[r].endsAt
      <4>1. ValidWindow(req[r]) /\ Sound(req[r])
        BY <2>2, <3>2 DEF Admit, Throw, Answer, CallsSound
      <4> QED
        BY <4>1 DEF ValidWindow, IsNotPastDate, IsAfterDate, Sound, Clock
    <3> QED
      BY <2>1, <3>1, <3>2
  <2>3. CASE CreateEvent(r)
    <3>1. /\ pc[r] = "handle" /\ req[r].route.name = "createEvent"
          /\ pc'[r] = "answered"
          /\ windows' = windows \cup {[startsAt |-> req[r].startsAt, endsAt |-> req[r].endsAt,
                                       asked |-> req[r].asked]}
      BY <2>3 DEF CreateEvent, Answer
    <3> QED
      BY <2>1, <3>1
  <2>4. CASE ~ Admit(r) /\ ~ CreateEvent(r)
    <3>1. windows' = windows /\ pc'[r] # "handle"
      BY <1>1, <2>4
      DEF Step, VisitBoard, Throttle, Fail, Register, ReadRole, Sign, Serve, Goto,
          Answer, Throw, Probe, Report
    <3> QED
      BY <2>1, <3>1
  <2> QED
    BY <2>2, <2>3, <2>4
<1>2. ASSUME NEW r \in Requests, NEW route \in Routes, NEW c \in Calls(route),
             Arrive(r, c) \/ RefuseBody(r, c)
      PROVE  WindowInv'
  BY <1>2, Comes
<1>3. CASE UNCHANGED <<windows, pc, req>>
  BY <1>3
<1> QED
  BY <1>1, <1>2, <1>3 DEF Next, vars, SetRole, Tick, WindowPasses

\* CreateEventDto: however late the handler runs after the pipe, an event that is
\* created ends after it starts and starts after its call.
THEOREM EventsAlwaysHaveWindow == Spec => []EventsHaveWindow
<1>1. Init => WindowInv
  BY DEF Init, WindowInv, EventsHaveWindow
<1>2. RInv /\ WindowInv /\ [Next]_vars => WindowInv'
  BY WindowsStay
<1>3. WindowInv => EventsHaveWindow
  BY DEF WindowInv
<1> QED
  BY <1>1, <1>2, <1>3, RInvHolds, PTL DEF Spec

-----------------------------------------------------------------------------
(* The health check. *)

\* No other route is called health.
LEMMA HealthNamesOnce ==
    ASSUME NEW route \in Routes, route.name = "health"
    PROVE  route = HealthRoute
BY DEF Routes, AuthRoutes, FlashSaleRoutes, WalletRoutes, HelloRoute, HealthRoute,
       BoardRoute, Route

\* A store was in this state at some time since the call came in.
Witnessed(r, p, state) ==
    \E t \in req[r].asked..now : state = StateAt(StoreOf(p), t)

\* A health check is admitted, probes and reports what its probes came to.
HealthInv ==
    /\ \A r \in Requests : pc[r] = "idle" => found[r] = Pending /\ ids[r].log = NoId
    /\ \A r \in Requests :
          pc[r] # "idle" /\ req[r].route.name = "health" /\ ids[r].log # NoId =>
              /\ pc[r] \in {"limit", "admit", "probe", "answered"}
              /\ \A p \in Parts : found[r][p] # "pending" => Witnessed(r, p, found[r][p])
              /\ pc[r] = "answered" =>
                    /\ reply[r].status = 200
                    /\ \A p \in Parts : Witnessed(r, p, reply[r].parts[p])

\* What was seen stays seen.
LEMMA WitnessedStays ==
    ASSUME RInv, [Next]_vars, NEW r \in Requests, pc[r] # "idle", req'[r] = req[r],
           NEW p, NEW state, Witnessed(r, p, state)
    PROVE  Witnessed(r, p, state)'
<1>1. now \in Int /\ now' \in Int /\ now <= now' /\ req[r].asked \in Int
  BY RolesMove DEF RInv, Clock, CallsSound, Sound
<1>2. PICK t \in req[r].asked..now : state = StateAt(StoreOf(p), t)
  BY DEF Witnessed
<1>3. t \in req'[r].asked..now'
  BY <1>1, <1>2
<1> QED
  BY <1>2, <1>3 DEF Witnessed, StateAt, StoreOf

\* The health check's own steps.
LEMMA HealthSteps ==
    ASSUME RInv, HealthInv, NEW r \in Requests, Step(r),
           req[r].route.name = "health", ids[r].log # NoId
    PROVE  /\ pc'[r] \in {"limit", "admit", "probe", "answered"}
           /\ pc'[r] # "answered" =>
                 \A p \in Parts :
                    \/ found'[r][p] = found[r][p]
                    \/ found'[r][p] = StateAt(StoreOf(p), now)
           /\ pc'[r] = "answered" =>
                 /\ found' = found /\ reply'[r].status = 200
                 /\ \A p \in Parts : found[r][p] # "pending" /\ reply'[r].parts[p] = found[r][p]
<1> USE DEF RInv, Functions, HealthInv
<1>1. /\ pc[r] \in {"limit", "admit", "probe"}
      /\ pc'[r] \in {"admit", "probe", "handle", "sign", "answered"}
  BY OneRequest
<1>2. req[r].route = HealthRoute
  BY <1>1, HealthNamesOnce DEF CallsSound, Sound
<1>3. /\ req[r].route.limit = Unlimited /\ req[r].route.access = "anyone"
      /\ req[r].route.ok = 200
  BY <1>2 DEF HealthRoute, Route
<1>4. CASE Throttle(r)
  BY <1>3, <1>4 DEF Throttle, Goto
<1>5. CASE Admit(r)
  BY <1>2, <1>3, <1>5 DEF Admit, GuardVerdict, Unpiped, Goto
<1>6. ASSUME NEW p \in Parts, Probe(r, p)
      PROVE  /\ pc' = pc /\ pc[r] = "probe"
             /\ \A q \in Parts : \/ found'[r][q] = found[r][q]
                                 \/ found'[r][q] = StateAt(StoreOf(q), now)
  BY <1>6 DEF Probe
<1>7. CASE Report(r)
  <2>1. /\ found' = found /\ \A p \in Parts : found[r][p] # "pending"
        /\ reply'[r] = [status |-> 200, parts |-> found[r]] /\ pc'[r] = "answered"
    BY <1>3, <1>7 DEF Report, Answer
  <2> QED
    BY <2>1
<1> QED
  BY <1>1, <1>4, <1>5, <1>6, <1>7
  DEF Step, VisitBoard, Fail, Register, ReadRole, Sign, CreateEvent, Serve

LEMMA HealthStays ==
    ASSUME RInv, RInv', HealthInv, [Next]_vars
    PROVE  HealthInv'
<1> USE DEF RInv, Functions
<1>1. ASSUME NEW r \in Requests, Step(r)
      PROVE  HealthInv'
  <2>1. /\ req' = req /\ ids' = ids /\ now' = now /\ pc[r] # "idle" /\ pc'[r] # "idle"
        /\ pc' = [pc EXCEPT ![r] = pc'[r]]
        /\ reply' = [reply EXCEPT ![r] = reply'[r]]
        /\ found' = [found EXCEPT ![r] = found'[r]]
    BY <1>1, OneRequest
  <2>2. \A s \in Requests : \A p, state : Witnessed(s, p, state)' <=> Witnessed(s, p, state)
    BY <2>1 DEF Witnessed, StateAt, StoreOf
  <2>3. \A p : Witnessed(r, p, StateAt(StoreOf(p), now))
    <3>1. now \in req[r].asked..now
      BY <2>1 DEF CallsSound, Sound, Clock
    <3> QED
      BY <3>1 DEF Witnessed
  <2>4. ASSUME req[r].route.name = "health", ids[r].log # NoId
        PROVE  /\ pc'[r] \in {"limit", "admit", "probe", "answered"}
               /\ \A p \in Parts : found'[r][p] # "pending" => Witnessed(r, p, found'[r][p])
               /\ pc'[r] = "answered" =>
                     /\ reply'[r].status = 200
                     /\ \A p \in Parts : Witnessed(r, p, reply'[r].parts[p])
    BY <1>1, <2>1, <2>3, <2>4, HealthSteps DEF HealthInv
  <2>5. ASSUME NEW s \in Requests, s # r
        PROVE  pc'[s] = pc[s] /\ reply'[s] = reply[s] /\ found'[s] = found[s]
    BY <2>1, <2>5
  <2>6. ASSUME NEW s \in Requests, s # r, pc'[s] # "idle", req'[s].route.name = "health",
               ids'[s].log # NoId
        PROVE  /\ pc'[s] \in {"limit", "admit", "probe", "answered"}
               /\ \A p \in Parts : found'[s][p] # "pending" => Witnessed(s, p, found'[s][p])
               /\ pc'[s] = "answered" =>
                     /\ reply'[s].status = 200
                     /\ \A p \in Parts : Witnessed(s, p, reply'[s].parts[p])
    BY <2>1, <2>5, <2>6 DEF HealthInv
  <2>7. ASSUME NEW s \in Requests, pc'[s] = "idle"
        PROVE  found'[s] = Pending /\ ids'[s].log = NoId
    BY <2>1, <2>5, <2>7 DEF HealthInv
  <2> HIDE DEF RInv, Functions
  <2> QED
    BY <2>1, <2>2, <2>4, <2>6, <2>7 DEF HealthInv
<1>2. ASSUME NEW r \in Requests, NEW route \in Routes, NEW c \in Calls(route),
             Arrive(r, c) \/ RefuseBody(r, c)
      PROVE  HealthInv'
  <2>1. /\ UNCHANGED <<now, found>> /\ pc[r] = "idle" /\ pc'[r] # "idle"
        /\ \A s \in Requests \ {r} : /\ pc'[s] = pc[s] /\ reply'[s] = reply[s]
                                     /\ req'[s] = req[s] /\ ids'[s] = ids[s]
    BY <1>2, Comes
  <2>2. ids'[r].log # NoId /\ req'[r].route.name = "health" => pc'[r] = "limit"
    <3>1. CASE Arrive(r, c)
      BY <3>1 DEF Arrive, Goto
    <3>2. CASE RefuseBody(r, c)
      BY <2>1, <3>2 DEF RefuseBody, HealthInv
    <3> QED
      BY <1>2, <3>1, <3>2
  <2>3. found[r] = Pending
    BY <2>1 DEF HealthInv
  <2>4. \A s \in Requests \ {r} : \A p, state :
           Witnessed(s, p, state)' <=> Witnessed(s, p, state)
    BY <2>1 DEF Witnessed, StateAt, StoreOf
  <2>5. \A p \in Parts : found'[r][p] = "pending"
    BY <2>1, <2>3 DEF Pending
  <2>6. ASSUME NEW s \in Requests \ {r}, pc'[s] # "idle", req'[s].route.name = "health",
               ids'[s].log # NoId
        PROVE  /\ pc'[s] \in {"limit", "admit", "probe", "answered"}
               /\ \A p \in Parts : found[s][p] # "pending" => Witnessed(s, p, found[s][p])'
               /\ pc'[s] = "answered" =>
                     /\ reply'[s].status = 200
                     /\ \A p \in Parts : Witnessed(s, p, reply[s].parts[p])'
    <3>1. /\ pc'[s] = pc[s] /\ reply'[s] = reply[s] /\ req'[s] = req[s] /\ ids'[s] = ids[s]
          /\ found' = found
      BY <2>1
    <3>2. /\ pc[s] \in {"limit", "admit", "probe", "answered"}
          /\ \A p \in Parts : found[s][p] # "pending" => Witnessed(s, p, found[s][p])
          /\ pc[s] = "answered" =>
                /\ reply[s].status = 200
                /\ \A p \in Parts : Witnessed(s, p, reply[s].parts[p])
      BY <2>6, <3>1 DEF HealthInv
    <3>3. \A p, state : Witnessed(s, p, state) => Witnessed(s, p, state)'
      BY <2>4
    <3> QED
      BY <3>1, <3>2, <3>3
  <2>7. ASSUME NEW s \in Requests, pc'[s] = "idle"
        PROVE  found'[s] = Pending /\ ids'[s].log = NoId
    BY <2>1, <2>7 DEF HealthInv
  <2> HIDE DEF RInv, Functions
  <2> QED
    BY <2>1, <2>2, <2>5, <2>6, <2>7 DEF HealthInv
<1>3. CASE UNCHANGED <<pc, req, ids, found, reply>>
  <2>1. \A s \in Requests : \A p, state :
           pc[s] # "idle" /\ Witnessed(s, p, state) => Witnessed(s, p, state)'
    BY <1>3, WitnessedStays
  <2> QED
    BY <1>3, <2>1 DEF HealthInv
<1> QED
  BY <1>1, <1>2, <1>3 DEF Next, vars, SetRole, Tick, WindowPasses

\* health.controller.ts: a health check is answered with success, and tells of each
\* store what it was at some time since the check came in, for any outages.
THEOREM HealthAlwaysTells == Spec => []HealthTellsOfOutages
<1>1. Init => HealthInv
  BY DEF Init, HealthInv, NoIds
<1>2. RInv /\ RInv' /\ HealthInv /\ [Next]_vars => HealthInv'
  BY HealthStays
<1>3. HealthInv => HealthTellsOfOutages
  BY DEF HealthInv, HealthTellsOfOutages, Witnessed
<1> QED
  BY <1>1, <1>2, <1>3, RInvHolds, PTL DEF Spec

-----------------------------------------------------------------------------
(* Types. *)

Codes == {0, 200, 201, 204, 400, 401, 403, 404, 409, 413, 429, 500}

TypeInv ==
    /\ now \in 0..MaxTime
    /\ lost \in [Users -> [Roles -> -1..MaxTime]]
    /\ hits \in [Called -> Nat]
    /\ \A route \in Routes :
          route.name \in Called => hits[route.name] \in 0..route.limit
    /\ \A r \in Requests : pc[r] # "idle" => req[r].route.name \in Called
    /\ \A r \in Requests : reply[r].status \in Codes

\* Two routes of one name are one route, so they have one limit.
LEMMA RouteNames ==
    ASSUME NEW a \in Routes, NEW b \in Routes, a.name = b.name
    PROVE  a = b
<1>1. \A c \in Routes :
         c \in {Route("register", "anyone", 5, 201, {409}),
                Route("login", "anyone", 5, 200, {401}),
                Route("refresh", "anyone", 10, 200, {401}),
                Route("logout", "anyone", DefaultLimit, 204, {401}),
                Route("me", "user", DefaultLimit, 200, {}),
                Route("adminCheck", "admin", DefaultLimit, 200, {}),
                Route("createEvent", "admin", DefaultLimit, 201, {404}),
                Route("getEvent", "admin", DefaultLimit, 200, {404}),
                Route("purchase", "user", 3, 200, {400, 404, 409}),
                Route("deposit", "user", DefaultLimit, 200, {404}),
                Route("transfer", "user", DefaultLimit, 200, {400, 404}),
                Route("getMe", "user", DefaultLimit, 200, {404}),
                HelloRoute, HealthRoute, BoardRoute}
  BY DEF Routes, AuthRoutes, FlashSaleRoutes, WalletRoutes
<1> QED
  BY <1>1 DEF Route, HelloRoute, HealthRoute, BoardRoute

\* Limits are counts, and the statuses a route may answer with are known.
LEMMA RouteShape ==
    ASSUME NEW route \in Routes
    PROVE  route.limit \in Nat /\ route.ok \in Codes /\ route.thrown \subseteq Codes
BY GatewayAssumption
DEF Routes, AuthRoutes, FlashSaleRoutes, WalletRoutes, HelloRoute, HealthRoute,
    BoardRoute, Route, Unlimited, Codes

LEMMA StatusesStay ==
    ASSUME RInv, TypeInv, NEW r \in Requests, Step(r)
    PROVE  reply'[r].status \in Codes
<1> USE DEF RInv, Functions, TypeInv, Goto, Answer, Throw, Status
<1>1. reply[r].status \in Codes /\ {200, 400, 401, 403, 429, 500} \subseteq Codes
  BY DEF Codes
<1>2. req[r].route \in Routes
  BY OneRequest DEF CallsSound, Sound
<1>3. CASE VisitBoard(r)   BY <1>1, <1>3 DEF VisitBoard, BoardVerdict
<1>4. CASE Throttle(r)     BY <1>1, <1>4 DEF Throttle
<1>5. CASE Admit(r)        BY <1>1, <1>5 DEF Admit, GuardVerdict
<1>6. CASE Fail(r)         BY <1>1, <1>2, <1>6, RouteShape DEF Fail
<1>7. CASE Register(r)     BY <1>1, <1>7 DEF Register
<1>8. CASE ReadRole(r)     BY <1>1, <1>8 DEF ReadRole
<1>9. CASE Sign(r)         BY <1>2, <1>9, RouteShape DEF Sign
<1>10. CASE CreateEvent(r) BY <1>2, <1>10, RouteShape DEF CreateEvent
<1>11. CASE Serve(r)       BY <1>2, <1>11, RouteShape DEF Serve
<1>12. CASE \E p \in Parts : Probe(r, p)
  BY <1>1, <1>12 DEF Probe
<1>13. CASE Report(r)      BY <1>2, <1>13, RouteShape DEF Report
<1> QED
  BY <1>3, <1>4, <1>5, <1>6, <1>7, <1>8, <1>9, <1>10, <1>11, <1>12, <1>13 DEF Step

LEMMA TypesStay ==
    ASSUME RInv, TypeInv, [Next]_vars
    PROVE  TypeInv'
<1> USE DEF RInv, Functions, TypeInv
<1>1. ASSUME NEW r \in Requests, Step(r)
      PROVE  TypeInv'
  <2>1. /\ req' = req /\ now' = now /\ lost' = lost /\ pc[r] # "idle"
        /\ \A s \in Requests : s # r => pc'[s] = pc[s]
        /\ \A s \in Requests : s # r => reply'[s] = reply[s]
    BY <1>1, OneRequest
  <2>2. reply'[r].status \in Codes
    BY <1>1, StatusesStay
  <2>3. /\ hits' \in [Called -> Nat]
        /\ \A route \in Routes :
              route.name \in Called => hits'[route.name] \in 0..route.limit
    <3>1. CASE hits' = hits
      BY <3>1
    <3>2. CASE hits' # hits
      <4>1. Throttle(r)
        BY <1>1, <3>2
        DEF Step, VisitBoard, Admit, Fail, Register, ReadRole, Sign, CreateEvent, Serve,
            Probe, Report
      <4>2. /\ req[r].route \in Routes /\ req[r].route.name \in Called
            /\ req[r].route.limit \in Nat
        BY <2>1, RouteShape DEF CallsSound, Sound
      <4>3. /\ hits[req[r].route.name] < req[r].route.limit
            /\ hits' = [hits EXCEPT ![req[r].route.name] = @ + 1]
        BY <3>2, <4>1 DEF Throttle
      <4>4. ASSUME NEW route \in Routes, route.name \in Called
            PROVE  hits'[route.name] \in 0..route.limit
        <5>1. CASE route.name = req[r].route.name
          <6>1. route = req[r].route
            BY <4>2, <5>1, RouteNames
          <6> QED
            BY <4>2, <4>3, <4>4, <6>1
        <5>2. CASE route.name # req[r].route.name
          BY <4>3, <4>4, <5>2
        <5> QED
          BY <5>1, <5>2
      <4>5. hits' \in [Called -> Nat]
        BY <4>2, <4>3
      <4> QED
        BY <4>4, <4>5
    <3> QED
      BY <3>1, <3>2
  <2> QED
    BY <2>1, <2>2, <2>3
<1>2. ASSUME NEW r \in Requests, NEW route \in Routes, route.name \in Called,
             NEW c \in Calls(route), Arrive(r, c) \/ RefuseBody(r, c)
      PROVE  TypeInv'
  <2>1. c.route = route
    BY CallShape
  <2>2. /\ req' = [req EXCEPT ![r] = c] /\ UNCHANGED <<now, lost, hits>>
        /\ \A s \in Requests \ {r} : pc'[s] = pc[s] /\ reply'[s] = reply[s]
    BY <1>2, Comes
  <2>3. reply'[r].status \in Codes
    <3>1. CASE Arrive(r, c)
      BY <3>1 DEF Arrive, Goto
    <3>2. CASE RefuseBody(r, c)
      BY <3>2 DEF RefuseBody, Throw, Answer, Codes
    <3> QED
      BY <1>2, <3>1, <3>2
  <2> QED
    BY <1>2, <2>1, <2>2, <2>3
<1>3. ASSUME NEW u \in Users, NEW x \in Roles, SetRole(u, x)
      PROVE  TypeInv'
  <2>1. /\ role[u] \in Roles
        /\ lost' = [lost EXCEPT ![u] = [lost[u] EXCEPT ![role[u]] = now]]
    BY <1>3 DEF SetRole
  <2>2. lost' \in [Users -> [Roles -> -1..MaxTime]]
    BY <2>1, GatewayAssumption
  <2> QED
    BY <1>3, <2>2 DEF SetRole
<1>4. CASE Tick
  BY <1>4, GatewayAssumption DEF Tick
<1>5. ASSUME NEW n \in Called, WindowPasses(n)
      PROVE  TypeInv'
  <2>1. /\ hits' = [hits EXCEPT ![n] = 0]
        /\ UNCHANGED <<now, lost, pc, req, reply>>
    BY <1>5 DEF WindowPasses
  <2>2. \A route \in Routes :
           route.name \in Called => hits'[route.name] \in 0..route.limit
    BY <2>1, RouteShape
  <2> QED
    BY <2>1, <2>2
<1>6. CASE UNCHANGED vars
  BY <1>6 DEF vars
<1> QED
  BY <1>1, <1>2, <1>3, <1>4, <1>5, <1>6 DEF Next

\* The types of Gateway: the counters stay within the limits of their routes and the
\* answers within the statuses of the application.
THEOREM TypesAlwaysHold == Spec => []TypeOK
<1>1. Init => TypeInv
  <2>1. ASSUME Init
        PROVE  \A route \in Routes :
                  route.name \in Called => hits[route.name] \in 0..route.limit
    BY <2>1, RouteShape DEF Init
  <2> QED
    BY <2>1, GatewayAssumption DEF Init, TypeInv, Codes, NoAnswer
<1>2. RInv /\ TypeInv /\ [Next]_vars => TypeInv'
  BY TypesStay
<1>3. RInv /\ TypeInv => TypeOK
  BY DEF RInv, TypeInv, TypeOK, Clock, Functions, TokensTold, Told, Codes, Stages
<1> QED
  BY <1>1, <1>2, <1>3, RInvHolds, PTL DEF Spec
=============================================================================
