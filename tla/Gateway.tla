------------------------------ MODULE Gateway -------------------------------
(***************************************************************************)
(* The way of an HTTP request through the application: the logger and the  *)
(* middlewares that give it an id, the Bull Board middleware, the rate     *)
(* limit, the guards, the validation pipe, the controller with the service *)
(* behind it, and the error filter.  What a service does to the wallets,   *)
(* events and sessions is in Wallet, FlashSale and Sessions; here a call   *)
(* of it succeeds or throws.                                               *)
(*                                                                         *)
(* Each step runs up to the next await, so that requests, the clock and a  *)
(* change of role in the database come in between.  All clients are behind *)
(* one address.  Tokens are never forged: an access token is the user, the *)
(* role and the time of signing that it carries.  Redis and the database   *)
(* are down now and then; the rate limit and the health check tell when,   *)
(* the other calls of a service may fail at any time.                      *)
(***************************************************************************)
EXTENDS Integers

CONSTANTS
    Users,        \* accounts, each with its email address
    Requests,     \* the HTTP requests clients make
    Called,       \* the names of the routes they call
    Traced,       \* the routes whose callers may send an id of their own
    AccessTtl,    \* JWT_ACCESS_TTL, in ticks of the clock
    DefaultLimit, \* THROTTLE_LIMIT
    MaxTime,      \* the bound of the clock
    Dates,        \* the dates an admin may send for a new event
    Outages,      \* the ticks at which Redis and the database are down
    ClientId,     \* an x-correlation-id a client sends
    NoId,         \* the absent header
    Unknown,      \* what an error says that has no id, the word "unknown"
    NoUser,       \* a request with no credentials in its body
    NotADate      \* the date that is a string JavaScript cannot read

ASSUME GatewayAssumption ==
    /\ NoUser \notin Users /\ Traced \subseteq Called
    /\ AccessTtl \in Nat \ {0} /\ DefaultLimit \in Nat \ {0} /\ MaxTime \in Nat
    /\ Dates \subseteq Int \cup {NotADate} /\ NotADate \notin Int
    /\ Outages \in [{"db", "redis"} -> SUBSET Nat]
    /\ ClientId # NoId
    /\ \A r \in Requests : <<"pino", r>> # NoId

VARIABLES
    now,     \* the clock
    role,    \* the role of each account (User.role), "none" without one
    lost,    \* history: when each user last lost each role
    windows, \* the windows of the events created, with the time of the call
    hits,    \* the requests counted for each route in its current window
    pc,      \* where each request is
    req,     \* what each request sends
    ids,     \* the correlation ids: in the log, in the header, in the filter
    seen,    \* the role a login, refresh or register has read
    found,   \* what the probes of a health check have come to
    reply    \* the answer of each request

vars == <<now, role, lost, windows, hits, pc, req, ids, seen, found, reply>>

-----------------------------------------------------------------------------
(* The routes. *)

Unlimited == 0
Roles == {"CUSTOMER", "ADMIN"}

Route(name, access, limit, ok, thrown) ==
    [name |-> name, access |-> access, limit |-> limit, ok |-> ok, thrown |-> thrown]

\* access: who the guards let in; limit: requests per window; ok: the status of
\* success; thrown: the HttpExceptions of the service.
AuthRoutes ==
    {Route("register", "anyone", 5, 201, {409}),
     Route("login", "anyone", 5, 200, {401}),
     Route("refresh", "anyone", 10, 200, {401}),
     Route("logout", "anyone", DefaultLimit, 204, {401}),
     Route("me", "user", DefaultLimit, 200, {}),
     Route("adminCheck", "admin", DefaultLimit, 200, {})}

FlashSaleRoutes ==
    {Route("createEvent", "admin", DefaultLimit, 201, {404}),
     Route("getEvent", "admin", DefaultLimit, 200, {404}),
     Route("purchase", "user", 3, 200, {400, 404, 409})}

WalletRoutes ==
    {Route("deposit", "user", DefaultLimit, 200, {404}),
     Route("transfer", "user", DefaultLimit, 200, {400, 404}),
     Route("getMe", "user", DefaultLimit, 200, {404})}

HelloRoute == Route("getHello", "anyone", DefaultLimit, 200, {})

HealthRoute == Route("health", "anyone", Unlimited, 200, {})

\* Outside the controllers: Nest's guards and limits do not see it.
BoardRoute == Route("board", "admin", Unlimited, 200, {})

Routes == AuthRoutes \cup FlashSaleRoutes \cup WalletRoutes
            \cup {HelloRoute, HealthRoute, BoardRoute}
Issuing == {"register", "login", "refresh"}
\* The routes with nothing for a pipe to refuse.
Unpiped == {"me", "adminCheck", "getMe", "getHello", "health", "board"}

-----------------------------------------------------------------------------
(* Tokens and roles. *)

NoToken == [sub |-> NoUser]
NoAnswer == [status |-> 0]

\* The tokens clients have, stolen or their own.
Issued == {reply[r].token : r \in {s \in Requests : "token" \in DOMAIN reply[s]}}

\* When u last had the role x; -1 for never.
LastHad(u, x) == IF role[u] = x THEN now ELSE lost[u][x]

\* Variant of the operator below with a mistake in it, as are the others called
\* variants: ignoreExpiration is true.
AuthenticForEver(c) == c.token # NoToken

\* jwtFromRequest takes the scheme in any case and any space after it; verify
\* refuses an expired token.
Authentic(c) ==
    /\ c.token # NoToken
    /\ now < c.token.iat + AccessTtl

\* RolesGuard, after JwtAuthGuard; no @Roles lets every role in.
Permitted(access, c) == access = "admin" => c.token.role = "ADMIN"

GuardVerdict(access, c) ==
    IF access = "anyone" \/ (Authentic(c) /\ Permitted(access, c)) THEN 200
    ELSE IF Authentic(c) THEN 403 ELSE 401

\* BullBoardAdminMiddleware wants the scheme spelt "Bearer", with one space after
\* it; anything else, which the guards take, is "loose" and refused.
BoardVerdict(c) ==
    IF c.scheme # "Bearer" \/ ~Authentic(c) THEN 401
    ELSE IF c.token.role # "ADMIN" THEN 403 ELSE 200

-----------------------------------------------------------------------------
(* The dates of a new event; comparisons with NotADate are refused. *)

IsNotPastDate(d) == d # NotADate /\ d > now

\* Variant: >= for >.
IsAfterDateOrEqual(d, e) == d # NotADate /\ e # NotADate /\ d >= e

IsAfterDate(d, e) == d # NotADate /\ e # NotADate /\ d > e

ValidWindow(c) ==
    /\ IsNotPastDate(c.startsAt)
    /\ IsNotPastDate(c.endsAt)
    /\ IsAfterDate(c.endsAt, c.startsAt)

-----------------------------------------------------------------------------
(* Correlation ids. *)

\* genReqId of pino: the id the client sent, or a fresh one.
PinoId(sent, r) == IF sent # NoId THEN sent ELSE <<"pino", r>>

\* Variant: the id of the logger is not looked at.
CorrelationIdFresh(pinoId, sent, r) ==
    IF sent # NoId THEN sent ELSE <<"uuid", r>>

\* CorrelationIdMiddleware, which runs after pino.
CorrelationId(pinoId, sent, r) ==
    IF pinoId # NoId THEN pinoId ELSE IF sent # NoId THEN sent ELSE <<"uuid", r>>

NoIds == [log |-> NoId, header |-> NoId, filter |-> NoId]

-----------------------------------------------------------------------------
(* The health check: its parts and what each of them calls. *)

Parts == {"db", "redis", "queue"}
StoreOf(p) == IF p = "db" THEN "db" ELSE "redis"

\* What a call of a store at a moment comes to.
StateAt(store, t) == IF t \in Outages[store] THEN "down" ELSE "up"

Pending == [p \in Parts |-> "pending"]

-----------------------------------------------------------------------------
(* Pieces of a step. *)

Goto(r, step) == pc' = [pc EXCEPT ![r] = step] /\ UNCHANGED reply

Answer(r, a) ==
    /\ pc' = [pc EXCEPT ![r] = "answered"]
    /\ reply' = [reply EXCEPT ![r] = a]

Status(code) == [status |-> code]

\* HttpExceptionFilter: an HttpException keeps its status, anything else is a
\* 500; the body carries the id the middleware left in the request, if it has
\* seen the request.
Throw(r, code) ==
    LET id == ids[r].filter
    IN  Answer(r, [status |-> code, id |-> IF id = NoId THEN Unknown ELSE id])

-----------------------------------------------------------------------------
Init ==
    /\ now = 0
    /\ role \in [Users -> Roles \cup {"none"}]
    /\ lost = [u \in Users |-> [x \in Roles |-> -1]]
    /\ windows = {}
    /\ hits = [n \in Called |-> 0]
    /\ pc = [r \in Requests |-> "idle"]
    /\ req = [r \in Requests |-> [route |-> "none"]]
    /\ ids = [r \in Requests |-> NoIds]
    /\ seen = [r \in Requests |-> "none"]
    /\ found = [r \in Requests |-> Pending]
    /\ reply = [r \in Requests |-> NoAnswer]

-----------------------------------------------------------------------------
(* The steps of a request. *)

\* A call carries what its route makes something of; without a token no guard
\* lets it get as far as its dates.
Calls(route) ==
    LET tokens == IF route.access = "anyone" THEN {} ELSE Issued
        dates  == IF route.name = "createEvent" THEN Dates ELSE {NotADate}
        With(token, schemes, days) ==
            [route : {route}, asked : {now},
             id : IF route.name \in Traced THEN {NoId, ClientId} ELSE {NoId},
             user : IF route.name \in Issuing THEN Users ELSE {NoUser},
             token : token, scheme : schemes, startsAt : days, endsAt : days]
    IN  With({NoToken}, {"Bearer"}, {NotADate})
          \cup With(tokens, IF route.name = "board" THEN {"Bearer", "loose"} ELSE {"Bearer"},
                    dates)

\* Nest's body parser runs before the logger and the middlewares: a body it cannot
\* read or that is too long is answered by the filter, and no id has been given.
\* Nothing looks at its token: NoToken stands for any.
RefuseBody(r, c) ==
    /\ pc[r] = "idle" /\ c.token = NoToken
    /\ req' = [req EXCEPT ![r] = c]
    /\ \E code \in {400, 413, 500} : Throw(r, code)
    /\ UNCHANGED <<now, role, lost, windows, hits, ids, seen, found>>

\* The logger and the middlewares give the request its id, the header last.
Arrive(r, c) ==
    LET log == PinoId(c.id, r)
        id  == CorrelationId(log, c.id, r)
    IN  /\ pc[r] = "idle"
        /\ req' = [req EXCEPT ![r] = c]
        /\ ids' = [ids EXCEPT ![r] = [log |-> log, header |-> id, filter |-> id]]
        /\ Goto(r, IF c.route.name = "board" THEN "board" ELSE "limit")
        /\ UNCHANGED <<now, role, lost, windows, hits, seen, found>>

\* The middleware answers itself, past the filter, or lets the board answer.
VisitBoard(r) ==
    /\ pc[r] = "board"
    /\ Answer(r, Status(BoardVerdict(req[r])))
    /\ UNCHANGED <<now, role, lost, windows, hits, req, ids, seen, found>>

\* ThrottlerGuard counts the request in Redis; without Redis it throws.
Throttle(r) ==
    LET n     == req[r].route.name
        limit == req[r].route.limit
        redis == StateAt("redis", now)
    IN  /\ pc[r] = "limit"
        /\ \/ limit = Unlimited /\ Goto(r, "admit") /\ UNCHANGED hits
           \/ /\ limit # Unlimited /\ redis = "up" /\ hits[n] < limit
              /\ hits' = [hits EXCEPT ![n] = @ + 1] /\ Goto(r, "admit")
           \/ /\ limit # Unlimited /\ redis = "up" /\ hits[n] >= limit
              /\ Throw(r, 429) /\ UNCHANGED hits
           \/ limit # Unlimited /\ redis = "down" /\ Throw(r, 500) /\ UNCHANGED hits
        /\ UNCHANGED <<now, role, lost, windows, req, ids, seen, found>>

\* The guards, then the validation pipe, with no await that lets others in.
Admit(r) ==
    LET c       == req[r]
        verdict == GuardVerdict(c.route.access, c)
    IN  /\ pc[r] = "admit"
        /\ \/ verdict # 200 /\ Throw(r, verdict)
           \/ verdict = 200 /\ c.route.name \notin Unpiped /\ Throw(r, 400)
           \/ /\ verdict = 200
              /\ c.route.name = "createEvent" => ValidWindow(c)
              /\ Goto(r, IF c.route.name = "health" THEN "probe" ELSE "handle")
        /\ UNCHANGED <<now, role, lost, windows, hits, req, ids, seen, found>>

\* Variant: isHealthy, checkRedis and checkQueue let their errors out.
ProbeUncaught(r, p) ==
    LET state == StateAt(StoreOf(p), now)
    IN  /\ pc[r] = "probe" /\ found[r][p] = "pending"
        /\ \/ state = "up" /\ found' = [found EXCEPT ![r][p] = "up"] /\ UNCHANGED <<pc, reply>>
           \/ state = "down" /\ Throw(r, 500) /\ UNCHANGED found
        /\ UNCHANGED <<now, role, lost, windows, hits, req, ids, seen>>

\* check() starts the three probes at once; each comes back when its store
\* answers or its client gives up, and its error is caught.
Probe(r, p) ==
    /\ pc[r] = "probe" /\ found[r][p] = "pending"
    /\ found' = [found EXCEPT ![r][p] = StateAt(StoreOf(p), now)]
    /\ UNCHANGED <<now, role, lost, windows, hits, pc, req, ids, seen, reply>>

\* Promise.all: the answer waits for all three.
Report(r) ==
    /\ pc[r] = "probe" /\ \A p \in Parts : found[r][p] # "pending"
    /\ Answer(r, [status |-> req[r].route.ok, parts |-> found[r]])
    /\ UNCHANGED <<now, role, lost, windows, hits, req, ids, seen, found>>

\* The service throws: an HttpException or an error of a client library.
Fail(r) ==
    /\ pc[r] \in {"handle", "sign"}
    /\ \/ pc[r] = "handle" /\ \E code \in req[r].route.thrown : Throw(r, code)
       \/ Throw(r, 500)
    /\ UNCHANGED <<now, role, lost, windows, hits, req, ids, seen, found>>

\* Variant: the row the transaction returns comes without its role.
RegisterSelectingId(r) ==
    LET u == req[r].user
    IN  /\ pc[r] = "handle" /\ req[r].route.name = "register"
        /\ role[u] = "none"
        /\ role' = [role EXCEPT ![u] = "CUSTOMER"]
        /\ Goto(r, "sign")
        /\ UNCHANGED <<now, lost, windows, hits, req, ids, seen, found>>

\* A new account has the role CUSTOMER.
Register(r) ==
    LET u == req[r].user
    IN  /\ pc[r] = "handle" /\ req[r].route.name = "register"
        /\ role[u] = "none"
        /\ role' = [role EXCEPT ![u] = "CUSTOMER"]
        /\ seen' = [seen EXCEPT ![r] = "CUSTOMER"]
        /\ Goto(r, "sign")
        /\ UNCHANGED <<now, lost, windows, hits, req, ids, found>>

\* Variant: the role of a token the user has had before is carried over.
ReadRoleCarriedOver(r) ==
    LET u     == req[r].user
        known == {t.role : t \in {i \in Issued : i.sub = u}}
    IN  /\ pc[r] = "handle" /\ req[r].route.name \in {"login", "refresh"}
        /\ role[u] # "none"
        /\ \E x \in IF known = {} THEN {role[u]} ELSE known :
              seen' = [seen EXCEPT ![r] = x]
        /\ Goto(r, "sign")
        /\ UNCHANGED <<now, role, lost, windows, hits, req, ids, found>>

\* login and refresh read the row of the user.
ReadRole(r) ==
    LET u == req[r].user
    IN  /\ pc[r] = "handle" /\ req[r].route.name \in {"login", "refresh"}
        /\ role[u] # "none"
        /\ seen' = [seen EXCEPT ![r] = role[u]]
        /\ Goto(r, "sign")
        /\ UNCHANGED <<now, role, lost, windows, hits, req, ids, found>>

\* issueTokenPair signs what was read.
Sign(r) ==
    LET token == [sub |-> req[r].user, role |-> seen[r],
                  asked |-> req[r].asked, iat |-> now]
    IN  /\ pc[r] = "sign"
        /\ Answer(r, [status |-> req[r].route.ok, token |-> token])
        /\ UNCHANGED <<now, role, lost, windows, hits, req, ids, seen, found>>

CreateEvent(r) ==
    /\ pc[r] = "handle" /\ req[r].route.name = "createEvent"
    /\ windows' = windows \cup {[startsAt |-> req[r].startsAt, endsAt |-> req[r].endsAt,
                                 asked |-> req[r].asked]}
    /\ Answer(r, Status(req[r].route.ok))
    /\ UNCHANGED <<now, role, lost, hits, req, ids, seen, found>>

\* Every other handler: what it does is not told apart here.
Serve(r) ==
    /\ pc[r] = "handle" /\ req[r].route.name \notin Issuing \cup {"createEvent"}
    /\ Answer(r, Status(req[r].route.ok))
    /\ UNCHANGED <<now, role, lost, windows, hits, req, ids, seen, found>>

-----------------------------------------------------------------------------
(* The surroundings. *)

\* README.md: an administrator changes a role by an UPDATE in the database.
SetRole(u, x) ==
    /\ role[u] \in Roles \ {x}
    /\ lost' = [lost EXCEPT ![u][role[u]] = now]
    /\ role' = [role EXCEPT ![u] = x]
    /\ UNCHANGED <<now, windows, hits, pc, req, ids, seen, found, reply>>

Tick ==
    /\ now < MaxTime
    /\ now' = now + 1
    /\ UNCHANGED <<role, lost, windows, hits, pc, req, ids, seen, found, reply>>

\* The count of a route expires.
WindowPasses(n) ==
    /\ hits[n] > 0
    /\ hits' = [hits EXCEPT ![n] = 0]
    /\ UNCHANGED <<now, role, lost, windows, pc, req, ids, seen, found, reply>>

-----------------------------------------------------------------------------
Step(r) ==
    \/ VisitBoard(r) \/ Throttle(r) \/ Admit(r) \/ Fail(r)
    \/ (\E p \in Parts : Probe(r, p)) \/ Report(r)
    \/ Register(r) \/ ReadRole(r) \/ Sign(r) \/ CreateEvent(r) \/ Serve(r)

Next ==
    \/ \E r \in Requests, route \in Routes :
          /\ route.name \in Called
          /\ \E c \in Calls(route) : Arrive(r, c) \/ RefuseBody(r, c)
    \/ \E r \in Requests : Step(r)
    \/ \E u \in Users, x \in Roles : SetRole(u, x)
    \/ Tick
    \/ \E n \in Called : WindowPasses(n)

Spec == Init /\ [][Next]_vars

-----------------------------------------------------------------------------
(* Properties. *)

\* Types: the clock, the counters, the tokens and the answers stay within their
\* ranges.
TypeOK ==
    /\ now \in 0..MaxTime
    /\ role \in [Users -> Roles \cup {"none"}]
    /\ lost \in [Users -> [Roles -> -1..MaxTime]]
    /\ \A route \in Routes :
          route.name \in Called => hits[route.name] \in 0..route.limit
    /\ pc \in [Requests -> {"idle", "board", "limit", "admit", "probe", "handle", "sign",
                            "answered"}]
    /\ seen \in [Requests -> Roles \cup {"none"}]
    /\ found \in [Requests -> [Parts -> {"pending", "up", "down"}]]
    /\ \A t \in Issued : t.sub \in Users /\ t.role \in Roles
    /\ \A r \in Requests :
          reply[r].status \in {0, 200, 201, 204, 400, 401, 403, 404, 409, 413, 429, 500}

\* README.md: logging in again or refreshing gets a token with the new role.
\* Whatever changes while a call is under way, the role in the token it issues
\* is one the user had since the call came.
TokensTellRoles == \A t \in Issued : LastHad(t.sub, t.role) >= t.asked

Privileged(r) == req[r].route.access = "admin"

\* Who is let in to an administrator's route or to the board was an ADMIN when
\* the token was asked for or later, and the token is younger than its
\* lifetime: a right that was taken away ends with the tokens that tell of it.
RightsExpire ==
    [][\A r \in Requests :
          LET t == req[r].token
          IN  \/ /\ pc[r] = "admit" /\ pc'[r] = "handle"
                 /\ Privileged(r)
              \/ pc[r] = "board" /\ reply'[r].status = 200
              => LastHad(t.sub, "ADMIN") >= t.asked /\ now - t.iat < AccessTtl]_vars

\* The id in the log is the one in the header of the answer and in the body of
\* an error, and it is the client's if the client sent one.  Who finds no id in
\* the header was refused before there was one, and the body says so.
IdsAgree ==
    \A r \in Requests :
        LET told == "id" \in DOMAIN reply[r]
        IN  pc[r] = "answered" =>
              /\ ids[r].header = ids[r].log
              /\ ids[r].log # NoId =>
                    /\ told => reply[r].id = ids[r].log
                    /\ req[r].id # NoId => ids[r].log = req[r].id
              /\ ids[r].log = NoId => told /\ reply[r].id = Unknown

\* A health check that is answered, and whose body could be read, is answered with
\* success however many requests there are, and each store is called down only if
\* it was down, and up only if it was up, at some time since the check came in.
HealthTellsOfOutages ==
    \A r \in Requests :
        pc[r] = "answered" /\ req[r].route.name = "health" /\ ids[r].log # NoId =>
            /\ reply[r].status = 200
            /\ \A p \in Parts : \E t \in req[r].asked..now :
                  reply[r].parts[p] = StateAt(StoreOf(p), t)

\* An event that is created ends after it starts and starts after the call that
\* created it came in.
EventsHaveWindow ==
    \A w \in windows : w.asked < w.startsAt /\ w.startsAt < w.endsAt
=============================================================================
