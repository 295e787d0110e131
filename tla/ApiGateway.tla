----------------------------- MODULE ApiGateway -----------------------------
(***************************************************************************)
(* The gateway of modules/integration/api-gateway.mjs: its routes,         *)
(* handleRequest(), and its limiter, a window per client that starts with  *)
(* the first request after the last one has passed.                        *)
(*                                                                         *)
(* The code before the await of the route's handler is one step. Time      *)
(* passes in fractions of the second retryAfter is rounded up to.          *)
(* Middlewares are left out, which no request runs, and a route's          *)
(* requiresAuth and rateLimit, which none looks at.                        *)
(***************************************************************************)
EXTENDS Integers, Sequences, FiniteSets

CONSTANTS ApiClients, Routes, KeyIds,
          limit,      \* requests per window: 1000 in the code
          Window,     \* its length: 60000 in the code
          Second,     \* what retryAfter counts in: 1000 in the code
          MaxGateTime, MaxApiRequests   \* bounds

ASSUME GatewayAssumption ==
  /\ limit \in Nat \ {0} /\ Window \in Nat \ {0} /\ Second \in Nat \ {0}
  /\ MaxGateTime \in Nat /\ MaxApiRequests \in Nat

VARIABLES gateNow,
          routes,         \* the registered ones
          apiKeys,        \* key id -> "none", "active" or "revoked"
          rateLimiters,   \* client -> its count and window, or NoLimiter
          running,        \* requests whose handler has not answered
          requestCount, errorCount,
          answered,       \* history: status -> answers given
          admitted,       \* history: client -> the times its requests passed the limiter
          comeBack        \* history: client -> when a refused one was told to come back

gatewayVars == <<gateNow, routes, apiKeys, rateLimiters, running, requestCount,
                 errorCount, answered, admitted, comeBack>>

setupVars == <<routes, apiKeys>>
requestVars == <<gateNow, rateLimiters, running, requestCount, errorCount, answered, admitted, comeBack>>

NoLimiter == [count |-> 0, window |-> -1]
Statuses == {200, 401, 404, 429, 500}

GatewayInit ==
  /\ gateNow = 0 /\ routes = {} /\ apiKeys = [k \in KeyIds |-> "none"]
  /\ rateLimiters = [c \in ApiClients |-> NoLimiter]
  /\ running = 0 /\ requestCount = 0 /\ errorCount = 0
  /\ answered = [s \in Statuses |-> 0]
  /\ admitted = [c \in ApiClients |-> <<>>]
  /\ comeBack = [c \in ApiClients |-> 0]

\* A route registered again gets its new handler.
RegisterRoute(route) ==
  /\ routes' = routes \cup {route}
  /\ UNCHANGED <<apiKeys, requestVars>>

\* Keys only enter the statistics: no request is refused for one.
RegisterAPIKey(k) ==
  /\ apiKeys' = [apiKeys EXCEPT ![k] = "active"]
  /\ UNCHANGED <<routes, requestVars>>

RevokeAPIKey(k) ==
  /\ apiKeys[k] # "none" /\ apiKeys' = [apiKeys EXCEPT ![k] = "revoked"]
  /\ UNCHANGED <<routes, requestVars>>

\* Mutant of the next operator: every instant starts a window.
LimiterOfAnInstant(c) ==
  IF rateLimiters[c] # NoLimiter /\ rateLimiters[c].window = gateNow
  THEN [rateLimiters[c] EXCEPT !.count = @ + 1] ELSE [count |-> 1, window |-> gateNow]

\* The limiter after a request, which counts the refused ones, too.
Limiter(c) ==
  LET old == rateLimiters[c]
  IN IF old = NoLimiter \/ gateNow - old.window > Window
     THEN [count |-> 1, window |-> gateNow]
     ELSE [old EXCEPT !.count = @ + 1]

\* Mutant of the next operator: rounded down.
RetryAfterFloor(limiter) == (Window - (gateNow - limiter.window)) \div Second

\* Math.ceil() of what is left of the window, in seconds.
RetryAfter(limiter) == (Window - (gateNow - limiter.window) + Second - 1) \div Second

Counted ==
  /\ requestCount < MaxApiRequests
  /\ requestCount' = requestCount + 1

Answer(status) == answered' = [answered EXCEPT ![status] = @ + 1]

\* A token that does not parse or has expired: the limiter is not asked.
Unauthorized ==
  /\ Counted /\ Answer(401)
  /\ UNCHANGED <<setupVars, gateNow, rateLimiters, running, errorCount, admitted, comeBack>>

RateLimited(c) ==
  /\ Counted
  /\ Limiter(c).count > limit
  /\ rateLimiters' = [rateLimiters EXCEPT ![c] = Limiter(c)]
  /\ comeBack' = [comeBack EXCEPT ![c] = gateNow + Second * RetryAfter(Limiter(c))]
  /\ Answer(429)
  /\ UNCHANGED <<setupVars, gateNow, running, errorCount, admitted>>

Admitted(c) ==
  /\ Counted
  /\ Limiter(c).count <= limit
  /\ rateLimiters' = [rateLimiters EXCEPT ![c] = Limiter(c)]
  /\ admitted' = [admitted EXCEPT ![c] = Append(@, gateNow)]
  /\ UNCHANGED <<setupVars, gateNow, comeBack>>

RouteNotFound(c, route) ==
  /\ Admitted(c) /\ Answer(404) /\ route \notin routes
  /\ UNCHANGED <<running, errorCount>>

CallHandler(c, route) ==
  /\ Admitted(c) /\ route \in routes /\ running' = running + 1
  /\ UNCHANGED <<errorCount, answered>>

\* A request without headers throws before anything else.
Malformed ==
  /\ Counted /\ Answer(500) /\ errorCount' = errorCount + 1
  /\ UNCHANGED <<setupVars, gateNow, rateLimiters, running, admitted, comeBack>>

HandlerAnswers ==
  /\ running > 0 /\ running' = running - 1 /\ Answer(200)
  /\ UNCHANGED <<setupVars, gateNow, rateLimiters, requestCount, errorCount, admitted, comeBack>>

\* Mutant of the next action: the failure is not counted.
HandlerFailsUncounted ==
  /\ running > 0 /\ running' = running - 1 /\ Answer(500)
  /\ UNCHANGED <<setupVars, gateNow, rateLimiters, requestCount, errorCount, admitted, comeBack>>

\* The handler rejects, or a listener of requestCompleted throws.
HandlerFails ==
  /\ running > 0 /\ running' = running - 1 /\ Answer(500)
  /\ errorCount' = errorCount + 1
  /\ UNCHANGED <<setupVars, gateNow, rateLimiters, requestCount, admitted, comeBack>>

GatewayTick ==
  /\ gateNow' = IF gateNow < MaxGateTime THEN gateNow + 1 ELSE gateNow
  /\ UNCHANGED <<setupVars, rateLimiters, running, requestCount, errorCount, answered, admitted, comeBack>>

GatewayNext ==
  \/ \E c \in ApiClients : \/ RateLimited(c)
                           \/ \E route \in Routes : RouteNotFound(c, route) \/ CallHandler(c, route)
  \/ \E route \in Routes : RegisterRoute(route)
  \/ \E k \in KeyIds : RegisterAPIKey(k) \/ RevokeAPIKey(k)
  \/ Unauthorized \/ Malformed \/ HandlerAnswers \/ HandlerFails \/ GatewayTick

GatewaySpec == GatewayInit /\ [][GatewayNext]_gatewayVars

\* What the gateway tells of itself.
GatewayStatistics ==
  [totalRequests |-> requestCount, totalErrors |-> errorCount,
   registeredRoutes |-> Cardinality(routes),
   activeRateLimiters |-> Cardinality({c \in ApiClients : rateLimiters[c] # NoLimiter}),
   registeredAPIKeys |-> Cardinality({k \in KeyIds : apiKeys[k] # "none"})]
Documentation == [endpoints |-> routes, rateLimit |-> limit]

----------------------------------------------------------------------------
GatewayTyped ==
  /\ routes \subseteq Routes /\ apiKeys \in [KeyIds -> {"none", "active", "revoked"}]
  /\ gateNow \in 0..MaxGateTime /\ running \in 0..MaxApiRequests
  /\ requestCount \in 0..MaxApiRequests /\ errorCount \in 0..MaxApiRequests
  /\ \A c \in ApiClients :
       /\ rateLimiters[c].count \in 0..MaxApiRequests
       /\ rateLimiters[c].window \in -1..gateNow
       /\ admitted[c] \in Seq(0..gateNow)

AdmittedIn(c, from, to) == Cardinality({i \in DOMAIN admitted[c] : admitted[c][i] \in from..to})

\* A window that starts between two of a client's requests doubles what it may
\* send in a minute, and never more than doubles it; and a refused client that
\* waits longer than it was told finds a new window.
LimitHolds ==
  \A c \in ApiClients :
    /\ \A from \in 0..gateNow : AdmittedIn(c, from, from + Window) <= 2 * limit
    /\ rateLimiters[c].count > limit /\ gateNow > comeBack[c] => gateNow - rateLimiters[c].window > Window

\* The counters that getStatistics() reports account for every answer, and only
\* what getDocumentation() lists has answered.
CountersAgree ==
  /\ GatewayStatistics.totalRequests = running + answered[200] + answered[401] + answered[404]
                                        + answered[429] + answered[500]
  /\ GatewayStatistics.totalErrors = answered[500]
  /\ GatewayStatistics.activeRateLimiters = Cardinality({c \in ApiClients : rateLimiters[c].count > 0})
  /\ answered[200] > 0 => Documentation.endpoints # {}
  /\ GatewayStatistics.registeredRoutes = Cardinality(Documentation.endpoints)

Gateway == LimitHolds /\ CountersAgree
=============================================================================
