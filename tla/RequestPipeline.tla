--------------------------- MODULE RequestPipeline ---------------------------
(***************************************************************************)
(* A request on its way through the server: developer authentication, the  *)
(* mux, the route's observation, its authorization guard, content          *)
(* negotiation, binding, validation, the typed terminal and the response.  *)
(* The observation counts every request of a generated route in            *)
(* HTTPMetrics, whose counters all requests share; a panic passes through  *)
(* it on its way to net/http.                                              *)
(*                                                                         *)
(* What a terminal does is the subject of OrderPlacement, OrderReceipts    *)
(* and CatalogRoute; here it returns, fails or panics.  ApplicationOptions *)
(* adds no middleware, interceptor, observer or error mapper, as in main.  *)
(***************************************************************************)
EXTENDS Naturals, FiniteSets

CONSTANTS
    Requests,     \* connections: each carries one request at a time
    Routes,       \* generated routes: place, get, receipt, catalog
    MaxRequests   \* bound on the requests the server receives

\* The scopes that the routes' policies require.
AllScopes(route) ==
    CASE route = "place" -> {"orders:write"}
      [] route = "get" -> {"orders:read"}
      [] route = "receipt" -> {"orders:notify"}
      [] route = "catalog" -> {}

Elsewhere == {"management", "unknown"}
Statuses == {200, 400, 401, 403, 404, 406, 409, 500}

\* A well-formed request, or the first thing the route finds wrong with it.
\* Only POST /orders has a body to decode and validate.
Forms(route) ==
    {"ok", "unacceptable"} \cup
       (IF route = "place" THEN {"malformed", "invalid"} ELSE {})

ASSUME PipelineAssumption ==
    /\ Routes \subseteq {"place", "get", "receipt", "catalog"}
    /\ MaxRequests \in Nat

VARIABLES
    settings,   \* address and developer token the server is built with
    server,     \* constructing, serving or refused
    pc,         \* where each request is
    input,      \* its route, credentials, form and peer
    principal,  \* the scopes of the principal in its context, or {}
    cancelled,  \* requests whose context is done
    invoked,    \* auxiliary: requests whose terminal was called
    status,     \* observedResponseWriter.status: 0 until the header is written
    panicked,   \* requests that are panicking
    metrics,    \* HTTPMetrics.routes
    received,   \* requests received so far
    tally       \* auxiliary: outcomes of observed requests, by route

vars == <<settings, server, pc, input, principal, cancelled, invoked, status,
          panicked, metrics, received, tally>>

NoMetric == [requests |-> 0, inFlight |-> 0, panics |-> 0,
             responses |-> [s \in Statuses |-> 0]]
NoInput == [route |-> "unknown", credentials |-> "none", form |-> "ok",
            local |-> TRUE]

Init ==
    /\ settings \in [address : {"loopback", "public"},
                     token : {"none", "valid", "malformed"}]
    /\ server = "constructing"
    /\ pc = [r \in Requests |-> "idle"]
    /\ input = [r \in Requests |-> NoInput]
    /\ principal = [r \in Requests |-> {}]
    /\ cancelled = {}
    /\ invoked = {}
    /\ status = [r \in Requests |-> 0]
    /\ panicked = {}
    /\ metrics = [x \in Routes |-> NoMetric]
    /\ received = 0
    /\ tally = [x \in Routes |-> [s \in Statuses |-> 0]]

Goto(r, label) == pc' = [pc EXCEPT ![r] = label]

\* The request and its context are gone.
Leave(r) ==
    /\ Goto(r, "idle")
    /\ input' = [input EXCEPT ![r] = NoInput]
    /\ principal' = [principal EXCEPT ![r] = {}]
    /\ cancelled' = cancelled \ {r}
    /\ invoked' = invoked \ {r}
    /\ status' = [status EXCEPT ![r] = 0]
    /\ panicked' = panicked \ {r}

\* Mutant of developerAuthentication: any address will do.
developerAnywhere == settings.token \in {"none", "valid"}

\* developerAuthentication accepts the settings.
developerAuthentication ==
    \/ settings.token = "none"
    \/ settings.token = "valid" /\ settings.address = "loopback"

NewServer ==
    /\ server = "constructing"
    /\ server' = IF developerAuthentication THEN "serving" ELSE "refused"
    /\ UNCHANGED <<settings, pc, input, principal, cancelled, invoked, status,
                   panicked, metrics, received, tally>>

\* The handler developerAuthentication returns, and the mux.
Receive(r) ==
    /\ server = "serving"
    /\ pc[r] = "idle"
    /\ received < MaxRequests
    /\ received' = received + 1
    /\ \E route \in Routes \cup Elsewhere,
          credentials \in {"none", "wrong", "token"}, local \in BOOLEAN :
          \E form \in Forms(route) :
             /\ settings.address = "loopback" => local
             /\ input' = [input EXCEPT ![r] =
                            [route |-> route, credentials |-> credentials,
                             form |-> form, local |-> local]]
             /\ principal' = [principal EXCEPT ![r] =
                   IF settings.token = "valid" /\ credentials = "token"
                   THEN {"orders:notify", "orders:read", "orders:write"}
                   ELSE {}]
             /\ Goto(r, IF route \in Routes THEN "observe" ELSE "elsewhere")
    /\ UNCHANGED <<settings, server, cancelled, invoked, status, panicked,
                   metrics, tally>>

\* The client goes away.
Cancel(r) ==
    /\ pc[r] # "idle"
    /\ cancelled' = cancelled \cup {r}
    /\ UNCHANGED <<settings, server, pc, input, principal, invoked, status,
                   panicked, metrics, received, tally>>

\* A path no generated route has: the mux or the management handler, which
\* answers its peers on the loopback interface only.  Neither is observed.
\* Its reports are the subject of ApplicationLifecycle.
ServeElsewhere(r) ==
    /\ pc[r] = "elsewhere"
    /\ \/ /\ status[r] = 0
          /\ status' = [status EXCEPT ![r] =
                CASE input[r].route = "unknown" -> 404
                  [] input[r].route = "management" /\ ~input[r].local -> 403
                  [] OTHER -> 200]
          /\ UNCHANGED <<pc, input, principal, cancelled, invoked, panicked>>
       \/ status[r] # 0 /\ Leave(r)
    /\ UNCHANGED <<settings, server, metrics, received, tally>>

\* BeginHTTP: counted as received and in flight.
BeginHTTP(r) ==
    /\ pc[r] = "observe"
    /\ metrics' = [metrics EXCEPT ![input[r].route].requests = @ + 1,
                                  ![input[r].route].inFlight = @ + 1]
    /\ Goto(r, "guard")
    /\ UNCHANGED <<settings, server, input, principal, cancelled, invoked,
                   status, panicked, received, tally>>

\* WriteProblem, WriteError and WriteJSON: the header is written once.
Respond(r, s) ==
    /\ status' = [status EXCEPT ![r] = s]
    /\ tally' = [tally EXCEPT ![input[r].route][s] = @ + 1]
    /\ Goto(r, "finish")

\* Guard and evaluate: 401 without a principal, 403 without the scope.  The
\* policy of get also has an expression, whose evaluation fails when the
\* context is done.
evaluate(r) ==
    IF AllScopes(input[r].route) = {} THEN "allowed"
    ELSE IF principal[r] = {} THEN "unauthenticated"
    ELSE IF ~(AllScopes(input[r].route) \subseteq principal[r]) THEN "scope"
    ELSE IF input[r].route = "get" /\ r \in cancelled THEN "error"
    ELSE "allowed"

\* Mutant of Guard: the guard answers and the handler runs all the same.
GuardFallsThrough(r) ==
    /\ pc[r] = "guard"
    /\ Goto(r, "bind")
    /\ UNCHANGED <<settings, server, input, principal, cancelled, invoked,
                   status, panicked, metrics, received, tally>>

Guard(r) ==
    /\ pc[r] = "guard"
    /\ \/ /\ evaluate(r) = "allowed"
          /\ Goto(r, "bind")
          /\ UNCHANGED <<status, tally>>
       \/ /\ evaluate(r) # "allowed"
          /\ Respond(r, CASE evaluate(r) = "unauthenticated" -> 401
                          [] evaluate(r) = "scope" -> 403
                          [] evaluate(r) = "error" -> 500)
    /\ UNCHANGED <<settings, server, input, principal, cancelled, invoked,
                   panicked, metrics, received>>

\* AcceptsJSON, DecodeJSON and Validate.
Bind(r) ==
    /\ pc[r] = "bind"
    /\ \/ /\ input[r].form = "ok"
          /\ Goto(r, "terminal")
          /\ UNCHANGED <<status, tally>>
       \/ /\ input[r].form # "ok"
          /\ Respond(r, IF input[r].form = "unacceptable" THEN 406 ELSE 400)
    /\ UNCHANGED <<settings, server, input, principal, cancelled, invoked,
                   panicked, metrics, received>>

\* The terminal returns a value, an error with a problem (404 and 409 stand
\* for them), any other error, or panics.
Terminal(r) ==
    /\ pc[r] = "terminal"
    /\ invoked' = invoked \cup {r}
    /\ \/ /\ \E s \in {200, 404, 409, 500} : Respond(r, s)
          /\ UNCHANGED panicked
       \/ /\ panicked' = panicked \cup {r}
          /\ tally' = [tally EXCEPT ![input[r].route][500] = @ + 1]
          /\ Goto(r, "finish")
          /\ UNCHANGED status
    /\ UNCHANGED <<settings, server, input, principal, cancelled, metrics,
                   received>>

\* Mutant of Outcome: a panic without a header counts as the default 200.
OutcomeDefault(r) == IF status[r] = 0 THEN 200 ELSE status[r]

\* The status observeRequest reports.
Outcome(r) ==
    IF status[r] # 0 THEN status[r]
    ELSE IF r \in panicked THEN 500 ELSE 200

\* Mutant of Finish: a panic is not recovered.
FinishUnlessPanicked(r) ==
    /\ pc[r] = "finish"
    /\ metrics' =
          IF r \in panicked THEN metrics
          ELSE [metrics EXCEPT
                  ![input[r].route].inFlight = IF @ > 0 THEN @ - 1 ELSE @,
                  ![input[r].route].responses[Outcome(r)] = @ + 1]
    /\ Leave(r)
    /\ UNCHANGED <<settings, server, received, tally>>

\* The deferred function of observeRequest, and HTTPMetrics.finish.  A panic
\* goes on to net/http, which drops the connection.
Finish(r) ==
    /\ pc[r] = "finish"
    /\ metrics' = [metrics EXCEPT
          ![input[r].route].inFlight = IF @ > 0 THEN @ - 1 ELSE @,
          ![input[r].route].responses[Outcome(r)] = @ + 1,
          ![input[r].route].panics = IF r \in panicked THEN @ + 1 ELSE @]
    /\ Leave(r)
    /\ UNCHANGED <<settings, server, received, tally>>

\* The steps of the goroutine that serves r.
Serve(r) ==
    \/ ServeElsewhere(r)
    \/ BeginHTTP(r)
    \/ Guard(r)
    \/ Bind(r)
    \/ Terminal(r)
    \/ Finish(r)

Next ==
    \/ NewServer
    \/ \E r \in Requests : Receive(r) \/ Cancel(r) \/ Serve(r)

Spec == Init /\ [][Next]_vars

-----------------------------------------------------------------------------
\* Properties.

\* Every variable has its type.
TypeOK ==
    /\ settings \in [address : {"loopback", "public"},
                     token : {"none", "valid", "malformed"}]
    /\ server \in {"constructing", "serving", "refused"}
    /\ pc \in [Requests -> {"idle", "elsewhere", "observe", "guard", "bind",
                            "terminal", "finish"}]
    /\ input \in [Requests ->
                     [route : Routes \cup Elsewhere,
                      credentials : {"none", "wrong", "token"},
                      form : {"ok", "unacceptable", "malformed", "invalid"},
                      local : BOOLEAN]]
    /\ principal \in [Requests -> SUBSET {"orders:notify", "orders:read",
                                         "orders:write"}]
    /\ status \in [Requests -> Statuses \cup {0}]
    /\ metrics \in [Routes -> [requests : Nat, inFlight : Nat, panics : Nat,
                               responses : [Statuses -> Nat]]]
    /\ tally \in [Routes -> [Statuses -> Nat]]
    /\ cancelled \cup invoked \cup panicked \subseteq Requests

Observed(route) ==
    {r \in Requests : /\ input[r].route = route
                      /\ pc[r] \in {"guard", "bind", "terminal", "finish"}}

Total(n) ==
    n[200] + n[400] + n[401] + n[403] + n[404] + n[406] + n[409] + n[500]

\* Whenever the metrics are read, a route's in-flight count is the number of
\* requests between BeginHTTP and its finish function, panicking ones
\* included, and every other request it counted is in exactly one response
\* class.  The floor in HTTPMetrics.finish never hides a missing count.
MetricsConserved ==
    \A x \in Routes :
        /\ metrics[x].inFlight = Cardinality(Observed(x))
        /\ metrics[x].requests =
              metrics[x].inFlight + Total(metrics[x].responses)

\* A response is counted under the status the client was sent, a panic that
\* was not preceded by a header under 500: for each route and status the
\* finished requests are those with that outcome that are not in flight.
OutcomesCounted ==
    \A x \in Routes, s \in Statuses :
        tally[x][s] =
           metrics[x].responses[s] +
              Cardinality({r \in Observed(x) :
                             pc[r] = "finish" /\ Outcome(r) = s})

\* The terminal of a protected route runs only for a request that presented
\* the developer token of a server bound to the loopback interface: without
\* the token setting no order can be placed, read or mailed.
ProtectedByToken ==
    \A r \in invoked :
        \/ AllScopes(input[r].route) = {}
        \/ /\ settings = [address |-> "loopback", token |-> "valid"]
           /\ input[r].credentials = "token"
=============================================================================
