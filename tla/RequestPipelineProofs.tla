------------------------ MODULE RequestPipelineProofs ------------------------
(***************************************************************************)
(* Proofs about RequestPipeline, for every set of connections, every set   *)
(* of the generated routes and every number of requests.                   *)
(***************************************************************************)
EXTENDS RequestPipeline, FiniteSetTheorems, TLAPS

-----------------------------------------------------------------------------
(***************************************************************************)
(* Types.                                                                  *)
(***************************************************************************)

\* A status is a number and 0 is none of them.
LEMMA StatusFacts == Statuses \subseteq Nat \ {0}
BY DEF Statuses

\* The status observeRequest reports is one that metrics count.
LEMMA OutcomeType ==
    ASSUME NEW r \in Requests, TypeOK
    PROVE  Outcome(r) \in Statuses
BY DEF TypeOK, Outcome, Statuses

\* Init puts every variable in its type.
LEMMA InitType == Init => TypeOK
<1> SUFFICES ASSUME Init PROVE TypeOK
  OBVIOUS
<1>1. NoMetric \in [requests : Nat, inFlight : Nat, panics : Nat,
                    responses : [Statuses -> Nat]]
  BY DEF NoMetric
<1>2. NoInput \in [route : Routes \cup Elsewhere,
                   credentials : {"none", "wrong", "token"},
                   form : {"ok", "unacceptable", "malformed", "invalid"},
                   local : BOOLEAN]
  BY DEF NoInput, Elsewhere
<1>3. QED
  BY <1>1, <1>2 DEF Init, TypeOK

\* Respond keeps status and tally in their types.
LEMMA RespondType ==
    ASSUME TypeOK, NEW r \in Requests, NEW s \in Statuses, Respond(r, s),
           input[r].route \in Routes
    PROVE  /\ status' \in [Requests -> Statuses \cup {0}]
           /\ tally' \in [Routes -> [Statuses -> Nat]]
           /\ pc' = [pc EXCEPT ![r] = "finish"]
           /\ status' = [status EXCEPT ![r] = s]
           /\ tally' = [tally EXCEPT ![input[r].route] =
                           [tally[input[r].route] EXCEPT ![s] = @ + 1]]
<1>1. tally[input[r].route] \in [Statuses -> Nat]
  BY DEF TypeOK
<1>2. [tally[input[r].route] EXCEPT ![s] = @ + 1] \in [Statuses -> Nat]
  BY <1>1
<1>3. QED
  BY <1>2 DEF TypeOK, Respond, Goto

\* A metric of a route.
Metric == [requests : Nat, inFlight : Nat, panics : Nat,
           responses : [Statuses -> Nat]]

\* What an update of a number leaves in a metric.
LEMMA MetricNumber ==
    ASSUME NEW m \in Metric, NEW n \in Nat
    PROVE  /\ [m EXCEPT !.requests = n] \in Metric
           /\ [m EXCEPT !.requests = n].requests = n
           /\ [m EXCEPT !.requests = n].inFlight = m.inFlight
           /\ [m EXCEPT !.requests = n].responses = m.responses
           /\ [m EXCEPT !.inFlight = n] \in Metric
           /\ [m EXCEPT !.inFlight = n].inFlight = n
           /\ [m EXCEPT !.inFlight = n].requests = m.requests
           /\ [m EXCEPT !.inFlight = n].responses = m.responses
           /\ [m EXCEPT !.panics = n] \in Metric
           /\ [m EXCEPT !.panics = n].inFlight = m.inFlight
           /\ [m EXCEPT !.panics = n].requests = m.requests
           /\ [m EXCEPT !.panics = n].responses = m.responses
BY DEF Metric

\* What an update of its responses leaves in a metric.
LEMMA MetricResponses ==
    ASSUME NEW m \in Metric, NEW p \in [Statuses -> Nat]
    PROVE  /\ [m EXCEPT !.responses = p] \in Metric
           /\ [m EXCEPT !.responses = p].responses = p
           /\ [m EXCEPT !.responses = p].requests = m.requests
           /\ [m EXCEPT !.responses = p].inFlight = m.inFlight
BY DEF Metric

\* What BeginHTTP leaves in the metrics.
LEMMA BeginMetrics ==
    ASSUME TypeOK, NEW r \in Requests, BeginHTTP(r), input[r].route \in Routes
    PROVE  /\ metrics' \in [Routes -> Metric]
           /\ \A x \in Routes \ {input[r].route} : metrics'[x] = metrics[x]
           /\ LET m == metrics[input[r].route]
                  n == metrics'[input[r].route]
              IN  /\ n.requests = m.requests + 1
                  /\ n.inFlight = m.inFlight + 1
                  /\ n.responses = m.responses
<1> DEFINE x == input[r].route
           m == metrics[x]
           i == m.requests + 1
           m1 == [m EXCEPT !.requests = i]
           j == m1.inFlight + 1
           m2 == [m1 EXCEPT !.inFlight = j]
<1>1. metrics \in [Routes -> Metric] /\ m \in Metric
  BY DEF TypeOK, Metric
<1>2. metrics' = [metrics EXCEPT ![x] = [m EXCEPT !.requests = @ + 1,
                                                  !.inFlight = @ + 1]]
  BY DEF BeginHTTP
<1>3. metrics' = [metrics EXCEPT ![x] = m2]
  BY <1>2, Zenon
<1>4. i \in Nat
  BY <1>1 DEF Metric
<1> HIDE DEF i, m
<1>5. /\ m1 \in Metric /\ m1.requests = i
      /\ m1.inFlight = m.inFlight /\ m1.responses = m.responses
  BY <1>1, <1>4, MetricNumber
<1> HIDE DEF m1
<1>6. j \in Nat /\ j = m.inFlight + 1
  BY <1>5 DEF Metric
<1> HIDE DEF j
<1>7. /\ m2 \in Metric /\ m2.requests = i
      /\ m2.inFlight = j /\ m2.responses = m.responses
  BY <1>5, <1>6, MetricNumber
<1> HIDE DEF m2
<1>8. metrics'[x] = m2 /\ metrics' \in [Routes -> Metric]
      /\ \A y \in Routes \ {x} : metrics'[y] = metrics[y]
  BY <1>1, <1>3, <1>7
<1>9. QED
  BY <1>6, <1>7, <1>8 DEF m, i

\* What HTTPMetrics.finish leaves in the metrics.
LEMMA FinishMetrics ==
    ASSUME TypeOK, NEW r \in Requests, Finish(r), input[r].route \in Routes
    PROVE  /\ metrics' \in [Routes -> Metric]
           /\ \A x \in Routes \ {input[r].route} : metrics'[x] = metrics[x]
           /\ LET m == metrics[input[r].route]
                  n == metrics'[input[r].route]
              IN  /\ n.requests = m.requests
                  /\ n.inFlight = IF m.inFlight > 0 THEN m.inFlight - 1
                                  ELSE m.inFlight
                  /\ n.responses = [m.responses EXCEPT ![Outcome(r)] = @ + 1]
<1> DEFINE x == input[r].route
           o == Outcome(r)
           m == metrics[x]
           k == IF m.inFlight > 0 THEN m.inFlight - 1 ELSE m.inFlight
           m1 == [m EXCEPT !.inFlight = k]
           p == [m1.responses EXCEPT ![o] = @ + 1]
           m2 == [m1 EXCEPT !.responses = p]
           j == IF r \in panicked THEN m2.panics + 1 ELSE m2.panics
           m3 == [m2 EXCEPT !.panics = j]
<1>1. metrics \in [Routes -> Metric] /\ m \in Metric /\ o \in Statuses
  BY OutcomeType DEF TypeOK, Metric
<1>2. metrics' = [metrics EXCEPT
                    ![x] = [m EXCEPT
                              !.inFlight = IF @ > 0 THEN @ - 1 ELSE @,
                              !.responses[o] = @ + 1,
                              !.panics = IF r \in panicked THEN @ + 1 ELSE @]]
  BY DEF Finish
<1>3. metrics' = [metrics EXCEPT ![x] = m3]
  BY <1>2, Zenon
<1>4. k \in Nat
  BY <1>1 DEF Metric
<1> HIDE DEF k, o, m
<1>5. /\ m1 \in Metric /\ m1.requests = m.requests
      /\ m1.inFlight = k /\ m1.responses = m.responses
  BY <1>1, <1>4, MetricNumber
<1> HIDE DEF m1
<1>6. p \in [Statuses -> Nat]
  BY <1>1, <1>5 DEF Metric
<1>7. p = [m.responses EXCEPT ![o] = @ + 1]
  BY <1>5
<1> HIDE DEF p
<1>8. /\ m2 \in Metric /\ m2.requests = m.requests
      /\ m2.inFlight = k /\ m2.responses = p
  BY <1>5, <1>6, MetricResponses
<1> HIDE DEF m2
<1>9. j \in Nat
  BY <1>8 DEF Metric
<1> HIDE DEF j
<1>10. /\ m3 \in Metric /\ m3.requests = m.requests
       /\ m3.inFlight = k /\ m3.responses = p
  BY <1>8, <1>9, MetricNumber
<1> HIDE DEF m3
<1>11. metrics'[x] = m3 /\ metrics' \in [Routes -> Metric]
       /\ \A y \in Routes \ {x} : metrics'[y] = metrics[y]
  BY <1>1, <1>3, <1>10
<1>12. QED
  BY <1>7, <1>10, <1>11 DEF k, m, o

-----------------------------------------------------------------------------
(***************************************************************************)
(* The inductive invariant.                                                *)
(***************************************************************************)

\* Where a request is tells what it has done: it is observed only on a
\* generated route, and its header, its panic and its terminal come last.
Staged ==
    \A r \in Requests :
        /\ pc[r] \in {"observe", "guard", "bind", "terminal", "finish"} =>
              input[r].route \in Routes
        /\ status[r] # 0 => pc[r] \in {"finish", "elsewhere"}
        /\ r \in panicked => pc[r] = "finish"
        /\ r \in invoked => pc[r] = "finish"

\* A principal comes from the token of a server that listens on the loopback
\* interface only.
Authenticated ==
    /\ server = "serving" => developerAuthentication
    /\ \A r \in Requests :
          principal[r] # {} =>
             /\ settings = [address |-> "loopback", token |-> "valid"]
             /\ input[r].credentials = "token"

\* Past Guard a protected route has a principal.
Guarded ==
    \A r \in Requests :
        pc[r] \in {"bind", "terminal"} \/ r \in invoked =>
            AllScopes(input[r].route) = {} \/ principal[r] # {}

Access == TypeOK /\ Staged /\ Authenticated /\ Guarded

\* Init establishes it.
LEMMA InitAccess == Init => Access
BY InitType DEF Init, Access, Staged, Authenticated, Guarded

\* A received request is typed, and its principal authenticated.
LEMMA ReceiveAccess ==
    ASSUME Access, NEW r \in Requests, Receive(r)
    PROVE  Access'
<1>1. \A route : Forms(route) \subseteq
                    {"ok", "unacceptable", "malformed", "invalid"}
  BY DEF Forms
<1> DEFINE Got(route, credentials, local, form) ==
             /\ input' = [input EXCEPT ![r] =
                             [route |-> route, credentials |-> credentials,
                              form |-> form, local |-> local]]
             /\ principal' = [principal EXCEPT ![r] =
                   IF settings.token = "valid" /\ credentials = "token"
                   THEN {"orders:notify", "orders:read", "orders:write"}
                   ELSE {}]
             /\ Goto(r, IF route \in Routes THEN "observe" ELSE "elsewhere")
<1>2. PICK route \in Routes \cup Elsewhere,
           credentials \in {"none", "wrong", "token"}, local \in BOOLEAN :
              \E form \in Forms(route) : Got(route, credentials, local, form)
  BY Zenon DEF Receive
<1>20. PICK form \in Forms(route) : Got(route, credentials, local, form)
  BY <1>2, Zenon
<1> form \in {"ok", "unacceptable", "malformed", "invalid"}
  BY <1>1
<1>3. TypeOK'
  BY <1>20 DEF Access, TypeOK, Receive, Goto
<1>4. Staged'
  BY <1>20 DEF Access, TypeOK, Staged, Receive, Goto
<1>5. Authenticated'
  BY <1>20 DEF Access, TypeOK, Authenticated, Receive, developerAuthentication
<1>6. Guarded'
  BY <1>20 DEF Access, TypeOK, Staged, Guarded, Receive, Goto
<1>7. QED
  BY <1>3, <1>4, <1>5, <1>6 DEF Access

\* A request that leaves takes what is its own with it.
LEMMA LeaveAccess ==
    ASSUME Access, NEW r \in Requests, Leave(r),
           UNCHANGED <<settings, server, received, tally>>,
           metrics' \in [Routes -> Metric]
    PROVE  Access'
<1>1. NoInput \in [route : Routes \cup Elsewhere,
                   credentials : {"none", "wrong", "token"},
                   form : {"ok", "unacceptable", "malformed", "invalid"},
                   local : BOOLEAN]
  BY DEF NoInput, Elsewhere
<1>2. TypeOK'
  BY <1>1 DEF Access, TypeOK, Leave, Goto, Metric
<1>3. Staged' /\ Guarded'
  BY DEF Access, TypeOK, Staged, Guarded, Leave, Goto
<1>4. Authenticated'
  BY DEF Access, TypeOK, Authenticated, developerAuthentication, Leave
<1>5. QED
  BY <1>2, <1>3, <1>4 DEF Access

\* Every step of the server preserves it.
LEMMA StepAccess == Access /\ [Next]_vars => Access'
<1> SUFFICES ASSUME Access, [Next]_vars PROVE Access'
  OBVIOUS
<1>0. /\ pc \in [Requests -> {"idle", "elsewhere", "observe", "guard", "bind",
                              "terminal", "finish"}]
      /\ status \in [Requests -> Statuses \cup {0}]
  BY DEF Access, TypeOK
<1> USE DEF Access, Staged, Authenticated, Guarded
<1>1. CASE UNCHANGED vars
  BY <1>1 DEF vars, TypeOK, developerAuthentication
<1>2. CASE NewServer
  BY <1>2 DEF NewServer, TypeOK, developerAuthentication
<1>3. ASSUME NEW r \in Requests, Cancel(r) PROVE Access'
  BY <1>3 DEF Cancel, TypeOK, developerAuthentication
<1>4. ASSUME NEW r \in Requests, ServeElsewhere(r) PROVE Access'
  <2>1. CASE Leave(r)
    BY <1>4, <2>1, LeaveAccess DEF ServeElsewhere, TypeOK, Metric
  <2>2. CASE \E s \in {200, 403, 404} : status' = [status EXCEPT ![r] = s]
             /\ UNCHANGED <<pc, input, principal, cancelled, invoked, panicked>>
    <3>1. status' \in [Requests -> Statuses \cup {0}]
      BY <2>2 DEF TypeOK, Statuses
    <3>2. TypeOK'
      BY <1>4, <2>2, <3>1 DEF ServeElsewhere, TypeOK
    <3>3. UNCHANGED <<settings, server, pc, input, principal, invoked>>
      BY <1>4, <2>2 DEF ServeElsewhere
    <3>4. Staged'
      <4>1. /\ panicked' = panicked /\ pc[r] = "elsewhere"
            /\ \A q \in Requests \ {r} : status'[q] = status[q]
        BY <1>4, <2>2 DEF ServeElsewhere, TypeOK
      <4>2. QED
        BY <3>3, <4>1
    <3>5. Authenticated'
      BY <3>3 DEF developerAuthentication
    <3>6. Guarded'
      BY <3>3
    <3>7. QED
      BY <3>2, <3>4, <3>5, <3>6
  <2>3. QED
    BY <1>4, <2>1, <2>2 DEF ServeElsewhere
<1>5. ASSUME NEW r \in Requests, BeginHTTP(r) PROVE Access'
  <2>1. metrics' \in [Routes -> Metric]
    BY <1>5, BeginMetrics DEF BeginHTTP
  <2>2. QED
    BY <1>5, <2>1
       DEF BeginHTTP, Goto, TypeOK, Metric, developerAuthentication
<1>6. ASSUME NEW r \in Requests, NEW s \in Statuses, Respond(r, s),
             input[r].route \in Routes, r \notin panicked,
             pc[r] \in {"guard", "bind", "terminal"},
             \/ invoked' = invoked
             \/ pc[r] = "terminal" /\ invoked' = invoked \cup {r},
             UNCHANGED <<settings, server, input, principal, cancelled,
                         panicked, metrics, received>>
      PROVE  Access'
  <2>1. /\ status' \in [Requests -> Statuses \cup {0}]
        /\ tally' \in [Routes -> [Statuses -> Nat]]
        /\ pc' = [pc EXCEPT ![r] = "finish"]
        /\ status' = [status EXCEPT ![r] = s]
    BY <1>6, RespondType
  <2>2. TypeOK'
    BY <1>6, <2>1 DEF TypeOK
  <2>3. Staged' /\ Guarded'
    BY <1>0, <1>6, <2>1
  <2>4. Authenticated'
    BY <1>6 DEF developerAuthentication
  <2>5. QED
    BY <2>2, <2>3, <2>4
<1>7. ASSUME NEW r \in Requests, Guard(r) PROVE Access'
  <2>1. CASE evaluate(r) = "allowed" /\ Goto(r, "bind")
             /\ UNCHANGED <<status, tally>>
    <3>1. AllScopes(input[r].route) = {} \/ principal[r] # {}
      BY <2>1 DEF evaluate
    <3>2. QED
      BY <1>7, <2>1, <3>1 DEF Guard, Goto, TypeOK, developerAuthentication
  <2>2. CASE \E s \in {401, 403, 500} : Respond(r, s)
    BY <1>6, <1>7, <2>2 DEF Guard, Statuses
  <2>3. QED
    BY <1>7, <2>1, <2>2 DEF Guard, evaluate
<1>8. ASSUME NEW r \in Requests, Bind(r) PROVE Access'
  <2>1. CASE Goto(r, "terminal") /\ UNCHANGED <<status, tally>>
    <3>1. TypeOK'
      BY <1>8, <2>1 DEF Bind, Goto, TypeOK
    <3>2. QED
      BY <1>0, <1>8, <2>1, <3>1 DEF Bind, Goto, developerAuthentication
  <2>2. CASE \E s \in {400, 406} : Respond(r, s)
    BY <1>6, <1>8, <2>2 DEF Bind, Statuses
  <2>3. QED
    BY <1>8, <2>1, <2>2 DEF Bind
<1>9. ASSUME NEW r \in Requests, Terminal(r) PROVE Access'
  <2>1. CASE \E s \in {200, 404, 409, 500} : Respond(r, s)
             /\ UNCHANGED panicked
    <3>1. PICK s \in {200, 404, 409, 500} : Respond(r, s)
      BY <2>1
    <3>2. s \in Statuses
      BY DEF Statuses
    <3>3. QED
      BY <1>6, <1>9, <2>1, <3>1, <3>2 DEF Terminal
  <2>2. CASE panicked' = panicked \cup {r} /\ Goto(r, "finish")
             /\ tally' = [tally EXCEPT ![input[r].route][500] = @ + 1]
             /\ UNCHANGED status
    <3>1. [tally[input[r].route] EXCEPT ![500] = @ + 1] \in [Statuses -> Nat]
      BY <1>9 DEF Terminal, TypeOK, Statuses
    <3>2. tally' \in [Routes -> [Statuses -> Nat]]
      BY <1>9, <2>2, <3>1 DEF Terminal, TypeOK
    <3>3. TypeOK'
      BY <1>9, <2>2, <3>2 DEF Terminal, Goto, TypeOK
    <3>4. Staged' /\ Guarded'
      BY <1>0, <1>9, <2>2 DEF Terminal, Goto
    <3>5. Authenticated'
      BY <1>9, <2>2 DEF Terminal, developerAuthentication
    <3>6. QED
      BY <3>3, <3>4, <3>5
  <2>3. QED
    BY <1>9, <2>1, <2>2 DEF Terminal
<1>10. ASSUME NEW r \in Requests, Finish(r) PROVE Access'
  BY <1>10, FinishMetrics, LeaveAccess DEF Finish
<1>11. QED
  BY <1>1, <1>2, <1>3, <1>4, <1>5, <1>7, <1>8, <1>9, <1>10, ReceiveAccess
     DEF Next, Serve

\* In every reachable state.
LEMMA AccessInvariance == Spec => []Access
BY InitAccess, StepAccess, PTL DEF Spec

\* Every variable stays in its type, for any set of connections and routes;
\* in particular the status each request is counted under is one of the
\* server's.
THEOREM TypeCorrect == Spec => []TypeOK
<1>1. Access => TypeOK
  BY DEF Access
<1>2. QED
  BY <1>1, AccessInvariance, PTL

\* Only a request with the developer token, at a server bound to the loopback
\* interface, reaches the terminal of a protected route.
THEOREM OrdersAreProtected == Spec => []ProtectedByToken
<1>1. Access => ProtectedByToken
  BY DEF Access, Authenticated, Guarded, ProtectedByToken, TypeOK
<1>2. QED
  BY <1>1, AccessInvariance, PTL

-----------------------------------------------------------------------------
(***************************************************************************)
(* The counters.                                                           *)
(***************************************************************************)

\* Observed requests of route x that are about to be counted under s.
Ending(x, s) == {r \in Observed(x) : pc[r] = "finish" /\ Outcome(r) = s}

\* Only finitely many requests are observed at a time.
FinitelyObserved == \A x \in Routes : IsFiniteSet(Observed(x))

Counted == FinitelyObserved /\ MetricsConserved /\ OutcomesCounted

\* One more response of one status is one more response.
LEMMA TotalAdds ==
    ASSUME NEW n \in [Statuses -> Nat], NEW s \in Statuses
    PROVE  Total([n EXCEPT ![s] = @ + 1]) = Total(n) + 1
BY DEF Total, Statuses

\* Init establishes the counts.
LEMMA InitCounted == Init => Counted
<1> SUFFICES ASSUME Init PROVE Counted
  OBVIOUS
<1>1. \A x \in Routes : Observed(x) = {}
  BY DEF Init, Observed
<1>2. FinitelyObserved
  BY <1>1, FS_EmptySet DEF FinitelyObserved
<1>3. ASSUME NEW x \in Routes
      PROVE  /\ metrics[x].requests = 0 /\ metrics[x].inFlight = 0
             /\ metrics[x].responses = [s \in Statuses |-> 0]
  BY DEF Init, NoMetric
<1>4. Total([s \in Statuses |-> 0]) = 0
  BY DEF Total, Statuses
<1>5. MetricsConserved
  BY <1>1, <1>3, <1>4, FS_EmptySet DEF MetricsConserved
<1>6. OutcomesCounted
  <2>1. \A x \in Routes, s \in Statuses : Ending(x, s) = {}
    BY <1>1 DEF Ending
  <2>2. \A x \in Routes, s \in Statuses :
           tally[x][s] = 0 /\ metrics[x].responses[s] = 0
    BY <1>3 DEF Init
  <2> SUFFICES ASSUME NEW x \in Routes, NEW s \in Statuses
               PROVE  tally[x][s] = metrics[x].responses[s]
                                      + Cardinality(Ending(x, s))
    BY DEF OutcomesCounted, Ending
  <2>3. QED
    BY <2>1, <2>2, FS_EmptySet
<1>7. QED
  BY <1>2, <1>5, <1>6 DEF Counted

\* A step that changes neither the counters nor who is observed or about to be
\* counted preserves the counts.
LEMMA CountedFrame ==
    ASSUME Counted, UNCHANGED <<metrics, tally>>,
           \A x \in Routes : Observed(x)' = Observed(x),
           \A x \in Routes, s \in Statuses : Ending(x, s)' = Ending(x, s)
    PROVE  Counted'
BY DEF Counted, FinitelyObserved, MetricsConserved, OutcomesCounted, Ending

\* BeginHTTP: one more request in flight.
LEMMA CountedBegin ==
    ASSUME Access, Counted, NEW r \in Requests, BeginHTTP(r)
    PROVE  Counted'
<1>0. PICK y \in Routes : y = input[r].route
  BY DEF BeginHTTP, Access, Staged
<1>1. r \notin Observed(y)
  BY DEF BeginHTTP, Observed
<1>2. /\ metrics' \in [Routes -> Metric]
      /\ \A x \in Routes \ {y} : metrics'[x] = metrics[x]
      /\ metrics'[y].requests = metrics[y].requests + 1
      /\ metrics'[y].inFlight = metrics[y].inFlight + 1
      /\ metrics'[y].responses = metrics[y].responses
  BY <1>0, BeginMetrics DEF Access
<1>3. metrics[y].requests \in Nat /\ metrics[y].responses \in [Statuses -> Nat]
  BY DEF Access, TypeOK
<1>4. \A x \in Routes : Observed(x)' = IF x = y THEN Observed(x) \cup {r}
                                      ELSE Observed(x)
  BY <1>0 DEF BeginHTTP, Goto, Access, TypeOK, Observed
<1>5. \A x \in Routes, s \in Statuses : Ending(x, s)' = Ending(x, s)
  <2>1. pc[r] # "finish" /\ pc'[r] # "finish"
    BY DEF BeginHTTP, Goto, Access, TypeOK
  <2>2. \A q \in Requests \ {r} : pc'[q] = pc[q] /\ Outcome(q)' = Outcome(q)
    BY DEF BeginHTTP, Goto, Access, TypeOK, Outcome
  <2>3. QED
    BY <1>4, <2>1, <2>2 DEF Ending, Observed
<1>6. IsFiniteSet(Observed(y)')
      /\ Cardinality(Observed(y)') = Cardinality(Observed(y)) + 1
  BY <1>1, <1>4, FS_AddElement DEF Counted, FinitelyObserved
<1>7. FinitelyObserved'
  BY <1>4, <1>6 DEF Counted, FinitelyObserved
<1>8. MetricsConserved'
  <2> SUFFICES ASSUME NEW x \in Routes
               PROVE  /\ metrics'[x].inFlight = Cardinality(Observed(x)')
                      /\ metrics'[x].requests =
                            metrics'[x].inFlight + Total(metrics'[x].responses)
    BY DEF MetricsConserved, Total
  <2>1. CASE x = y
    <3>1. metrics[y].inFlight = Cardinality(Observed(y))
          /\ metrics[y].requests =
                metrics[y].inFlight + Total(metrics[y].responses)
      BY DEF Counted, MetricsConserved
    <3>2. Total(metrics[y].responses) \in Nat
      BY <1>3 DEF Total, Statuses
    <3>3. metrics[y].inFlight \in Nat
      BY DEF Access, TypeOK
    <3>4. QED
      BY <1>2, <1>3, <1>6, <2>1, <3>1, <3>2, <3>3
  <2>2. CASE x # y
    BY <1>2, <1>4, <2>2 DEF Counted, MetricsConserved
  <2>3. QED
    BY <2>1, <2>2
<1>9. OutcomesCounted'
  <2>1. \A x \in Routes : metrics'[x].responses = metrics[x].responses
    BY <1>2
  <2>2. tally' = tally
    BY DEF BeginHTTP
  <2>3. QED
    BY <1>5, <2>1, <2>2 DEF Counted, OutcomesCounted, Ending
<1>10. QED
  BY <1>7, <1>8, <1>9 DEF Counted

\* Respond and a panic: the outcome is settled and counted in tally.
LEMMA CountedSettle ==
    ASSUME Access, Counted, NEW r \in Requests, NEW t \in Statuses,
           pc[r] \in {"guard", "bind", "terminal"},
           pc' = [pc EXCEPT ![r] = "finish"],
           Outcome(r)' = t,
           \A q \in Requests \ {r} : Outcome(q)' = Outcome(q),
           tally' = [tally EXCEPT ![input[r].route][t] = @ + 1],
           UNCHANGED <<input, metrics>>
    PROVE  Counted'
<1> DEFINE y == input[r].route
<1>1. y \in Routes /\ r \in Observed(y) /\ r \notin Ending(y, t)
  BY DEF Access, Staged, Observed, Ending
<1>2. \A x \in Routes : Observed(x)' = Observed(x)
  BY DEF Access, TypeOK, Observed
<1>3. \A x \in Routes, s \in Statuses :
         Ending(x, s)' = IF x = y /\ s = t THEN Ending(x, s) \cup {r}
                         ELSE Ending(x, s)
  BY <1>1, <1>2 DEF Access, TypeOK, Ending, Observed
<1>4. \A x \in Routes, s \in Statuses :
         tally'[x][s] = IF x = y /\ s = t THEN tally[x][s] + 1
                        ELSE tally[x][s]
  BY DEF Access, TypeOK
<1>5. Cardinality(Ending(y, t)') = Cardinality(Ending(y, t)) + 1
      /\ Cardinality(Ending(y, t)) \in Nat
  <2>1. IsFiniteSet(Ending(y, t))
    BY <1>1, FS_Subset DEF Counted, FinitelyObserved, Ending
  <2>2. QED
    BY <1>1, <1>3, <2>1, FS_AddElement, FS_CardinalityType
<1>6. FinitelyObserved' /\ MetricsConserved'
  BY <1>2 DEF Counted, FinitelyObserved, MetricsConserved
<1>7. OutcomesCounted'
  <2> SUFFICES ASSUME NEW x \in Routes, NEW s \in Statuses
               PROVE  tally'[x][s] = metrics'[x].responses[s]
                                       + Cardinality(Ending(x, s)')
    BY DEF OutcomesCounted, Ending
  <2>1. tally[x][s] = metrics[x].responses[s] + Cardinality(Ending(x, s))
    BY DEF Counted, OutcomesCounted, Ending
  <2>2. metrics[x].responses[s] \in Nat /\ metrics' = metrics
    BY DEF Access, TypeOK
  <2>3. CASE x = y /\ s = t
    BY <1>4, <1>5, <2>1, <2>2, <2>3
  <2>4. CASE ~(x = y /\ s = t)
    BY <1>3, <1>4, <2>1, <2>2, <2>4
  <2>5. QED
    BY <2>3, <2>4
<1>8. QED
  BY <1>6, <1>7 DEF Counted

\* Respond settles the outcome it is given.
LEMMA CountedRespond ==
    ASSUME Access, Counted, NEW r \in Requests, NEW t \in Statuses,
           pc[r] \in {"guard", "bind", "terminal"}, Respond(r, t),
           UNCHANGED <<input, panicked, metrics>>
    PROVE  Counted'
<1>1. t # 0
  BY StatusFacts
<1>2. Outcome(r)' = t /\ \A q \in Requests \ {r} : Outcome(q)' = Outcome(q)
  BY <1>1 DEF Respond, Outcome, Access, TypeOK
<1>3. QED
  BY <1>2, CountedSettle DEF Respond, Goto

\* Finish: one request less in flight, one response more.
LEMMA CountedFinish ==
    ASSUME Access, Counted, NEW r \in Requests, Finish(r)
    PROVE  Counted'
<1>0. PICK y \in Routes : y = input[r].route
  BY DEF Finish, Access, Staged
<1>1. PICK t \in Statuses : t = Outcome(r)
  BY OutcomeType DEF Access
<1>2. r \in Observed(y) /\ r \in Ending(y, t)
  BY <1>0, <1>1 DEF Finish, Observed, Ending
<1>3. /\ metrics' \in [Routes -> Metric]
      /\ \A x \in Routes \ {y} : metrics'[x] = metrics[x]
      /\ metrics'[y].requests = metrics[y].requests
      /\ metrics'[y].inFlight = IF metrics[y].inFlight > 0
                                THEN metrics[y].inFlight - 1
                                ELSE metrics[y].inFlight
      /\ metrics'[y].responses = [metrics[y].responses EXCEPT ![t] = @ + 1]
  BY <1>0, <1>1, FinishMetrics DEF Access
<1>4. /\ metrics[y].requests \in Nat
      /\ metrics[y].inFlight \in Nat
      /\ metrics[y].responses \in [Statuses -> Nat]
  BY DEF Access, TypeOK
<1>5. \A x \in Routes : Observed(x)' = IF x = y THEN Observed(x) \ {r}
                                      ELSE Observed(x)
  BY <1>0 DEF Finish, Leave, Goto, Access, TypeOK, Observed
<1>6. \A x \in Routes, s \in Statuses :
         Ending(x, s)' = IF x = y /\ s = t THEN Ending(x, s) \ {r}
                         ELSE Ending(x, s)
  <2>1. pc'[r] # "finish"
    BY DEF Finish, Leave, Goto, Access, TypeOK
  <2>2. \A q \in Requests \ {r} : pc'[q] = pc[q] /\ Outcome(q)' = Outcome(q)
    BY DEF Finish, Leave, Goto, Access, TypeOK, Outcome
  <2>3. QED
    BY <1>0, <1>1, <1>5, <2>1, <2>2 DEF Ending, Observed
<1>7. /\ IsFiniteSet(Observed(y)')
      /\ Cardinality(Observed(y)') = Cardinality(Observed(y)) - 1
      /\ Cardinality(Observed(y)) \in Nat /\ Cardinality(Observed(y)) # 0
  BY <1>2, <1>5, FS_RemoveElement, FS_CardinalityType, FS_EmptySet
     DEF Counted, FinitelyObserved
<1>8. /\ Cardinality(Ending(y, t)') = Cardinality(Ending(y, t)) - 1
      /\ Cardinality(Ending(y, t)) \in Nat
  <2>1. IsFiniteSet(Ending(y, t))
    BY FS_Subset DEF Counted, FinitelyObserved, Ending
  <2>2. QED
    BY <1>2, <1>6, <2>1, FS_RemoveElement, FS_CardinalityType
<1>9. FinitelyObserved'
  BY <1>5, <1>7 DEF Counted, FinitelyObserved
<1>10. MetricsConserved'
  <2> SUFFICES ASSUME NEW x \in Routes
               PROVE  /\ metrics'[x].inFlight = Cardinality(Observed(x)')
                      /\ metrics'[x].requests =
                            metrics'[x].inFlight + Total(metrics'[x].responses)
    BY DEF MetricsConserved, Total
  <2>1. CASE x = y
    <3>1. metrics[y].inFlight = Cardinality(Observed(y))
          /\ metrics[y].requests =
                metrics[y].inFlight + Total(metrics[y].responses)
      BY DEF Counted, MetricsConserved
    <3>2. Total(metrics'[y].responses) = Total(metrics[y].responses) + 1
      BY <1>3, <1>4, TotalAdds
    <3>3. Total(metrics[y].responses) \in Nat
      BY <1>4 DEF Total, Statuses
    <3>4. metrics'[y].inFlight = metrics[y].inFlight - 1
      BY <1>3, <1>4, <1>7, <3>1
    <3>5. QED
      BY <1>3, <1>4, <1>7, <2>1, <3>1, <3>2, <3>3, <3>4
  <2>2. CASE x # y
    BY <1>3, <1>5, <2>2 DEF Counted, MetricsConserved
  <2>3. QED
    BY <2>1, <2>2
<1>11. OutcomesCounted'
  <2> SUFFICES ASSUME NEW x \in Routes, NEW s \in Statuses
               PROVE  tally'[x][s] = metrics'[x].responses[s]
                                       + Cardinality(Ending(x, s)')
    BY DEF OutcomesCounted, Ending
  <2>1. tally[x][s] = metrics[x].responses[s] + Cardinality(Ending(x, s))
    BY DEF Counted, OutcomesCounted, Ending
  <2>2. metrics[x].responses[s] \in Nat /\ tally' = tally
    BY DEF Access, TypeOK, Finish
  <2>3. CASE x = y /\ s = t
    BY <1>3, <1>4, <1>8, <2>1, <2>2, <2>3
  <2>4. CASE ~(x = y /\ s = t)
    <3>1. metrics'[x].responses[s] = metrics[x].responses[s]
      BY <1>3, <1>4, <2>4
    <3>2. QED
      BY <1>6, <2>1, <2>2, <2>4, <3>1
  <2>5. QED
    BY <2>3, <2>4
<1>12. QED
  BY <1>9, <1>10, <1>11 DEF Counted

\* Every step of the server preserves the counts.
LEMMA StepCounted == Access /\ Counted /\ [Next]_vars => Counted'
<1> SUFFICES ASSUME Access, Counted, [Next]_vars PROVE Counted'
  OBVIOUS
<1>0. /\ pc \in [Requests -> {"idle", "elsewhere", "observe", "guard", "bind",
                              "terminal", "finish"}]
      /\ status \in [Requests -> Statuses \cup {0}]
  BY DEF Access, TypeOK
<1>1. CASE UNCHANGED vars
  BY <1>1, CountedFrame DEF vars, Observed, Ending, Outcome
<1>2. CASE NewServer
  BY <1>2, CountedFrame DEF NewServer, Observed, Ending, Outcome
<1>3. ASSUME NEW r \in Requests, Cancel(r) PROVE Counted'
  BY <1>3, CountedFrame DEF Cancel, Observed, Ending, Outcome
<1>4. ASSUME NEW r \in Requests,
             pc[r] \notin {"observe", "finish"},
             \A q \in Requests \ {r} :
                /\ pc'[q] = pc[q] /\ input'[q] = input[q]
                /\ Outcome(q)' = Outcome(q),
             \/ /\ pc[r] \in {"guard", "bind"}
                /\ pc'[r] \in {"bind", "terminal"}
                /\ input'[r] = input[r]
             \/ /\ pc[r] \in {"idle", "elsewhere"}
                /\ pc'[r] \in {"idle", "observe", "elsewhere"},
             UNCHANGED <<metrics, tally>>
      PROVE  Counted'
  <2>1. \A x \in Routes : Observed(x)' = Observed(x)
    BY <1>4 DEF Observed
  <2>2. \A x \in Routes, s \in Statuses : Ending(x, s)' = Ending(x, s)
    BY <1>4, <2>1 DEF Ending, Observed
  <2>3. QED
    BY <1>4, <2>1, <2>2, CountedFrame
<1>5. ASSUME NEW r \in Requests, Receive(r) PROVE Counted'
  <2>1. /\ pc'[r] \in {"observe", "elsewhere"}
        /\ \A q \in Requests \ {r} : pc'[q] = pc[q] /\ input'[q] = input[q]
    BY <1>0, <1>5 DEF Receive, Goto, Access, TypeOK
  <2>2. QED
    BY <1>4, <1>5, <2>1 DEF Receive, Outcome
<1>6. ASSUME NEW r \in Requests, ServeElsewhere(r) PROVE Counted'
  <2>1. /\ pc'[r] \in {"idle", "elsewhere"}
        /\ \A q \in Requests \ {r} :
              /\ pc'[q] = pc[q] /\ input'[q] = input[q]
              /\ Outcome(q)' = Outcome(q)
    BY <1>0, <1>6 DEF ServeElsewhere, Leave, Goto, Access, TypeOK, Outcome
  <2>2. QED
    BY <1>4, <1>6, <2>1 DEF ServeElsewhere
<1>7. ASSUME NEW r \in Requests, Guard(r) PROVE Counted'
  <2>1. CASE Goto(r, "bind") /\ UNCHANGED <<status, tally>>
    BY <1>0, <1>4, <1>7, <2>1 DEF Guard, Goto, Outcome
  <2>2. CASE \E s \in {401, 403, 500} : Respond(r, s)
    BY <1>7, <2>2, CountedRespond DEF Guard, Statuses
  <2>3. QED
    BY <1>7, <2>1, <2>2 DEF Guard, evaluate
<1>8. ASSUME NEW r \in Requests, Bind(r) PROVE Counted'
  <2>1. CASE Goto(r, "terminal") /\ UNCHANGED <<status, tally>>
    BY <1>0, <1>4, <1>8, <2>1 DEF Bind, Goto, Outcome
  <2>2. CASE \E s \in {400, 406} : Respond(r, s)
    BY <1>8, <2>2, CountedRespond DEF Bind, Statuses
  <2>3. QED
    BY <1>8, <2>1, <2>2 DEF Bind
<1>9. ASSUME NEW r \in Requests, Terminal(r) PROVE Counted'
  <2>1. CASE \E s \in {200, 404, 409, 500} : Respond(r, s)
             /\ UNCHANGED panicked
    BY <1>9, <2>1, CountedRespond DEF Terminal, Statuses
  <2>2. CASE panicked' = panicked \cup {r} /\ Goto(r, "finish")
             /\ tally' = [tally EXCEPT ![input[r].route][500] = @ + 1]
             /\ UNCHANGED status
    <3>1. status[r] = 0
      BY <1>9 DEF Terminal, Access, Staged
    <3>2. Outcome(r)' = 500
          /\ \A q \in Requests \ {r} : Outcome(q)' = Outcome(q)
      BY <2>2, <3>1 DEF Outcome
    <3>3. /\ pc[r] = "terminal" /\ pc' = [pc EXCEPT ![r] = "finish"]
          /\ UNCHANGED <<input, metrics>> /\ 500 \in Statuses
      BY <1>9, <2>2 DEF Terminal, Goto, Statuses
    <3>4. PICK t \in Statuses : t = 500
      BY <3>3
    <3>5. /\ Outcome(r)' = t
          /\ \A q \in Requests \ {r} : Outcome(q)' = Outcome(q)
      BY <3>2, <3>4
    <3>6. tally' = [tally EXCEPT ![input[r].route][t] = @ + 1]
      BY <2>2, <3>4
    <3>7. pc[r] \in {"guard", "bind", "terminal"}
      BY <3>3
    <3>8. QED
      BY <3>3, <3>5, <3>6, <3>7, CountedSettle
  <2>3. QED
    BY <1>9, <2>1, <2>2 DEF Terminal
<1>10. QED
  BY <1>1, <1>2, <1>3, <1>5, <1>6, <1>7, <1>8, <1>9, CountedBegin,
     CountedFinish DEF Next, Serve

\* In every reachable state.
LEMMA CountInvariance == Spec => []Counted
BY AccessInvariance, InitCounted, StepCounted, PTL DEF Spec

\* For any number of connections and routes, in-flight counts are exact and
\* every request that was counted as received is counted as one response,
\* whatever panics and whoever goes away.
THEOREM MetricsAreConserved == Spec => []MetricsConserved
<1>1. Counted => MetricsConserved
  BY DEF Counted
<1>2. QED
  BY <1>1, CountInvariance, PTL

\* Responses are counted under the outcome the client saw.
THEOREM OutcomesAreCounted == Spec => []OutcomesCounted
<1>1. Counted => OutcomesCounted
  BY DEF Counted
<1>2. QED
  BY <1>1, CountInvariance, PTL
=============================================================================
