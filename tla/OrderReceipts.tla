---------------------------- MODULE OrderReceipts ----------------------------
(***************************************************************************)
(* GET /orders/{id} and POST /orders/{id}/receipt: concurrent requests     *)
(* find a committed order, record the view through the OrderEvents topic   *)
(* and, for a receipt, mail it through the test transport or over SMTP     *)
(* with bounded retries, while other requests commit more orders.          *)
(*                                                                         *)
(* Rows are immutable (OrderStore), so an order is its ID here.  The SMTP  *)
(* stages before DATA, which all may be retried, are one: "session".       *)
(***************************************************************************)
EXTENDS Naturals, FiniteSets

CONSTANTS
    Requests,      \* Get and SendReceipt calls
    Orders,        \* order IDs
    Composable,    \* orders whose fields pass validateReceipt
    TestCapacity,  \* notifications.Settings.TestCapacity
    MaxAttempts,   \* notifications.Settings.MaxAttempts
    NoOrder        \* not an order ID

ASSUME ConstantsAssumption ==
    /\ IsFiniteSet(Requests)
    /\ Composable \subseteq Orders
    /\ NoOrder \notin Orders
    /\ TestCapacity \in Nat \ {0}
    /\ MaxAttempts \in Nat \ {0}

VARIABLES
    transport,  \* notifications.Settings.Transport: "test" or "smtp"
    committed,  \* rows of commerce_orders
    pc,         \* where each request is
    kind,       \* "get" or "receipt"
    order,      \* the ID in the request's path
    reply,      \* the HTTP answer
    cancelled,  \* requests whose context is done
    views,      \* ViewAudit.views
    attempt,    \* attempts retry.Do has made for the request
    recorded,   \* len(mailtest.Sender.attempts)
    delivered   \* auxiliary: messages the mail server took from each request

request == <<pc, kind, order, reply, cancelled>>
mail    == <<attempt, recorded, delivered>>
vars    == <<transport, committed, request, views, mail>>

Init ==
    /\ transport \in {"test", "smtp"}
    /\ committed = {}
    /\ pc = [r \in Requests |-> "idle"]
    /\ kind = [r \in Requests |-> "get"]
    /\ order = [r \in Requests |-> NoOrder]
    /\ reply = [r \in Requests |-> "none"]
    /\ cancelled = {}
    /\ views = [i \in Orders |-> 0]
    /\ attempt = [r \in Requests |-> 0]
    /\ recorded = 0
    /\ delivered = [r \in Requests |-> 0]

Goto(r, label) ==
    /\ pc' = [pc EXCEPT ![r] = label]
    /\ UNCHANGED <<kind, order, reply, cancelled>>

Answer(r, answer) ==
    /\ pc' = [pc EXCEPT ![r] = "done"]
    /\ reply' = [reply EXCEPT ![r] = answer]
    /\ UNCHANGED <<kind, order, cancelled>>

-----------------------------------------------------------------------------
\* A transaction of OrderPlacement commits a row.
CommitOrder ==
    /\ \E i \in Orders \ committed : committed' = committed \cup {i}
    /\ UNCHANGED <<request, views, mail>>

\* The generated route binds the path's ID and calls the controller.
Arrive(r, k) ==
    /\ pc[r] = "idle"
    /\ pc' = [pc EXCEPT ![r] = "find"]
    /\ kind' = [kind EXCEPT ![r] = k]
    /\ \E i \in Orders : order' = [order EXCEPT ![r] = i]
    /\ UNCHANGED <<committed, reply, cancelled, views, mail>>

Get(r)         == Arrive(r, "get")
SendReceipt(r) == Arrive(r, "receipt")

\* The client goes away or the server ends the request's context.
Cancel(r) ==
    /\ pc[r] \notin {"idle", "done"}
    /\ r \notin cancelled
    /\ cancelled' = cancelled \cup {r}
    /\ UNCHANGED <<committed, pc, kind, order, reply, views, mail>>

\* Mutant of Find: an order that is not committed yet is taken for found.
FindUncommitted(r) ==
    /\ pc[r] = "find"
    /\ Goto(r, "publish")
    /\ UNCHANGED <<committed, views, mail>>

\* orders.Service.Find up to the row; the store may fail.
Find(r) ==
    /\ pc[r] = "find"
    /\ \/ r \notin cancelled /\ order[r] \in committed /\ Goto(r, "publish")
       \/ r \notin cancelled /\ order[r] \notin committed
          /\ Answer(r, "notFound")
       \/ Answer(r, "error")
    /\ UNCHANGED <<committed, views, mail>>

\* Mutant of Publish: the order is shown although the view was not recorded.
PublishIgnored(r) ==
    /\ pc[r] = "publish"
    /\ views' = IF r \in cancelled THEN views
                ELSE [views EXCEPT ![order[r]] = @ + 1]
    /\ IF kind[r] = "get" THEN Answer(r, "found") ELSE Goto(r, "compose")
    /\ UNCHANGED <<committed, mail>>

\* Topic.Publish and ViewAudit.Record: an order whose view cannot be recorded
\* is not shown.
Publish(r) ==
    /\ pc[r] = "publish"
    /\ \/ /\ r \in cancelled
          /\ Answer(r, "error")
          /\ UNCHANGED views
       \/ /\ r \notin cancelled
          /\ views' = [views EXCEPT ![order[r]] = @ + 1]
          /\ IF kind[r] = "get" THEN Answer(r, "found") ELSE Goto(r, "compose")
    /\ UNCHANGED <<committed, mail>>

\* Delivery.Send hands the message to the transport NewDelivery selected.
Deliver(r) == Goto(r, transport)

\* Notifier.SendReceipt up to Send.
Compose(r) ==
    /\ pc[r] = "compose"
    /\ \/ /\ r \in cancelled \/ order[r] \notin Composable
          /\ Answer(r, "failed")
       \/ /\ r \notin cancelled
          /\ order[r] \in Composable
          /\ Deliver(r)
    /\ UNCHANGED <<committed, views, mail>>

-----------------------------------------------------------------------------
\* mailtest.Sender.

\* Mutant of Full: one attempt more than the capacity is kept.
FullLate == recorded > TestCapacity

Full == recorded = TestCapacity

\* mailtest.Sender.Send keeps every attempt, delivered or cancelled, and
\* refuses the ones its capacity has no room for.
SendTest(r) ==
    /\ pc[r] = "test"
    /\ \/ /\ Full
          /\ Answer(r, "failed")
          /\ UNCHANGED <<recorded, delivered>>
       \/ /\ ~Full
          /\ recorded' = recorded + 1
          /\ \/ /\ r \notin cancelled
                /\ delivered' = [delivered EXCEPT ![r] = @ + 1]
                /\ Answer(r, "accepted")
             \/ /\ r \in cancelled
                /\ Answer(r, "failed")
                /\ UNCHANGED delivered
    /\ UNCHANGED <<committed, views, attempt>>

-----------------------------------------------------------------------------
\* starter-smtp Sender.

\* Mutant of RetrySafe: a failure after DATA is retried as well.
RetrySafeAlways(stage) == TRUE

\* The stages whose failure newDeliveryError marks as safe to retry.
RetrySafe(stage) == stage = "session"

\* Mutant of Attempt: the attempts are not counted.
AttemptUncounted(r) ==
    /\ pc[r] = "smtp"
    /\ \/ r \in cancelled /\ Answer(r, "failed")
       \/ r \notin cancelled /\ Goto(r, "session")
    /\ UNCHANGED <<committed, views, mail>>

\* retry.Do begins an attempt.
Attempt(r) ==
    /\ pc[r] = "smtp"
    /\ \/ /\ r \in cancelled
          /\ Answer(r, "failed")
          /\ UNCHANGED attempt
       \/ /\ r \notin cancelled
          /\ attempt' = [attempt EXCEPT ![r] = @ + 1]
          /\ Goto(r, "session")
    /\ UNCHANGED <<committed, views, recorded, delivered>>

\* retry.Do after a failed attempt: give up, or wait and try again, which
\* needs a transient failure, a stage that is safe, and attempts left.  The
\* wait ends early when the context is done, which the next attempt notices.
AttemptFails(r, stage) ==
    \/ Answer(r, "failed")
    \/ /\ RetrySafe(stage)
       /\ r \notin cancelled
       /\ attempt[r] < MaxAttempts
       /\ Goto(r, "smtp")

\* The SMTP dialogue up to the server's answer to DATA; cancellation and the
\* attempt's timeout close the connection and end it as a failure.
Session(r) ==
    /\ pc[r] = "session"
    /\ \/ r \notin cancelled /\ Goto(r, "data")
       \/ AttemptFails(r, "session")
    /\ UNCHANGED <<committed, views, mail>>

\* Mutant of Data: the receipt counts as accepted before the server has
\* answered.
DataUnanswered(r) ==
    /\ pc[r] = "data"
    /\ \/ delivered' = [delivered EXCEPT ![r] = @ + 1]
       \/ UNCHANGED delivered
    /\ Answer(r, "accepted")
    /\ UNCHANGED <<committed, views, attempt, recorded>>

\* The message and the final answer: the server takes the message or not, and
\* its answer may be lost after it took it.
Data(r) ==
    /\ pc[r] = "data"
    /\ \/ /\ delivered' = [delivered EXCEPT ![r] = @ + 1]
          /\ Answer(r, "accepted") \/ AttemptFails(r, "acceptance")
       \/ /\ AttemptFails(r, "message")
          /\ UNCHANGED delivered
    /\ UNCHANGED <<committed, views, attempt, recorded>>

-----------------------------------------------------------------------------
Step(r) ==
    /\ UNCHANGED transport
    /\ \/ Find(r) \/ Publish(r) \/ Compose(r)
       \/ SendTest(r)
       \/ Attempt(r) \/ Session(r) \/ Data(r)

Next ==
    \/ \E r \in Requests : Step(r)
    \/ /\ UNCHANGED transport
       /\ \/ CommitOrder
          \/ \E r \in Requests : Get(r) \/ SendReceipt(r) \/ Cancel(r)

Spec == Init /\ [][Next]_vars

\* The goroutine of a request runs, and an attempt ends by its timeout at the
\* latest; the outcome of an attempt is not constrained.
FairSpec == Spec /\ \A r \in Requests : WF_vars(Step(r))

-----------------------------------------------------------------------------
\* Properties

\* Type invariant.  The bounds are the code's: retry.Do never exceeds its
\* attempts and the test transport never its capacity.
TypeOK ==
    /\ transport \in {"test", "smtp"}
    /\ committed \in SUBSET Orders
    /\ pc \in [Requests -> {"idle", "find", "publish", "compose", "test",
                            "smtp", "session", "data", "done"}]
    /\ kind \in [Requests -> {"get", "receipt"}]
    /\ order \in [Requests -> Orders \cup {NoOrder}]
    /\ reply \in [Requests -> {"none", "found", "notFound", "error", "failed",
                               "accepted"}]
    /\ cancelled \in SUBSET Requests
    /\ views \in [Orders -> Nat]
    /\ attempt \in [Requests -> 0 .. MaxAttempts]
    /\ recorded \in 0 .. TestCapacity
    /\ delivered \in [Requests -> Nat]

\* README.md:134 "never replays ambiguous delivery": retries, lost answers and
\* cancellations never make one request send its receipt twice.
NeverReplayed == \A r \in Requests : delivered[r] <= 1

\* The answer can be trusted: an accepted receipt has reached the server, and
\* one refused before Send has not.  Only a failed delivery leaves it open.
ReceiptTruthful ==
    \A r \in Requests :
        /\ reply[r] = "accepted" => delivered[r] > 0
        /\ reply[r] \in {"found", "notFound", "error"} => delivered[r] = 0

\* README.md:127 "runs only after the order transaction has committed": no
\* order is shown or mailed before it is committed.
OnlyCommittedRevealed ==
    \A r \in Requests :
        reply[r] \in {"found", "accepted"} \/ delivered[r] > 0 =>
            order[r] \in committed

\* Every time an order was shown or mailed its view had been counted: under
\* concurrency, cancellation and failed deliveries the audit never
\* under-reports.
RevealedIsAudited ==
    \A i \in Orders :
        Cardinality({r \in Requests : order[r] = i
                        /\ (reply[r] = "found" \/ delivered[r] > 0)})
            <= views[i]

\* Every request is answered: transient failures are not retried for ever.
Answered == \A r \in Requests : pc[r] = "find" ~> pc[r] = "done"
=============================================================================
