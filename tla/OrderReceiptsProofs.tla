------------------------- MODULE OrderReceiptsProofs -------------------------
(***************************************************************************)
(* Theorems about OrderReceipts: the bounds on attempts and on the test    *)
(* transport, and what an answer to a view or a receipt says about the     *)
(* mail server, the committed rows and the audit, for any number of        *)
(* requests and orders and either transport.                               *)
(***************************************************************************)
EXTENDS OrderReceipts, FiniteSetTheorems, TLAPS

-----------------------------------------------------------------------------
(***************************************************************************)
(* The inductive invariant.                                                *)
(***************************************************************************)

\* Where a request is once its view has been counted.
Mailing == {"compose", "test", "smtp", "session", "data"}

\* An attempt is left for whoever is about to make one.
AttemptsLeft ==
    \A r \in Requests :
        /\ pc[r] \in {"idle", "find", "publish", "compose"} => attempt[r] = 0
        /\ pc[r] = "smtp" => attempt[r] < MaxAttempts

\* A request is answered when it is done and not before.
AnsweredOnce ==
    \A r \in Requests :
        IF pc[r] = "done" THEN reply[r] # "none" ELSE reply[r] = "none"

\* The mail server has at most one message of a request, which is over then.
DeliveredOnce ==
    \A r \in Requests :
        \/ delivered[r] = 0 /\ reply[r] # "accepted"
        \/ delivered[r] = 1 /\ reply[r] \in {"accepted", "failed"}

\* Past Find, the order is committed.
FoundCommitted ==
    \A r \in Requests :
        pc[r] \in Mailing \cup {"publish"}
          \/ reply[r] \in {"found", "accepted", "failed"} =>
            order[r] \in committed

Truth == TypeOK /\ AttemptsLeft /\ AnsweredOnce /\ DeliveredOnce
            /\ FoundCommitted

-----------------------------------------------------------------------------
\* Init establishes the invariant.
LEMMA InitTruth == Init => Truth
BY ConstantsAssumption
   DEF Init, Truth, TypeOK, AttemptsLeft, AnsweredOnce, DeliveredOnce,
       FoundCommitted, Mailing

\* A request that moves on, unanswered, with nothing newly delivered.
LEMMA GotoTruth ==
    ASSUME Truth, NEW r \in Requests, NEW label, Goto(r, label),
           pc[r] \notin {"idle", "done"},
           label \in Mailing \cup {"publish"},
           order[r] \in committed,
           label = "compose" => attempt[r] = 0,
           label = "publish" => attempt[r] = 0,
           label = "smtp" => attempt'[r] < MaxAttempts,
           attempt' \in [Requests -> 0 .. MaxAttempts],
           \A q \in Requests \ {r} : attempt'[q] = attempt[q],
           label \in {"publish", "compose"} => attempt' = attempt,
           views' \in [Orders -> Nat],
           UNCHANGED <<transport, committed, recorded, delivered>>
    PROVE  Truth'
<1>1. TypeOK'
  BY DEF Truth, TypeOK, Goto, Mailing
<1>2. AttemptsLeft'
  BY DEF Truth, TypeOK, AttemptsLeft, Goto, Mailing
<1>3. AnsweredOnce'
  BY DEF Truth, TypeOK, AnsweredOnce, Goto, Mailing
<1>4. DeliveredOnce'
  BY DEF Truth, DeliveredOnce, Goto
<1>5. FoundCommitted'
  BY DEF Truth, TypeOK, FoundCommitted, Goto, Mailing
<1>6. QED
  BY <1>1, <1>2, <1>3, <1>4, <1>5 DEF Truth

\* A request that is answered, truthfully.
LEMMA AnswerTruth ==
    ASSUME Truth, NEW r \in Requests, NEW answer, Answer(r, answer),
           pc[r] \notin {"idle", "done"},
           answer \in {"found", "notFound", "error", "failed", "accepted"},
           answer \in {"found", "accepted", "failed"} =>
               order[r] \in committed,
           \/ /\ delivered' = delivered
              /\ answer # "accepted"
           \/ /\ delivered' = [delivered EXCEPT ![r] = @ + 1]
              /\ answer \in {"accepted", "failed"},
           views' \in [Orders -> Nat],
           recorded' \in 0 .. TestCapacity,
           UNCHANGED <<transport, committed, attempt>>
    PROVE  Truth'
<1>1. reply[r] = "none" /\ delivered[r] = 0
  BY DEF Truth, AnsweredOnce, DeliveredOnce
<1>2. TypeOK'
  BY DEF Truth, TypeOK, Answer
<1>3. AttemptsLeft'
  BY DEF Truth, TypeOK, AttemptsLeft, Answer
<1>4. AnsweredOnce'
  BY DEF Truth, TypeOK, AnsweredOnce, Answer
<1>5. DeliveredOnce'
  BY <1>1 DEF Truth, TypeOK, DeliveredOnce, Answer
<1>6. FoundCommitted'
  BY DEF Truth, TypeOK, FoundCommitted, Answer, Mailing
<1>7. QED
  BY <1>2, <1>3, <1>4, <1>5, <1>6 DEF Truth

\* A request arrives.
LEMMA ArriveTruth ==
    ASSUME Truth, NEW r \in Requests, NEW k \in {"get", "receipt"},
           Arrive(r, k), UNCHANGED transport
    PROVE  Truth'
<1>1. TypeOK'
  BY DEF Truth, TypeOK, Arrive, mail
<1>2. AttemptsLeft' /\ AnsweredOnce' /\ DeliveredOnce'
  BY DEF Truth, TypeOK, AttemptsLeft, AnsweredOnce, DeliveredOnce, Arrive, mail
<1>3. reply[r] = "none"
  BY DEF Truth, AnsweredOnce, Arrive
<1>4. FoundCommitted'
  BY <1>3 DEF Truth, TypeOK, FoundCommitted, Arrive, Mailing
<1>5. QED
  BY <1>1, <1>2, <1>4 DEF Truth

\* A failed attempt is answered, or tried again when that is safe.
LEMMA FailTruth ==
    ASSUME Truth, NEW r \in Requests, NEW stage, AttemptFails(r, stage),
           pc[r] \in {"session", "data"},
           \/ delivered' = delivered
           \/ /\ delivered' = [delivered EXCEPT ![r] = @ + 1]
              /\ stage # "session",
           UNCHANGED <<transport, committed, views, attempt, recorded>>
    PROVE  Truth'
<1>1. order[r] \in committed
  BY DEF Truth, FoundCommitted, Mailing
<1>2. /\ attempt' \in [Requests -> 0 .. MaxAttempts]
      /\ views' \in [Orders -> Nat]
      /\ recorded' \in 0 .. TestCapacity
  BY DEF Truth, TypeOK
<1>3. CASE Answer(r, "failed")
  BY <1>1, <1>2, <1>3, AnswerTruth
<1>4. CASE /\ stage = "session"
           /\ attempt[r] < MaxAttempts
           /\ Goto(r, "smtp")
  BY <1>1, <1>2, <1>4, GotoTruth DEF Mailing
<1>5. QED
  BY <1>3, <1>4 DEF AttemptFails, RetrySafe

\* Every step preserves the invariant.
LEMMA StepTruth == Truth /\ [Next]_vars => Truth'
<1> SUFFICES ASSUME Truth, [Next]_vars PROVE Truth'
  OBVIOUS
<1>0. /\ transport \in {"test", "smtp"}
      /\ attempt \in [Requests -> 0 .. MaxAttempts]
      /\ views \in [Orders -> Nat]
      /\ recorded \in 0 .. TestCapacity
      /\ MaxAttempts \in Nat \ {0} /\ TestCapacity \in Nat \ {0}
  BY ConstantsAssumption DEF Truth, TypeOK
<1>1. CASE UNCHANGED vars
  BY <1>1 DEF vars, request, mail, Truth, TypeOK, AttemptsLeft, AnsweredOnce,
              DeliveredOnce, FoundCommitted
<1>2. CASE CommitOrder /\ UNCHANGED transport
  BY <1>2 DEF CommitOrder, request, mail, Truth, TypeOK, AttemptsLeft,
              AnsweredOnce, DeliveredOnce, FoundCommitted
<1>3. ASSUME NEW r \in Requests, Get(r) \/ SendReceipt(r), UNCHANGED transport
      PROVE  Truth'
  BY <1>3, ArriveTruth DEF Get, SendReceipt
<1>4. ASSUME NEW r \in Requests, Cancel(r), UNCHANGED transport
      PROVE  Truth'
  BY <1>4 DEF Cancel, mail, Truth, TypeOK, AttemptsLeft, AnsweredOnce,
              DeliveredOnce, FoundCommitted
<1>5. ASSUME NEW r \in Requests, Find(r), UNCHANGED transport PROVE Truth'
  <2>1. attempt[r] = 0
    BY <1>5 DEF Truth, AttemptsLeft, Find
  <2>2. UNCHANGED <<views, attempt, recorded, delivered>>
    BY <1>5 DEF Find, mail
  <2>3. CASE order[r] \in committed /\ Goto(r, "publish")
    BY <1>0, <1>5, <2>1, <2>2, <2>3, GotoTruth DEF Find
  <2>4. CASE Answer(r, "notFound") \/ Answer(r, "error")
    BY <1>0, <1>5, <2>2, <2>4, AnswerTruth DEF Find
  <2>5. QED
    BY <1>5, <2>3, <2>4 DEF Find
<1>6. ASSUME NEW r \in Requests, Publish(r), UNCHANGED transport PROVE Truth'
  <2>1. attempt[r] = 0 /\ order[r] \in committed
    BY <1>6 DEF Truth, AttemptsLeft, FoundCommitted, Publish
  <2>2. UNCHANGED <<attempt, recorded, delivered>> /\ views' \in [Orders -> Nat]
    BY <1>0, <1>6 DEF Publish, mail
  <2>3. CASE Goto(r, "compose")
    BY <1>0, <1>6, <2>1, <2>2, <2>3, GotoTruth DEF Publish, Mailing
  <2>4. CASE Answer(r, "error") \/ Answer(r, "found")
    BY <1>0, <1>6, <2>1, <2>2, <2>4, AnswerTruth DEF Publish
  <2>5. QED
    BY <1>6, <2>3, <2>4 DEF Publish
<1>7. ASSUME NEW r \in Requests, Compose(r), UNCHANGED transport PROVE Truth'
  <2>1. attempt[r] = 0 /\ order[r] \in committed
    BY <1>7 DEF Truth, AttemptsLeft, FoundCommitted, Compose, Mailing
  <2>2. UNCHANGED <<views, attempt, recorded, delivered>>
    BY <1>7 DEF Compose, mail
  <2>3. CASE Goto(r, transport)
    BY <1>0, <1>7, <2>1, <2>2, <2>3, GotoTruth DEF Compose, Mailing
  <2>4. CASE Answer(r, "failed")
    BY <1>0, <1>7, <2>1, <2>2, <2>4, AnswerTruth DEF Compose
  <2>5. QED
    BY <1>7, <2>3, <2>4 DEF Compose, Deliver
<1>8. ASSUME NEW r \in Requests, SendTest(r), UNCHANGED transport PROVE Truth'
  <2>1. order[r] \in committed
    BY <1>8 DEF Truth, FoundCommitted, SendTest, Mailing
  <2>2. recorded' \in 0 .. TestCapacity
    BY <1>0, <1>8 DEF SendTest, Full
  <2>3. UNCHANGED <<committed, views, attempt>>
    BY <1>8 DEF SendTest
  <2>4. CASE Answer(r, "failed") /\ UNCHANGED delivered
    BY <1>0, <1>8, <2>1, <2>2, <2>3, <2>4, AnswerTruth DEF SendTest
  <2>5. CASE Answer(r, "accepted")
             /\ delivered' = [delivered EXCEPT ![r] = @ + 1]
    BY <1>0, <1>8, <2>1, <2>2, <2>3, <2>5, AnswerTruth DEF SendTest
  <2>6. QED
    BY <1>8, <2>4, <2>5 DEF SendTest
<1>9. ASSUME NEW r \in Requests, Attempt(r), UNCHANGED transport PROVE Truth'
  <2>1. order[r] \in committed /\ attempt[r] < MaxAttempts
    BY <1>9 DEF Truth, FoundCommitted, AttemptsLeft, Attempt, Mailing
  <2>2. UNCHANGED <<committed, views, recorded, delivered>>
    BY <1>9 DEF Attempt
  <2>3. CASE Answer(r, "failed") /\ UNCHANGED attempt
    BY <1>0, <1>9, <2>1, <2>2, <2>3, AnswerTruth DEF Attempt
  <2>4. CASE Goto(r, "session") /\ attempt' = [attempt EXCEPT ![r] = @ + 1]
    <3>1. /\ attempt' \in [Requests -> 0 .. MaxAttempts]
          /\ \A q \in Requests \ {r} : attempt'[q] = attempt[q]
      BY <1>0, <2>1, <2>4
    <3>2. QED
      BY <1>0, <1>9, <2>1, <2>2, <2>4, <3>1, GotoTruth DEF Attempt, Mailing
  <2>5. QED
    BY <1>9, <2>3, <2>4 DEF Attempt
<1>10. ASSUME NEW r \in Requests, Session(r), UNCHANGED transport PROVE Truth'
  <2>1. order[r] \in committed
    BY <1>10 DEF Truth, FoundCommitted, Session, Mailing
  <2>2. UNCHANGED <<committed, views, attempt, recorded, delivered>>
    BY <1>10 DEF Session, mail
  <2>3. CASE Goto(r, "data")
    BY <1>0, <1>10, <2>1, <2>2, <2>3, GotoTruth DEF Session, Mailing
  <2>4. CASE AttemptFails(r, "session")
    BY <1>10, <2>2, <2>4, FailTruth DEF Session
  <2>5. QED
    BY <1>10, <2>3, <2>4 DEF Session
<1>11. ASSUME NEW r \in Requests, Data(r), UNCHANGED transport PROVE Truth'
  <2>1. order[r] \in committed
    BY <1>11 DEF Truth, FoundCommitted, Data, Mailing
  <2>2. UNCHANGED <<committed, views, attempt, recorded>>
    BY <1>11 DEF Data
  <2>3. CASE Answer(r, "accepted")
             /\ delivered' = [delivered EXCEPT ![r] = @ + 1]
    BY <1>0, <1>11, <2>1, <2>2, <2>3, AnswerTruth DEF Data
  <2>4. CASE AttemptFails(r, "acceptance")
             /\ delivered' = [delivered EXCEPT ![r] = @ + 1]
    BY <1>11, <2>2, <2>4, FailTruth DEF Data
  <2>5. CASE AttemptFails(r, "message") /\ UNCHANGED delivered
    BY <1>11, <2>2, <2>5, FailTruth DEF Data
  <2>6. QED
    BY <1>11, <2>3, <2>4, <2>5 DEF Data
<1>12. QED
  BY <1>1, <1>2, <1>3, <1>4, <1>5, <1>6, <1>7, <1>8, <1>9, <1>10, <1>11
     DEF Next, Step

\* In every reachable state.
LEMMA TruthInvariance == Spec => []Truth
BY InitTruth, StepTruth, PTL DEF Spec

\* retry.Do makes at most MaxAttempts attempts and mailtest.Sender keeps at
\* most TestCapacity messages, whatever fails and whoever goes away.
THEOREM TypeCorrect == Spec => []TypeOK
<1>1. Truth => TypeOK
  BY DEF Truth
<1>2. QED
  BY <1>1, TruthInvariance, PTL

\* No request ever sends its receipt twice.
THEOREM NoReceiptReplayed == Spec => []NeverReplayed
<1>1. Truth => NeverReplayed
  BY DEF Truth, DeliveredOnce, NeverReplayed
<1>2. QED
  BY <1>1, TruthInvariance, PTL

\* An accepted receipt was delivered; one refused before Send was not.
THEOREM AnswersAreTruthful == Spec => []ReceiptTruthful
<1>1. Truth => ReceiptTruthful
  BY DEF Truth, DeliveredOnce, ReceiptTruthful
<1>2. QED
  BY <1>1, TruthInvariance, PTL

\* No order is shown or mailed before it is committed.
THEOREM NothingUncommittedRevealed == Spec => []OnlyCommittedRevealed
<1>1. Truth => OnlyCommittedRevealed
  BY DEF Truth, DeliveredOnce, FoundCommitted, OnlyCommittedRevealed
<1>2. QED
  BY <1>1, TruthInvariance, PTL

-----------------------------------------------------------------------------
(***************************************************************************)
(* The audit.  Revealed orders are counted by cardinality, which one step  *)
(* may raise by one; what rises with views is the set of requests that     *)
(* Publish let through, whatever became of them afterwards.                *)
(***************************************************************************)

\* Requests for order i that went on after their view was recorded.
Viewing(i) ==
    {r \in Requests : order[r] = i
        /\ (pc[r] \in Mailing \/ reply[r] \in {"found", "accepted", "failed"})}

Revealed(i) ==
    {r \in Requests : order[r] = i /\ (reply[r] = "found" \/ delivered[r] > 0)}

Audited == \A i \in Orders : Cardinality(Viewing(i)) <= views[i]

LEMMA InitAudited == Init => Audited
<1> SUFFICES ASSUME Init, NEW i \in Orders
             PROVE  Cardinality(Viewing(i)) <= views[i]
  BY DEF Audited
<1>1. Viewing(i) = {}
  BY DEF Init, Viewing, Mailing
<1>2. views[i] = 0
  BY DEF Init
<1>3. QED
  BY <1>1, <1>2, FS_EmptySet

\* A set of requests is finite.
LEMMA ViewingFinite ==
    ASSUME NEW i
    PROVE  IsFiniteSet(Viewing(i)) /\ Cardinality(Viewing(i)) \in Nat
BY ConstantsAssumption, FS_Subset, FS_CardinalityType DEF Viewing

\* A step that moves nobody past Publish.
LEMMA AuditedFrame ==
    ASSUME Audited, \A i \in Orders : Viewing(i)' = Viewing(i),
           UNCHANGED views
    PROVE  Audited'
BY DEF Audited, Viewing

\* A request that stays on its side of Publish.
LEMMA AuditedStays ==
    ASSUME Truth, Audited, NEW r \in Requests,
           \/ /\ pc[r] \in Mailing
              /\ \/ \E label \in Mailing : Goto(r, label)
                 \/ Answer(r, "accepted") \/ Answer(r, "failed")
           \/ /\ pc[r] \in {"find", "publish"}
              /\ \/ Goto(r, "publish")
                 \/ Answer(r, "notFound") \/ Answer(r, "error"),
           UNCHANGED views
    PROVE  Audited'
<1>1. reply[r] = "none"
  BY DEF Truth, AnsweredOnce, Mailing
<1>2. ASSUME NEW i \in Orders PROVE Viewing(i)' = Viewing(i)
  BY <1>1 DEF Truth, TypeOK, Viewing, Goto, Answer, Mailing
<1>3. QED
  BY <1>2, AuditedFrame

\* Publish lets one more request through and counts one more view.
LEMMA AuditedPublish ==
    ASSUME Truth, Audited, NEW r \in Requests, Publish(r)
    PROVE  Audited'
<1>1. reply[r] = "none" /\ order[r] \in committed
  BY DEF Truth, AnsweredOnce, FoundCommitted, Publish
<1>2. PICK j \in Orders : j = order[r]
  BY <1>1 DEF Truth, TypeOK
<1>3. CASE Answer(r, "error") /\ UNCHANGED views
  BY <1>3, AuditedStays DEF Publish
<1>4. CASE /\ views' = [views EXCEPT ![j] = @ + 1]
           /\ Answer(r, "found") \/ Goto(r, "compose")
  <2>1. \A i \in Orders : Viewing(i)' = IF i = j THEN Viewing(i) \cup {r}
                                        ELSE Viewing(i)
    BY <1>1, <1>2, <1>4
       DEF Truth, TypeOK, Viewing, Goto, Answer, Mailing, Publish
  <2>2. r \notin Viewing(j)
    BY <1>1 DEF Viewing, Mailing, Publish
  <2>3. Cardinality(Viewing(j) \cup {r}) = Cardinality(Viewing(j)) + 1
    BY <2>2, ViewingFinite, FS_AddElement
  <2>4. views \in [Orders -> Nat]
    BY DEF Truth, TypeOK
  <2> SUFFICES ASSUME NEW i \in Orders
               PROVE  Cardinality(Viewing(i)') <= views'[i]
    BY DEF Audited, Viewing
  <2>5. Cardinality(Viewing(i)) <= views[i]
    BY DEF Audited
  <2>6. CASE i = j
    <3>1. views'[i] = views[i] + 1
      BY <1>4, <2>4, <2>6
    <3>2. Cardinality(Viewing(i)') = Cardinality(Viewing(i)) + 1
      BY <2>1, <2>3, <2>6
    <3>3. Cardinality(Viewing(i)) \in Nat /\ views[i] \in Nat
      BY <2>4, ViewingFinite
    <3>4. QED
      BY <2>5, <3>1, <3>2, <3>3
  <2>7. CASE i # j
    BY <1>4, <2>1, <2>5, <2>7
  <2>8. QED
    BY <2>6, <2>7
<1>5. QED
  BY <1>2, <1>3, <1>4 DEF Publish

\* Every step preserves the audit.
LEMMA StepAudited == Truth /\ Audited /\ [Next]_vars => Audited'
<1> SUFFICES ASSUME Truth, Audited, [Next]_vars PROVE Audited'
  OBVIOUS
<1>1. CASE UNCHANGED vars
  BY <1>1, AuditedFrame DEF vars, request, Viewing
<1>2. CASE CommitOrder
  BY <1>2, AuditedFrame DEF CommitOrder, request, Viewing
<1>3. ASSUME NEW r \in Requests, NEW k, Arrive(r, k) PROVE Audited'
  <2>1. reply[r] = "none"
    BY <1>3 DEF Truth, AnsweredOnce, Arrive
  <2>2. ASSUME NEW i \in Orders PROVE Viewing(i)' = Viewing(i)
    BY <1>3, <2>1 DEF Truth, TypeOK, Viewing, Arrive, Mailing
  <2>3. QED
    BY <1>3, <2>2, AuditedFrame DEF Arrive
<1>4. ASSUME NEW r \in Requests, Cancel(r) PROVE Audited'
  BY <1>4, AuditedFrame DEF Cancel, Viewing
<1>5. ASSUME NEW r \in Requests, Find(r) PROVE Audited'
  BY <1>5, AuditedStays DEF Find
<1>6. ASSUME NEW r \in Requests, Compose(r) PROVE Audited'
  <2>1. transport \in Mailing
    BY DEF Truth, TypeOK, Mailing
  <2>2. QED
    BY <1>6, <2>1, AuditedStays DEF Compose, Deliver, Mailing
<1>7. ASSUME NEW r \in Requests, SendTest(r) PROVE Audited'
  BY <1>7, AuditedStays DEF SendTest, Mailing
<1>8. ASSUME NEW r \in Requests, Attempt(r) PROVE Audited'
  BY <1>8, AuditedStays DEF Attempt, Mailing
<1>9. ASSUME NEW r \in Requests, Session(r) PROVE Audited'
  BY <1>9, AuditedStays DEF Session, AttemptFails, Mailing
<1>10. ASSUME NEW r \in Requests, Data(r) PROVE Audited'
  BY <1>10, AuditedStays DEF Data, AttemptFails, Mailing
<1>11. QED
  BY <1>1, <1>2, <1>3, <1>4, <1>5, <1>6, <1>7, <1>8, <1>9, <1>10,
     AuditedPublish DEF Next, Step, Get, SendReceipt

\* In every reachable state.
LEMMA AuditInvariance == Spec => []Audited
BY TruthInvariance, InitAudited, StepAudited, PTL DEF Spec

\* Every order that was shown or mailed had its view counted, whatever was
\* cancelled or failed on the way.
THEOREM AuditNeverUnderReports == Spec => []RevealedIsAudited
<1>1. Truth /\ Audited => RevealedIsAudited
  <2> SUFFICES ASSUME Truth, Audited, NEW i \in Orders
               PROVE  Cardinality(Revealed(i)) <= views[i]
    BY DEF RevealedIsAudited, Revealed
  <2>1. Revealed(i) \subseteq Viewing(i)
    BY DEF Revealed, Viewing, Truth, DeliveredOnce
  <2>2. /\ Cardinality(Revealed(i)) \in Nat
        /\ Cardinality(Revealed(i)) <= Cardinality(Viewing(i))
    BY <2>1, ViewingFinite, FS_Subset, FS_CardinalityType
  <2>3. Cardinality(Viewing(i)) <= views[i] /\ views[i] \in Nat
    BY DEF Audited, Truth, TypeOK
  <2>4. QED
    BY <2>2, <2>3, ViewingFinite
<1>2. QED
  BY <1>1, TruthInvariance, AuditInvariance, PTL
=============================================================================
