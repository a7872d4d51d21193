------------------------ MODULE OrderPlacementProofs ------------------------
(***************************************************************************)
(* Proofs about OrderPlacement, for every number of requests, quantity,    *)
(* stock, price, pool size and number of restarts.                         *)
(***************************************************************************)
EXTENDS OrderPlacement, TLAPS

-----------------------------------------------------------------------------
\* Arithmetic of the total.

\* The wrapped product of place (orders/service.go:103) is an integer.
LEMMA TotalType == ASSUME NEW q \in Int PROVE Total(q) \in Int
<1>1. q * UnitPriceCents \in Int
  BY ConstantsAssumption
<1>2. 2 * (MaxInt + 1) \in Nat /\ 2 * (MaxInt + 1) > 0
  BY ConstantsAssumption
<1> DEFINE n == q * UnitPriceCents + MaxInt + 1
           m == 2 * (MaxInt + 1)
<1>3. n \in Int /\ m \in Int /\ m > 0
  BY <1>1, <1>2, ConstantsAssumption
<1> HIDE DEF n, m
<1>4. n % m \in Int
  BY <1>3
<1>5. QED
  BY <1>4, ConstantsAssumption DEF Total, n, m

\* A total whose exact value fits in an int does not wrap.
LEMMA TotalExact ==
    ASSUME NEW q \in Nat,
           q <= InitialStock,
           InitialStock * UnitPriceCents <= MaxInt
    PROVE  Total(q) = q * UnitPriceCents
<1> DEFINE x == q * UnitPriceCents
           y == InitialStock * UnitPriceCents
<1>1. InitialStock \in Nat /\ UnitPriceCents \in Nat /\ MaxInt \in Nat
  BY ConstantsAssumption
<1>2. x \in Nat /\ y \in Nat
  BY <1>1
<1>3. x <= y
  BY <1>1
<1>4. \A n \in Nat : \A m \in Nat \ {0} : n < m => n % m = n
  OBVIOUS
<1> HIDE DEF x, y
<1>5. x <= MaxInt
  BY <1>1, <1>2, <1>3 DEF y
<1>6. (x + MaxInt + 1) % (2 * (MaxInt + 1)) = x + MaxInt + 1
  BY <1>1, <1>2, <1>4, <1>5
<1>7. QED
  BY <1>1, <1>2, <1>6 DEF Total, x

-----------------------------------------------------------------------------
(***************************************************************************)
(* The inductive invariant, in layers: each part is preserved by a step    *)
(* that starts in a state where it and the parts above it hold.            *)
(***************************************************************************)

\* A request past Validate asks for a positive quantity, and Within settles
\* a commit's answer last.
Positive ==
    \A r \in Requests :
        /\ pc[r] \in InFlight \/ reply[r] \in {"created", "commitError"} =>
              qty[r] > 0
        /\ reply[r] \in {"created", "commitError"} => pc[r] = "done"

Typed == TypeOK /\ Positive

\* A request in flight belongs to the current incarnation, the numbers of an
\* incarnation are allocated once, and none is ahead of nextID.
Numbered ==
    \A r \in Requests :
        /\ born[r] <= incarnation
        /\ pc[r] \in InFlight => born[r] = incarnation
        /\ born[r] = incarnation => id[r] <= nextID
        /\ pc[r] \in {"idle", "begin", "place"} => id[r] = 0
        /\ pc[r] \in {"reserve", "authorize", "save", "commit"} => id[r] # 0
        /\ \A s \in Requests \ {r} :
              born[s] = born[r] /\ id[s] = id[r] => id[r] = 0

\* The authorization r holds is for r's order and r's total.
Paid(r) ==
    /\ auth[r] \in 1 .. Len(approved[born[r]])
    /\ approved[born[r]][auth[r]].reference = id[r]
    /\ approved[born[r]][auth[r]].amount = Total(qty[r])

Authorized ==
    \A r \in Requests :
        /\ auth[r] # 0 => Paid(r)
        /\ pc[r] \in {"idle", "begin", "place", "reserve", "authorize"} =>
              auth[r] = 0
        /\ pc[r] \in {"save", "commit"} => auth[r] # 0

\* What a transaction has inserted is its request's row, under a number no
\* committed row has; and every committed row is some request's.
Stored ==
    /\ \A r \in Requests :
          /\ staged[r] \in {{}, {Record(r)}}
          /\ staged[r] # {} =>
                /\ pc[r] = "commit"
                /\ \A o \in orders : o.id # id[r]
          /\ pc[r] = "commit" /\ txn[r] = "open" => staged[r] = {Record(r)}
          /\ reply[r] = "created" => pc[r] = "done" /\ Record(r) \in orders
    /\ \A o \in orders : \E r \in Requests :
          /\ o = Record(r)
          /\ id[r] # 0
          /\ auth[r] # 0
          /\ pc[r] = "done"
          /\ reply[r] \in {"created", "commitError", "lost"}

\* StockAccounted, with running sums that never decrease.
Ledger ==
    \E sum \in [0 .. NumRequests -> 0 .. InitialStock] :
        /\ sum[0] = 0
        /\ \A r \in Requests : sum[r] = sum[r - 1] + Taken(r)
        /\ \A i, j \in 0 .. NumRequests : i <= j => sum[i] <= sum[j]
        /\ stock = InitialStock - sum[NumRequests]

\* A quantity that was reserved is positive and was in stock.
Bounded ==
    \A r \in Requests :
        \/ pc[r] \in {"authorize", "save", "release", "commit"}
        \/ auth[r] # 0
        => qty[r] \in 1 .. InitialStock

IInv == Typed /\ Numbered /\ Authorized /\ Stored /\ Ledger /\ Bounded

-----------------------------------------------------------------------------
\* First layer: types and positive quantities.

\* The part of TypeOK about control, which needs no arithmetic.
ControlTyped ==
    /\ pc \in [Requests -> InFlight \cup {"idle", "done"}]
    /\ reply \in [Requests -> Replies]
    /\ cancelled \in SUBSET Requests
    /\ txn \in [Requests -> {"none", "open", "done"}]

\* The row a request inserts is a well-typed row.
LEMMA RecordType ==
    ASSUME TypeOK, NEW r \in Requests
    PROVE  Record(r) \in OrderRecord
<1>1. Total(qty[r]) \in Int
  BY TotalType DEF TypeOK
<1>2. QED
  BY <1>1 DEF TypeOK, Record, OrderRecord

\* The control state of every request stays well typed.
LEMMA ControlStep == TypeOK /\ [Next]_vars => ControlTyped'
<1> SUFFICES ASSUME TypeOK, [Next]_vars PROVE ControlTyped'
  OBVIOUS
<1> USE DEF TypeOK, ControlTyped, Fail, Goto, Answer, InFlight, Replies,
            locals, process, store
<1>1. ASSUME NEW r \in Requests, Arrive(r) PROVE ControlTyped'
  BY <1>1 DEF Arrive
<1>2. ASSUME NEW r \in Requests, BeginTx(r) PROVE ControlTyped'
  BY <1>2 DEF BeginTx
<1>3. ASSUME NEW r \in Requests, Place(r) PROVE ControlTyped'
  BY <1>3 DEF Place
<1>4. ASSUME NEW r \in Requests, Reserve(r) PROVE ControlTyped'
  BY <1>4 DEF Reserve
<1>5. ASSUME NEW r \in Requests, Authorize(r) PROVE ControlTyped'
  BY <1>5 DEF Authorize
<1>6. ASSUME NEW r \in Requests, Save(r) PROVE ControlTyped'
  BY <1>6 DEF Save
<1>7. ASSUME NEW r \in Requests, Release(r) PROVE ControlTyped'
  BY <1>7 DEF Release
<1>8. ASSUME NEW r \in Requests, Rollback(r) PROVE ControlTyped'
  BY <1>8 DEF Rollback, EndTx
<1>9. ASSUME NEW r \in Requests, Commit(r) PROVE ControlTyped'
  BY <1>9 DEF Commit, EndTx
<1>10. ASSUME NEW r \in Requests, Cancel(r) \/ AwaitDone(r)
       PROVE  ControlTyped'
  BY <1>10 DEF Cancel, AwaitDone
<1>11. CASE Restart
  BY <1>11 DEF Restart
<1>12. CASE UNCHANGED vars
  BY <1>12 DEF vars
<1>13. QED
  BY <1>1, <1>2, <1>3, <1>4, <1>5, <1>6, <1>7, <1>8, <1>9, <1>10, <1>11,
     <1>12 DEF Next, Step

\* Every step keeps the state well typed; in particular stock never goes
\* below zero: Reserve takes what is there, Release gives back a positive
\* quantity.
LEMMA TypeStep == Typed /\ [Next]_vars => TypeOK'
<1> SUFFICES ASSUME TypeOK, Positive, [Next]_vars PROVE TypeOK'
  BY DEF Typed
<1> USE DEF locals, process, store
<1>c. ControlTyped'
  BY ControlStep
<1>1. ASSUME NEW r \in Requests, Arrive(r) PROVE TypeOK'
  <2>1. Quantities \subseteq Int
    BY ConstantsAssumption
  <2>2. qty' \in [Requests -> Int] /\ born' \in [Requests -> 0 .. MaxRestarts]
    BY <1>1, <2>1 DEF TypeOK, Arrive
  <2>3. QED
    BY <1>1, <1>c, <2>2 DEF TypeOK, ControlTyped, Arrive
<1>2. ASSUME NEW r \in Requests, BeginTx(r) PROVE TypeOK'
  BY <1>2, <1>c DEF TypeOK, ControlTyped, BeginTx
<1>3. ASSUME NEW r \in Requests, Place(r) PROVE TypeOK'
  <2>1. nextID' \in Nat /\ nextID + 1 \in Nat
    BY <1>3 DEF TypeOK, Place, AllocateID
  <2>2. id' \in [Requests -> Nat]
    BY <1>3, <2>1 DEF TypeOK, Place, AllocateID
  <2>3. UNCHANGED <<qty, auth, born, stock, approved, incarnation, staged,
                    orders>>
    BY <1>3 DEF Place
  <2>4. QED
    BY <1>c, <2>1, <2>2, <2>3 DEF TypeOK, ControlTyped
<1>4. ASSUME NEW r \in Requests, Reserve(r) PROVE TypeOK'
  <2>1. stock' \in Nat
    BY <1>4 DEF TypeOK, Reserve, Sufficient
  <2>2. UNCHANGED <<qty, id, auth, born, nextID, approved, incarnation,
                    staged, orders>>
    BY <1>4 DEF Reserve
  <2>3. QED
    BY <1>c, <2>1, <2>2 DEF TypeOK, ControlTyped
<1>5. ASSUME NEW r \in Requests, Authorize(r) PROVE TypeOK'
  <2>1. [reference |-> id[r], amount |-> Total(qty[r])] \in Authorization
    BY TotalType DEF TypeOK, Authorization
  <2>2. approved[incarnation] \in Seq(Authorization)
    BY DEF TypeOK
  <2>3. AuthorizationNumber \in Nat
    BY <2>2 DEF AuthorizationNumber
  <2>4. Append(approved[incarnation],
               [reference |-> id[r], amount |-> Total(qty[r])])
          \in Seq(Authorization)
    BY <2>1, <2>2
  <2>5. approved' \in [0 .. MaxRestarts -> Seq(Authorization)]
    BY <1>5, <2>4 DEF TypeOK, Authorize
  <2>6. auth' \in [Requests -> Nat]
    BY <1>5, <2>3 DEF TypeOK, Authorize
  <2>7. UNCHANGED <<qty, id, born, stock, nextID, incarnation, staged,
                    orders>>
    BY <1>5 DEF Authorize
  <2>8. QED
    BY <1>c, <2>5, <2>6, <2>7 DEF TypeOK, ControlTyped
<1>6. ASSUME NEW r \in Requests, Save(r) PROVE TypeOK'
  <2>1. {Record(r)} \in SUBSET OrderRecord
    BY RecordType
  <2>2. staged' \in [Requests -> SUBSET OrderRecord]
    BY <1>6, <2>1 DEF TypeOK, Save, Insert
  <2>3. QED
    BY <1>6, <1>c, <2>2 DEF TypeOK, ControlTyped, Save
<1>7. ASSUME NEW r \in Requests, Release(r) PROVE TypeOK'
  <2>1. stock' \in Nat
    BY <1>7 DEF TypeOK, Positive, InFlight, Release
  <2>2. QED
    BY <1>7, <1>c, <2>1 DEF TypeOK, ControlTyped, Release
<1>8. ASSUME NEW r \in Requests, Rollback(r) PROVE TypeOK'
  BY <1>8, <1>c DEF TypeOK, ControlTyped, Rollback, EndTx
<1>9. ASSUME NEW r \in Requests, Commit(r) PROVE TypeOK'
  BY <1>9, <1>c DEF TypeOK, ControlTyped, Commit, EndTx
<1>10. ASSUME NEW r \in Requests, Cancel(r) \/ AwaitDone(r) PROVE TypeOK'
  BY <1>10, <1>c DEF TypeOK, ControlTyped, Cancel, AwaitDone
<1>11. CASE Restart
  <2>1. incarnation' \in 0 .. MaxRestarts /\ stock' \in Nat /\ nextID' \in Nat
    BY <1>11, ConstantsAssumption DEF TypeOK, Restart
  <2>2. orders' \in SUBSET OrderRecord
    BY <1>11 DEF TypeOK, Restart
  <2>3. QED
    BY <1>11, <1>c, <2>1, <2>2 DEF TypeOK, ControlTyped, Restart
<1>12. CASE UNCHANGED vars
  BY <1>12 DEF TypeOK, vars
<1>13. QED
  BY <1>1, <1>2, <1>3, <1>4, <1>5, <1>6, <1>7, <1>8, <1>9, <1>10, <1>11,
     <1>12 DEF Next, Step

\* Only Validate lets a request into flight, and place never changes its
\* quantity.
LEMMA PositiveStep == Typed /\ [Next]_vars => Positive'
<1> SUFFICES ASSUME TypeOK, Positive, [Next]_vars PROVE Positive'
  BY DEF Typed
<1> USE DEF Fail, Goto, Answer, InFlight, locals
<1>1. ASSUME NEW r \in Requests, Arrive(r) PROVE Positive'
  <2>1. PICK q \in Quantities :
          /\ qty' = [qty EXCEPT ![r] = q]
          /\ \/ Validate(q) /\ Goto(r, "begin")
             \/ ~Validate(q) /\ Answer(r, "invalid")
    BY <1>1 DEF Arrive
  <2>2. reply[r] \notin {"created", "commitError"}
    BY <1>1 DEF Positive, Arrive
  <2>3. QED
    BY <2>1, <2>2 DEF TypeOK, Positive, Validate
<1>2. ASSUME NEW r \in Requests, Step(r) PROVE Positive'
  <2>1. qty' = qty
    BY <1>2 DEF Step, BeginTx, Place, Reserve, Authorize, Save, Release,
                Rollback, Commit
  <2>2. pc[r] \in InFlight /\ qty[r] > 0
    BY <1>2 DEF Positive, Step, BeginTx, Place, Reserve, Authorize, Save,
                Release, Rollback, Commit
  <2>3. \A s \in Requests \ {r} : pc'[s] = pc[s] /\ reply'[s] = reply[s]
    BY <1>2 DEF TypeOK, Step, BeginTx, Place, Reserve, Authorize, Save,
                Release, Rollback, Commit
  <2>4. reply'[r] \in {"created", "commitError"} => pc'[r] = "done"
    BY <1>2, <2>2 DEF TypeOK, Positive, Step, BeginTx, Place, Reserve,
                      Authorize, Save, Release, Rollback, Commit
  <2>5. QED
    BY <2>1, <2>2, <2>3, <2>4 DEF Positive
<1>3. ASSUME NEW r \in Requests, Cancel(r) \/ AwaitDone(r) PROVE Positive'
  BY <1>3 DEF Positive, Cancel, AwaitDone
<1>4. CASE Restart
  BY <1>4 DEF TypeOK, Positive, Restart
<1>5. CASE UNCHANGED vars
  BY <1>5 DEF Positive, vars
<1>6. QED
  BY <1>1, <1>2, <1>3, <1>4, <1>5 DEF Next

-----------------------------------------------------------------------------
\* Second layer: order numbers.

\* A step other than allocateID leaves the numbers alone.
LEMMA NumberedStep == Typed /\ Numbered /\ [Next]_vars => Numbered'
<1> SUFFICES ASSUME TypeOK, Numbered, [Next]_vars PROVE Numbered'
  BY DEF Typed
<1> USE DEF Fail, Goto, Answer, InFlight, locals, process, store
<1>1. ASSUME NEW r \in Requests, Arrive(r) PROVE Numbered'
  BY <1>1 DEF TypeOK, Numbered, Arrive
<1>2. ASSUME NEW r \in Requests, Place(r) PROVE Numbered'
  <2>1. CASE r \in cancelled
    BY <1>2, <2>1 DEF TypeOK, Numbered, Place
  <2>2. CASE r \notin cancelled
    <3>1. /\ id' = [id EXCEPT ![r] = nextID + 1]
          /\ nextID' = nextID + 1
          /\ pc' = [pc EXCEPT ![r] = "reserve"]
          /\ UNCHANGED <<born, incarnation>>
      BY <1>2, <2>2 DEF Place, AllocateID
    <3>2. born[r] = incarnation
      BY <1>2 DEF Numbered, Place
    <3>3. QED
      BY <3>1, <3>2 DEF TypeOK, Numbered
  <2>3. QED
    BY <2>1, <2>2
<1>3. ASSUME NEW r \in Requests,
             BeginTx(r) \/ Reserve(r) \/ Authorize(r) \/ Save(r)
             \/ Release(r) \/ Rollback(r) \/ Commit(r)
      PROVE  Numbered'
  <2>1. UNCHANGED <<id, born, nextID, incarnation>>
    BY <1>3 DEF BeginTx, Reserve, Authorize, Save, Release, Rollback, Commit
  <2>2. \A s \in Requests \ {r} : pc'[s] = pc[s]
    BY <1>3 DEF TypeOK, BeginTx, Reserve, Authorize, Save, Release, Rollback,
                Commit
  <2>3. /\ pc[r] \in InFlight
        /\ pc'[r] \in {"reserve", "authorize", "save", "commit"} =>
              pc[r] \in {"reserve", "authorize", "save", "commit"}
        /\ pc'[r] \in {"idle", "begin", "place"} =>
              pc[r] \in {"idle", "begin", "place"}
    BY <1>3 DEF TypeOK, BeginTx, Reserve, Authorize, Save, Release, Rollback,
                Commit
  <2>4. QED
    BY <2>1, <2>2, <2>3 DEF TypeOK, Numbered
<1>4. ASSUME NEW r \in Requests, Cancel(r) \/ AwaitDone(r) PROVE Numbered'
  BY <1>4 DEF Numbered, Cancel, AwaitDone
<1>5. CASE Restart
  BY <1>5 DEF TypeOK, Numbered, Restart
<1>6. CASE UNCHANGED vars
  BY <1>6 DEF Numbered, vars
<1>7. QED
  BY <1>1, <1>2, <1>3, <1>4, <1>5, <1>6 DEF Next, Step

-----------------------------------------------------------------------------
\* Third layer: authorizations.

\* A step of request r that is neither Authorize nor Place leaves every
\* authorization, number and quantity alone.
LEMMA AuthorizedStep ==
    Typed /\ Numbered /\ Authorized /\ [Next]_vars => Authorized'
<1> SUFFICES ASSUME TypeOK, Numbered, Authorized, [Next]_vars
             PROVE  Authorized'
  BY DEF Typed
<1> USE DEF Fail, Goto, Answer, locals, process, store
<1>1. ASSUME NEW r \in Requests, Arrive(r) PROVE Authorized'
  <2>1. /\ UNCHANGED <<id, auth, approved>>
        /\ auth[r] = 0
        /\ pc[r] = "idle"
        /\ pc'[r] \in {"begin", "done"}
        /\ \A s \in Requests \ {r} :
              pc'[s] = pc[s] /\ born'[s] = born[s] /\ qty'[s] = qty[s]
    BY <1>1 DEF TypeOK, Authorized, Arrive
  <2>2. QED
    BY <2>1 DEF Authorized, Paid
<1>2. ASSUME NEW r \in Requests, Place(r) PROVE Authorized'
  <2>1. /\ UNCHANGED <<qty, auth, born, approved>>
        /\ auth[r] = 0
        /\ pc'[r] \in {"reserve", "rollback"}
        /\ \A s \in Requests \ {r} : pc'[s] = pc[s] /\ id'[s] = id[s]
    BY <1>2 DEF TypeOK, Authorized, Place, AllocateID
  <2>2. QED
    BY <2>1 DEF Authorized, Paid
<1>3. ASSUME NEW r \in Requests, Authorize(r) PROVE Authorized'
  <2>1. UNCHANGED <<qty, id, born, incarnation>>
    BY <1>3 DEF Authorize
  <2>2. CASE UNCHANGED <<approved, auth>> /\ pc'[r] = "release"
    BY <1>3, <2>1, <2>2 DEF TypeOK, Authorized, Paid, Authorize
  <2>3. CASE /\ approved' = [approved EXCEPT ![incarnation] =
                    Append(@, [reference |-> id[r], amount |-> Total(qty[r])])]
             /\ auth' = [auth EXCEPT ![r] = AuthorizationNumber]
             /\ pc' = [pc EXCEPT ![r] = "save"]
    <3> DEFINE entry == [reference |-> id[r], amount |-> Total(qty[r])]
               old == approved[incarnation]
    <3>1. old \in Seq(Authorization) /\ entry \in Authorization
      BY TotalType DEF TypeOK, Authorization
    <3>2. approved'[incarnation] = Append(old, entry)
      BY <2>3 DEF TypeOK
    <3>3. \A n \in 0 .. MaxRestarts :
             n # incarnation => approved'[n] = approved[n]
      BY <2>3 DEF TypeOK
    <3> HIDE DEF entry
    <3>4. /\ Len(Append(old, entry)) = Len(old) + 1
          /\ Len(old) \in Nat
          /\ Append(old, entry)[Len(old) + 1] = entry
          /\ \A i \in 1 .. Len(old) : Append(old, entry)[i] = old[i]
      BY <3>1
    <3> HIDE DEF old
    <3>5. born[r] = incarnation
      BY <1>3 DEF Numbered, InFlight, Authorize
    <3>6. auth'[r] = Len(old) + 1
      BY <2>3 DEF TypeOK, AuthorizationNumber, old
    <3>7. Paid(r)'
      <4>1. auth'[r] \in 1 .. Len(approved'[born'[r]])
        BY <2>1, <3>2, <3>4, <3>5, <3>6
      <4>2. approved'[born'[r]][auth'[r]] = entry
        BY <2>1, <3>2, <3>4, <3>5, <3>6
      <4>3. QED
        BY <2>1, <4>1, <4>2 DEF Paid, entry
    <3>8. ASSUME NEW s \in Requests \ {r}, auth'[s] # 0 PROVE Paid(s)'
      <4>1. auth'[s] = auth[s] /\ Paid(s)
        BY <2>3, <3>8 DEF TypeOK, Authorized
      <4>2. CASE born[s] = incarnation
        BY <2>1, <3>2, <3>4, <4>1, <4>2 DEF Paid, old
      <4>3. CASE born[s] # incarnation
        BY <2>1, <3>3, <4>1, <4>3 DEF TypeOK, Paid
      <4>4. QED
        BY <4>2, <4>3
    <3>9. auth'[r] # 0
      BY <3>4, <3>6
    <3>10. \A s \in Requests \ {r} : pc'[s] = pc[s] /\ auth'[s] = auth[s]
      BY <2>3 DEF TypeOK
    <3>11. pc'[r] = "save"
      BY <2>3 DEF TypeOK
    <3>12. QED
      BY <3>7, <3>8, <3>9, <3>10, <3>11 DEF Authorized
  <2>4. QED
    BY <1>3, <2>2, <2>3 DEF TypeOK, Authorize
<1>4. ASSUME NEW r \in Requests,
             BeginTx(r) \/ Reserve(r) \/ Save(r) \/ Release(r)
             \/ Rollback(r) \/ Commit(r)
      PROVE  Authorized'
  <2>1. UNCHANGED <<qty, id, auth, born, approved>>
    BY <1>4 DEF BeginTx, Reserve, Save, Release, Rollback, Commit
  <2>2. \A s \in Requests \ {r} : pc'[s] = pc[s]
    BY <1>4 DEF TypeOK, BeginTx, Reserve, Save, Release, Rollback, Commit
  <2>3. /\ pc'[r] \in {"idle", "begin", "place", "reserve", "authorize"} =>
              pc[r] \in {"idle", "begin", "place", "reserve", "authorize"}
        /\ pc'[r] \in {"save", "commit"} => pc[r] \in {"save", "commit"}
    BY <1>4 DEF TypeOK, BeginTx, Reserve, Save, Release, Rollback, Commit
  <2>4. QED
    BY <2>1, <2>2, <2>3 DEF Authorized, Paid
<1>5. ASSUME NEW r \in Requests, Cancel(r) \/ AwaitDone(r) PROVE Authorized'
  BY <1>5 DEF Authorized, Paid, Cancel, AwaitDone
<1>6. CASE Restart
  <2>1. UNCHANGED <<qty, id, auth, born, approved>>
    BY <1>6 DEF Restart
  <2>2. \A s \in Requests : pc'[s] = pc[s] \/ pc'[s] = "done"
    BY <1>6 DEF Restart
  <2>3. QED
    BY <2>1, <2>2 DEF Authorized, Paid
<1>7. CASE UNCHANGED vars
  BY <1>7 DEF Authorized, Paid, vars
<1>8. QED
  BY <1>1, <1>2, <1>3, <1>4, <1>5, <1>6, <1>7 DEF Next, Step

-----------------------------------------------------------------------------
\* Fourth layer: the table and the rows on their way into it.

\* A step that neither writes the table nor touches an insert, and that moves
\* only a request that is not committing, keeps Stored.
LEMMA StoredFrame ==
    ASSUME TypeOK, Stored, NEW r \in Requests,
           UNCHANGED <<staged, orders>>,
           pc[r] \notin {"commit", "done"},
           pc'[r] # "commit",
           reply'[r] = "created" => reply[r] = "created",
           \A s \in Requests \ {r} :
              /\ pc'[s] = pc[s]
              /\ reply'[s] = reply[s]
              /\ txn'[s] = txn[s]
              /\ qty'[s] = qty[s]
              /\ id'[s] = id[s]
              /\ auth'[s] = auth[s]
              /\ born'[s] = born[s]
    PROVE  Stored'
<1>1. \A s \in Requests \ {r} : Record(s)' = Record(s)
  BY DEF Record
<1>2. staged[r] = {} /\ reply'[r] # "created"
  BY DEF Stored
<1>3. ASSUME NEW s \in Requests
      PROVE  (/\ staged[s] \in {{}, {Record(s)}}
              /\ staged[s] # {} =>
                    /\ pc[s] = "commit"
                    /\ \A o \in orders : o.id # id[s]
              /\ pc[s] = "commit" /\ txn[s] = "open" =>
                    staged[s] = {Record(s)}
              /\ reply[s] = "created" =>
                    pc[s] = "done" /\ Record(s) \in orders)'
  <2>1. CASE s = r
    BY <1>2, <2>1
  <2>2. CASE s # r
    BY <1>1, <2>2 DEF Stored
  <2>3. QED
    BY <2>1, <2>2
<1>4. ASSUME NEW o \in orders
      PROVE  \E s \in Requests :
                /\ o = Record(s)'
                /\ id'[s] # 0
                /\ auth'[s] # 0
                /\ pc'[s] = "done"
                /\ reply'[s] \in {"created", "commitError", "lost"}
  <2>1. PICK s \in Requests :
                /\ o = Record(s)
                /\ id[s] # 0
                /\ auth[s] # 0
                /\ pc[s] = "done"
                /\ reply[s] \in {"created", "commitError", "lost"}
    BY DEF Stored
  <2>2. s # r
    BY <2>1
  <2>3. QED
    BY <1>1, <2>1, <2>2
<1>5. QED
  BY <1>3, <1>4 DEF Stored

\* Save and Commit keep inserts and committed rows apart because numbers of
\* one incarnation are distinct; a restart drops every insert.
LEMMA StoredStep ==
    Typed /\ Numbered /\ Authorized /\ Stored /\ [Next]_vars => Stored'
<1> SUFFICES ASSUME TypeOK, Numbered, Authorized, Stored, [Next]_vars
             PROVE  Stored'
  BY DEF Typed
<1> USE DEF Fail, Goto, Answer, locals, process, store
<1>1. ASSUME NEW r \in Requests, Arrive(r) PROVE Stored'
  BY <1>1, StoredFrame DEF TypeOK, Arrive
<1>2. ASSUME NEW r \in Requests, BeginTx(r) PROVE Stored'
  BY <1>2, StoredFrame DEF TypeOK, BeginTx
<1>3. ASSUME NEW r \in Requests, Place(r) PROVE Stored'
  BY <1>3, StoredFrame DEF TypeOK, Place, AllocateID
<1>4. ASSUME NEW r \in Requests, Reserve(r) PROVE Stored'
  BY <1>4, StoredFrame DEF TypeOK, Reserve
<1>5. ASSUME NEW r \in Requests, Authorize(r) PROVE Stored'
  BY <1>5, StoredFrame DEF TypeOK, Authorize
<1>6. ASSUME NEW r \in Requests, Release(r) PROVE Stored'
  BY <1>6, StoredFrame DEF TypeOK, Release
<1>7. ASSUME NEW r \in Requests, Save(r) PROVE Stored'
  <2>1. CASE pc'[r] = "release" /\ UNCHANGED staged
    BY <1>7, <2>1, StoredFrame DEF TypeOK, Save
  <2>2. CASE /\ txn[r] = "open"
             /\ id[r] \notin PersistedIDs
             /\ staged' = [staged EXCEPT ![r] = {Record(r)}]
             /\ pc' = [pc EXCEPT ![r] = "commit"]
             /\ UNCHANGED reply
    <3>1. /\ UNCHANGED <<orders, txn, qty, id, auth, born>>
          /\ pc[r] = "save"
      BY <1>7 DEF Save
    <3>2. \A s \in Requests : Record(s)' = Record(s)
      BY <3>1 DEF Record
    <3>3. \A o \in orders : o.id # id[r]
      BY <2>2 DEF PersistedIDs
    <3>4. /\ staged'[r] = {Record(r)}
          /\ pc'[r] = "commit"
          /\ \A s \in Requests \ {r} :
                staged'[s] = staged[s] /\ pc'[s] = pc[s]
      BY <2>2 DEF TypeOK
    <3>5. QED
      BY <2>2, <3>1, <3>2, <3>3, <3>4 DEF Stored
  <2>3. QED
    BY <1>7, <2>1, <2>2 DEF TypeOK, Save, Insert
<1>8. ASSUME NEW r \in Requests, Rollback(r) PROVE Stored'
  <2>1. /\ UNCHANGED <<orders, qty, id, auth, born, reply>>
        /\ pc[r] = "rollback"
        /\ pc'[r] = "done"
        /\ staged'[r] = {}
        /\ \A s \in Requests \ {r} :
              staged'[s] = staged[s] /\ pc'[s] = pc[s] /\ txn'[s] = txn[s]
    BY <1>8 DEF TypeOK, Rollback, EndTx
  <2>2. \A s \in Requests : Record(s)' = Record(s)
    BY <2>1 DEF Record
  <2>3. staged[r] = {} /\ reply[r] # "created"
    BY <2>1 DEF Stored
  <2>4. QED
    BY <2>1, <2>2, <2>3 DEF Stored
<1>9. ASSUME NEW r \in Requests, Commit(r) PROVE Stored'
  <2>1. /\ UNCHANGED <<qty, id, auth, born, incarnation>>
        /\ pc[r] = "commit"
        /\ pc'[r] = "done"
        /\ reply'[r] \in {"created", "commitError"}
        /\ staged'[r] = {}
        /\ \A s \in Requests \ {r} :
              /\ staged'[s] = staged[s]
              /\ pc'[s] = pc[s]
              /\ reply'[s] = reply[s]
              /\ txn'[s] = txn[s]
    BY <1>9 DEF TypeOK, Commit, EndTx
  <2>2. \A s \in Requests : Record(s)' = Record(s)
    BY <2>1 DEF Record
  <2>3. CASE UNCHANGED orders /\ reply'[r] = "commitError"
    BY <2>1, <2>2, <2>3 DEF Stored
  <2>4. CASE txn[r] = "open" /\ orders' = orders \cup staged[r]
    <3>1. orders' = orders \cup {Record(r)}
      BY <2>1, <2>4 DEF Stored
    <3>2. id[r] # 0 /\ auth[r] # 0 /\ born[r] = incarnation
      BY <2>1 DEF Numbered, Authorized, InFlight
    <3>3. ASSUME NEW s \in Requests \ {r}, staged[s] # {}
          PROVE  Record(r).id # id[s]
      <4>1. pc[s] = "commit" /\ born[s] = incarnation
        BY <3>3 DEF Stored, Numbered, InFlight
      <4>2. id[s] # id[r]
        BY <3>2, <4>1 DEF Numbered
      <4>3. QED
        BY <4>2 DEF Record
    <3>4. ASSUME NEW s \in Requests
          PROVE  (/\ staged[s] \in {{}, {Record(s)}}
                  /\ staged[s] # {} =>
                        /\ pc[s] = "commit"
                        /\ \A o \in orders : o.id # id[s]
                  /\ pc[s] = "commit" /\ txn[s] = "open" =>
                        staged[s] = {Record(s)}
                  /\ reply[s] = "created" =>
                        pc[s] = "done" /\ Record(s) \in orders)'
      <4>1. CASE s = r
        BY <2>1, <2>2, <3>1, <4>1
      <4>2. CASE s # r
        BY <2>1, <2>2, <3>1, <3>3, <4>2 DEF Stored
      <4>3. QED
        BY <4>1, <4>2
    <3>5. ASSUME NEW o \in orders'
          PROVE  \E s \in Requests :
                    /\ o = Record(s)'
                    /\ id'[s] # 0
                    /\ auth'[s] # 0
                    /\ pc'[s] = "done"
                    /\ reply'[s] \in {"created", "commitError", "lost"}
      <4>1. CASE o = Record(r)
        BY <2>1, <2>2, <3>2, <4>1
      <4>2. CASE o \in orders
        <5>1. PICK s \in Requests :
                  /\ o = Record(s)
                  /\ id[s] # 0
                  /\ auth[s] # 0
                  /\ pc[s] = "done"
                  /\ reply[s] \in {"created", "commitError", "lost"}
          BY <4>2 DEF Stored
        <5>2. s # r
          BY <2>1, <5>1
        <5>3. QED
          BY <2>1, <2>2, <5>1, <5>2
      <4>3. QED
        BY <3>1, <4>1, <4>2
    <3>6. QED
      BY <3>4, <3>5 DEF Stored
  <2>5. QED
    BY <1>9, <2>3, <2>4 DEF TypeOK, Commit
<1>10. ASSUME NEW r \in Requests, Cancel(r) PROVE Stored'
  BY <1>10 DEF Stored, Record, Cancel
<1>11. ASSUME NEW r \in Requests, AwaitDone(r) PROVE Stored'
  <2>1. /\ UNCHANGED <<orders, qty, id, auth, born, pc, reply>>
        /\ txn'[r] = "done"
        /\ staged'[r] = {}
        /\ \A s \in Requests \ {r} :
              staged'[s] = staged[s] /\ txn'[s] = txn[s]
    BY <1>11 DEF TypeOK, AwaitDone
  <2>2. \A s \in Requests : Record(s)' = Record(s)
    BY <2>1 DEF Record
  <2>3. QED
    BY <2>1, <2>2 DEF Stored
<1>12. CASE Restart
  <2>1. PICK sent \in SUBSET {r \in Requests : pc[r] = "commit" /\ StoreFaults} :
            orders' = orders \cup UNION {staged[r] : r \in sent}
    BY <1>12 DEF Restart
  <2>2. /\ UNCHANGED <<qty, id, auth, born>>
        /\ \A s \in Requests :
              /\ staged'[s] = {}
              /\ pc'[s] # "commit"
              /\ pc[s] = "done" => pc'[s] = "done" /\ reply'[s] = reply[s]
              /\ pc[s] = "commit" => pc'[s] = "done" /\ reply'[s] = "lost"
              /\ reply'[s] \in {reply[s], "lost"}
    BY <1>12 DEF Restart, InFlight
  <2>3. \A s \in Requests : Record(s)' = Record(s)
    BY <2>2 DEF Record
  <2>4. ASSUME NEW o \in orders'
        PROVE  \E s \in Requests :
                    /\ o = Record(s)'
                    /\ id'[s] # 0
                    /\ auth'[s] # 0
                    /\ pc'[s] = "done"
                    /\ reply'[s] \in {"created", "commitError", "lost"}
    <3>1. CASE o \in orders
      <4>1. PICK s \in Requests :
                  /\ o = Record(s)
                  /\ id[s] # 0
                  /\ auth[s] # 0
                  /\ pc[s] = "done"
                  /\ reply[s] \in {"created", "commitError", "lost"}
        BY <3>1 DEF Stored
      <4>2. QED
        BY <2>2, <2>3, <4>1
    <3>2. CASE o \notin orders
      <4>1. PICK s \in sent : o \in staged[s]
        BY <2>1, <3>2
      <4>2. s \in Requests /\ pc[s] = "commit" /\ o = Record(s)
        BY <4>1 DEF Stored
      <4>3. id[s] # 0 /\ auth[s] # 0
        BY <4>2 DEF Numbered, Authorized
      <4>4. QED
        BY <2>2, <2>3, <4>2, <4>3
    <3>3. QED
      BY <3>1, <3>2
  <2>5. \A s \in Requests :
           reply'[s] = "created" => pc'[s] = "done" /\ Record(s)' \in orders'
    BY <2>1, <2>2, <2>3 DEF Stored
  <2>6. QED
    BY <2>2, <2>4, <2>5 DEF Stored
<1>13. CASE UNCHANGED vars
  BY <1>13 DEF Stored, Record, vars
<1>14. QED
  BY <1>1, <1>2, <1>3, <1>4, <1>5, <1>6, <1>7, <1>8, <1>9, <1>10, <1>11,
     <1>12, <1>13 DEF Next, Step

-----------------------------------------------------------------------------
\* Fifth layer: conservation of stock.

\* Running sums, as Ledger uses them.
Adds(s, w, n)       == s[0] = 0 /\ \A i \in 1 .. n : s[i] = s[i - 1] + w[i]
Ascends(s, n)       == \A i, j \in 0 .. n : i <= j => s[i] <= s[j]
Differ(v, w, r, n)  == \A i \in 1 .. n : i # r => v[i] = w[i]

\* A sum between two others stays between them when all move alike.
LEMMA Between ==
    ASSUME NEW S \in Nat, NEW a \in Nat, NEW b \in Nat, NEW c \in Nat,
           NEW d \in Nat, NEW e \in Nat, NEW f \in Nat,
           b <= a, a <= c, b = d + e, c + f - e <= S
    PROVE  a + f - e \in 0 .. S
  OBVIOUS

\* Indices on either side of r.
LEMMA Indices ==
    ASSUME NEW N \in Nat, NEW r \in 1 .. N
    PROVE  /\ r \in 0 .. N /\ r - 1 \in 0 .. N /\ N \in 0 .. N /\ 0 \in 0 .. N
           /\ \A i \in 1 .. N : i \in 0 .. N /\ i - 1 \in 0 .. N
           /\ \A i \in 0 .. N : i < r => i <= r - 1
           /\ \A i \in 0 .. N : i <= N
           /\ r <= N /\ 0 < r
  OBVIOUS

\* Running sums after one of the summands changes.
LEMMA SumUpdate ==
    ASSUME NEW N \in Nat, NEW S \in Nat, NEW r \in 1 .. N,
           NEW w \in [1 .. N -> Nat], NEW v \in [1 .. N -> Nat],
           Differ(v, w, r, N),
           NEW sum \in [0 .. N -> 0 .. S],
           Adds(sum, w, N), Ascends(sum, N),
           sum[N] + v[r] - w[r] <= S
    PROVE  \E t \in [0 .. N -> 0 .. S] :
              /\ Adds(t, v, N)
              /\ Ascends(t, N)
              /\ t[N] = sum[N] + v[r] - w[r]
<1> DEFINE t == [i \in 0 .. N |->
                    IF i < r THEN sum[i] ELSE sum[i] + v[r] - w[r]]
<1>i. /\ r \in 0 .. N /\ r - 1 \in 0 .. N /\ N \in 0 .. N /\ 0 \in 0 .. N
      /\ \A i \in 1 .. N : i \in 0 .. N /\ i - 1 \in 0 .. N
      /\ \A i \in 0 .. N : i < r => i <= r - 1
      /\ \A i \in 0 .. N : i <= N
      /\ r <= N /\ 0 < r
  BY Indices
<1>n. \A i \in 0 .. N : sum[i] \in 0 .. S
  OBVIOUS
<1>m. \A i \in 0 .. N : sum[i] \in Nat
  <2>1. \A a \in 0 .. S : a \in Nat
    OBVIOUS
  <2>2. QED
    BY <1>n, <2>1
<1>v. v[r] \in Nat /\ w[r] \in Nat
  OBVIOUS
<1>r. sum[r] = sum[r - 1] + w[r]
  BY DEF Adds
<1>t. \A i \in 0 .. N :
        t[i] = IF i < r THEN sum[i] ELSE sum[i] + v[r] - w[r]
  OBVIOUS
<1>u. t = [i \in 0 .. N |->
              IF i < r THEN sum[i] ELSE sum[i] + v[r] - w[r]]
  OBVIOUS
<1> HIDE DEF t
<1>2. ASSUME NEW i \in 0 .. N, i >= r
      PROVE  sum[i] + v[r] - w[r] \in 0 .. S
  <2>1. sum[r] <= sum[i] /\ sum[i] <= sum[N]
    BY <1>i, <1>2 DEF Ascends
  <2>2. sum[i] \in Nat /\ sum[N] \in Nat /\ sum[r] \in Nat
        /\ sum[r - 1] \in Nat
    BY <1>i, <1>m
  <2>3. QED
    BY <1>v, <1>r, <2>1, <2>2, Between
<1>3. t \in [0 .. N -> 0 .. S]
  <2>1. ASSUME NEW i \in 0 .. N
        PROVE  (IF i < r THEN sum[i] ELSE sum[i] + v[r] - w[r]) \in 0 .. S
    <3>1. CASE i < r
      BY <1>n, <3>1
    <3>2. CASE ~(i < r)
      <4>1. i >= r
        BY <3>2
      <4>2. QED
        BY <1>2, <3>2, <4>1
    <3>3. QED
      BY <3>1, <3>2
  <2>2. QED
    BY <2>1, <1>u
<1>4. t[0] = 0 /\ t[N] = sum[N] + v[r] - w[r]
  <2>1. t[0] = sum[0]
    BY <1>i, <1>t
  <2>2. ~(N < r)
    BY <1>i
  <2>3. QED
    BY <1>i, <1>t, <2>1, <2>2 DEF Adds
<1>5. ASSUME NEW i \in 1 .. N PROVE t[i] = t[i - 1] + v[i]
  <2>1. i \in 0 .. N /\ i - 1 \in 0 .. N
    BY <1>i
  <2>2. sum[i] = sum[i - 1] + w[i]
    BY DEF Adds
  <2>3. sum[i - 1] \in Nat /\ w[i] \in Nat /\ sum[i] \in Nat
    BY <1>m, <2>1
  <2>4. CASE i < r
    <3>1. i - 1 < r /\ i # r
      BY <2>4
    <3>2. t[i] = sum[i] /\ t[i - 1] = sum[i - 1]
      BY <1>t, <2>1, <2>4, <3>1
    <3>3. v[i] = w[i]
      BY <3>1 DEF Differ
    <3>4. QED
      BY <2>2, <3>2, <3>3
  <2>5. CASE i = r
    <3>1. i - 1 < r /\ ~(i < r)
      BY <2>5
    <3>2. t[i] = sum[i] + v[i] - w[i] /\ t[i - 1] = sum[i - 1]
      BY <1>t, <2>1, <2>5, <3>1
    <3>3. QED
      BY <1>v, <2>2, <2>3, <2>5, <3>2, SMTT(40)
  <2>6. CASE i > r
    <3>1. ~(i < r) /\ ~(i - 1 < r) /\ i # r
      BY <2>6
    <3>2. /\ t[i] = sum[i] + v[r] - w[r]
          /\ t[i - 1] = sum[i - 1] + v[r] - w[r]
      BY <1>t, <2>1, <3>1
    <3>3. v[i] = w[i]
      BY <3>1 DEF Differ
    <3>4. QED
      BY <1>v, <2>2, <2>3, <3>2, <3>3, SMTT(40)
  <2>7. QED
    BY <2>4, <2>5, <2>6
<1>6. ASSUME NEW i \in 0 .. N, NEW j \in 0 .. N, i <= j
      PROVE  t[i] <= t[j]
  <2>1. sum[i] <= sum[j]
    BY <1>6 DEF Ascends
  <2>2. sum[i] \in Nat /\ sum[j] \in Nat
    BY <1>m
  <2>3. CASE j < r
    <3>1. i < r
      BY <1>6, <2>3
    <3>2. t[i] = sum[i] /\ t[j] = sum[j]
      BY <1>t, <2>3, <3>1
    <3>3. QED
      BY <2>1, <3>2
  <2>4. CASE i >= r
    <3>1. ~(i < r) /\ ~(j < r)
      BY <1>6, <2>4
    <3>2. t[i] = sum[i] + v[r] - w[r] /\ t[j] = sum[j] + v[r] - w[r]
      BY <1>t, <3>1
    <3>3. QED
      BY <1>v, <2>1, <2>2, <3>2, SMTT(40)
  <2>5. CASE i < r /\ j >= r
    <3>1. i <= r - 1 /\ r <= j
      BY <1>i, <2>5
    <3>2. sum[i] <= sum[r - 1] /\ sum[r] <= sum[j]
      BY <1>i, <3>1 DEF Ascends
    <3>3. sum[r - 1] \in Nat /\ sum[r] \in Nat
      BY <1>i, <1>m
    <3>4. ~(j < r)
      BY <2>5
    <3>5. t[i] = sum[i] /\ t[j] = sum[j] + v[r] - w[r]
      BY <1>t, <2>5, <3>4
    <3>6. QED
      BY <1>v, <1>r, <2>2, <3>2, <3>3, <3>5, SMTT(40)
  <2>6. QED
    BY <2>3, <2>4, <2>5
<1>7. Adds(t, v, N) /\ Ascends(t, N)
  BY <1>4, <1>5, <1>6 DEF Adds, Ascends
<1>8. QED
  BY <1>3, <1>4, <1>7

\* What a request takes is a natural number.
LEMMA TakenType == Typed => \A r \in Requests : Taken(r) \in Nat
  BY DEF Typed, TypeOK, Positive, Taken, InFlight

\* A step that changes what one request takes and moves the stock by as much
\* keeps the ledger balanced.
LEMMA LedgerFrame ==
    ASSUME Typed, Typed', Ledger, NEW r \in Requests,
           \A s \in Requests : s # r => Taken(s)' = Taken(s),
           stock' = stock + Taken(r) - Taken(r)'
    PROVE  Ledger'
<1>1. PICK sum \in [0 .. NumRequests -> 0 .. InitialStock] :
          /\ sum[0] = 0
          /\ \A s \in Requests : sum[s] = sum[s - 1] + Taken(s)
          /\ \A i, j \in 0 .. NumRequests : i <= j => sum[i] <= sum[j]
          /\ stock = InitialStock - sum[NumRequests]
  BY DEF Ledger
<1> DEFINE w == [s \in Requests |-> Taken(s)]
           v == [s \in Requests |-> Taken(s)']
<1>2. NumRequests \in Nat /\ InitialStock \in Nat
  BY ConstantsAssumption
<1>3. /\ r \in 1 .. NumRequests
      /\ w \in [1 .. NumRequests -> Nat]
      /\ v \in [1 .. NumRequests -> Nat]
  <2>1. ASSUME NEW s \in Requests PROVE Taken(s)' \in Nat
    <3>1. qty'[s] \in Int
      BY DEF Typed, TypeOK
    <3>2. \/ pc'[s] \in InFlight
          \/ reply'[s] \in {"created", "commitError"}
          => qty'[s] > 0
      BY DEF Typed, Positive
    <3>3. QED
      BY <3>1, <3>2 DEF Taken, InFlight
  <2>2. QED
    BY <2>1, TakenType DEF Requests
<1>4. Differ(v, w, r, NumRequests)
  BY DEF Requests, Differ
<1>5. Adds(sum, w, NumRequests) /\ Ascends(sum, NumRequests)
  BY <1>1 DEF Requests, Adds, Ascends
<1>6. stock \in Nat /\ stock' \in Nat /\ sum[NumRequests] \in Nat
  BY <1>1, <1>2 DEF Typed, TypeOK
<1>7. v[r] = Taken(r)' /\ w[r] = Taken(r)
  OBVIOUS
<1>8. stock' = InitialStock - (sum[NumRequests] + v[r] - w[r])
  BY <1>1, <1>2, <1>3, <1>6, <1>7, SMTT(40)
<1>9. sum[NumRequests] + v[r] - w[r] <= InitialStock
  BY <1>2, <1>3, <1>6, <1>8, SMTT(40)
<1>10. v = [s \in Requests |-> Taken(s)']
  OBVIOUS
<1> HIDE DEF w, v
<1>11. PICK t \in [0 .. NumRequests -> 0 .. InitialStock] :
          /\ Adds(t, v, NumRequests) /\ Ascends(t, NumRequests)
          /\ t[NumRequests] = sum[NumRequests] + v[r] - w[r]
  BY <1>1, <1>2, <1>3, <1>4, <1>5, <1>9, SumUpdate, ZenonT(60)
<1>12. \A s \in Requests : t[s] = t[s - 1] + Taken(s)'
  BY <1>10, <1>11 DEF Requests, Adds
<1>13. QED
  BY <1>8, <1>11, <1>12 DEF Ledger, Adds, Ascends

\* Reserve takes what the stock loses, Release gives it back, Within's commit
\* keeps it, and a new incarnation starts with everything.
LEMMA LedgerStep ==
    Typed /\ Typed' /\ Numbered /\ Ledger /\ [Next]_vars => Ledger'
<1> SUFFICES ASSUME Typed, Typed', Numbered, Ledger, [Next]_vars
             PROVE  Ledger'
  OBVIOUS
<1>t. TypeOK /\ Positive
  BY DEF Typed
<1> USE DEF Fail, Goto, Answer, locals, process, store
<1>1. ASSUME NEW r \in Requests, Arrive(r) PROVE Ledger'
  <2>1. \A s \in Requests : s # r => Taken(s)' = Taken(s)
    BY <1>1, <1>t DEF TypeOK, Arrive, Taken
  <2>2. Taken(r)' = 0 /\ Taken(r) = 0 /\ stock' = stock
    BY <1>1, <1>t DEF TypeOK, Arrive, Taken
  <2>3. stock' = stock + Taken(r) - Taken(r)'
    BY <1>t, <2>2 DEF TypeOK
  <2>4. QED
    BY <2>1, <2>3, LedgerFrame
<1>2. ASSUME NEW r \in Requests, Reserve(r) PROVE Ledger'
  <2>1. \A s \in Requests : s # r => Taken(s)' = Taken(s)
    BY <1>2, <1>t DEF TypeOK, Reserve, Taken
  <2>2. Taken(r) = 0 /\ born[r] = incarnation
    BY <1>2 DEF Reserve, Taken, Numbered, InFlight
  <2>3. \/ Taken(r)' = 0 /\ stock' = stock
        \/ Taken(r)' = qty[r] /\ stock' = stock - qty[r]
    BY <1>2, <1>t, <2>2 DEF TypeOK, Reserve, Taken
  <2>4. stock' = stock + Taken(r) - Taken(r)'
    BY <1>t, <2>2, <2>3 DEF TypeOK
  <2>5. QED
    BY <2>1, <2>4, LedgerFrame
<1>3. ASSUME NEW r \in Requests, Release(r) PROVE Ledger'
  <2>1. \A s \in Requests : s # r => Taken(s)' = Taken(s)
    BY <1>3, <1>t DEF TypeOK, Release, Taken
  <2>2. Taken(r) = qty[r] /\ Taken(r)' = 0 /\ stock' = stock + qty[r]
    BY <1>3, <1>t DEF TypeOK, Release, Taken, Numbered, InFlight
  <2>3. stock' = stock + Taken(r) - Taken(r)'
    BY <1>t, <2>2 DEF TypeOK
  <2>4. QED
    BY <2>1, <2>3, LedgerFrame
<1>4. ASSUME NEW r \in Requests,
             BeginTx(r) \/ Place(r) \/ Authorize(r) \/ Save(r)
             \/ Rollback(r) \/ Commit(r) \/ Cancel(r) \/ AwaitDone(r)
      PROVE  Ledger'
  <2>1. \A s \in Requests : s # r => Taken(s)' = Taken(s)
    BY <1>4, <1>t DEF TypeOK, BeginTx, Place, Authorize, Save, Rollback,
                      Commit, Cancel, AwaitDone, Taken
  <2>2. stock' = stock
    BY <1>4 DEF BeginTx, Place, Authorize, Save, Rollback, Commit, Cancel,
                AwaitDone
  <2>3. Taken(r)' = Taken(r)
    <3>1. CASE BeginTx(r) \/ Place(r)
      BY <1>t, <3>1 DEF TypeOK, BeginTx, Place, Taken
    <3>2. CASE Authorize(r) \/ Save(r)
      BY <1>t, <3>2 DEF TypeOK, Authorize, Save, Taken
    <3>3. CASE Rollback(r)
      BY <1>t, <3>3 DEF TypeOK, Positive, Rollback, Taken
    <3>4. CASE Commit(r)
      BY <1>t, <3>4 DEF TypeOK, Commit, Taken
    <3>5. CASE Cancel(r) \/ AwaitDone(r)
      BY <3>5 DEF Cancel, AwaitDone, Taken
    <3>6. QED
      BY <1>4, <3>1, <3>2, <3>3, <3>4, <3>5
  <2>4. Taken(r) \in Nat /\ stock \in Nat
    BY <1>t, TakenType DEF TypeOK
  <2>5. stock' = stock + Taken(r) - Taken(r)'
    BY <2>2, <2>3, <2>4
  <2>6. QED
    BY <2>1, <2>5, LedgerFrame
<1>5. CASE Restart
  <2>1. \A s \in Requests : Taken(s)' = 0
    BY <1>5, <1>t DEF TypeOK, Restart, Taken, Numbered
  <2>2. stock' = InitialStock
    BY <1>5 DEF Restart
  <2>3. NumRequests \in Nat /\ InitialStock \in Nat
    BY ConstantsAssumption
  <2> DEFINE zero == [i \in 0 .. NumRequests |-> 0]
  <2>4. zero \in [0 .. NumRequests -> 0 .. InitialStock]
    BY <2>3
  <2>5. /\ zero[0] = 0
        /\ zero[NumRequests] = 0
        /\ \A s \in Requests : zero[s] = zero[s - 1] + Taken(s)'
        /\ \A i, j \in 0 .. NumRequests : i <= j => zero[i] <= zero[j]
    BY <2>1, <2>3 DEF Requests
  <2>6. stock' = InitialStock - zero[NumRequests]
    BY <2>2, <2>3, <2>5
  <2> HIDE DEF zero
  <2>7. QED
    BY <2>4, <2>5, <2>6 DEF Ledger
<1>6. CASE UNCHANGED vars
  BY <1>6 DEF Ledger, Taken, vars
<1>7. QED
  BY <1>1, <1>2, <1>3, <1>4, <1>5, <1>6 DEF Next, Step

-----------------------------------------------------------------------------
\* Sixth layer: reserved quantities are bounded by the stock.

\* Reserve lets through at most the stock, which the ledger bounds.
LEMMA BoundedStep ==
    Typed /\ Authorized /\ Ledger /\ Bounded /\ [Next]_vars => Bounded'
<1> SUFFICES ASSUME TypeOK, Positive, Authorized, Ledger, Bounded,
                    [Next]_vars
             PROVE  Bounded'
  BY DEF Typed
<1> USE DEF Fail, Goto, Answer, InFlight, locals, process, store
<1>1. ASSUME NEW r \in Requests, Arrive(r) PROVE Bounded'
  BY <1>1 DEF TypeOK, Authorized, Bounded, Arrive
<1>2. ASSUME NEW r \in Requests, Reserve(r) PROVE Bounded'
  <2>1. stock <= InitialStock
    <3>1. PICK n \in 0 .. InitialStock : stock = InitialStock - n
      BY ConstantsAssumption DEF Ledger
    <3>2. QED
      BY <3>1, ConstantsAssumption
  <2>2. pc'[r] = "authorize" => qty[r] \in 1 .. InitialStock
    BY <1>2, <2>1, ConstantsAssumption
       DEF TypeOK, Positive, Reserve, Sufficient
  <2>3. UNCHANGED <<qty, auth>> /\ auth[r] = 0
    BY <1>2 DEF Reserve, Authorized
  <2>4. /\ pc'[r] \in {"authorize", "rollback"}
        /\ \A s \in Requests \ {r} : pc'[s] = pc[s]
    BY <1>2 DEF TypeOK, Reserve
  <2>5. QED
    BY <2>2, <2>3, <2>4 DEF Bounded
<1>3. ASSUME NEW r \in Requests, Authorize(r) PROVE Bounded'
  <2>1. /\ qty' = qty
        /\ pc[r] = "authorize"
        /\ \A s \in Requests \ {r} : pc'[s] = pc[s] /\ auth'[s] = auth[s]
    BY <1>3 DEF TypeOK, Authorize
  <2>2. QED
    BY <2>1 DEF Bounded
<1>4. ASSUME NEW r \in Requests,
             BeginTx(r) \/ Place(r) \/ Save(r) \/ Release(r) \/ Rollback(r)
             \/ Commit(r) \/ Cancel(r) \/ AwaitDone(r)
      PROVE  Bounded'
  <2>1. UNCHANGED <<qty, auth>>
    BY <1>4 DEF BeginTx, Place, Save, Release, Rollback, Commit, Cancel,
                AwaitDone
  <2>2. /\ \A s \in Requests \ {r} : pc'[s] = pc[s]
        /\ pc'[r] \in {"authorize", "save", "release", "commit"} =>
              pc[r] \in {"authorize", "save", "release", "commit"}
    BY <1>4 DEF TypeOK, BeginTx, Place, Save, Release, Rollback, Commit,
                Cancel, AwaitDone
  <2>3. QED
    BY <2>1, <2>2 DEF Bounded
<1>5. CASE Restart
  <2>1. /\ UNCHANGED <<qty, auth>>
        /\ \A s \in Requests : pc'[s] \in {pc[s], "done"}
    BY <1>5 DEF Restart
  <2>2. QED
    BY <2>1 DEF Bounded
<1>6. CASE UNCHANGED vars
  BY <1>6 DEF Bounded, vars
<1>7. QED
  BY <1>1, <1>2, <1>3, <1>4, <1>5, <1>6 DEF Next, Step

-----------------------------------------------------------------------------
\* The invariant and what follows from it.

\* The layers together hold from the start on.
THEOREM Invariance == Spec => []IInv
<1>1. Init => IInv
  <2> SUFFICES ASSUME Init PROVE IInv
    OBVIOUS
  <2>1. Typed
    <3>1. TypeOK
      BY ConstantsAssumption DEF Init, TypeOK, InFlight, Replies, Requests
    <3>2. Positive
      BY DEF Init, Positive, InFlight
    <3>3. QED
      BY <3>1, <3>2 DEF Typed
  <2>2. Numbered /\ Authorized
    BY DEF Init, Numbered, Authorized, InFlight
  <2>3. Stored
    BY DEF Init, Stored
  <2>4. Ledger
    <3>1. NumRequests \in Nat /\ InitialStock \in Nat
      BY ConstantsAssumption
    <3> DEFINE zero == [i \in 0 .. NumRequests |-> 0]
    <3>2. zero \in [0 .. NumRequests -> 0 .. InitialStock]
      BY <3>1
    <3>3. \A s \in Requests : Taken(s) = 0
      BY DEF Init, Taken
    <3>4. /\ zero[0] = 0
          /\ zero[NumRequests] = 0
          /\ \A s \in Requests : zero[s] = zero[s - 1] + Taken(s)
          /\ \A i, j \in 0 .. NumRequests : i <= j => zero[i] <= zero[j]
      BY <3>1, <3>3 DEF Requests
    <3>5. stock = InitialStock - zero[NumRequests]
      BY <3>1, <3>4 DEF Init
    <3> HIDE DEF zero
    <3>6. QED
      BY <3>2, <3>4, <3>5 DEF Ledger
  <2>5. Bounded
    BY DEF Init, Bounded
  <2>6. QED
    BY <2>1, <2>2, <2>3, <2>4, <2>5 DEF IInv
<1>2. IInv /\ [Next]_vars => IInv'
  <2>1. IInv /\ [Next]_vars => Typed'
    BY TypeStep, PositiveStep DEF IInv, Typed
  <2>2. QED
    BY <2>1, NumberedStep, AuthorizedStep, StoredStep, LedgerStep,
       BoundedStep DEF IInv
<1>3. QED
  BY <1>1, <1>2, PTL DEF Spec

\* Type correctness of order placement: the state is always well typed, and
\* the stock inventory.Service keeps is never negative.
THEOREM TypeCorrect == Spec => []TypeOK
<1>1. IInv => TypeOK
  BY DEF IInv, Typed
<1>2. QED
  BY <1>1, Invariance, PTL

\* Conservation of stock, whatever the interleaving, cancellations, store
\* failures and restarts.
THEOREM StockIsAccounted == Spec => []StockAccounted
<1>1. IInv => StockAccounted
  BY DEF IInv, Ledger, StockAccounted
<1>2. QED
  BY <1>1, Invariance, PTL

\* No transaction ever commits under a taken number.
THEOREM CommitsDoNotCollide == Spec => []CommitNeverCollides
<1>1. IInv => CommitNeverCollides
  <2> SUFFICES ASSUME IInv, NEW r \in Requests, NEW o \in staged[r]
               PROVE  /\ o.id \notin PersistedIDs
                      /\ \A s \in Requests \ {r} : \A p \in staged[s] :
                            p.id # o.id
    BY DEF CommitNeverCollides
  <2>1. o = Record(r) /\ pc[r] = "commit" /\ \A p \in orders : p.id # id[r]
    BY DEF IInv, Stored
  <2>2. o.id = id[r]
    BY <2>1 DEF Record
  <2>3. ASSUME NEW s \in Requests \ {r}, NEW p \in staged[s]
        PROVE  p.id # o.id
    <3>1. p = Record(s) /\ pc[s] = "commit"
      BY DEF IInv, Stored
    <3>2. born[r] = born[s] /\ id[r] # 0
      BY <2>1, <3>1 DEF IInv, Numbered, InFlight
    <3>3. id[s] # id[r]
      BY <3>2 DEF IInv, Numbered
    <3>4. QED
      BY <2>2, <3>1, <3>3 DEF Record
  <2>4. QED
    BY <2>1, <2>2, <2>3 DEF PersistedIDs
<1>2. QED
  BY <1>1, Invariance, PTL

\* Every row was paid for, once, with its exact total.
THEOREM OrdersArePaid == Spec => []OrdersPaid
<1>1. IInv => OrdersPaid
  <2> SUFFICES ASSUME IInv PROVE OrdersPaid
    OBVIOUS
  <2>1. ASSUME NEW o \in orders
        PROVE  \E r \in Requests : o = Record(r) /\ id[r] # 0 /\ Paid(r)
    BY DEF IInv, Stored, Authorized
  <2>2. ASSUME NEW o \in orders
        PROVE  /\ o.authorizationID \in DOMAIN approved[o.incarnation]
               /\ approved[o.incarnation][o.authorizationID] =
                     [reference |-> o.id, amount |-> o.totalCents]
    <3>1. PICK r \in Requests : o = Record(r) /\ Paid(r)
      BY <2>1
    <3>2. /\ o.authorizationID = auth[r] /\ o.incarnation = born[r]
          /\ o.id = id[r] /\ o.totalCents = Total(qty[r])
      BY <3>1 DEF Record
    <3>3. approved[born[r]] \in Seq(Authorization)
      BY DEF IInv, Typed, TypeOK
    <3>4. auth[r] \in DOMAIN approved[born[r]]
      BY <3>1, <3>3 DEF Paid
    <3>5. approved[born[r]][auth[r]] \in Authorization
      BY <3>3, <3>4
    <3>6. approved[born[r]][auth[r]] =
             [reference |-> id[r], amount |-> Total(qty[r])]
      BY <3>1, <3>5 DEF Paid, Authorization
    <3>7. QED
      BY <3>2, <3>4, <3>6
  <2>3. ASSUME NEW o \in orders, NEW p \in orders \ {o},
               p.incarnation = o.incarnation,
               p.authorizationID = o.authorizationID
        PROVE  FALSE
    <3>1. PICK r \in Requests : o = Record(r) /\ id[r] # 0 /\ Paid(r)
      BY <2>1
    <3>2. PICK s \in Requests : p = Record(s) /\ id[s] # 0 /\ Paid(s)
      BY <2>1
    <3>3. r # s
      BY <3>1, <3>2
    <3>4. born[r] = born[s] /\ auth[r] = auth[s]
      BY <2>3, <3>1, <3>2 DEF Record
    <3>5. id[r] = id[s]
      BY <3>1, <3>2, <3>4 DEF Paid
    <3>6. QED
      BY <3>1, <3>3, <3>4, <3>5 DEF IInv, Numbered
  <2>4. QED
    BY <2>2, <2>3 DEF OrdersPaid
<1>2. QED
  BY <1>1, Invariance, PTL

\* An answer agrees with the table, across restarts.
THEOREM RepliesAgreeWithStore == Spec => []ReplyAgreesWithStore
<1>1. IInv => ReplyAgreesWithStore
  <2> SUFFICES ASSUME IInv, NEW r \in Requests, pc[r] = "done"
               PROVE  /\ reply[r] = "created" => Record(r) \in orders
                      /\ reply[r] \in {"invalid", "conflict", "error"} =>
                            \A o \in orders :
                               ~(o.incarnation = born[r] /\ o.id = id[r])
    BY DEF ReplyAgreesWithStore
  <2>1. reply[r] = "created" => Record(r) \in orders
    BY DEF IInv, Stored
  <2>2. ASSUME reply[r] \in {"invalid", "conflict", "error"},
               NEW o \in orders, o.incarnation = born[r], o.id = id[r]
        PROVE  FALSE
    <3>1. PICK s \in Requests :
              /\ o = Record(s)
              /\ id[s] # 0
              /\ reply[s] \in {"created", "commitError", "lost"}
      BY DEF IInv, Stored
    <3>2. s # r /\ born[s] = born[r] /\ id[s] = id[r]
      BY <2>2, <3>1 DEF Record
    <3>3. QED
      BY <3>1, <3>2 DEF IInv, Numbered
  <2>3. QED
    BY <2>1, <2>2
<1>2. QED
  BY <1>1, Invariance, PTL

\* No persisted total has wrapped.
THEOREM OrdersArePricedExactly == Spec => []PricedExactly
<1>1. IInv => PricedExactly
  <2> SUFFICES ASSUME IInv, InitialStock * UnitPriceCents <= MaxInt,
                      NEW o \in orders
               PROVE  o.totalCents = o.quantity * UnitPriceCents
    BY DEF PricedExactly
  <2>1. PICK r \in Requests :
              /\ o = Record(r)
              /\ auth[r] # 0
              /\ pc[r] = "done"
              /\ reply[r] \in {"created", "commitError", "lost"}
    BY DEF IInv, Stored
  <2>2. qty[r] \in Nat /\ qty[r] <= InitialStock
    BY <2>1, ConstantsAssumption DEF IInv, Bounded
  <2>3. Total(qty[r]) = qty[r] * UnitPriceCents
    BY <2>2, TotalExact
  <2>4. QED
    BY <2>1, <2>3 DEF Record
<1>2. QED
  BY <1>1, Invariance, PTL
=============================================================================
