--------------------------- MODULE OrderPlacement ---------------------------
(***************************************************************************)
(* POST /orders: concurrent requests run orders.Service.place inside a     *)
(* data.Manager transaction, against the in-memory inventory and payment   *)
(* services and one durable order table.                                   *)
(*                                                                         *)
(* A step is one critical section of the code: what a goroutine does       *)
(* between two mutex sections (or between two database round trips) is     *)
(* local to it.  A request's context may be cancelled between any two      *)
(* steps, the store may fail, and the process may be replaced by a new     *)
(* incarnation that keeps the table and loses everything in memory.        *)
(***************************************************************************)
EXTENDS Integers, Sequences, FiniteSets

CONSTANTS
    NumRequests,     \* requests 1..NumRequests are served
    Quantities,      \* quantities a request body may carry
    InitialStock,    \* inventory.Settings.InitialStock
    UnitPriceCents,  \* orders.Settings.UnitPriceCents
    MaximumCents,    \* payments.Settings.MaximumCents
    MaxInt,          \* largest value of Go's int
    PoolSize,        \* open connections of the sql.DB pool (1 for memory)
    StoreFaults,     \* TRUE: the database may fail a call (PostgreSQL)
    MaxRestarts      \* bound on process restarts (0 for memory)

\* The checks of inventory.NewService, orders.NewService and
\* payments.NewService on their settings, and the range of Go's int.
ASSUME ConstantsAssumption ==
    /\ NumRequests \in Nat
    /\ MaxInt \in Nat \ {0}
    /\ Quantities \subseteq (-(MaxInt + 1)) .. MaxInt
    /\ InitialStock \in 0 .. MaxInt
    /\ UnitPriceCents \in 1 .. MaxInt
    /\ MaximumCents \in 1 .. MaxInt
    /\ PoolSize \in Nat \ {0}
    /\ StoreFaults \in BOOLEAN
    /\ MaxRestarts \in Nat

Requests == 1 .. NumRequests

VARIABLES
    pc,          \* where request r is in handler, Within and place
    reply,       \* what the client of r is (or is about to be) told
    qty,         \* request.Quantity
    id,          \* the order number allocated to r, 0 before allocation
    auth,        \* the authorization number r was given, 0 before
    born,        \* auxiliary: the incarnation that served r
    cancelled,   \* requests whose context is done
    txn,         \* state of r's sql.Tx
    staged,      \* records r's transaction has inserted, not yet committed
    stock,       \* inventory.Service.stock[SKU]
    nextID,      \* orders.Service.nextID
    approved,    \* payments.Service.approved, one sequence per incarnation
    orders,      \* committed rows of commerce_orders
    incarnation  \* auxiliary: number of restarts so far

locals  == <<qty, id, auth, born>>
process == <<stock, nextID, approved, incarnation>>
store   == <<txn, staged, orders>>
vars    == <<pc, reply, locals, cancelled, process, store>>

InFlight == {"begin", "place", "reserve", "authorize", "save", "release",
             "rollback", "commit"}
Replies  == {"none", "created", "invalid", "conflict", "error",
             "commitError", "lost"}

\* quantity * unitPriceCents in Go's two's complement int.
Total(q) ==
    ((q * UnitPriceCents + MaxInt + 1) % (2 * (MaxInt + 1))) - (MaxInt + 1)

\* The row request r inserts.  The incarnation is auxiliary.
Record(r) ==
    [id              |-> id[r],
     quantity        |-> qty[r],
     totalCents      |-> Total(qty[r]),
     authorizationID |-> auth[r],
     incarnation     |-> born[r]]

OrderRecord ==
    [id : Nat, quantity : Int, totalCents : Int, authorizationID : Nat,
     incarnation : 0 .. MaxRestarts]

Authorization == [reference : Nat, amount : Int]

PersistedIDs == {o.id : o \in orders}

Init ==
    /\ pc = [r \in Requests |-> "idle"]
    /\ reply = [r \in Requests |-> "none"]
    /\ qty = [r \in Requests |-> 0]
    /\ id = [r \in Requests |-> 0]
    /\ auth = [r \in Requests |-> 0]
    /\ born = [r \in Requests |-> 0]
    /\ cancelled = {}
    /\ txn = [r \in Requests |-> "none"]
    /\ staged = [r \in Requests |-> {}]
    /\ stock = InitialStock
    /\ nextID = 0
    /\ approved = [n \in 0 .. MaxRestarts |-> << >>]
    /\ orders = {}
    /\ incarnation = 0

-----------------------------------------------------------------------------
\* Control flow shared by the steps below.

Goto(r, label) ==
    /\ pc' = [pc EXCEPT ![r] = label]
    /\ UNCHANGED reply

\* Leave place with an error whose HTTP status is fixed now and sent after
\* the compensation and the rollback that still have to run.
Fail(r, answer, label) ==
    /\ pc' = [pc EXCEPT ![r] = label]
    /\ reply' = [reply EXCEPT ![r] = answer]

Answer(r, answer) == Fail(r, answer, "done")

-----------------------------------------------------------------------------
\* PlaceOrderRequest.Validate: a non-positive quantity never gets further.
Validate(q) == q > 0

\* The generated route decodes the body, validates it and calls Within.
Arrive(r) ==
    /\ pc[r] = "idle"
    /\ \E q \in Quantities :
          /\ qty' = [qty EXCEPT ![r] = q]
          /\ \/ Validate(q) /\ Goto(r, "begin")
             \/ ~Validate(q) /\ Answer(r, "invalid")
    /\ born' = [born EXCEPT ![r] = incarnation]
    /\ UNCHANGED <<id, auth, cancelled, process, store>>

\* Within: BeginTx waits for one of the pool's connections.
BeginTx(r) ==
    /\ pc[r] = "begin"
    /\ \/ /\ r \notin cancelled
          /\ Cardinality({s \in Requests : txn[s] = "open"}) < PoolSize
          /\ txn' = [txn EXCEPT ![r] = "open"]
          /\ Goto(r, "place")
       \/ /\ r \in cancelled \/ StoreFaults
          /\ Answer(r, "error")
          /\ UNCHANGED txn
    /\ UNCHANGED <<locals, cancelled, process, staged, orders>>

\* Mutant of allocateID: the counter is read and not advanced.
AllocateIDStale(r) ==
    /\ id' = [id EXCEPT ![r] = nextID + 1]
    /\ UNCHANGED nextID

\* orders.Service.allocateID, one critical section of Service.mu.
AllocateID(r) ==
    /\ id' = [id EXCEPT ![r] = nextID + 1]
    /\ nextID' = nextID + 1

\* place up to allocateID: a done context stops it before any side effect.
Place(r) ==
    /\ pc[r] = "place"
    /\ \/ /\ r \in cancelled
          /\ Fail(r, "error", "rollback")
          /\ UNCHANGED <<nextID, id>>
       \/ /\ r \notin cancelled
          /\ AllocateID(r)
          /\ Goto(r, "reserve")
    /\ UNCHANGED <<qty, auth, born, cancelled, stock, approved, incarnation,
                   store>>

\* Mutant of Sufficient: the availability check is dropped.
SufficientUnchecked(r) == TRUE

\* Reserve's availability check, made under the lock it subtracts under.
Sufficient(r) == qty[r] <= stock

\* inventory.Service.Reserve.  The number allocated above stays burned when
\* it fails.
Reserve(r) ==
    /\ pc[r] = "reserve"
    /\ \/ /\ r \in cancelled
          /\ Fail(r, "error", "rollback")
          /\ UNCHANGED stock
       \/ /\ r \notin cancelled
          /\ ~Sufficient(r)
          /\ Fail(r, "conflict", "rollback")
          /\ UNCHANGED stock
       \/ /\ r \notin cancelled
          /\ Sufficient(r)
          /\ stock' = stock - qty[r]
          /\ Goto(r, "authorize")
    /\ UNCHANGED <<locals, cancelled, nextID, approved, incarnation, store>>

\* Mutant of AuthorizationNumber: numbered by the length before the append.
AuthorizationNumberOffByOne == Len(approved[incarnation])

\* The ID payments.Service gives the authorization it appends.
AuthorizationNumber == Len(approved[incarnation]) + 1

\* payments.Service.Authorize of the wrapped total.
Authorize(r) ==
    /\ pc[r] = "authorize"
    /\ \/ /\ r \in cancelled \/ Total(qty[r]) <= 0
          /\ Fail(r, "error", "release")
          /\ UNCHANGED <<approved, auth>>
       \/ /\ r \notin cancelled
          /\ Total(qty[r]) > MaximumCents
          /\ Fail(r, "conflict", "release")
          /\ UNCHANGED <<approved, auth>>
       \/ /\ r \notin cancelled
          /\ Total(qty[r]) \in 1 .. MaximumCents
          /\ approved' = [approved EXCEPT ![incarnation] =
                Append(@, [reference |-> id[r], amount |-> Total(qty[r])])]
          /\ auth' = [auth EXCEPT ![r] = AuthorizationNumber]
          /\ Goto(r, "save")
    /\ UNCHANGED <<qty, id, born, cancelled, stock, nextID, incarnation,
                   store>>

\* Mutant of Insert: the row is not recorded in the transaction.
InsertDropped(r) == UNCHANGED staged

\* The INSERT of the row in r's transaction.
Insert(r) == staged' = [staged EXCEPT ![r] = {Record(r)}]

\* OrderRepository.Save: the insert is refused on a done context, on a
\* transaction database/sql already rolled back, on a duplicate key, and
\* when the store fails.
Save(r) ==
    /\ pc[r] = "save"
    /\ \/ /\ r \in cancelled \/ txn[r] # "open" \/ id[r] \in PersistedIDs
             \/ StoreFaults
          /\ Fail(r, "error", "release")
          /\ UNCHANGED staged
       \/ /\ r \notin cancelled
          /\ txn[r] = "open"
          /\ id[r] \notin PersistedIDs
          /\ Insert(r)
          /\ Goto(r, "commit")
    /\ UNCHANGED <<locals, cancelled, process, txn, orders>>

\* Mutant of Release: the compensation restores nothing.
ReleaseForgotten(r) ==
    /\ pc[r] = "release"
    /\ Goto(r, "rollback")
    /\ UNCHANGED <<locals, cancelled, process, store>>

\* inventory.Service.Release, the compensation place runs when Authorize or
\* Save failed.
Release(r) ==
    /\ pc[r] = "release"
    /\ stock' = stock + qty[r]
    /\ Goto(r, "rollback")
    /\ UNCHANGED <<locals, cancelled, nextID, approved, incarnation, store>>

\* Mutant of EndTx: the transaction keeps its connection.
EndTxLeaking(r) ==
    /\ staged' = [staged EXCEPT ![r] = {}]
    /\ UNCHANGED txn

\* Commit and Rollback of a sql.Tx return its connection to the pool.
EndTx(r) ==
    /\ staged' = [staged EXCEPT ![r] = {}]
    /\ txn' = [txn EXCEPT ![r] = "none"]

\* Within: place returned an error, the transaction is rolled back.
Rollback(r) ==
    /\ pc[r] = "rollback"
    /\ EndTx(r)
    /\ Goto(r, "done")
    /\ UNCHANGED <<locals, cancelled, process, orders>>

\* Within: place succeeded.  Commit fails on a done context, on a duplicate
\* key, or because the store does; a PostgreSQL commit may also be applied
\* and still be reported as an error when its answer is lost.
Commit(r) ==
    /\ pc[r] = "commit"
    /\ \/ /\ r \in cancelled \/ txn[r] # "open" \/ StoreFaults
             \/ \E o \in staged[r] : o.id \in PersistedIDs
          /\ Answer(r, "commitError")
          /\ UNCHANGED orders
       \/ /\ r \notin cancelled
          /\ txn[r] = "open"
          /\ \A o \in staged[r] : o.id \notin PersistedIDs
          /\ orders' = orders \cup staged[r]
          /\ \/ Answer(r, "created")
             \/ StoreFaults /\ Answer(r, "commitError")
    /\ EndTx(r)
    /\ UNCHANGED <<locals, cancelled, process>>

\* The client goes away or the request's deadline passes.
Cancel(r) ==
    /\ pc[r] \in InFlight
    /\ r \notin cancelled
    /\ cancelled' = cancelled \cup {r}
    /\ UNCHANGED <<pc, reply, locals, process, store>>

\* database/sql watches the transaction's context and rolls the transaction
\* back on its own, giving the connection up while place is still running.
AwaitDone(r) ==
    /\ r \in cancelled
    /\ txn[r] = "open"
    /\ txn' = [txn EXCEPT ![r] = "done"]
    /\ staged' = [staged EXCEPT ![r] = {}]
    /\ UNCHANGED <<pc, reply, locals, cancelled, process, orders>>

\* A new process: NewService of inventory, payments and orders start from
\* their settings; the table survives.  A COMMIT already sent may be applied.
Restart ==
    /\ incarnation < MaxRestarts
    /\ incarnation' = incarnation + 1
    /\ stock' = InitialStock
    /\ nextID' = 0
    /\ pc' = [r \in Requests |-> IF pc[r] \in InFlight THEN "done" ELSE pc[r]]
    /\ reply' = [r \in Requests |->
                    IF pc[r] \in InFlight THEN "lost" ELSE reply[r]]
    /\ txn' = [r \in Requests |-> "none"]
    /\ staged' = [r \in Requests |-> {}]
    /\ \E sent \in SUBSET {r \in Requests : pc[r] = "commit" /\ StoreFaults} :
          orders' = orders \cup UNION {staged[r] : r \in sent}
    /\ UNCHANGED <<locals, cancelled, approved>>

Step(r) ==
    \/ BeginTx(r)
    \/ Place(r)
    \/ Reserve(r)
    \/ Authorize(r)
    \/ Save(r)
    \/ Release(r)
    \/ Rollback(r)
    \/ Commit(r)

Next ==
    \/ \E r \in Requests : Arrive(r) \/ Step(r) \/ Cancel(r) \/ AwaitDone(r)
    \/ Restart

Spec == Init /\ [][Next]_vars

\* The Go scheduler runs every runnable goroutine, and a mutex or a database
\* call is released eventually; clients need not arrive, cancel or wait.
FairSpec == Spec /\ \A r \in Requests : WF_vars(Step(r))
-----------------------------------------------------------------------------
\* Properties

\* Type invariant.  stock is a Nat: Audit and VerifySKU (inventory/service.go)
\* report a negative stock as corruption.
TypeOK ==
    /\ pc \in [Requests -> InFlight \cup {"idle", "done"}]
    /\ reply \in [Requests -> Replies]
    /\ qty \in [Requests -> Int]
    /\ id \in [Requests -> Nat]
    /\ auth \in [Requests -> Nat]
    /\ born \in [Requests -> 0 .. MaxRestarts]
    /\ cancelled \in SUBSET Requests
    /\ txn \in [Requests -> {"none", "open", "done"}]
    /\ staged \in [Requests -> SUBSET OrderRecord]
    /\ stock \in Nat
    /\ nextID \in Nat
    /\ approved \in [0 .. MaxRestarts -> Seq(Authorization)]
    /\ orders \in SUBSET OrderRecord
    /\ incarnation \in 0 .. MaxRestarts

\* Units request r keeps out of this incarnation's stock: while place is
\* between Reserve and the end of its compensation, and for good once Within
\* has tried to commit.
Taken(r) ==
    IF /\ born[r] = incarnation
       /\ \/ pc[r] \in {"authorize", "save", "release", "commit"}
          \/ pc[r] = "done" /\ reply[r] \in {"created", "commitError"}
    THEN qty[r]
    ELSE 0

\* Stock is conserved whatever the interleaving of Reserve, Release,
\* cancellation and store failures: there are running sums of the units
\* taken by requests 1, 2, ... that end at the units missing from stock.  A
\* forgotten, doubled or misplaced Release breaks it.
StockAccounted ==
    \E sum \in [0 .. NumRequests -> 0 .. InitialStock] :
        /\ sum[0] = 0
        /\ \A r \in Requests : sum[r] = sum[r - 1] + Taken(r)
        /\ stock = InitialStock - sum[NumRequests]

\* Order numbers restart from 1 with every process, yet a transaction that
\* reached Commit never meets a committed row or another uncommitted insert
\* with its number, so the duplicate branch of memoryTransaction.Commit and
\* a unique violation at COMMIT cannot happen and no row is overwritten.
CommitNeverCollides ==
    \A r \in Requests : \A o \in staged[r] :
        /\ o.id \notin PersistedIDs
        /\ \A s \in Requests \ {r} : \A p \in staged[s] : p.id # o.id

\* Every persisted order was paid: the authorization it names exists in the
\* incarnation that stored it, for this order's number and exact total, and
\* pays for no other order of that incarnation.
OrdersPaid ==
    \A o \in orders :
        /\ o.authorizationID \in DOMAIN approved[o.incarnation]
        /\ approved[o.incarnation][o.authorizationID] =
              [reference |-> o.id, amount |-> o.totalCents]
        /\ \A p \in orders \ {o} :
              p.incarnation = o.incarnation =>
                  p.authorizationID # o.authorizationID

\* The client can trust its answer.  Success means the row is there, as
\* requested, now and after any restart; any refusal that place itself
\* produced means there is no such row.  Only a failed commit (an HTTP 500)
\* leaves it open.
ReplyAgreesWithStore ==
    \A r \in Requests : pc[r] = "done" =>
        /\ reply[r] = "created" => Record(r) \in orders
        /\ reply[r] \in {"invalid", "conflict", "error"} =>
              \A o \in orders : ~(o.incarnation = born[r] /\ o.id = id[r])

\* When the configured stock can be priced in an int, no persisted total has
\* wrapped, however large the requested quantities are: Reserve runs before
\* the multiplication and bounds its operand.
PricedExactly ==
    InitialStock * UnitPriceCents <= MaxInt =>
        \A o \in orders : o.totalCents = o.quantity * UnitPriceCents

\* Every request that arrives is answered (or lost with its process): no
\* path of place or Within keeps its connection and starves the pool.
RequestsAnswered ==
    \A r \in Requests : pc[r] = "begin" ~> pc[r] = "done"

\* What orders/service.go:23 says ("coordinates inventory and payment as one
\* compensated operation") of the stock: a request that failed holds none.
StockCompensated ==
    \A r \in Requests :
        pc[r] = "done" /\ reply[r] # "created" => Taken(r) = 0

\* What orders/errors.go:8 says ("ErrOrderRejected reports a dependency
\* rejection after compensation") of the payment: a rejected order leaves no
\* approved authorization behind.
PaymentCompensated ==
    \A r \in Requests :
        pc[r] = "done" /\ reply[r] \in {"conflict", "error"} /\ id[r] # 0 =>
            \A n \in DOMAIN approved[born[r]] :
                approved[born[r]][n].reference # id[r]
=============================================================================
