---------------------------- MODULE MemoryStore -----------------------------
(***************************************************************************)
(* The memory backend of storage: one sql.DB whose pool holds a single     *)
(* memoryConnection, used concurrently by transactions (Within), by reads  *)
(* and inserts through the pool, and by Migrate.                           *)
(*                                                                         *)
(* memoryConnection consults its tx field on every insert and find, even   *)
(* for a caller that came through the pool and never began a transaction:  *)
(* isolation rests on the pool lending the connection to one user at a     *)
(* time and on every way of ending a transaction resetting that field,     *)
(* including the rollback database/sql runs by itself when a transaction's *)
(* context is done.                                                        *)
(*                                                                         *)
(* schema is TRUE from NewDatabase on and is not modelled.  A driver call  *)
(* that is refused (a done context, a duplicate) changes nothing and is a  *)
(* stuttering step of the caller unless said otherwise.                    *)
(***************************************************************************)
EXTENDS Naturals

CONSTANTS
    Clients,  \* goroutines using the database; also the rows they write
    IDs,      \* order IDs
    None      \* no client, no row

ASSUME NoneAssumption == None \notin Clients

VARIABLES
    pc,           \* where each client is
    arg,          \* the ID of the client's read or direct insert
    cancelled,    \* clients whose context is done
    holder,       \* the user of the pool's only connection
    connTx,       \* memoryConnection.tx: the owner of the transaction
    tx,           \* each client's sql.Tx: none, open or done
    written,      \* memoryTransaction.records of each client
    records,      \* memoryDatabase.records
    seen,         \* the last row each client's Find returned
    migrationMu,  \* owner of memoryDatabase.migrationMu
    applied       \* len(memoryDatabase.applied)

migration == <<migrationMu, applied>>
vars == <<pc, arg, cancelled, holder, connTx, tx, written, records, seen,
          migration>>

Empty == [i \in IDs |-> None]

Labels == {"idle", "begin", "work", "ending", "find", "rows", "save",
           "lock", "migrate", "apply", "schema", "commitSchema", "record",
           "unlock"}

Init ==
    /\ pc = [c \in Clients |-> "idle"]
    /\ arg \in [Clients -> IDs]
    /\ cancelled = {}
    /\ holder = None
    /\ connTx = None
    /\ tx = [c \in Clients |-> "none"]
    /\ written = [c \in Clients |-> Empty]
    /\ records = Empty
    /\ seen = [c \in Clients |-> None]
    /\ migrationMu = None
    /\ applied = 0

Goto(c, label) == pc' = [pc EXCEPT ![c] = label]

-----------------------------------------------------------------------------
\* The driver: memoryConnection and memoryTransaction.

\* The row memoryConnection.find returns for i.
Found(i) ==
    IF connTx # None /\ written[connTx][i] # None
    THEN written[connTx][i]
    ELSE records[i]

\* memoryConnection.insert of row i by c; a duplicate is refused.
DriverInsert(c, i) ==
    /\ records[i] = None
    /\ \/ /\ connTx # None
          /\ written[connTx][i] = None
          /\ written' = [written EXCEPT ![connTx][i] = c]
          /\ UNCHANGED records
       \/ /\ connTx = None
          /\ records' = [records EXCEPT ![i] = c]
          /\ UNCHANGED written

\* memoryTransaction.Commit: all rows or, on a duplicate, none.
DriverCommit(c) ==
    /\ connTx = c
    /\ records' =
          IF \E i \in IDs : written[c][i] # None /\ records[i] # None
          THEN records
          ELSE [i \in IDs |->
                  IF written[c][i] # None THEN written[c][i] ELSE records[i]]
    /\ connTx' = None
    /\ written' = [written EXCEPT ![c] = Empty]

\* Mutant of DriverRollback: the connection keeps its transaction.
DriverRollbackKeepingTx(c) ==
    /\ connTx = c
    /\ written' = [written EXCEPT ![c] = Empty]
    /\ UNCHANGED <<records, connTx>>

\* memoryTransaction.Rollback.
DriverRollback(c) ==
    /\ connTx = c
    /\ connTx' = None
    /\ written' = [written EXCEPT ![c] = Empty]
    /\ UNCHANGED records

-----------------------------------------------------------------------------
\* database/sql and its callers.

\* A caller enters with a fresh context: Within, Find, Save through the pool
\* or Migrate.
Start(c) ==
    /\ pc[c] = "idle"
    /\ \E label \in {"begin", "find", "save", "lock"} : Goto(c, label)
    /\ \E i \in IDs : arg' = [arg EXCEPT ![c] = i]
    /\ cancelled' = cancelled \ {c}
    /\ UNCHANGED <<holder, connTx, tx, written, records, seen, migration>>

\* A context that is done ends the wait for the connection.
GiveUp(c) ==
    /\ c \in cancelled
    /\ \/ pc[c] \in {"begin", "find", "save"} /\ Goto(c, "idle")
       \/ pc[c] = "apply" /\ Goto(c, "unlock")
    /\ UNCHANGED <<arg, cancelled, holder, connTx, tx, written, records, seen,
                   migration>>

\* sql.DB.BeginTx: take the connection, then memoryConnection.BeginTx.
BeginTx(c) ==
    /\ \/ pc[c] = "begin" /\ Goto(c, "work")
       \/ pc[c] = "apply" /\ Goto(c, "schema")
    /\ c \notin cancelled
    /\ holder = None
    /\ connTx = None
    /\ holder' = c
    /\ connTx' = c
    /\ tx' = [tx EXCEPT ![c] = "open"]
    /\ UNCHANGED <<arg, cancelled, written, records, seen, migration>>

\* OrderRepository.Save through the transaction.
TxInsert(c) ==
    /\ pc[c] = "work"
    /\ tx[c] = "open"
    /\ c \notin cancelled
    /\ \E i \in IDs : DriverInsert(c, i)
    /\ UNCHANGED <<pc, arg, cancelled, holder, connTx, tx, seen, migration>>

\* OrderRepository.Find through the transaction.
TxFind(c) ==
    /\ pc[c] = "work"
    /\ tx[c] = "open"
    /\ c \notin cancelled
    /\ \E i \in IDs : seen' = [seen EXCEPT ![c] = Found(i)]
    /\ UNCHANGED <<pc, arg, cancelled, holder, connTx, tx, written, records,
                   migration>>

\* sql.Tx.Commit.  On a done context it returns at once and leaves the
\* rollback to AwaitDone.
Commit(c) ==
    /\ pc[c] \in {"work", "commitSchema"}
    /\ \/ /\ tx[c] = "open"
          /\ c \notin cancelled
          /\ DriverCommit(c)
          /\ holder' = None
          /\ tx' = [tx EXCEPT ![c] = "none"]
          /\ Goto(c, IF pc[c] = "work" THEN "idle" ELSE "record")
       \/ /\ tx[c] # "open" \/ c \in cancelled
          /\ Goto(c, IF pc[c] = "work" THEN "ending" ELSE "unlock")
          /\ UNCHANGED <<records, connTx, written, holder, tx>>
    /\ UNCHANGED <<arg, cancelled, seen, migration>>

\* sql.Tx.Rollback after the work, or the migration's statement, failed.  It
\* finds the transaction done when AwaitDone was faster.
Rollback(c) ==
    /\ pc[c] \in {"work", "schema"}
    /\ pc[c] = "schema" => c \in cancelled
    /\ \/ tx[c] = "open" /\ DriverRollback(c) /\ holder' = None
       \/ /\ tx[c] = "done"
          /\ UNCHANGED <<connTx, written, records, holder>>
    /\ tx' = [tx EXCEPT ![c] = "none"]
    /\ Goto(c, IF pc[c] = "work" THEN "idle" ELSE "unlock")
    /\ UNCHANGED <<arg, cancelled, seen, migration>>

\* database/sql rolls an open transaction back when its context is done and
\* discards the connection; the pool opens a new one.
AwaitDone(c) ==
    /\ c \in cancelled
    /\ tx[c] = "open"
    /\ DriverRollback(c)
    /\ holder' = None
    /\ tx' = [tx EXCEPT ![c] = "done"]
    /\ UNCHANGED <<pc, arg, cancelled, seen, migration>>

\* The caller of a commit that failed has returned; its transaction is gone
\* once AwaitDone has run.
Ended(c) ==
    /\ pc[c] = "ending"
    /\ tx[c] # "open"
    /\ tx' = [tx EXCEPT ![c] = "none"]
    /\ Goto(c, "idle")
    /\ UNCHANGED <<arg, cancelled, holder, connTx, written, records, seen,
                   migration>>

\* Find through the pool: the rows keep the connection until they are closed.
Query(c) ==
    /\ pc[c] = "find"
    /\ c \notin cancelled
    /\ holder = None
    /\ holder' = c
    /\ seen' = [seen EXCEPT ![c] = Found(arg[c])]
    /\ Goto(c, "rows")
    /\ UNCHANGED <<arg, cancelled, connTx, tx, written, records, migration>>

\* Mutant of CloseRows: the rows of a cancelled query are never closed.
CloseRowsUnlessCancelled(c) ==
    /\ pc[c] = "rows"
    /\ holder' = IF c \in cancelled THEN holder ELSE None
    /\ Goto(c, "idle")
    /\ UNCHANGED <<arg, cancelled, connTx, tx, written, records, seen,
                   migration>>

\* Query.finish closes the rows and the connection returns to the pool.
CloseRows(c) ==
    /\ pc[c] = "rows"
    /\ holder' = None
    /\ Goto(c, "idle")
    /\ UNCHANGED <<arg, cancelled, connTx, tx, written, records, seen,
                   migration>>

\* Save through the pool: the connection is taken and returned by the call,
\* which a duplicate makes fail.
Save(c) ==
    /\ pc[c] = "save"
    /\ c \notin cancelled
    /\ holder = None
    /\ \/ DriverInsert(c, arg[c])
       \/ Found(arg[c]) # None /\ UNCHANGED <<written, records>>
    /\ Goto(c, "idle")
    /\ UNCHANGED <<arg, cancelled, holder, connTx, tx, seen, migration>>

Cancel(c) ==
    /\ pc[c] # "idle"
    /\ c \notin cancelled
    /\ cancelled' = cancelled \cup {c}
    /\ UNCHANGED <<pc, arg, holder, connTx, tx, written, records, seen,
                   migration>>

-----------------------------------------------------------------------------
\* Migrate: memoryMigrationBackend.RunLocked around Runner.Run.

\* Mutant of Lock: Migrate does not take migrationMu.
LockSkipped(c) ==
    /\ pc[c] = "lock"
    /\ Goto(c, "migrate")
    /\ UNCHANGED <<arg, cancelled, holder, connTx, tx, written, records, seen,
                   migration>>

\* A mutex does not look at the context.
Lock(c) ==
    /\ pc[c] = "lock"
    /\ migrationMu = None
    /\ migrationMu' = c
    /\ Goto(c, "migrate")
    /\ UNCHANGED <<arg, cancelled, holder, connTx, tx, written, records, seen,
                   applied>>

\* Runner.Run reads the registry and reconciles it with the one-entry plan.
Reconcile(c) ==
    /\ pc[c] = "migrate"
    /\ Goto(c, IF applied = 0 /\ c \notin cancelled THEN "apply" ELSE "unlock")
    /\ UNCHANGED <<arg, cancelled, holder, connTx, tx, written, records, seen,
                   migration>>

\* memoryMigrationSession.Apply: the CREATE TABLE inside its transaction.
ExecSchema(c) ==
    /\ pc[c] = "schema"
    /\ tx[c] = "open"
    /\ c \notin cancelled
    /\ Goto(c, "commitSchema")
    /\ UNCHANGED <<arg, cancelled, holder, connTx, tx, written, records, seen,
                   migration>>

\* memoryMigrationSession.Apply: the entry in the registry.
RecordApplied(c) ==
    /\ pc[c] = "record"
    /\ applied' = applied + 1
    /\ Goto(c, "unlock")
    /\ UNCHANGED <<arg, cancelled, holder, connTx, tx, written, records, seen,
                   migrationMu>>

Unlock(c) ==
    /\ pc[c] = "unlock"
    /\ migrationMu' = None
    /\ Goto(c, "ending")
    /\ UNCHANGED <<arg, cancelled, holder, connTx, tx, written, records, seen,
                   applied>>

-----------------------------------------------------------------------------
\* Steps that wait for the pool, and steps that run to completion once begun.
Acquire(c) == BeginTx(c) \/ Query(c) \/ Save(c)

Finish(c) ==
    \/ GiveUp(c) \/ Commit(c) \/ Rollback(c) \/ AwaitDone(c) \/ Ended(c)
    \/ CloseRows(c) \/ Reconcile(c) \/ ExecSchema(c) \/ RecordApplied(c)
    \/ Unlock(c)

Next ==
    \E c \in Clients :
        Start(c) \/ Acquire(c) \/ Lock(c) \/ TxInsert(c) \/ TxFind(c)
        \/ Finish(c) \/ Cancel(c)

Spec == Init /\ [][Next]_vars

\* database/sql hands a returned connection to one of the waiters, chosen at
\* random, and a starved sync.Mutex is handed to its oldest waiter: a waiter
\* is served when its turn keeps coming.  The work in a transaction returns.
FairSpec ==
    /\ Spec
    /\ \A c \in Clients :
          WF_vars(Finish(c)) /\ SF_vars(Acquire(c) \/ Lock(c))

-----------------------------------------------------------------------------
\* Properties

\* Type invariant.
TypeOK ==
    /\ pc \in [Clients -> Labels]
    /\ arg \in [Clients -> IDs]
    /\ cancelled \in SUBSET Clients
    /\ holder \in Clients \cup {None}
    /\ connTx \in Clients \cup {None}
    /\ tx \in [Clients -> {"none", "open", "done"}]
    /\ written \in [Clients -> [IDs -> Clients \cup {None}]]
    /\ records \in [IDs -> Clients \cup {None}]
    /\ seen \in [Clients -> Clients \cup {None}]
    /\ migrationMu \in Clients \cup {None}
    /\ applied \in Nat

\* A connection nobody holds carries no transaction, and one that carries a
\* transaction is held by its owner: the driver's "already active" and
\* "already complete" errors cannot be reached through database/sql, and no
\* caller reads or writes through another's transaction.
ConnectionExclusive ==
    /\ connTx # None => holder = connTx /\ tx[connTx] = "open"
    /\ \A c \in Clients : tx[c] = "open" => connTx = c

\* The memory backend keeps what the order service relies on: atomic, isolated
\* transactions over immutable rows.
Store == INSTANCE OrderStore WITH
            table   <- records,
            active  <- {c \in Clients : tx[c] = "open"},
            pending <- written,
            seen    <- seen
ImplementsOrderStore == Store!Spec

\* Concurrent calls of Migrate, cancelled or not, apply the plan once.
AppliedOnce == applied <= 1

\* Every call on the database returns, also when its context is done while it
\* holds the pool's only connection or the migration lock.
CallsReturn == \A c \in Clients : pc[c] # "idle" ~> pc[c] = "idle"
=============================================================================
