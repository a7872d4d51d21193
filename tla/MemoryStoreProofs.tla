------------------------- MODULE MemoryStoreProofs --------------------------
(***************************************************************************)
(* Proofs about MemoryStore, for every set of clients and order IDs: the   *)
(* memory backend implements OrderStore, its connection is exclusive, and  *)
(* concurrent migrations apply the plan once.                              *)
(***************************************************************************)
EXTENDS MemoryStore, TLAPS

-----------------------------------------------------------------------------
(***************************************************************************)
(* The inductive invariant.                                                *)
(***************************************************************************)

\* A sql.Tx that is open or that AwaitDone ended belongs to a client between
\* BeginTx and the end of its call.
TxLabels == {"work", "ending", "schema", "commitSchema", "unlock"}

TxWhereBegun == \A c \in Clients : tx[c] # "none" => pc[c] \in TxLabels

\* memoryTransaction.records are gone with their transaction.
WrittenInTx == \A c \in Clients : tx[c] # "open" => written[c] = Empty

\* A query keeps the connection until its rows are closed.
RowsHold == \A c \in Clients : pc[c] = "rows" => holder = c

\* migrationMu is held exactly from Lock to Unlock.
Locked == {"migrate", "apply", "schema", "commitSchema", "record", "unlock"}

MutexHeld == \A c \in Clients : pc[c] \in Locked => migrationMu = c

\* The owner of migrationMu that decided to apply the plan is its first.
ApplyOnEmpty ==
    /\ applied \in {0, 1}
    /\ \A c \in Clients :
          pc[c] \in {"apply", "schema", "commitSchema", "record"} =>
              applied = 0

IInv ==
    /\ TypeOK
    /\ ConnectionExclusive
    /\ TxWhereBegun
    /\ WrittenInTx
    /\ RowsHold
    /\ MutexHeld
    /\ ApplyOnEmpty

-----------------------------------------------------------------------------
\* Init establishes the invariant.
LEMMA InitInv == Init => IInv
BY NoneAssumption DEF Init, IInv, TypeOK, ConnectionExclusive, TxWhereBegun,
   WrittenInTx, RowsHold, MutexHeld, ApplyOnEmpty, Empty, Labels, Locked

\* Every step keeps the variables in their types.
LEMMA TypeInv == TypeOK /\ [Next]_vars => TypeOK'
<1> SUFFICES ASSUME TypeOK, [Next]_vars PROVE TypeOK'
  OBVIOUS
<1>0. Empty \in [IDs -> Clients \cup {None}]
  BY DEF Empty
<1>1. CASE UNCHANGED vars
  BY <1>1 DEF TypeOK, vars, migration
<1>2. ASSUME NEW c \in Clients, Start(c) PROVE TypeOK'
  BY <1>2 DEF TypeOK, Start, Goto, Labels, migration
<1>3. ASSUME NEW c \in Clients, BeginTx(c) PROVE TypeOK'
  BY <1>3 DEF TypeOK, BeginTx, Goto, Labels, migration
<1>4. ASSUME NEW c \in Clients, Query(c) PROVE TypeOK'
  BY <1>4 DEF TypeOK, Query, Found, Goto, Labels, migration
<1>5. ASSUME NEW c \in Clients, NEW i \in IDs, DriverInsert(c, i)
      PROVE  /\ written' \in [Clients -> [IDs -> Clients \cup {None}]]
             /\ records' \in [IDs -> Clients \cup {None}]
  <2>1. CASE connTx = None
    BY <1>5, <2>1 DEF TypeOK, DriverInsert
  <2>2. CASE connTx # None
    <3>1. connTx \in Clients /\ written[connTx] \in [IDs -> Clients \cup {None}]
      BY <2>2 DEF TypeOK
    <3>2. written' = [written EXCEPT ![connTx] = [@ EXCEPT ![i] = c]]
      BY <1>5, <2>2 DEF DriverInsert
    <3>3. [written[connTx] EXCEPT ![i] = c] \in [IDs -> Clients \cup {None}]
      BY <3>1
    <3>4. written' \in [Clients -> [IDs -> Clients \cup {None}]]
      BY <3>1, <3>2, <3>3 DEF TypeOK
    <3>5. QED
      BY <1>5, <2>2, <3>4 DEF TypeOK, DriverInsert
  <2>3. QED
    BY <2>1, <2>2
<1>6. ASSUME NEW c \in Clients, Save(c) PROVE TypeOK'
  <2>1. /\ written' \in [Clients -> [IDs -> Clients \cup {None}]]
        /\ records' \in [IDs -> Clients \cup {None}]
    <3>1. arg[c] \in IDs
      BY DEF TypeOK
    <3>2. CASE DriverInsert(c, arg[c])
      BY <1>5, <3>1, <3>2
    <3>3. CASE UNCHANGED <<written, records>>
      BY <3>3 DEF TypeOK
    <3>4. QED
      BY <1>6, <3>2, <3>3 DEF Save
  <2>2. QED
    BY <1>6, <2>1 DEF TypeOK, Save, Goto, Labels, migration
<1>7. ASSUME NEW c \in Clients, Lock(c) PROVE TypeOK'
  BY <1>7 DEF TypeOK, Lock, Goto, Labels
<1>8. ASSUME NEW c \in Clients, TxInsert(c) PROVE TypeOK'
  BY <1>5, <1>8 DEF TypeOK, TxInsert, migration
<1>9. ASSUME NEW c \in Clients, TxFind(c) PROVE TypeOK'
  BY <1>9 DEF TypeOK, TxFind, Found, migration
<1>10. ASSUME NEW c \in Clients, DriverRollback(c)
       PROVE  /\ written' \in [Clients -> [IDs -> Clients \cup {None}]]
              /\ records' \in [IDs -> Clients \cup {None}]
              /\ connTx' = None
  BY <1>0, <1>10 DEF TypeOK, DriverRollback
<1>11. ASSUME NEW c \in Clients, DriverCommit(c)
       PROVE  /\ written' \in [Clients -> [IDs -> Clients \cup {None}]]
              /\ records' \in [IDs -> Clients \cup {None}]
              /\ connTx' = None
  BY <1>0, <1>11 DEF TypeOK, DriverCommit
<1>12. ASSUME NEW c \in Clients, Finish(c) PROVE TypeOK'
  <2>1. CASE GiveUp(c)
    BY <2>1 DEF TypeOK, GiveUp, Goto, Labels, migration
  <2>2. CASE Commit(c)
    BY <1>11, <2>2 DEF TypeOK, Commit, Goto, Labels, migration
  <2>3. CASE Rollback(c)
    BY <1>10, <2>3 DEF TypeOK, Rollback, Goto, Labels, migration
  <2>4. CASE AwaitDone(c)
    BY <1>10, <2>4 DEF TypeOK, AwaitDone, migration
  <2>5. CASE Ended(c)
    BY <2>5 DEF TypeOK, Ended, Goto, Labels, migration
  <2>6. CASE CloseRows(c)
    BY <2>6 DEF TypeOK, CloseRows, Goto, Labels, migration
  <2>7. CASE Reconcile(c)
    BY <2>7 DEF TypeOK, Reconcile, Goto, Labels, migration
  <2>8. CASE ExecSchema(c)
    BY <2>8 DEF TypeOK, ExecSchema, Goto, Labels, migration
  <2>9. CASE RecordApplied(c)
    BY <2>9 DEF TypeOK, RecordApplied, Goto, Labels
  <2>10. CASE Unlock(c)
    BY <2>10 DEF TypeOK, Unlock, Goto, Labels
  <2>11. QED
    BY <1>12, <2>1, <2>2, <2>3, <2>4, <2>5, <2>6, <2>7, <2>8, <2>9, <2>10
       DEF Finish
<1>13. ASSUME NEW c \in Clients, Cancel(c) PROVE TypeOK'
  BY <1>13 DEF TypeOK, Cancel, migration
<1>14. QED
  BY <1>1, <1>2, <1>3, <1>4, <1>6, <1>7, <1>8, <1>9, <1>12, <1>13
     DEF Next, Acquire

\* Every step keeps the connection exclusive and the bookkeeping of
\* transactions and of the migration lock consistent.
LEMMA StepInv == IInv /\ [Next]_vars => IInv'
<1> DEFINE Rest == /\ ConnectionExclusive
                   /\ TxWhereBegun
                   /\ WrittenInTx
                   /\ RowsHold
                   /\ MutexHeld
                   /\ ApplyOnEmpty
<1> SUFFICES ASSUME IInv, [Next]_vars PROVE IInv'
  OBVIOUS
<1>0. TypeOK'
  BY TypeInv DEF IInv
<1> USE NoneAssumption DEF IInv, TypeOK, ConnectionExclusive, TxWhereBegun,
        WrittenInTx, RowsHold, MutexHeld, ApplyOnEmpty, TxLabels, Locked,
        migration
<1>1. CASE UNCHANGED vars
  BY <1>1 DEF vars, Empty
<1>2. ASSUME NEW c \in Clients, Start(c) PROVE Rest'
  BY <1>0, <1>2 DEF Start, Goto
<1>3. ASSUME NEW c \in Clients, BeginTx(c) PROVE Rest'
  BY <1>0, <1>3 DEF BeginTx, Goto
<1>4. ASSUME NEW c \in Clients, Query(c) PROVE Rest'
  BY <1>0, <1>4 DEF Query, Goto
<1>5. ASSUME NEW c \in Clients, Save(c) PROVE Rest'
  BY <1>0, <1>5 DEF Save, DriverInsert, Goto
<1>6. ASSUME NEW c \in Clients, Lock(c) PROVE Rest'
  BY <1>0, <1>6 DEF Lock, Goto
<1>7. ASSUME NEW c \in Clients, TxInsert(c) PROVE Rest'
  BY <1>0, <1>7 DEF TxInsert, DriverInsert
<1>8. ASSUME NEW c \in Clients, TxFind(c) PROVE Rest'
  BY <1>0, <1>8 DEF TxFind
<1>9. ASSUME NEW c \in Clients, GiveUp(c) PROVE Rest'
  BY <1>0, <1>9 DEF GiveUp, Goto
<1>10. ASSUME NEW c \in Clients, Commit(c) PROVE Rest'
  <2>1. CASE tx[c] = "open" /\ c \notin cancelled /\ DriverCommit(c)
             /\ holder' = None /\ tx' = [tx EXCEPT ![c] = "none"]
    <3>1. /\ connTx = c /\ connTx' = None
          /\ written' = [written EXCEPT ![c] = Empty]
      BY <2>1 DEF DriverCommit
    <3>2. QED
      BY <1>0, <1>10, <2>1, <3>1 DEF Commit, Goto
  <2>2. CASE UNCHANGED <<records, connTx, written, holder, tx>>
    BY <1>0, <1>10, <2>2 DEF Commit, Goto, Empty
  <2>3. QED
    BY <1>10, <2>1, <2>2 DEF Commit
<1>11. ASSUME NEW c \in Clients, Rollback(c) PROVE Rest'
  BY <1>0, <1>11 DEF Rollback, DriverRollback, Goto
<1>12. ASSUME NEW c \in Clients, AwaitDone(c) PROVE Rest'
  BY <1>0, <1>12 DEF AwaitDone, DriverRollback
<1>13. ASSUME NEW c \in Clients, Ended(c) PROVE Rest'
  BY <1>0, <1>13 DEF Ended, Goto
<1>14. ASSUME NEW c \in Clients, CloseRows(c) PROVE Rest'
  BY <1>0, <1>14 DEF CloseRows, Goto
<1>15. ASSUME NEW c \in Clients, Reconcile(c) PROVE Rest'
  BY <1>0, <1>15 DEF Reconcile, Goto
<1>16. ASSUME NEW c \in Clients, ExecSchema(c) PROVE Rest'
  BY <1>0, <1>16 DEF ExecSchema, Goto
<1>17. ASSUME NEW c \in Clients, RecordApplied(c) PROVE Rest'
  BY <1>0, <1>17 DEF RecordApplied, Goto
<1>18. ASSUME NEW c \in Clients, Unlock(c) PROVE Rest'
  BY <1>0, <1>18 DEF Unlock, Goto
<1>19. ASSUME NEW c \in Clients, Cancel(c) PROVE Rest'
  BY <1>0, <1>19 DEF Cancel
<1>20. QED
  BY <1>0, <1>1, <1>2, <1>3, <1>4, <1>5, <1>6, <1>7, <1>8, <1>9, <1>10,
     <1>11, <1>12, <1>13, <1>14, <1>15, <1>16, <1>17, <1>18, <1>19
     DEF Next, Acquire, Finish

\* The inductive invariant holds in every reachable state.
THEOREM Invariance == Spec => []IInv
BY InitInv, StepInv, PTL DEF Spec

-----------------------------------------------------------------------------
\* The properties.

\* Type correctness of the memory backend's state.
THEOREM TypeCorrect == Spec => []TypeOK
<1>1. IInv => TypeOK
  BY DEF IInv
<1>2. QED
  BY <1>1, Invariance, PTL

\* Whoever uses memoryConnection owns it, and the tx field it consults is the
\* user's own: whatever the order of commits, rollbacks, cancellations, rows
\* and migrations, for any number of goroutines.
THEOREM ConnectionIsExclusive == Spec => []ConnectionExclusive
<1>1. IInv => ConnectionExclusive
  BY DEF IInv
<1>2. QED
  BY <1>1, Invariance, PTL

\* Any number of concurrent and cancelled calls of Migrate append at most one
\* entry to the registry of memoryMigrationSession.
THEOREM MigrationAppliedOnce == Spec => []AppliedOnce
<1>1. IInv => AppliedOnce
  BY DEF IInv, ApplyOnEmpty, AppliedOnce
<1>2. QED
  BY <1>1, Invariance, PTL

-----------------------------------------------------------------------------
\* Refinement of OrderStore.

\* A driver rollback aborts the abstract transaction.
LEMMA RollbackAborts ==
    ASSUME IInv, NEW c \in Clients, DriverRollback(c), tx[c] = "open",
           NEW to \in {"none", "done"}, tx' = [tx EXCEPT ![c] = to],
           UNCHANGED seen
    PROVE  Store!Abort(c)
BY DEF IInv, TypeOK, DriverRollback, Store!Abort, Store!Empty, Empty

\* Every step of the memory backend is a step of the abstract store or leaves
\* the abstract store unchanged.
LEMMA StepRefines == IInv /\ [Next]_vars => [Store!Next]_(Store!vars)
<1> SUFFICES ASSUME IInv, [Next]_vars PROVE Store!Next \/ UNCHANGED Store!vars
  OBVIOUS
<1> USE DEF Store!vars
<1>1. CASE UNCHANGED vars
  BY <1>1 DEF vars
<1>2. ASSUME NEW c \in Clients, Start(c) PROVE UNCHANGED Store!vars
  BY <1>2 DEF Start
<1>3. ASSUME NEW c \in Clients, BeginTx(c) PROVE Store!Begin(c)
  <2>1. tx[c] # "open"
    BY <1>3 DEF BeginTx, IInv, TxWhereBegun, TxLabels
  <2>2. QED
    BY <1>3, <2>1 DEF BeginTx, Store!Begin, IInv, TypeOK
<1>4. ASSUME NEW c \in Clients, Query(c) PROVE Store!Read(c, arg[c])
  <2>1. tx[c] # "open" /\ connTx = None
    BY <1>4, NoneAssumption
       DEF Query, IInv, TypeOK, ConnectionExclusive, TxWhereBegun, TxLabels
  <2>2. arg[c] \in IDs /\ written[c][arg[c]] = None
    BY <2>1 DEF IInv, TypeOK, WrittenInTx, Empty
  <2>3. QED
    BY <1>4, <2>1, <2>2 DEF Query, Found, Store!Read
<1>5. ASSUME NEW c \in Clients, Save(c)
      PROVE  Store!InsertNow(c, arg[c]) \/ UNCHANGED Store!vars
  <2>1. tx[c] # "open" /\ connTx = None
    BY <1>5, NoneAssumption
       DEF Save, IInv, TypeOK, ConnectionExclusive, TxWhereBegun, TxLabels
  <2>2. QED
    BY <1>5, <2>1 DEF Save, DriverInsert, Store!InsertNow
<1>6. ASSUME NEW c \in Clients, Lock(c) PROVE UNCHANGED Store!vars
  BY <1>6 DEF Lock
<1>7. ASSUME NEW c \in Clients, TxInsert(c)
      PROVE  \E i \in IDs : Store!Insert(c, i)
  <2>1. tx[c] = "open" /\ connTx = c /\ connTx # None
    BY <1>7, NoneAssumption DEF TxInsert, IInv, ConnectionExclusive
  <2>2. PICK i \in IDs : DriverInsert(c, i)
    BY <1>7 DEF TxInsert
  <2>3. Store!Insert(c, i)
    BY <1>7, <2>1, <2>2 DEF TxInsert, DriverInsert, Store!Insert
  <2>4. QED
    BY <2>3
<1>8. ASSUME NEW c \in Clients, TxFind(c) PROVE \E i \in IDs : Store!Read(c, i)
  <2>1. tx[c] = "open" /\ connTx = c /\ connTx # None
    BY <1>8, NoneAssumption DEF TxFind, IInv, ConnectionExclusive
  <2>2. QED
    BY <1>8, <2>1 DEF TxFind, Found, Store!Read
<1>9. ASSUME NEW c \in Clients, Commit(c)
      PROVE  Store!Commit(c) \/ Store!Abort(c) \/ UNCHANGED Store!vars
  <2>1. CASE tx[c] = "open" /\ DriverCommit(c) /\ tx' = [tx EXCEPT ![c] = "none"]
    <3>1. CASE \E i \in IDs : written[c][i] # None /\ records[i] # None
      BY <1>9, <2>1, <3>1
         DEF Commit, DriverCommit, Store!Abort, Store!Empty, Empty, IInv, TypeOK
    <3>2. CASE \A i \in IDs : written[c][i] # None => records[i] = None
      BY <1>9, <2>1, <3>2
         DEF Commit, DriverCommit, Store!Commit, Store!Empty, Empty, IInv, TypeOK
    <3>3. QED
      BY <3>1, <3>2
  <2>2. CASE UNCHANGED <<records, connTx, written, holder, tx>>
    BY <1>9, <2>2 DEF Commit
  <2>3. QED
    BY <1>9, <2>1, <2>2 DEF Commit
<1>10. ASSUME NEW c \in Clients, Rollback(c)
       PROVE  Store!Abort(c) \/ UNCHANGED Store!vars
  <2>1. CASE tx[c] = "open" /\ DriverRollback(c)
    BY <1>10, <2>1, RollbackAborts DEF Rollback
  <2>2. CASE tx[c] = "done" /\ UNCHANGED <<connTx, written, records, holder>>
    <3>1. {d \in Clients : tx'[d] = "open"} = {d \in Clients : tx[d] = "open"}
      BY <1>10, <2>2 DEF Rollback, IInv, TypeOK
    <3>2. QED
      BY <1>10, <2>2, <3>1 DEF Rollback
  <2>3. QED
    BY <1>10, <2>1, <2>2 DEF Rollback
<1>11. ASSUME NEW c \in Clients, AwaitDone(c) PROVE Store!Abort(c)
  BY <1>11, RollbackAborts DEF AwaitDone
<1>12. ASSUME NEW c \in Clients, Ended(c) PROVE UNCHANGED Store!vars
  <2>1. {d \in Clients : tx'[d] = "open"} = {d \in Clients : tx[d] = "open"}
    BY <1>12 DEF Ended, IInv, TypeOK
  <2>2. QED
    BY <1>12, <2>1 DEF Ended
<1>13. ASSUME NEW c \in Clients,
              GiveUp(c) \/ CloseRows(c) \/ Reconcile(c) \/ ExecSchema(c)
              \/ RecordApplied(c) \/ Unlock(c) \/ Cancel(c)
       PROVE  UNCHANGED Store!vars
  BY <1>13 DEF GiveUp, CloseRows, Reconcile, ExecSchema, RecordApplied,
     Unlock, Cancel
<1>14. ASSUME NEW c \in Clients,
              Start(c) \/ Acquire(c) \/ Lock(c) \/ TxInsert(c) \/ TxFind(c)
              \/ Finish(c) \/ Cancel(c)
       PROVE  Store!Next \/ UNCHANGED Store!vars
  <2>1. arg[c] \in IDs
    BY DEF IInv, TypeOK
  <2>2. QED
    BY <1>2, <1>3, <1>4, <1>5, <1>6, <1>7, <1>8, <1>9, <1>10, <1>11, <1>12,
       <1>13, <1>14, <2>1 DEF Acquire, Finish, Store!Next
<1>15. QED
  BY <1>1, <1>14 DEF Next

\* The memory backend implements the store the order service relies on:
\* transactions are atomic and isolated and rows are never replaced, for any
\* number of goroutines sharing the single connection.
THEOREM MemoryStoreImplementsOrderStore == Spec => ImplementsOrderStore
<1>1. Init => Store!Init
  BY DEF Init, Store!Init, Store!Empty, Empty
<1>2. QED
  BY <1>1, StepRefines, Invariance, PTL
     DEF Spec, ImplementsOrderStore, Store!Spec
=============================================================================
