----------------------------- MODULE OrderStore -----------------------------
(***************************************************************************)
(* What the order service relies on when it calls storage: a table of      *)
(* immutable rows keyed by order ID.  A transaction's inserts are visible  *)
(* to itself alone until Commit publishes all of them or none; an insert   *)
(* never replaces a row; a read outside a transaction returns a committed  *)
(* row.  There are no connections, locks or contexts here.                 *)
(***************************************************************************)
CONSTANTS Clients, IDs, None

VARIABLES
    table,    \* committed rows: the client that wrote the row, or None
    active,   \* clients with an open transaction
    pending,  \* rows inserted by each client's open transaction
    seen      \* what each client's last read returned

vars == <<table, active, pending, seen>>

Empty == [i \in IDs |-> None]

Init ==
    /\ table = Empty
    /\ active = {}
    /\ pending = [c \in Clients |-> Empty]
    /\ seen = [c \in Clients |-> None]

Begin(c) ==
    /\ c \notin active
    /\ active' = active \cup {c}
    /\ UNCHANGED <<table, pending, seen>>

Insert(c, i) ==
    /\ c \in active
    /\ table[i] = None
    /\ pending[c][i] = None
    /\ pending' = [pending EXCEPT ![c][i] = c]
    /\ UNCHANGED <<table, active, seen>>

\* A single insert outside a transaction.
InsertNow(c, i) ==
    /\ c \notin active
    /\ table[i] = None
    /\ table' = [table EXCEPT ![i] = c]
    /\ UNCHANGED <<active, pending, seen>>

Read(c, i) ==
    /\ seen' = [seen EXCEPT ![c] =
          IF pending[c][i] # None THEN pending[c][i] ELSE table[i]]
    /\ UNCHANGED <<table, active, pending>>

Commit(c) ==
    /\ c \in active
    /\ \A i \in IDs : pending[c][i] # None => table[i] = None
    /\ table' = [i \in IDs |->
          IF pending[c][i] # None THEN pending[c][i] ELSE table[i]]
    /\ active' = active \ {c}
    /\ pending' = [pending EXCEPT ![c] = Empty]
    /\ UNCHANGED seen

Abort(c) ==
    /\ c \in active
    /\ active' = active \ {c}
    /\ pending' = [pending EXCEPT ![c] = Empty]
    /\ UNCHANGED <<table, seen>>

Next ==
    \E c \in Clients :
        \/ Begin(c)
        \/ \E i \in IDs : Insert(c, i) \/ InsertNow(c, i) \/ Read(c, i)
        \/ Commit(c)
        \/ Abort(c)

Spec == Init /\ [][Next]_vars
=============================================================================
