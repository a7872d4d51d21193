------------------------------ MODULE Shutdown ------------------------------
(***************************************************************************)
(* What lifecycle.Coordinator promises the callers of Run and Stop: the    *)
(* application ends at most once, with one outcome, and a caller is told   *)
(* of success only after that end and only if it was the outcome.  A call  *)
(* may fail at any time: its context is done, the application could not be *)
(* built, or it is not in a state to stop.                                 *)
(***************************************************************************)
CONSTANT Callers

VARIABLES
    phase,      \* up, stopping or down
    outcome,    \* of the only stop: none, nil or error
    reply       \* what each caller was told: none, nil or error

abstractVars == <<phase, outcome, reply>>

Init ==
    /\ phase = "up"
    /\ outcome = "none"
    /\ reply = [c \in Callers |-> "none"]

Begin ==
    /\ phase = "up"
    /\ phase' = "stopping"
    /\ UNCHANGED <<outcome, reply>>

\* The caller that stopped the application is told at once.
End(c) ==
    /\ phase = "stopping"
    /\ reply[c] = "none"
    /\ phase' = "down"
    /\ outcome' \in {"nil", "error"}
    /\ reply' = [reply EXCEPT ![c] = outcome']

Learn(c) ==
    /\ phase = "down"
    /\ reply[c] = "none"
    /\ reply' = [reply EXCEPT ![c] = outcome]
    /\ UNCHANGED <<phase, outcome>>

Refuse(c) ==
    /\ reply[c] = "none"
    /\ reply' = [reply EXCEPT ![c] = "error"]
    /\ UNCHANGED <<phase, outcome>>

Next ==
    \/ Begin
    \/ \E c \in Callers : End(c) \/ Learn(c) \/ Refuse(c)

Spec == Init /\ [][Next]_abstractVars
=============================================================================
