-------------------------- MODULE MCOrderPlacement --------------------------
(***************************************************************************)
(* TLC instances of OrderPlacement.                                        *)
(***************************************************************************)
EXTENDS OrderPlacement

\* An invalid quantity, one that is sold, one the payment policy declines and
\* one whose price wraps to a small positive total (13 * 5 = 65 is 1 mod 64).
MCQuantities == {0, 1, 3, 13}

\* For the larger instances: sold, declined.
MCFewQuantities == {1, 3}
=============================================================================
