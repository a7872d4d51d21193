---------------------------- MODULE MCQualityGate ---------------------------
(***************************************************************************)
(* TLC instance of QualityGate: five files in batches of two, at most one  *)
(* defect and two complaints of the formatters.                            *)
(***************************************************************************)
EXTENDS QualityGate

AtMostOne(S) == {{}} \cup {{x} : x \in S}

MCDefectSets == AtMostOne(Checks)
MCUnformattedSets == {{}} \cup {{x, y} : x, y \in Formatters \X (1..5)}
=============================================================================
