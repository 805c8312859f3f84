-------------------------- MODULE MCCloudVerification --------------------------
(***************************************************************************)
(* Bounds and symmetry for checking CloudVerification.                     *)
(***************************************************************************)
EXTENDS CloudVerification, TLC

\* Workers are interchangeable, and so are slots; for safety only.
Symmetry == Permutations(Workers) \cup Permutations(Slots)

\* A message stored with device telemetry only.
FallbackRow == [life |-> "stored", trusted |-> FALSE, bucket |-> "other",
                blocked |-> FALSE, pending |-> 0, silenced |-> 0, reported |-> 0]
FallbackRows == {FallbackRow}

===============================================================================
