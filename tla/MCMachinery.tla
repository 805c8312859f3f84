------------------------------ MODULE MCMachinery ------------------------------
(***************************************************************************)
(* The two shapes of behaviour in which the safety of CloudVerification    *)
(* is checked: two admissions of a message and no fault, or one admission  *)
(* and a fault anywhere.                                                   *)
(***************************************************************************)
EXTENDS MCCloudVerification

VARIABLE shape

MachineryInit == Init /\ shape \in {"admissions", "faults"}

MachineryNext ==
    /\ Next
    /\ shape = "admissions" => faults' = 0
    /\ shape = "faults" => admitted'.month <= 1 /\ admitted'.day >= admitted.day
    /\ UNCHANGED shape

MachinerySpec == MachineryInit /\ [][MachineryNext]_<<vars, shape>>

================================================================================
