------------------------------ MODULE MCSmsIngest ------------------------------
(***************************************************************************)
(* Bounds and symmetry for checking SmsIngest.  A behaviour has one of two *)
(* shapes: ingests at the same time and no worker; or one ingest at a time *)
(* of a new message, and a worker.                                         *)
(***************************************************************************)
EXTENDS SmsIngest, TLC

VARIABLE shape

\* Requests are interchangeable; so are slots.
Symmetry == Permutations(Requests) \cup Permutations(Slots)

NewRow == [life |-> "new", trusted |-> FALSE, bucket |-> "none",
           blocked |-> FALSE, pending |-> 0, silenced |-> 0, reported |-> 0]

\* A message the server has not seen, and one stored without classification.
IngestRows == {NewRow, [NewRow EXCEPT !.life = "stored"]}

FreshRows == {NewRow}

Busy(r) == ingest'[r] # RestingIngest \/ pub'[r] # Idle

ShapedInit ==
    /\ IngestInit
    /\ shape \in {"simultaneous", "worker"}
    /\ shape = "worker" => \A m \in Messages : sms[m] \in FreshRows

ShapedNext ==
    /\ IngestNext
    /\ shape = "simultaneous" => UNCHANGED worker
    /\ shape = "worker" => UNCHANGED fraud /\ \A r, q \in Requests : Busy(r) /\ Busy(q) => r = q
    /\ UNCHANGED shape

ShapedSpec == ShapedInit /\ [][ShapedNext]_<<allVars, shape>>

===============================================================================
