-------------------------- MODULE MCFirmwareUpdate --------------------------
(* A source and two units; the second has a console besides its fleet task. *)
EXTENDS FirmwareUpdate

ThreeUnits == {1, 2, 3}
NewOnFirst == [u \in Unit |-> IF u = 1 THEN 2 ELSE 1]
TaskHome == [k \in Task |-> IF k = 3 THEN 3 ELSE 2]
=============================================================================
