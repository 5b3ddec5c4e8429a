------------------------------ MODULE MCOutbox ------------------------------
(***************************************************************************)
(* Three events and one dispatcher whose batch takes two rows, so that a   *)
(* row that fails for ever stands before two others, and two such rows     *)
(* starve the third.  The safety of any number of dispatchers and any size *)
(* of batch is proved in DeliveryProofs.                                   *)
(***************************************************************************)
EXTENDS Outbox

CONSTANT d1

ThreeEvents == 1 .. 3
OneDispatcher == {d1}
OldestFail == {{1}, {1, 2}}
=============================================================================
