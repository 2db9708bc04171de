------------------------- MODULE MCTriggerDelivery -------------------------
(***************************************************************************)
(* Model-checking instance of TriggerDelivery.                             *)
(***************************************************************************)
EXTENDS TriggerDelivery
=============================================================================
