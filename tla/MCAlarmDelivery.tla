--------------------------- MODULE MCAlarmDelivery ---------------------------
(***************************************************************************)
(* Model-checking instance of AlarmDelivery.                               *)
(***************************************************************************)
EXTENDS AlarmDelivery
=============================================================================
