--------------------------- MODULE MCThresholdSync ---------------------------
(* Small instances of ThresholdSync. *)
EXTENDS ThresholdSync
==============================================================================
