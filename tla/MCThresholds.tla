---------------------------- MODULE MCThresholds ----------------------------
(* Instances of Thresholds for TLC; the .cfg files give the constants.     *)
EXTENDS Thresholds
=============================================================================
