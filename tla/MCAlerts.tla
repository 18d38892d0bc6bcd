------------------------------ MODULE MCAlerts ------------------------------
(* Instances of Alerts for TLC; the .cfg files give the constants.         *)
EXTENDS Alerts
=============================================================================
