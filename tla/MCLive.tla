------------------------------- MODULE MCLive -------------------------------
(* Instances of Live for TLC; the .cfg files give the constants.           *)
EXTENDS Live
=============================================================================
