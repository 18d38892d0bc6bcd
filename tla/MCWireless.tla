----------------------------- MODULE MCWireless -----------------------------
(* Instances of Wireless for TLC; the .cfg files give the constants.       *)
EXTENDS Wireless, TLC

RouterSymmetry == Permutations(Router)
=============================================================================
