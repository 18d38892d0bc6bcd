------------------------------ MODULE MCSockets -----------------------------
(* An instance of Sockets for TLC; the .cfg file gives the constants.      *)
EXTENDS Sockets
=============================================================================
