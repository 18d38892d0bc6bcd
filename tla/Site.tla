-------------------------------- MODULE Site --------------------------------
(* One building with Wi-Fi, as its collector and digital-twin both see it. *)
EXTENDS Naturals, FiniteSets

CONSTANTS
  Phone, Router,
  FORGET      \* FORGET_AFTER_TICKS, which both sides give the same value

ASSUME SiteAssumption == FORGET \in Nat \ {0} /\ IsFiniteSet(Phone)
=============================================================================
