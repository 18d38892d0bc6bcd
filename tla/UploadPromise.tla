--------------------------- MODULE UploadPromise ---------------------------
(***************************************************************************)
(* What the building registration pipeline promises the person who uploads *)
(* a building, whatever happens behind it.  An upload is decided once,     *)
(* `ready` or `failed`; it is only declared ready while its twin exists;   *)
(* and a twin is only ever removed for an upload that failed.              *)
(*                                                                         *)
(* The detailed pipeline (module Provisioning: queue, worker, two topics,  *)
(* telemetry, crashes and redelivery) is shown to implement this module.   *)
(***************************************************************************)
CONSTANT Building

VARIABLES
  outcome,  \* outcome[b]: how the upload of b stands
  live      \* live[b]: the twin document of b exists

vars == <<outcome, live>>

Outcome == {"new", "pending", "ready", "failed"}

TypeOK ==
  /\ outcome \in [Building -> Outcome]
  /\ live \in [Building -> BOOLEAN]

Init ==
  /\ outcome = [b \in Building |-> "new"]
  /\ live = [b \in Building |-> FALSE]

Accept(b) ==
  /\ outcome[b] = "new"
  /\ outcome' = [outcome EXCEPT ![b] = "pending"]
  /\ UNCHANGED live

Store(b) ==
  /\ outcome[b] # "new"
  /\ live' = [live EXCEPT ![b] = TRUE]
  /\ UNCHANGED outcome

Succeed(b) ==
  /\ outcome[b] = "pending"
  /\ live[b]
  /\ outcome' = [outcome EXCEPT ![b] = "ready"]
  /\ UNCHANGED live

Fail(b) ==
  /\ outcome[b] = "pending"
  /\ outcome' = [outcome EXCEPT ![b] = "failed"]
  /\ UNCHANGED live

Remove(b) ==
  /\ outcome[b] = "failed"
  /\ live' = [live EXCEPT ![b] = FALSE]
  /\ UNCHANGED outcome

Next == \E b \in Building : Accept(b) \/ Store(b) \/ Succeed(b) \/ Fail(b) \/ Remove(b)

Spec == Init /\ [][Next]_vars
=============================================================================
