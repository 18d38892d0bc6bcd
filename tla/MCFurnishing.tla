---------------------------- MODULE MCFurnishing -----------------------------
(***************************************************************************)
(* An instance of Sensors and of Placing for TLC: a building's sensors as  *)
(* telemetry takes them, and as the editor saves them.  Either model has   *)
(* what it needs of the other one in itself, so in each behaviour one of   *)
(* them moves and the other one stays as it began.  Answers of telemetry   *)
(* are lost to a draft of new sensors only.                                *)
(***************************************************************************)
EXTENDS TLC

CONSTANTS
  Space, Outdoors, Id, Asked, MAX_REGISTRATIONS,
  Ref, Old, New, Pos, MAX_LOST, MAX_OTHERS

VARIABLES
  rooms, registering, names, sensors, batch, since, deleted, registrations,
  listed, refOf, accepted, placements, draft, unsent, step, call, late, seen, answered,
  disturbed, dropped, added, lost, others,
  moves        \* which of the two does

Bench == INSTANCE Sensors WITH Room <- Space, Batch <- Asked, cache <- names, inForce <- since
Editor == INSTANCE Placing WITH sensors <- listed, known <- seen

ASSUME FurnishingHolds == Bench!SensorsAssumption /\ Editor!PlacingAssumption

benchVars == <<rooms, registering, names, sensors, batch, since, deleted, registrations>>
editorVars == <<listed, refOf, accepted, placements, draft, unsent, step, call, late, seen, answered,
                disturbed, dropped, added, lost, others>>

Interchangeable == Permutations(Asked) \cup Permutations(New)

FurnishingInit ==
  /\ Bench!Init /\ Editor!Init
  /\ moves \in {"sensors", "editor", "editor with lost answers"}
  /\ moves # "sensors" => rooms = Space /\ \A x \in Id : sensors[x] = "absent"
  /\ moves # "editor" => \A x \in Old : placements[x] = "none"

FurnishingNext ==
  \/ moves = "sensors" /\ Bench!Next /\ UNCHANGED <<editorVars, moves>>
  \/ /\ moves = "editor" /\ Editor!Next /\ UNCHANGED <<benchVars, moves>>
     /\ lost' = 0
  \/ /\ moves = "editor with lost answers" /\ Editor!Next /\ UNCHANGED <<benchVars, moves>>
     /\ others' = 0
     /\ \A x \in Old : draft'.edited[x] = "none" /\ x \notin draft'.removed

FurnishingSpec == FurnishingInit /\ [][FurnishingNext]_<<benchVars, editorVars, moves>>

(* building_cache.rs: "Upserts go through the same instance and drop the   *)
(* entry at once": a batch is judged by rooms that were in force while it  *)
(* was under way, unless the entry that it met was late.                   *)
JudgedByItsRooms == Bench!JudgedByItsRooms

(* useSensorDraft.ts: what telemetry accepted is at digital-twin, or still *)
(* kept to be sent, unless the user discarded it or something interfered.  *)
NothingForgotten == Editor!NothingForgotten

(* domain/placement.rs refuses a batch that names a sensor twice: what is  *)
(* kept to be sent again is always one that can be accepted.               *)
UnsentIsAcceptable == Editor!UnsentIsAcceptable

(* "A retry never creates a sensor twice", if every answer arrives.        *)
CreatedOnceIfAnswered == Editor!CreatedOnceIfAnswered
=============================================================================
