------------------------------ MODULE Tracking ------------------------------
(***************************************************************************)
(* digital-twin's people tracking in one building.  Each fresh Wi-Fi tick  *)
(* moves the tracks of the connected tokens on, over a floor plan that is  *)
(* loaded from the database at most once per GEOMETRY_TTL_MS.              *)
(*                                                                         *)
(* Of a plan only the placed routers matter here, and of a track only its  *)
(* token, its age and the plan that located it.                            *)
(***************************************************************************)
EXTENDS Site

CONSTANTS
  GEOMETRY_TTL, MAX_TICK_AGE,  \* in poll intervals
  Placings,                    \* bound: sets of routers an editor may place
  MaxEdits                     \* bound: changes of the building or its placements

ASSUME TrackingAssumption ==
  /\ GEOMETRY_TTL \in Nat /\ MAX_TICK_AGE \in Nat /\ MaxEdits \in Nat
  /\ Placings \subseteq SUBSET Router

VARIABLES
  plan, edits,   \* the plan in the database, and how often it changed
  snapshot,      \* the plan held, and when it was loaded
  tracks,        \* set of [token, age, plan]; age: ticks since its token was heard
  held,          \* stamp of the tick held
  last, smooth   \* last tick stepped, and how many without a gap it ends, up to FORGET (history)

planVars == <<plan, edits>>
trackingVars == <<planVars, snapshot, tracks, held, last, smooth>>

(* Of a building that the twin does not have, no router is placed. *)
NoBuilding == [known |-> FALSE, placed |-> {}]
Plan == [known : {TRUE}, placed : Placings \cup {Router}] \cup {NoBuilding}
NoSnapshot == [loaded |-> 0, plan |-> NoBuilding, there |-> FALSE]

TrackingInit ==
  /\ plan = [known |-> TRUE, placed |-> Router] /\ edits = 0
  /\ snapshot = NoSnapshot
  /\ tracks = {} /\ held = 0 /\ last = 0 /\ smooth = 0

-----------------------------------------------------------------------------
(* An editor moves routers, or the building is deleted or made. *)
EditPlan(new) ==
  /\ new # plan /\ edits < MaxEdits
  /\ plan' = new /\ edits' = edits + 1
  /\ UNCHANGED <<snapshot, tracks, held, last, smooth>>

FreshSnapshot(time) == snapshot.there /\ time < snapshot.loaded + GEOMETRY_TTL
Reload(time) == snapshot' = [loaded |-> time, plan |-> plan, there |-> TRUE]
ForgetSnapshot == snapshot' = NoSnapshot  \* mutant: a failed reload drops the plan
KeepSnapshot == UNCHANGED snapshot

(* The plan to use, reloaded when it is old; a reload that fails keeps it. *)
Geometry(time, fails) ==
  IF FreshSnapshot(time) THEN ~fails /\ UNCHANGED snapshot
  ELSE IF fails THEN KeepSnapshot ELSE Reload(time)

Moved == snapshot.there /\ snapshot'.there /\ snapshot'.plan.placed # snapshot.plan.placed

(* Tokens that a placed router lists are located anew, the rest grow older. *)
Heard(tick, on) == {row.token : row \in {r \in tick.connected : r.routers \cap on # {}}}
StepTracks(tick, on, before) ==
  LET heard == Heard(tick, on)
      older == {[t EXCEPT !.age = @ + 1] : t \in {u \in before : u.token \notin heard}}
  IN {[token |-> k, age |-> 0, plan |-> on] : k \in heard}
       \cup {t \in older : t.age < FORGET}

(* Refused for its age, or because a younger one is held.                  *)
StaleTick(tick, time) == tick.stamp + 2 * MAX_TICK_AGE < 2 * time \/ held > tick.stamp

Lengthened == IF smooth < FORGET THEN smooth + 1 ELSE FORGET

(* One tick is observed.  Without a building it has no dots and its tracks *)
(* are left as they were.                                                  *)
ObserveTick(tick, time, fails) ==
  /\ ~StaleTick(tick, time)
  /\ Geometry(time, fails)
  /\ held' = tick.stamp
  /\ LET before == IF Moved THEN {} ELSE tracks
         on == snapshot'.plan
     IN tracks' = IF on.known THEN StepTracks(tick, on.placed, before) ELSE before
  /\ LET stepped == snapshot'.plan.known
     IN /\ last' = IF stepped THEN tick.n ELSE last
        /\ smooth' = IF ~stepped THEN 0
                     ELSE IF tick.n = last THEN smooth
                     ELSE IF tick.n = last + 1 /\ ~tick.first THEN Lengthened
                     ELSE 1
  /\ UNCHANGED planVars

(* A dot per track, counted in its room if the tick was answered at all.   *)
CountsRooms(tick) == snapshot'.plan.known /\ tick.answered

TwinRestarts ==
  /\ snapshot' = NoSnapshot
  /\ tracks' = {} /\ held' = 0 /\ last' = 0 /\ smooth' = 0
  /\ UNCHANGED planVars

-----------------------------------------------------------------------------
(* tracking.rs: "tracks built on the old plan would hold people where it   *)
(* put them": every track was located on the plan that is held.            *)
PlanNotMixed == \A t \in tracks : t.plan = snapshot.plan.placed
=============================================================================
