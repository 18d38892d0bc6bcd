------------------------------ MODULE Sensors ------------------------------
(***************************************************************************)
(* telemetry: the sensors of one building.  A batch of changes is judged   *)
(* by the building's rooms, which are read through a cache, and by the     *)
(* sensors it has, and applied in a transaction later; meanwhile digital-  *)
(* twin may register the building again with other rooms.                  *)
(*                                                                         *)
(* A batch names its sensors one by one, so that one of each kind of       *)
(* change stands for many.  A transaction locks what it writes until it    *)
(* commits and reads nothing else: it is one step.  Names, kinds and       *)
(* endpoints are checked by the batch's text alone and left out.           *)
(***************************************************************************)
EXTENDS Naturals, FiniteSets

CONSTANTS
  Room, Outdoors,
  Id,                   \* ids that the server may generate
  Batch,
  MAX_REGISTRATIONS

SensorsAssumption == Outdoors \notin Room /\ MAX_REGISTRATIONS \in Nat

Place == Room \cup {Outdoors}
Absent == "absent"
None == "none"

VARIABLES
  rooms,                \* the building's rooms
  registering,          \* the upsert has committed, the cache entry not been dropped
  cache,                \* CachedBuildings: an entry, or {}; `late`: read before an upsert that
                        \* it outlived
  sensors,              \* the sensors' rooms
  batch,                \* per batch: what is asked, and what telemetry is doing
  inForce,              \* per batch: the rooms that were in force since it began (history)
  deleted,              \* sensors that were deleted, whose ids are not given again
  registrations

vars == <<rooms, registering, cache, sensors, batch, inForce, deleted, registrations>>

Change == [create : Place \cup {None}, move : Id \cup {None}, to : Place, delete : Id \cup {None}]
NoChange == [create |-> None, move |-> None, to |-> Outdoors, delete |-> None]
NotAsked == [step |-> "none", change |-> NoChange, rooms |-> {}, late |-> FALSE, known |-> {}]

Init ==
  /\ rooms \in (SUBSET Room) \ {{}}
  /\ registering = FALSE /\ cache = {}
  /\ sensors \in [Id -> {Absent, Outdoors}]
  /\ batch = [q \in Batch |-> NotAsked]
  /\ inForce = [q \in Batch |-> {}]
  /\ deleted = {}
  /\ registrations = 0

Stored == {x \in Id : sensors[x] # Absent}
UnderWay == {q \in Batch : batch[q].step \in {"naming", "fetched", "named", "judged"}}

-----------------------------------------------------------------------------
(* The building is registered again, with other rooms; a sensor in a room  *)
(* that is no more stays there.                                            *)
Register(new) ==
  /\ registrations < MAX_REGISTRATIONS /\ registrations' = registrations + 1
  /\ ~registering /\ registering' = TRUE
  /\ rooms' = new
  /\ inForce' = [q \in Batch |-> IF q \in UnderWay THEN inForce[q] \cup {new} ELSE inForce[q]]
  /\ UNCHANGED <<cache, sensors, batch, deleted>>

Kept(entries) == entries  \* mutant: the entry is left
Dropped(entries) == {}

DropEntry ==
  /\ registering /\ registering' = FALSE
  /\ cache' = Dropped(cache)
  /\ UNCHANGED <<rooms, sensors, batch, inForce, deleted, registrations>>

EntryExpires ==
  /\ cache # {} /\ cache' = {}
  /\ UNCHANGED <<rooms, registering, sensors, batch, inForce, deleted, registrations>>

-----------------------------------------------------------------------------
(* A batch is in order in itself: one of each sensor, and not nothing.     *)
Ask(q, change) ==
  /\ batch[q].step = "none"
  /\ change.move # None => change.delete # change.move
  /\ change.move = None => change.to = Outdoors
  /\ change # NoChange
  /\ batch' = [batch EXCEPT ![q] = [NotAsked EXCEPT !.step = "naming", !.change = change]]
  /\ inForce' = [inForce EXCEPT ![q] = {rooms}]
  /\ UNCHANGED <<rooms, registering, cache, sensors, deleted, registrations>>

NamesFromCache(q) ==
  /\ batch[q].step = "naming"
  /\ \E entry \in cache :
       batch' = [batch EXCEPT ![q].step = "named", ![q].rooms = entry.rooms,
                              ![q].late = entry.late \/ registering]
  /\ UNCHANGED <<rooms, registering, cache, sensors, inForce, deleted, registrations>>

NamesFromStore(q) ==
  /\ batch[q].step = "naming" /\ cache = {}
  /\ batch' = [batch EXCEPT ![q].step = "fetched", ![q].rooms = rooms]
  /\ UNCHANGED <<rooms, registering, cache, sensors, inForce, deleted, registrations>>

(* What was fetched is cached, whatever was registered since.              *)
CacheNames(q) ==
  /\ batch[q].step = "fetched"
  /\ batch' = [batch EXCEPT ![q].step = "named"]
  /\ cache' = {[rooms |-> batch[q].rooms, late |-> batch[q].rooms # rooms]}
  /\ UNCHANGED <<rooms, registering, sensors, inForce, deleted, registrations>>

ReadKnown(q) ==
  /\ batch[q].step = "named"
  /\ batch' = [batch EXCEPT ![q].step = "judged", ![q].known = Stored]
  /\ UNCHANGED <<rooms, registering, cache, sensors, inForce, deleted, registrations>>

RoomOK(q, place) == place = Outdoors \/ place \in batch[q].rooms
Accepted(q) ==
  LET change == batch[q].change IN
  /\ change.create # None => RoomOK(q, change.create)
  /\ change.move # None => change.move \in batch[q].known /\ RoomOK(q, change.to)
  /\ change.delete # None => change.delete \in batch[q].known

(* Every update and delete must still find its row.                        *)
RowsThere(change) == {change.move, change.delete} \ {None} \subseteq Stored

Applied(change, id) ==
  [x \in Id |->
     IF change.delete = x THEN Absent
     ELSE IF change.move = x /\ x \in Stored THEN change.to
     ELSE IF change.create # None /\ id = x THEN change.create
     ELSE sensors[x]]

End(q, outcome) ==
  /\ batch' = [batch EXCEPT ![q] = [NotAsked EXCEPT !.step = outcome]]
  /\ inForce' = [inForce EXCEPT ![q] = {}]

Commit(q) ==
  /\ batch[q].step = "judged" /\ Accepted(q) /\ RowsThere(batch[q].change)
  /\ LET change == batch[q].change IN
       /\ \E id \in {x \in Id \ deleted : sensors[x] = Absent} \cup {None} :
            /\ (id = None) <=> (change.create = None)
            /\ sensors' = Applied(change, id)
       /\ deleted' = deleted \cup ({change.delete} \ {None})
  /\ End(q, "applied")
  /\ UNCHANGED <<rooms, registering, cache, registrations>>

(* 422 item by item, or 500: the transaction is rolled back.               *)
Reject(q) ==
  /\ batch[q].step = "judged" /\ ~(Accepted(q) /\ RowsThere(batch[q].change))
  /\ End(q, "rejected")
  /\ UNCHANGED <<rooms, registering, cache, sensors, deleted, registrations>>

(* The store fails, or telemetry stops; its cache is then empty.           *)
Abort(q) ==
  /\ q \in UnderWay /\ End(q, "rejected")
  /\ UNCHANGED <<rooms, registering, cache, sensors, deleted, registrations>>

Restart ==
  /\ cache' = {} /\ registering' = FALSE
  /\ batch' = [q \in Batch |-> IF q \in UnderWay THEN [NotAsked EXCEPT !.step = "rejected"] ELSE batch[q]]
  /\ inForce' = [q \in Batch |-> {}]
  /\ UNCHANGED <<rooms, sensors, deleted, registrations>>

Next ==
  \/ \E new \in SUBSET Room : Register(new)
  \/ DropEntry \/ EntryExpires \/ Restart
  \/ \E q \in Batch :
       \/ \E change \in Change : Ask(q, change)
       \/ NamesFromCache(q) \/ NamesFromStore(q) \/ CacheNames(q) \/ ReadKnown(q)
       \/ Commit(q) \/ Reject(q) \/ Abort(q)

Spec == Init /\ [][Next]_vars

-----------------------------------------------------------------------------
(* building_cache.rs: "Upserts go through the same instance and drop the   *)
(* entry at once": a batch is judged by rooms that were in force while it  *)
(* was under way, unless it met an entry whose lookup overlapped an upsert *)
(* (which then stays until it expires), or the instant before the drop.    *)
JudgedByItsRooms ==
  \A q \in UnderWay :
    batch[q].step \in {"fetched", "named", "judged"} =>
      batch[q].rooms \in inForce[q] \/ batch[q].late

(* building_cache.rs says of upserts that they "drop the entry at once" and *)
(* of the expiry that it is there for other replicas: what is cached here   *)
(* is what was registered last. This does not hold: a lookup that overlaps  *)
(* an upsert caches what it read before it.                                 *)
CacheFollowsUpserts == ~registering => \A entry \in cache : entry.rooms = rooms
=============================================================================
