------------------------------ MODULE Dashboard ------------------------------
(***************************************************************************)
(* dashboard: the columns chosen for one building.  What is read is in     *)
(* memory; a change is written to Mongo by a task of its own that nobody   *)
(* waits for, and a restart reads what was written.                        *)
(***************************************************************************)
EXTENDS Naturals, FiniteSets

CONSTANTS Columns, Defaults, MAX_CHANGES

DashboardAssumption == Defaults \in Columns /\ MAX_CHANGES \in Nat

NotKnown == "unknown"
Held == Columns \cup {NotKnown}

VARIABLES
  memory,     \* building_preferences
  saved,      \* the building's document
  changes,    \* changes made, which number their writes
  writes,     \* writes under way: the change, and its columns
  alone,      \* the last change found no write under way (history)
  lost        \* the last change's write failed or was cut off (history)

vars == <<memory, saved, changes, writes, alone, lost>>

Init ==
  /\ saved \in Held /\ memory = saved
  /\ changes = 0 /\ writes = {} /\ alone = TRUE /\ lost = FALSE

-----------------------------------------------------------------------------
Spawn(columns) ==
  /\ changes < MAX_CHANGES /\ changes' = changes + 1
  /\ writes' = writes \cup {[change |-> changes + 1, columns |-> columns]}
  /\ alone' = (writes = {}) /\ lost' = FALSE
  /\ UNCHANGED saved

UpdatePreferences(columns) == memory' = columns /\ Spawn(columns)

InitAnyway == Spawn(Defaults)  \* mutant: the write does not look at is_new
InitKnown == UNCHANGED <<saved, changes, writes, alone, lost>>

InitPreferences ==
  IF memory = NotKnown THEN memory' = Defaults /\ Spawn(Defaults)
  ELSE InitKnown /\ UNCHANGED memory

Upsert(write) ==
  /\ saved' = write.columns /\ writes' = writes \ {write}
  /\ UNCHANGED <<memory, changes, alone, lost>>

UpsertFails(write) ==
  /\ writes' = writes \ {write}
  /\ lost' = (lost \/ write.change = changes)
  /\ UNCHANGED <<memory, saved, changes, alone>>

Hydrated == memory' = saved

Restart ==
  /\ Hydrated
  /\ writes' = {}
  /\ lost' = (lost \/ \E write \in writes : write.change = changes)
  /\ UNCHANGED <<saved, changes, alone>>

Next ==
  \/ \E columns \in Columns : UpdatePreferences(columns)
  \/ InitPreferences \/ Restart
  \/ \E write \in writes : Upsert(write) \/ UpsertFails(write)

Spec == Init /\ [][Next]_vars

-----------------------------------------------------------------------------
(* A change that met no other write, and whose own was made, is what a     *)
(* restart finds; opening the building never undoes it.                    *)
SavedWhenAlone == writes = {} /\ alone /\ ~lost => saved = memory

(* dashboard.qd: only a crash between the change and its write can lose    *)
(* the most recent change. This does not hold: two writes may be made in   *)
(* the other order.                                                         *)
SavedUnlessLost == writes = {} /\ ~lost => saved = memory
=============================================================================
