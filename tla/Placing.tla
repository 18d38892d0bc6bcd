------------------------------- MODULE Placing -------------------------------
(***************************************************************************)
(* The editor of a building's sensors.  A save goes to two services:       *)
(* telemetry keeps the sensors and gives new ones their ids, digital-twin  *)
(* keeps where they are.  What telemetry accepted is kept apart from the   *)
(* draft until digital-twin has it, so that each half can be sent again.   *)
(*                                                                         *)
(* A batch is applied whole by either service.  A call that the editor has *)
(* given up may still arrive.  Names, rooms and kinds are left out.        *)
(***************************************************************************)
EXTENDS Naturals, FiniteSets

CONSTANTS
  Ref,           \* sensors that the user may add
  Old, New,      \* ids of sensors from before, and those telemetry may give
  Pos,
  MAX_LOST,      \* answers lost
  MAX_OTHERS     \* removals by another editor

Ident == Old \cup New
None == "none"          \* not drafted, or not placed
Nowhere == "nowhere"    \* drafted without a position
Drafted == Pos \cup {Nowhere, None}

PlacingAssumption ==
  /\ Old \cap New = {} /\ {None, Nowhere} \cap Pos = {} /\ None \notin Ref
  /\ MAX_LOST \in Nat /\ MAX_OTHERS \in Nat

VARIABLES
  sensors, refOf,  \* telemetry's sensors; the draft an id was given for
  placements,      \* digital-twin's
  draft, unsent,   \* what is not saved; what digital-twin has not yet been told
  step,            \* of the save
  call,            \* the call under way: what it carries, whether it was served
  late,            \* calls given up that have not arrived
  known,           \* sensors that the editor lists
  answered,        \* ids that the last answer gave
  accepted,        \* per sensor: the position telemetry last accepted it with (history)
  disturbed,       \* something met a save that the editor does not watch for (history)
  dropped,         \* drafted sensors that the user dropped again (history)
  added, lost, others

telemetryVars == <<sensors, refOf, accepted>>
callVars == <<step, call, answered>>
limitVars == <<added, lost, others>>
vars == <<telemetryVars, placements, draft, unsent, callVars, late, known, disturbed, dropped, limitVars>>

EmptyDraft == [added |-> [r \in Ref |-> None], edited |-> [x \in Ident |-> None], removed |-> {}]
EmptyBatch == [upsert |-> [x \in Ident |-> None], delete |-> {}]
NoIds == [r \in Ref |-> None]
NoCall == [draft |-> EmptyDraft, batch |-> EmptyBatch, served |-> FALSE]

HasUnsent == unsent # EmptyBatch
AddedIn(d) == {r \in Ref : d.added[r] # None}

Init ==
  /\ sensors = Old /\ refOf = [x \in Ident |-> None]
  /\ placements \in {f \in [Ident -> Pos \cup {None}] : \A x \in New : f[x] = None}
  /\ accepted = placements
  /\ draft = EmptyDraft /\ unsent = EmptyBatch
  /\ step = "idle" /\ call = NoCall /\ answered = NoIds /\ late = {}
  /\ known = Old
  /\ disturbed = FALSE /\ dropped = {} /\ added = {} /\ lost = 0 /\ others = 0

-----------------------------------------------------------------------------
(* The user.  Only the buttons of a save wait for it.                      *)
Drafting(new) ==
  /\ draft' = new
  /\ disturbed' = (disturbed \/ step # "idle")
  /\ UNCHANGED <<telemetryVars, placements, unsent, callVars, late, known, lost, others>>

AddSensor(r, to) ==
  /\ r \notin added /\ added' = added \cup {r}
  /\ Drafting([draft EXCEPT !.added[r] = to]) /\ UNCHANGED dropped

MoveNew(r, to) ==
  /\ draft.added[r] # None
  /\ Drafting([draft EXCEPT !.added[r] = to]) /\ UNCHANGED <<dropped, added>>

RemoveNew(r) ==
  /\ draft.added[r] # None /\ dropped' = dropped \cup {r}
  /\ Drafting([draft EXCEPT !.added[r] = None]) /\ UNCHANGED added

MoveSaved(x, to) ==
  /\ x \in known \ draft.removed
  /\ Drafting([draft EXCEPT !.edited[x] = to]) /\ UNCHANGED <<dropped, added>>

RemoveSaved(x) ==
  /\ x \in known \ draft.removed
  /\ Drafting([draft EXCEPT !.edited[x] = None, !.removed = @ \cup {x}]) /\ UNCHANGED <<dropped, added>>

(* Leaving the building or the editor discards as well, and waits for no   *)
(* save; placements are forgotten with the draft.                          *)
Discard ==
  /\ draft' = EmptyDraft /\ unsent' = EmptyBatch
  /\ disturbed' = (disturbed \/ step # "idle" \/ HasUnsent)
  /\ dropped' = dropped \cup AddedIn(draft)
  /\ UNCHANGED <<telemetryVars, placements, callVars, late, known, limitVars>>

-----------------------------------------------------------------------------
(* Telemetry: all of a batch, or nothing of it.                            *)
Targets(d) == {x \in Ident : d.edited[x] # None} \cup d.removed
Acceptable(d) == Targets(d) \subseteq sensors
FreshIds == {x \in New : refOf[x] = None}

Apply(d, ids) ==
  /\ sensors' = (sensors \ d.removed) \cup {ids[r] : r \in AddedIn(d)}
  /\ refOf' = [x \in Ident |-> IF \E r \in AddedIn(d) : ids[r] = x
                             THEN CHOOSE r \in AddedIn(d) : ids[r] = x ELSE refOf[x]]
  /\ accepted' = [x \in Ident |->
       IF x \in d.removed THEN None
       ELSE IF d.edited[x] \in Pos THEN d.edited[x]
       ELSE IF \E r \in AddedIn(d) : ids[r] = x /\ d.added[r] \in Pos
            THEN LET r == CHOOSE r \in AddedIn(d) : ids[r] = x IN d.added[r]
       ELSE accepted[x]]

IdsFor(d) ==
  {ids \in [Ref -> FreshIds \cup {None}] :
     /\ \A r \in Ref : ids[r] = None <=> r \notin AddedIn(d)
     /\ \A r, q \in AddedIn(d) : ids[r] = ids[q] => r = q}

(* A save with nothing for telemetry goes on at once.                      *)
SendSensors ==
  /\ step = "idle" /\ (draft # EmptyDraft \/ HasUnsent)
  /\ step' = "telemetry"
  /\ call' = [NoCall EXCEPT !.draft = draft, !.served = draft = EmptyDraft]
  /\ UNCHANGED <<telemetryVars, placements, draft, unsent, answered, late, known, disturbed, dropped, limitVars>>

ServeSensors ==
  /\ step = "telemetry" /\ ~call.served /\ Acceptable(call.draft)
  /\ \E ids \in IdsFor(call.draft) : Apply(call.draft, ids) /\ answered' = ids
  /\ call' = [call EXCEPT !.served = TRUE]
  /\ UNCHANGED <<placements, draft, unsent, step, late, known, disturbed, dropped, limitVars>>

ToPlacementBatch(d, ids) ==
  [upsert |-> [x \in Ident |->
     IF \E r \in AddedIn(d) : ids[r] = x
     THEN LET to == d.added[CHOOSE r \in AddedIn(d) : ids[r] = x] IN IF to \in Pos THEN to ELSE None
     ELSE IF d.edited[x] \in Pos THEN d.edited[x] ELSE None],
   delete |-> d.removed]

Newer(older, newer) == [x \in Ident |-> IF newer.upsert[x] # None THEN newer.upsert[x] ELSE older.upsert[x]]
Unfiltered(older, newer) ==  \* mutant: a deleted sensor is placed as well
  [upsert |-> Newer(older, newer), delete |-> older.delete \cup newer.delete]
Merged(older, newer) ==
  LET gone == older.delete \cup newer.delete IN
  [upsert |-> [x \in Ident |-> IF x \in gone THEN None ELSE Newer(older, newer)[x]], delete |-> gone]

KeptDraft == draft  \* mutant: the draft is emptied when placements are saved
Emptied == EmptyDraft

(* What is placed is the draft as it is now, not as it was sent.           *)
SensorsSaved ==
  /\ step = "telemetry" /\ call.served
  /\ unsent' = Merged(unsent, ToPlacementBatch(draft, answered))
  /\ draft' = Emptied
  /\ step' = "twin"
  /\ call' = [NoCall EXCEPT !.batch = unsent', !.served = unsent' = EmptyBatch]
  /\ answered' = NoIds
  /\ UNCHANGED <<telemetryVars, placements, late, known, disturbed, dropped, limitVars>>

-----------------------------------------------------------------------------
(* Digital-twin: one update of the building's document.                    *)
Checked(batch) == \A x \in batch.delete : batch.upsert[x] = None
Placed(batch) ==
  [x \in Ident |-> IF batch.upsert[x] # None THEN batch.upsert[x]
                ELSE IF x \in batch.delete THEN None ELSE placements[x]]

ServePlacements ==
  /\ step = "twin" /\ ~call.served /\ Checked(call.batch)
  /\ placements' = Placed(call.batch)
  /\ call' = [call EXCEPT !.served = TRUE]
  /\ UNCHANGED <<telemetryVars, draft, unsent, step, answered, late, known, disturbed, dropped, limitVars>>

ForgottenOnFailure == EmptyBatch  \* mutant: `unsentPlacements` is emptied in `finally`
AfterFailure == unsent

(* The lists are read again, if they can be.                               *)
PlacementsSaved ==
  /\ step = "twin" /\ call.served
  /\ unsent' = EmptyBatch
  /\ known' \in {known, sensors}
  /\ step' = "idle" /\ call' = NoCall
  /\ UNCHANGED <<telemetryVars, placements, draft, answered, late, disturbed, dropped, limitVars>>

(* Refused, unreachable, or no answer in time; a call that was not served  *)
(* may arrive yet, and then whatever has been served is not known here.    *)
SaveFails ==
  /\ step # "idle"
  /\ step' = "idle" /\ call' = NoCall /\ answered' = NoIds
  /\ late' \in {late} \cup IF call.served \/ lost = MAX_LOST THEN {} ELSE {late \cup {[call EXCEPT !.served = TRUE]}}
  /\ IF late' # late \/ (step = "telemetry" /\ call.served /\ call.draft # EmptyDraft)
     THEN lost < MAX_LOST /\ lost' = lost + 1 /\ disturbed' = TRUE
     ELSE UNCHANGED <<lost, disturbed>>
  /\ unsent' = IF step = "twin" THEN AfterFailure ELSE unsent
  /\ UNCHANGED <<telemetryVars, placements, draft, known, dropped, added, others>>

ArriveLate(c) ==
  /\ c \in late /\ late' = late \ {c}
  /\ IF c.batch = EmptyBatch
     THEN /\ IF Acceptable(c.draft) THEN \E ids \in IdsFor(c.draft) : Apply(c.draft, ids)
             ELSE UNCHANGED telemetryVars
          /\ UNCHANGED placements
     ELSE placements' = Placed(c.batch) /\ UNCHANGED telemetryVars
  /\ UNCHANGED <<draft, unsent, callVars, known, disturbed, dropped, limitVars>>

(* Another editor removes a sensor, and its placement.                     *)
OtherRemoves(x) ==
  /\ x \in sensors /\ others < MAX_OTHERS /\ others' = others + 1
  /\ sensors' = sensors \ {x} /\ accepted' = [accepted EXCEPT ![x] = None]
  /\ placements' = [placements EXCEPT ![x] = None]
  /\ disturbed' = (disturbed \/ step # "idle" \/ unsent.upsert[x] # None)
  /\ UNCHANGED <<refOf, draft, unsent, callVars, late, known, dropped, added, lost>>

-----------------------------------------------------------------------------
Next ==
  \/ \E r \in Ref : RemoveNew(r) \/ \E to \in Pos \cup {Nowhere} : AddSensor(r, to) \/ MoveNew(r, to)
  \/ \E x \in Ident : RemoveSaved(x) \/ OtherRemoves(x) \/ \E to \in Pos \cup {Nowhere} : MoveSaved(x, to)
  \/ Discard \/ SendSensors \/ ServeSensors \/ SensorsSaved \/ ServePlacements \/ PlacementsSaved
  \/ SaveFails \/ \E c \in late : ArriveLate(c)

Spec == Init /\ [][Next]_vars

-----------------------------------------------------------------------------
(* frontend-architecture.qd: "a retry never creates a sensor twice". This   *)
(* does not hold: telemetry may create it and its answer be lost.           *)
CreatedOnce == \A r \in Ref : Cardinality({x \in New : refOf[x] = r}) <= 1

(* It holds as long as every answer of telemetry arrives.                   *)
CreatedOnceIfAnswered == lost = 0 => CreatedOnce

(* domain/placement.rs refuses a batch that names a sensor twice: what is  *)
(* kept to be sent again is always one that can be accepted.               *)
UnsentIsAcceptable == Checked(unsent)

(* useSensorDraft.ts: what telemetry accepted is at digital-twin, or still *)
(* kept to be sent, unless the user discarded it or something interfered.  *)
NothingForgotten ==
  ~disturbed /\ step = "idle" =>
    \A x \in Ident :
      \/ placements[x] = accepted[x]
      \/ unsent.upsert[x] = accepted[x] /\ unsent.upsert[x] # None
      \/ x \in unsent.delete /\ accepted[x] = None

(* frontend-architecture.qd: "sensors added meanwhile are still sent": a   *)
(* sensor that the user drafted, and did not drop, is drafted or created.  *)
(* This does not hold: an answer of telemetry empties the draft as it is.   *)
AddedIsKept ==
  \A r \in added \ dropped : draft.added[r] # None \/ \E x \in New : refOf[x] = r
=============================================================================
