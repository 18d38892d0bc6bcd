----------------------------- MODULE Thresholds -----------------------------
(***************************************************************************)
(* telemetry: batches of readings are judged against the thresholds that   *)
(* administrators set. Ingestion reads them through a cache that each      *)
(* replica fills and invalidates on its own (CachedThresholds).            *)
(*                                                                         *)
(* One building and one metric with one bound: a row of the table is a     *)
(* limit or is missing, and a patch overwrites it. A batch reports every   *)
(* room, and there is always another one. What is done with a judgement,   *)
(* and the insert of the readings that the lookup is joined with, only     *)
(* make the answer take longer.                                            *)
(***************************************************************************)
EXTENDS Integers, FiniteSets

CONSTANTS Replica, Room, Batch, Admin,
          Building,    \* the scope of the building's own row
          Unset,       \* no row, so no limit
          Missing,     \* not answered by the cache
          Capacity,    \* MAX_ENTRIES
          MaxPatches   \* bound on patches

ASSUME ThresholdsAssumption ==
  /\ Building \notin Room
  /\ Unset \notin Nat /\ Missing \notin Nat /\ Missing # Unset
  /\ Batch \cap Admin = {}
  /\ Capacity \in Nat /\ MaxPatches \in Nat

Scope == Room \cup {Building}
Limit == 1 .. MaxPatches
Bounds == Limit \cup {Unset}

VARIABLES rows,      \* table thresholds
          inForce,   \* all that ever was in force for a room (history)
          cache,     \* per replica and room: an entry, or Absent
          patches,   \* patches begun
          patch,     \* what an administrator's request is doing
          request,   \* what a batch's request is doing
          known      \* the limits a batch's request knows

dbVars == <<rows, inForce>>
adminVars == <<patches, patch>>
batchVars == <<request, known>>
vars == <<dbVars, cache, adminVars, batchVars>>

Absent == [limit |-> Missing, expired |-> FALSE]
Entry == [limit : Bounds, expired : BOOLEAN]

(* A lookup takes what the cache has, asks the database for the rest, then *)
(* remembers the rooms in `left`, one of them (`now`) at a time.           *)
NoRequest == [on |-> Missing, lookup |-> "none", left |-> {}, now |-> Missing]
Request ==
  [on : Replica, lookup : {"asking", "filling", "inserting", "done"},
   left : SUBSET Room, now : Room \cup {Missing}]

NoPatch == [on |-> Missing, step |-> "idle", limit |-> 0, left |-> {}]
Patch == [on : Replica, step : {"writing", "committed", "refused"}, limit : Limit, left : SUBSET Scope]

TypeOK ==
  /\ rows \in [Scope -> Bounds]
  /\ inForce \in [Room -> SUBSET Bounds]
  /\ cache \in [Replica -> [Room -> Entry \cup {Absent}]]
  /\ patches \in 0 .. MaxPatches
  /\ patch \in [Admin -> Patch \cup {NoPatch}]
  /\ request \in [Batch -> Request \cup {NoRequest}]
  /\ known \in [Batch -> [Room -> Bounds \cup {Missing}]]

-----------------------------------------------------------------------------
(* A room's own row wins over the building's. *)
Resolve(table, x) == IF table[x] # Unset THEN table[x] ELSE table[Building]

HitForever(e) == e # Absent  \* mutant: the TTL is not looked at
Hit(e) == e # Absent /\ ~e.expired
Held(entries) == {x \in Room : entries[x] # Absent}
HasRoom(entries) == Cardinality(Held(entries)) < Capacity

Unknown == [x \in Room |-> Missing]

Init ==
  /\ rows = [s \in Scope |-> Unset]
  /\ inForce = [x \in Room |-> {Unset}]
  /\ cache = [r \in Replica |-> [x \in Room |-> Absent]]
  /\ patches = 0
  /\ patch = [a \in Admin |-> NoPatch]
  /\ request = [b \in Batch |-> NoRequest]
  /\ known = [b \in Batch |-> Unknown]

-----------------------------------------------------------------------------
(* Administrators: PATCH of the building's limit, or of several rooms'.    *)

Begin(a, r, scopes) ==
  /\ patch[a] = NoPatch
  /\ patches < MaxPatches
  /\ patches' = patches + 1
  /\ patch' = [patch EXCEPT ![a] = [on |-> r, step |-> "writing", limit |-> patches + 1, left |-> scopes]]
  /\ UNCHANGED <<dbVars, cache, batchVars>>

(* The upsert commits, one row per statement. *)
Commit(a, s) ==
  /\ patch[a].step = "writing"
  /\ s \in patch[a].left
  /\ rows' = [rows EXCEPT ![s] = patch[a].limit]
  /\ inForce' = [x \in Room |-> inForce[x] \cup {Resolve(rows', x)}]
  /\ patch' = [patch EXCEPT ![a].step = "committed", ![a].left = @ \ {s}]
  /\ UNCHANGED <<cache, patches, batchVars>>

(* The statement fails, or its answer is lost: the rest is not written. *)
Refuse(a) ==
  /\ patch[a].step \in {"writing", "committed"}
  /\ patch' = [patch EXCEPT ![a].step = "refused"]
  /\ UNCHANGED <<dbVars, cache, patches, batchVars>>

(* Failed or not, the write drops every room of the building and metric. *)
Invalidate(a) ==
  /\ patch[a].step \in {"committed", "refused"}
  /\ cache' = [cache EXCEPT ![patch[a].on] = [x \in Room |-> Absent]]
  /\ patch' = [patch EXCEPT ![a] =
                 IF @.step = "refused" \/ @.left = {} THEN NoPatch ELSE [@ EXCEPT !.step = "writing"]]
  /\ UNCHANGED <<dbVars, patches, batchVars>>

(* The caller hangs up and the handler is dropped at its await: whatever   *)
(* the database did, nothing is invalidated.                               *)
HangUp(a) ==
  /\ patch[a].step \in {"writing", "committed"}
  /\ patch' = [patch EXCEPT ![a] = NoPatch]
  /\ UNCHANGED <<dbVars, cache, patches, batchVars>>

-----------------------------------------------------------------------------
(* Batches: POST /ingest. *)

Start(b, r) ==
  /\ request[b] = NoRequest
  /\ known' = [known EXCEPT ![b] =
                 [x \in Room |-> IF Hit(cache[r][x]) THEN cache[r][x].limit ELSE Missing]]
  /\ request' = [request EXCEPT ![b] =
                   [on |-> r, left |-> {}, now |-> Missing,
                    lookup |-> IF \E x \in Room : known'[b][x] = Missing THEN "asking" ELSE "done"]]
  /\ UNCHANGED <<dbVars, cache, adminVars>>

(* Mutant: the answers are zipped with the wrong keys. *)
AskMixedUp(b) ==
  LET asked == {x \in Room : known[b][x] = Missing}
  IN /\ request[b].lookup = "asking"
     /\ known' = [known EXCEPT ![b] =
                    [x \in Room |-> IF x \in asked THEN Resolve(rows, CHOOSE y \in asked : TRUE) ELSE @[x]]]
     /\ request' = [request EXCEPT ![b].lookup = "filling", ![b].left = asked]
     /\ UNCHANGED <<dbVars, cache, adminVars>>

(* One statement answers all the rooms the cache did not. *)
Ask(b) ==
  /\ request[b].lookup = "asking"
  /\ known' = [known EXCEPT ![b] = [x \in Room |-> IF @[x] = Missing THEN Resolve(rows, x) ELSE @[x]]]
  /\ request' = [request EXCEPT ![b].lookup = "filling",
                                ![b].left = {x \in Room : known[b][x] = Missing}]
  /\ UNCHANGED <<dbVars, cache, adminVars>>

(* A full cache first drops what expired; if it is still full, the room    *)
(* goes uncached.                                                          *)
Swept(entries) ==
  IF HasRoom(entries) THEN entries
  ELSE [x \in Room |-> IF Hit(entries[x]) THEN entries[x] ELSE Absent]

(* What a lookup does next, with the rooms `left` to remember. *)
Filling(left) == IF left = {} THEN "done" ELSE "filling"

MakeRoom(b, x) ==
  LET r == request[b].on
      left == request[b].left \ {x}
      fits == HasRoom(Swept(cache[r]))
  IN /\ request[b].lookup = "filling"
     /\ x \in request[b].left
     /\ cache' = [cache EXCEPT ![r] = Swept(@)]
     /\ request' = [request EXCEPT ![b].left = left,
                                   ![b].lookup = IF fits THEN "inserting" ELSE Filling(left),
                                   ![b].now = IF fits THEN x ELSE Missing]
     /\ UNCHANGED <<dbVars, adminVars, known>>

Remember(b) ==
  LET x == request[b].now
  IN /\ request[b].lookup = "inserting"
     /\ cache' = [cache EXCEPT ![request[b].on][x] = [limit |-> known[b][x], expired |-> FALSE]]
     /\ request' = [request EXCEPT ![b].lookup = Filling(request[b].left), ![b].now = Missing]
     /\ UNCHANGED <<dbVars, adminVars, known>>

(* The readings are judged and the request is answered; or the lookup      *)
(* failed, which only costs the alerts; or the collector hung up and the   *)
(* handler was dropped at one of its awaits.                               *)
Over(b) ==
  /\ request[b].lookup \in {"asking", "done"}
  /\ request' = [request EXCEPT ![b] = NoRequest]
  /\ known' = [known EXCEPT ![b] = Unknown]
  /\ UNCHANGED <<dbVars, cache, adminVars>>

-----------------------------------------------------------------------------
(* An entry outlives its TTL. *)
Expire(r, x) ==
  /\ Hit(cache[r][x])
  /\ cache' = [cache EXCEPT ![r][x].expired = TRUE]
  /\ UNCHANGED <<dbVars, adminVars, batchVars>>

(* A replica stops and starts again, with an empty cache. *)
Restart(r) ==
  /\ cache' = [cache EXCEPT ![r] = [x \in Room |-> Absent]]
  /\ patch' = [a \in Admin |-> IF patch[a].on = r THEN NoPatch ELSE patch[a]]
  /\ request' = [b \in Batch |-> IF request[b].on = r THEN NoRequest ELSE request[b]]
  /\ known' = [b \in Batch |-> IF request[b].on = r THEN Unknown ELSE known[b]]
  /\ UNCHANGED <<dbVars, patches>>

AdminStep(a) ==
  \/ \E r \in Replica, scopes \in {{Building}} \cup ((SUBSET Room) \ {{}}) : Begin(a, r, scopes)
  \/ \E s \in Scope : Commit(a, s)
  \/ Refuse(a) \/ Invalidate(a) \/ HangUp(a)

BatchStep(b) ==
  \/ \E r \in Replica : Start(b, r)
  \/ Ask(b)
  \/ \E x \in Room : MakeRoom(b, x)
  \/ Remember(b) \/ Over(b)

Next ==
  \/ \E a \in Admin : AdminStep(a)
  \/ \E b \in Batch : BatchStep(b)
  \/ \E r \in Replica : Restart(r) \/ \E x \in Room : Expire(r, x)

Spec == Init /\ [][Next]_vars

(* Only time has to pass: requests may stall for ever. *)
Fairness == \A r \in Replica, x \in Room : WF_vars(Expire(r, x))
FairSpec == Spec /\ Fairness

-----------------------------------------------------------------------------
(* What is needed to prove JudgedInForce: see module ThresholdsProofs.     *)

(* What is in force, cached or known was in force for that room. *)
TruthInv ==
  \A x \in Room :
    /\ Resolve(rows, x) \in inForce[x]
    /\ \A r \in Replica : cache[r][x] # Absent => cache[r][x].limit \in inForce[x]
    /\ \A b \in Batch : known[b][x] # Missing => known[b][x] \in inForce[x]

(* Past the database, every room is known. *)
LookupsInv ==
  \A b \in Batch :
    /\ request[b].lookup \in {"filling", "inserting", "done"} =>
         \A x \in Room : known[b][x] # Missing
    /\ request[b].lookup = "inserting" => request[b].now \in Room

-----------------------------------------------------------------------------
(* A reading is judged against a limit that really was in force for its    *)
(* own room: cached and fetched answers are never mixed up between rooms,  *)
(* and a room's row is never overruled by the building's.                  *)
JudgedInForce ==
  \A b \in Batch : request[b].lookup = "done" =>
    \A x \in Room : known[b][x] \in inForce[x]

(* Once administrators rest, the cache answers what is in force, whatever  *)
(* invalidations were lost and however late a fetched limit was remembered.*)
Fresh ==
  \A r \in Replica, x \in Room :
    Hit(cache[r][x]) => cache[r][x].limit = Resolve(rows, x)
PatchesTakeEffect == <>[]Fresh
=============================================================================
