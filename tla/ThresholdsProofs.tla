-------------------------- MODULE ThresholdsProofs --------------------------
(***************************************************************************)
(* What is judged by a value that may be old, and what is sent again.      *)
(*                                                                         *)
(* Thresholds, for any number of replicas, rooms, requests and patches,    *)
(* whatever the cache forgets or remembers late: readings are judged       *)
(* against limits that were in force for their room. TruthInv and          *)
(* LookupsInv are what makes it inductive: the history only grows, so an   *)
(* answer that was true once stays one that was true once, wherever it is  *)
(* copied to. Sensors' batches are judged by rooms in the same way.        *)
(*                                                                         *)
(* The editor of sensors, for any sensors, positions, lost answers and     *)
(* other editors: what digital-twin has, taken with what it will still be  *)
(* told, is what telemetry accepted, whichever of the calls has been       *)
(* served. WatchedInv says so at each step of a save.                      *)
(***************************************************************************)
EXTENDS Thresholds, MCFurnishing, FiniteSetTheorems, TLAPS

Inv == TypeOK /\ TruthInv /\ LookupsInv

(* The limit of the empty entry is no limit. *)
LEMMA AbsentIsNoEntry == Absent \notin Entry
BY ThresholdsAssumption DEF Absent, Entry, Bounds, Limit

LEMMA ResolveType ==
  ASSUME NEW table \in [Scope -> Bounds], NEW x \in Room
  PROVE  Resolve(table, x) \in Bounds
BY DEF Resolve, Scope

LEMMA InitInv == Init => Inv
<1> SUFFICES ASSUME Init PROVE Inv
  OBVIOUS
<1>1. TypeOK
  BY ThresholdsAssumption
     DEF Init, TypeOK, Scope, Bounds, Absent, Unknown, NoPatch, NoRequest
<1>2. TruthInv
  BY DEF Init, TruthInv, Resolve, Scope, Unknown
<1>3. LookupsInv
  BY DEF Init, LookupsInv, NoRequest
<1> QED
  BY <1>1, <1>2, <1>3 DEF Inv

(* Administrators only add to the history. *)
LEMMA AdminInv ==
  ASSUME Inv, NEW a \in Admin, AdminStep(a)
  PROVE  Inv'
<1>1. TypeOK /\ TruthInv /\ LookupsInv
  BY DEF Inv
<1>2. LookupsInv'
  BY <1>1 DEF AdminStep, Begin, Commit, Refuse, Invalidate, HangUp, batchVars, LookupsInv
<1>3. CASE \E r \in Replica, scopes \in {{Building}} \cup ((SUBSET Room) \ {{}}) : Begin(a, r, scopes)
  <2>1. PICK r \in Replica, scopes \in {{Building}} \cup ((SUBSET Room) \ {{}}) : Begin(a, r, scopes)
    BY <1>3
  <2>2. scopes \subseteq Scope
    BY DEF Scope
  <2>3. patches + 1 \in Limit /\ patches' \in 0 .. MaxPatches
    BY <1>1, <2>1, ThresholdsAssumption DEF TypeOK, Begin, Limit
  <2>4. patch' \in [Admin -> Patch \cup {NoPatch}]
    BY <1>1, <2>1, <2>2, <2>3 DEF TypeOK, Begin, Patch
  <2>5. TypeOK'
    BY <1>1, <2>1, <2>3, <2>4 DEF TypeOK, Begin, dbVars, batchVars
  <2>6. TruthInv'
    BY <1>1, <2>1 DEF TruthInv, Begin, dbVars, batchVars, Resolve
  <2> QED
    BY <1>2, <2>5, <2>6 DEF Inv
<1>4. CASE \E s \in Scope : Commit(a, s)
  <2>1. PICK s \in Scope : Commit(a, s)
    BY <1>4
  <2>2. patch[a] \in Patch
    BY <1>1, <2>1 DEF TypeOK, Commit, NoPatch
  <2>3. rows' \in [Scope -> Bounds]
    BY <1>1, <2>1, <2>2 DEF TypeOK, Commit, Patch, Bounds
  <2>4. inForce' \in [Room -> SUBSET Bounds]
    BY <1>1, <2>1, <2>3, ResolveType DEF TypeOK, Commit
  <2>5. patch' \in [Admin -> Patch \cup {NoPatch}]
    BY <1>1, <2>1, <2>2 DEF TypeOK, Commit, Patch
  <2>6. TypeOK'
    BY <1>1, <2>1, <2>3, <2>4, <2>5 DEF TypeOK, Commit, batchVars
  <2>7. \A x \in Room : inForce'[x] = inForce[x] \cup {Resolve(rows', x)}
    BY <2>1 DEF Commit
  <2>8. \A x \in Room : Resolve(rows, x)' = Resolve(rows', x)
    BY DEF Resolve
  <2>9. cache' = cache /\ known' = known
    BY <2>1 DEF Commit, batchVars
  <2>10. TruthInv'
    BY <1>1, <2>7, <2>8, <2>9 DEF TruthInv
  <2> QED
    BY <1>2, <2>6, <2>10 DEF Inv
<1>5. CASE Refuse(a) \/ Invalidate(a) \/ HangUp(a)
  <2> DEFINE P == patch[a]
  <2>0. P \in Patch
    BY <1>1, <1>5 DEF TypeOK, Refuse, Invalidate, HangUp, NoPatch
  <2>a. [P EXCEPT !.step = "refused"] \in Patch /\ [P EXCEPT !.step = "writing"] \in Patch
    BY <2>0 DEF Patch
  <2>b. patch'[a] \in Patch \cup {NoPatch} /\ patch' = [patch EXCEPT ![a] = patch'[a]]
    <3>1. CASE Refuse(a)
      BY <1>1, <2>a, <3>1 DEF TypeOK, Refuse
    <3>2. CASE Invalidate(a)
      BY <1>1, <2>a, <3>2 DEF TypeOK, Invalidate
    <3>3. CASE HangUp(a)
      BY <1>1, <3>3 DEF TypeOK, HangUp
    <3> QED
      BY <1>5, <3>1, <3>2, <3>3
  <2>1. patch' \in [Admin -> Patch \cup {NoPatch}]
    BY <1>1, <2>b DEF TypeOK
  <2>2. cache' \in [Replica -> [Room -> Entry \cup {Absent}]]
    BY <1>1, <1>5 DEF TypeOK, Refuse, Invalidate, HangUp
  <2>3. UNCHANGED <<rows, inForce, patches, request, known>>
    BY <1>5 DEF Refuse, Invalidate, HangUp, dbVars, batchVars
  <2>4. TypeOK'
    BY <1>1, <2>1, <2>2, <2>3 DEF TypeOK
  <2>5. \A r \in Replica, x \in Room : cache'[r][x] = cache[r][x] \/ cache'[r][x] = Absent
    BY <1>1, <1>5 DEF TypeOK, Refuse, Invalidate, HangUp
  <2>6. TruthInv'
    BY <1>1, <2>3, <2>5 DEF TruthInv, Resolve
  <2> QED
    BY <1>2, <2>4, <2>6 DEF Inv
<1> QED
  BY <1>3, <1>4, <1>5 DEF AdminStep

(* Requests only copy: from the table, from the cache, and into it. *)
LEMMA BatchInv ==
  ASSUME Inv, NEW b \in Batch, BatchStep(b)
  PROVE  Inv'
<1>1. TypeOK /\ TruthInv /\ LookupsInv
  BY DEF Inv
<1>2. UNCHANGED <<rows, inForce, patches, patch>>
  BY DEF BatchStep, Start, Ask, MakeRoom, Remember, Over, dbVars, adminVars
<1>3. CASE \E r \in Replica : Start(b, r)
  <2>1. PICK r \in Replica : Start(b, r)
    BY <1>3
  <2>2. known' \in [Batch -> [Room -> Bounds \cup {Missing}]]
    BY <1>1, <2>1 DEF TypeOK, Start, Hit, Entry
  <2>3. request' \in [Batch -> Request \cup {NoRequest}]
    BY <1>1, <2>1 DEF TypeOK, Start, Request
  <2>4. TypeOK'
    BY <1>1, <1>2, <2>1, <2>2, <2>3 DEF TypeOK, Start
  <2>5. \A c \in Batch, x \in Room : known'[c][x] = known[c][x]
            \/ (c = b /\ known'[c][x] = cache[r][x].limit /\ cache[r][x] # Absent)
            \/ known'[c][x] = Missing
    BY <1>1, <2>1 DEF TypeOK, Start, Hit
  <2>6. TruthInv'
    BY <1>1, <1>2, <2>1, <2>5 DEF TruthInv, Start, Resolve
  <2>7. \A c \in Batch : IF c = b
            THEN request'[c].lookup = IF \E x \in Room : known'[c][x] = Missing THEN "asking" ELSE "done"
            ELSE request'[c] = request[c] /\ known'[c] = known[c]
    BY <1>1, <2>1 DEF TypeOK, Start
  <2>8. LookupsInv'
    BY <1>1, <2>7 DEF LookupsInv
  <2> QED
    BY <2>4, <2>6, <2>8 DEF Inv
<1>4. CASE Ask(b)
  <2>1. request[b] \in Request
    BY <1>1, <1>4 DEF TypeOK, Ask, NoRequest
  <2>2. \A x \in Room : Resolve(rows, x) \in Bounds
    BY <1>1, ResolveType DEF TypeOK
  <2>3. known' \in [Batch -> [Room -> Bounds \cup {Missing}]]
    BY <1>1, <1>4, <2>2 DEF TypeOK, Ask
  <2>4. request' \in [Batch -> Request \cup {NoRequest}]
    BY <1>1, <1>4, <2>1 DEF TypeOK, Ask, Request
  <2>5. TypeOK'
    BY <1>1, <1>2, <1>4, <2>3, <2>4 DEF TypeOK, Ask
  <2>6. \A c \in Batch, x \in Room : known'[c][x] =
            IF c = b /\ known[c][x] = Missing THEN Resolve(rows, x) ELSE known[c][x]
    BY <1>1, <1>4 DEF TypeOK, Ask
  <2>7. TruthInv'
    BY <1>1, <1>2, <1>4, <2>6 DEF TruthInv, Ask, Resolve
  <2>8. Missing \notin Bounds
    BY ThresholdsAssumption DEF Bounds, Limit
  <2>9. \A x \in Room : known'[b][x] # Missing
    BY <2>2, <2>6, <2>8
  <2>10. \A c \in Batch : IF c = b THEN request'[c].lookup = "filling"
                          ELSE request'[c] = request[c] /\ known'[c] = known[c]
    BY <1>1, <1>4 DEF TypeOK, Ask
  <2>11. LookupsInv'
    BY <1>1, <2>9, <2>10 DEF LookupsInv
  <2> QED
    BY <2>5, <2>7, <2>11 DEF Inv
<1>5. CASE \E x \in Room : MakeRoom(b, x)
  <2>1. PICK x \in Room : MakeRoom(b, x)
    BY <1>5
  <2> DEFINE r == request[b].on
  <2>2. request[b] \in Request /\ r \in Replica
    BY <1>1, <2>1 DEF TypeOK, MakeRoom, NoRequest, Request
  <2>3. \A e : Swept(e) = e \/ Swept(e) = [y \in Room |-> IF Hit(e[y]) THEN e[y] ELSE Absent]
    BY DEF Swept
  <2>4. cache' = [cache EXCEPT ![r] = Swept(cache[r])]
    BY <2>1 DEF MakeRoom
  <2>5. cache' \in [Replica -> [Room -> Entry \cup {Absent}]]
    <3>1. cache[r] \in [Room -> Entry \cup {Absent}]
      BY <1>1, <2>2 DEF TypeOK
    <3>2. Swept(cache[r]) \in [Room -> Entry \cup {Absent}]
      BY <2>3, <3>1
    <3> QED
      BY <1>1, <2>2, <2>4, <3>2 DEF TypeOK
  <2>6. \A q \in Replica, y \in Room : cache'[q][y] = cache[q][y] \/ cache'[q][y] = Absent
    BY <1>1, <2>2, <2>3, <2>4 DEF TypeOK
  <2>7. /\ request' \in [Batch -> Request \cup {NoRequest}]
        /\ \A c \in Batch : c # b => request'[c] = request[c]
        /\ request'[b].lookup \in {"inserting", "filling", "done"}
        /\ request'[b].lookup = "inserting" => request'[b].now = x
    <3>1. PICK fits \in BOOLEAN :
            request' = [request EXCEPT ![b].left = request[b].left \ {x},
              ![b].lookup = IF fits THEN "inserting" ELSE Filling(request[b].left \ {x}),
              ![b].now = IF fits THEN x ELSE Missing]
      <4>1. HasRoom(Swept(cache[r])) \in BOOLEAN
        BY DEF HasRoom
      <4> QED
        BY <2>1, <4>1 DEF MakeRoom
    <3> QED
      BY <1>1, <2>2, <3>1 DEF TypeOK, Request, Filling
  <2>8. known' = known
    BY <2>1 DEF MakeRoom
  <2>9. TypeOK'
    BY <1>1, <1>2, <2>5, <2>7, <2>8 DEF TypeOK
  <2>10. TruthInv'
    BY <1>1, <1>2, <2>6, <2>8 DEF TruthInv, Resolve
  <2>11. LookupsInv'
    BY <1>1, <2>1, <2>7, <2>8 DEF LookupsInv, MakeRoom
  <2> QED
    BY <2>9, <2>10, <2>11 DEF Inv
<1>6. CASE Remember(b)
  <2> DEFINE x == request[b].now
             r == request[b].on
             e == [limit |-> known[b][x], expired |-> FALSE]
  <2>1. request[b] \in Request /\ r \in Replica /\ x \in Room /\ known[b][x] # Missing
    BY <1>1, <1>6 DEF TypeOK, LookupsInv, Remember, NoRequest, Request
  <2>2. e \in Entry /\ e.limit = known[b][x]
    BY <1>1, <2>1 DEF TypeOK, Entry
  <2>3. cache' = [cache EXCEPT ![r][x] = e]
    BY <1>6 DEF Remember
  <2>4. /\ cache' \in [Replica -> [Room -> Entry \cup {Absent}]]
        /\ \A q \in Replica, y \in Room :
             cache'[q][y] = IF q = r /\ y = x THEN e ELSE cache[q][y]
    BY <1>1, <2>1, <2>2, <2>3 DEF TypeOK
  <2>5. /\ request' \in [Batch -> Request \cup {NoRequest}]
        /\ \A c \in Batch : c # b => request'[c] = request[c]
        /\ request'[b].lookup \in {"filling", "done"}
    BY <1>1, <1>6, <2>1 DEF TypeOK, Remember, Request, Filling
  <2>6. known' = known
    BY <1>6 DEF Remember
  <2>7. TypeOK'
    BY <1>1, <1>2, <2>4, <2>5, <2>6 DEF TypeOK
  <2>8. TruthInv'
    BY <1>1, <1>2, <2>1, <2>2, <2>4, <2>6 DEF TruthInv, Resolve
  <2>9. LookupsInv'
    BY <1>1, <1>6, <2>5, <2>6 DEF LookupsInv, Remember
  <2> QED
    BY <2>7, <2>8, <2>9 DEF Inv
<1>7. CASE Over(b)
  <2>1. TypeOK'
    BY <1>1, <1>2, <1>7 DEF TypeOK, Over, Unknown
  <2>2. \A c \in Batch : IF c = b THEN request'[c] = NoRequest /\ known'[c] = Unknown
                         ELSE request'[c] = request[c] /\ known'[c] = known[c]
    BY <1>1, <1>7 DEF TypeOK, Over
  <2>3. cache' = cache
    BY <1>7 DEF Over
  <2>4. TruthInv'
    BY <1>1, <1>2, <2>2, <2>3 DEF TruthInv, Resolve, Unknown
  <2>5. LookupsInv'
    BY <1>1, <2>2 DEF LookupsInv, NoRequest
  <2> QED
    BY <2>1, <2>4, <2>5 DEF Inv
<1> QED
  BY <1>3, <1>4, <1>5, <1>6, <1>7 DEF BatchStep

(* Time and restarts only make a cache forget. *)
LEMMA ReplicaInv ==
  ASSUME Inv, NEW r \in Replica, Restart(r) \/ \E x \in Room : Expire(r, x)
  PROVE  Inv'
<1>1. TypeOK /\ TruthInv /\ LookupsInv
  BY DEF Inv
<1>2. UNCHANGED <<rows, inForce, patches>>
  BY DEF Restart, Expire, dbVars, adminVars
<1>3. CASE Restart(r)
  <2>1. TypeOK'
    BY <1>1, <1>2, <1>3 DEF TypeOK, Restart, Unknown
  <2>2. \A q \in Replica, x \in Room : cache'[q][x] = cache[q][x] \/ cache'[q][x] = Absent
    BY <1>1, <1>3 DEF TypeOK, Restart
  <2>3. \A c \in Batch : IF request[c].on = r THEN request'[c] = NoRequest /\ known'[c] = Unknown
                         ELSE request'[c] = request[c] /\ known'[c] = known[c]
    BY <1>1, <1>3 DEF TypeOK, Restart
  <2>4. TruthInv'
    BY <1>1, <1>2, <2>2, <2>3 DEF TruthInv, Resolve, Unknown
  <2>5. LookupsInv'
    BY <1>1, <2>3 DEF LookupsInv, NoRequest
  <2> QED
    BY <2>1, <2>4, <2>5 DEF Inv
<1>4. CASE \E x \in Room : Expire(r, x)
  <2>1. PICK x \in Room : Expire(r, x)
    BY <1>4
  <2>2. cache[r][x] \in Entry
    BY <1>1, <2>1 DEF TypeOK, Expire, Hit
  <2> DEFINE e == [cache[r][x] EXCEPT !.expired = TRUE]
  <2>3. e \in Entry /\ e.limit = cache[r][x].limit
    BY <2>2 DEF Entry
  <2>4. cache' = [cache EXCEPT ![r][x] = e]
    BY <1>1, <2>1 DEF TypeOK, Expire
  <2>5. /\ cache' \in [Replica -> [Room -> Entry \cup {Absent}]]
        /\ \A q \in Replica, y \in Room :
             cache'[q][y] = IF q = r /\ y = x THEN e ELSE cache[q][y]
    BY <1>1, <2>3, <2>4 DEF TypeOK
  <2>6. UNCHANGED <<patch, request, known>>
    BY <2>1 DEF Expire, adminVars, batchVars
  <2>7. TypeOK'
    BY <1>1, <1>2, <2>5, <2>6 DEF TypeOK
  <2>8. cache[r][x] # Absent
    BY <2>1 DEF Expire, Hit
  <2>9. TruthInv'
    BY <1>1, <1>2, <2>3, <2>5, <2>6, <2>8 DEF TruthInv, Resolve
  <2>10. LookupsInv'
    BY <1>1, <2>6 DEF LookupsInv
  <2> QED
    BY <2>7, <2>9, <2>10 DEF Inv
<1> QED
  BY <1>3, <1>4

LEMMA NextInv == Inv /\ [Next]_vars => Inv'
<1> SUFFICES ASSUME Inv, [Next]_vars PROVE Inv'
  OBVIOUS
<1>1. CASE Next
  BY <1>1, AdminInv, BatchInv, ReplicaInv DEF Next
<1>2. CASE UNCHANGED vars
  BY <1>2 DEF vars, dbVars, adminVars, batchVars, Inv, TypeOK, TruthInv, LookupsInv, Resolve
<1> QED
  BY <1>1, <1>2

LEMMA SpecInv == Spec => []Inv
BY InitInv, NextInv, PTL DEF Spec

(* Every variable keeps its type, limits of the cache and of requests      *)
(* included.                                                               *)
THEOREM TypeCorrect == Spec => []TypeOK
<1>1. Inv => TypeOK
  BY DEF Inv
<1> QED
  BY <1>1, SpecInv, PTL

(* A reading is never judged against a limit that was not in force for its *)
(* room: Thresholds' lookup keeps rooms apart and room rows on top,        *)
(* whatever the cache answers and however late.                            *)
THEOREM JudgementsAreEarned == Spec => []JudgedInForce
<1>1. Inv => JudgedInForce
  BY DEF Inv, TruthInv, LookupsInv, JudgedInForce
<1> QED
  BY <1>1, SpecInv, PTL

-----------------------------------------------------------------------------
(* Sensors.                                                                *)
Requests ==
  [step : {"none", "naming", "fetched", "named", "judged", "applied", "rejected"},
   change : Bench!Change, rooms : SUBSET Space, late : BOOLEAN, known : SUBSET Id]

BenchType ==
  /\ rooms \subseteq Space /\ registering \in BOOLEAN
  /\ names \subseteq [rooms : SUBSET Space, late : BOOLEAN]
  /\ batch \in [Asked -> Requests]
  /\ since \in [Asked -> SUBSET SUBSET Space]

(* The rooms are among those that were in force since a batch began.       *)
SinceInv == \A q \in Bench!UnderWay : rooms \in since[q]

(* An entry is right until the next upsert, unless it was late; after the  *)
(* upsert it is there no longer than until the drop.                       *)
NamesInv == \A entry \in names : entry.rooms = rooms \/ entry.late \/ registering

BenchInv == BenchType /\ SinceInv /\ NamesInv /\ JudgedByItsRooms

LEMMA BenchInit ==
  ASSUME Bench!Init
  PROVE  BenchInv
<1>1. Bench!NotAsked \in Requests /\ Bench!NotAsked.step = "none"
  BY DEF Bench!NotAsked, Bench!NoChange, Requests, Bench!Change, Bench!Place, Bench!None
<1>2. /\ rooms \subseteq Space /\ registering = FALSE /\ names = {}
      /\ batch = [q \in Asked |-> Bench!NotAsked] /\ since = [q \in Asked |-> {}]
  BY DEF Bench!Init
<1>3. BenchType
  BY <1>1, <1>2 DEF BenchType
<1>4. Bench!UnderWay = {}
  BY <1>1, <1>2 DEF Bench!UnderWay
<1> QED
  BY <1>2, <1>3, <1>4 DEF BenchInv, SinceInv, NamesInv, JudgedByItsRooms, Bench!JudgedByItsRooms

(* Batches stay as they are: the rooms are the same, or another value that *)
(* each batch under way has noted.                                         *)
LEMMA BuildingInv ==
  ASSUME BenchInv,
         \/ \E new \in SUBSET Space : Bench!Register(new)
         \/ Bench!DropEntry \/ Bench!EntryExpires
  PROVE  BenchInv'
<1>1. batch' = batch /\ Bench!UnderWay' = Bench!UnderWay
  BY DEF Bench!Register, Bench!DropEntry, Bench!EntryExpires, Bench!UnderWay
<1>2. CASE \E new \in SUBSET Space : Bench!Register(new)
  <2>1. PICK new \in SUBSET Space : Bench!Register(new)
    BY <1>2
  <2>2. /\ rooms' = new /\ registering' = TRUE /\ names' = names
        /\ since' = [q \in Asked |-> IF q \in Bench!UnderWay THEN since[q] \cup {new} ELSE since[q]]
    BY <2>1 DEF Bench!Register
  <2>3. \A q \in Asked : since'[q] \in SUBSET SUBSET Space /\ since[q] \subseteq since'[q]
    BY <2>2 DEF BenchInv, BenchType
  <2>4. BenchType'
    <3>1. since' \in [Asked -> SUBSET SUBSET Space]
      BY <2>2, <2>3
    <3> QED
      BY <1>1, <2>2, <3>1 DEF BenchInv, BenchType
  <2>5. SinceInv'
    BY <1>1, <2>2 DEF SinceInv, Bench!UnderWay
  <2>6. NamesInv'
    BY <2>2 DEF NamesInv
  <2>7. JudgedByItsRooms'
    BY <1>1, <2>3 DEF BenchInv, JudgedByItsRooms, Bench!JudgedByItsRooms, Bench!UnderWay
  <2> QED
    BY <2>4, <2>5, <2>6, <2>7 DEF BenchInv
<1>3. CASE Bench!DropEntry \/ Bench!EntryExpires
  <2>1. /\ rooms' = rooms /\ since' = since /\ names' = {} /\ registering' \in {registering, FALSE}
    BY <1>3 DEF Bench!DropEntry, Bench!EntryExpires, Bench!Dropped
  <2>2. BenchType'
    BY <1>1, <2>1 DEF BenchInv, BenchType
  <2>3. SinceInv' /\ NamesInv' /\ JudgedByItsRooms'
    BY <1>1, <2>1 DEF BenchInv, SinceInv, NamesInv, JudgedByItsRooms, Bench!JudgedByItsRooms
  <2> QED
    BY <2>2, <2>3 DEF BenchInv
<1> QED
  BY <1>2, <1>3

(* What one batch does, which notes no rooms unless it begins.             *)
LEMMA BatchStepInv ==
  ASSUME BenchInv, NEW q \in Asked, NEW asked \in Requests,
         batch' = [batch EXCEPT ![q] = asked],
         UNCHANGED <<rooms, registering>>,
         since' \in [Asked -> SUBSET SUBSET Space],
         \A p \in Asked \ {q} : since'[p] = since[p],
         asked.step \in {"naming", "fetched", "named", "judged"} => rooms \in since'[q],
         asked.step \in {"fetched", "named", "judged"} =>
            asked.rooms \in since'[q] \/ asked.late,
         names' \subseteq [rooms : SUBSET Space, late : BOOLEAN],
         \A entry \in names' : entry.rooms = rooms \/ entry.late \/ registering
  PROVE  BenchInv'
<1>1. batch'[q] = asked /\ \A p \in Asked \ {q} : batch'[p] = batch[p]
  BY DEF BenchInv, BenchType
<1>2. BenchType'
  BY DEF BenchInv, BenchType
<1>3. SinceInv'
  BY <1>1 DEF BenchInv, SinceInv, Bench!UnderWay
<1>4. NamesInv'
  BY DEF NamesInv
<1>5. JudgedByItsRooms'
  BY <1>1 DEF BenchInv, JudgedByItsRooms, Bench!JudgedByItsRooms, Bench!UnderWay
<1> QED
  BY <1>2, <1>3, <1>4, <1>5 DEF BenchInv

LEMMA AskInv ==
  ASSUME BenchInv, NEW q \in Asked, NEW change \in Bench!Change, Bench!Ask(q, change)
  PROVE  BenchInv'
<1> DEFINE asked == [Bench!NotAsked EXCEPT !.step = "naming", !.change = change]
<1>1. asked \in Requests /\ asked.step = "naming"
  BY DEF Bench!NotAsked, Requests
<1>2. /\ batch' = [batch EXCEPT ![q] = asked] /\ since' = [since EXCEPT ![q] = {rooms}]
      /\ UNCHANGED <<rooms, registering, names>>
  BY DEF Bench!Ask
<1>3. /\ since' \in [Asked -> SUBSET SUBSET Space] /\ rooms \in since'[q]
      /\ \A p \in Asked \ {q} : since'[p] = since[p]
  BY <1>2 DEF BenchInv, BenchType
<1>4. /\ names' \subseteq [rooms : SUBSET Space, late : BOOLEAN]
      /\ \A entry \in names' : entry.rooms = rooms \/ entry.late \/ registering
  BY <1>2 DEF BenchInv, BenchType, NamesInv
<1> HIDE DEF asked
<1> QED
  BY <1>1, <1>2, <1>3, <1>4, BatchStepInv

LEMMA NamesInvStep ==
  ASSUME BenchInv, NEW q \in Asked,
         Bench!NamesFromCache(q) \/ Bench!NamesFromStore(q) \/ Bench!ReadKnown(q)
  PROVE  BenchInv'
<1>1. /\ UNCHANGED <<rooms, registering, names, since>> /\ rooms \in since[q]
      /\ q \in Bench!UnderWay
  BY DEF Bench!NamesFromCache, Bench!NamesFromStore, Bench!ReadKnown, Bench!UnderWay,
         BenchInv, SinceInv
<1>2. batch[q] \in Requests
  BY DEF BenchInv, BenchType
<1>3. /\ since' \in [Asked -> SUBSET SUBSET Space] /\ rooms \in since'[q]
      /\ \A p \in Asked \ {q} : since'[p] = since[p]
      /\ names' \subseteq [rooms : SUBSET Space, late : BOOLEAN]
      /\ \A entry \in names' : entry.rooms = rooms \/ entry.late \/ registering
  BY <1>1 DEF BenchInv, BenchType, NamesInv
<1>4. CASE Bench!NamesFromCache(q)
  <2>1. PICK entry \in names :
          batch' = [batch EXCEPT ![q].step = "named", ![q].rooms = entry.rooms,
                                 ![q].late = entry.late \/ registering]
    BY <1>4 DEF Bench!NamesFromCache
  <2>2. /\ entry.rooms \in SUBSET Space /\ entry.late \in BOOLEAN /\ registering \in BOOLEAN
        /\ entry.rooms = rooms \/ entry.late \/ registering
    BY DEF BenchInv, BenchType, NamesInv
  <2>3. PICK flag \in BOOLEAN : flag = (entry.late \/ registering)
    BY <2>2
  <2>4. entry.rooms = rooms \/ flag
    BY <2>2, <2>3
  <2> DEFINE asked == [batch[q] EXCEPT !.step = "named", !.rooms = entry.rooms, !.late = flag]
  <2>5. asked \in Requests /\ asked.rooms = entry.rooms /\ asked.late = flag
    BY <1>2, <2>2 DEF Requests
  <2>6. batch' = [batch EXCEPT ![q] = asked]
    BY <2>1, <2>3
  <2> HIDE DEF asked
  <2>7. asked.rooms \in since'[q] \/ asked.late
    BY <1>3, <2>4, <2>5
  <2> QED
    BY <1>1, <1>3, <2>5, <2>6, <2>7, BatchStepInv
<1>5. CASE Bench!NamesFromStore(q)
  <2> DEFINE asked == [batch[q] EXCEPT !.step = "fetched", !.rooms = rooms]
  <2>1. asked \in Requests /\ asked.rooms = rooms
    BY <1>2 DEF Requests, BenchInv, BenchType
  <2>2. batch' = [batch EXCEPT ![q] = asked]
    BY <1>5 DEF Bench!NamesFromStore
  <2> HIDE DEF asked
  <2> QED
    BY <1>1, <1>3, <2>1, <2>2, BatchStepInv
<1>6. CASE Bench!ReadKnown(q)
  <2> DEFINE asked == [batch[q] EXCEPT !.step = "judged", !.known = Bench!Stored]
  <2>1. /\ asked \in Requests /\ asked.rooms = batch[q].rooms /\ asked.late = batch[q].late
    BY <1>2 DEF Requests, Bench!Stored
  <2>2. batch' = [batch EXCEPT ![q] = asked]
    BY <1>6 DEF Bench!ReadKnown
  <2>3. batch[q].rooms \in since[q] \/ batch[q].late
    BY <1>1, <1>6 DEF BenchInv, JudgedByItsRooms, Bench!JudgedByItsRooms, Bench!ReadKnown
  <2> HIDE DEF asked
  <2>4. asked.rooms \in since'[q] \/ asked.late
    BY <1>1, <2>1, <2>3
  <2> QED
    BY <1>1, <1>3, <2>1, <2>2, <2>4, BatchStepInv
<1> QED
  BY <1>4, <1>5, <1>6

LEMMA CacheNamesInv ==
  ASSUME BenchInv, NEW q \in Asked, Bench!CacheNames(q)
  PROVE  BenchInv'
<1>1. /\ UNCHANGED <<rooms, registering, since>> /\ batch[q].step = "fetched"
      /\ rooms \in since[q] /\ q \in Bench!UnderWay
  BY DEF Bench!CacheNames, Bench!UnderWay, BenchInv, SinceInv
<1>2. batch[q] \in Requests
  BY DEF BenchInv, BenchType
<1>3. PICK flag \in BOOLEAN : flag = (batch[q].rooms # rooms)
  OBVIOUS
<1>4. names' = {[rooms |-> batch[q].rooms, late |-> flag]}
  BY <1>3 DEF Bench!CacheNames
<1>5. /\ names' \subseteq [rooms : SUBSET Space, late : BOOLEAN]
      /\ \A entry \in names' : entry.rooms = rooms \/ entry.late \/ registering
  <2>1. batch[q].rooms = rooms \/ flag
    BY <1>3, Zenon
  <2>2. batch[q].rooms \in SUBSET Space
    BY <1>2 DEF Requests
  <2> QED
    BY <1>4, <2>1, <2>2
<1> DEFINE asked == [batch[q] EXCEPT !.step = "named"]
<1>6. /\ asked \in Requests /\ asked.rooms = batch[q].rooms /\ asked.late = batch[q].late
  BY <1>2 DEF Requests
<1>7. batch' = [batch EXCEPT ![q] = asked]
  BY DEF Bench!CacheNames
<1>8. batch[q].rooms \in since[q] \/ batch[q].late
  BY <1>1 DEF BenchInv, JudgedByItsRooms, Bench!JudgedByItsRooms
<1>9. /\ since' \in [Asked -> SUBSET SUBSET Space]
      /\ \A p \in Asked \ {q} : since'[p] = since[p]
  BY <1>1 DEF BenchInv, BenchType
<1> HIDE DEF asked
<1>10. asked.rooms \in since'[q] \/ asked.late
  BY <1>1, <1>6, <1>8
<1> QED
  BY <1>1, <1>5, <1>6, <1>7, <1>9, <1>10, BatchStepInv

LEMMA EndInv ==
  ASSUME BenchInv, NEW q \in Asked, Bench!Commit(q) \/ Bench!Reject(q) \/ Bench!Abort(q)
  PROVE  BenchInv'
<1>1. PICK outcome \in {"applied", "rejected"} : Bench!End(q, outcome)
  BY DEF Bench!Commit, Bench!Reject, Bench!Abort
<1>2. UNCHANGED <<rooms, registering, names>>
  BY DEF Bench!Commit, Bench!Reject, Bench!Abort
<1> DEFINE asked == [Bench!NotAsked EXCEPT !.step = outcome]
<1>3. asked \in Requests /\ asked.step \in {"applied", "rejected"}
  BY DEF Bench!NotAsked, Bench!NoChange, Requests, Bench!Change, Bench!Place, Bench!None
<1>4. batch' = [batch EXCEPT ![q] = asked] /\ since' = [since EXCEPT ![q] = {}]
  BY <1>1 DEF Bench!End
<1>5. /\ since' \in [Asked -> SUBSET SUBSET Space]
      /\ \A p \in Asked \ {q} : since'[p] = since[p]
      /\ names' \subseteq [rooms : SUBSET Space, late : BOOLEAN]
      /\ \A entry \in names' : entry.rooms = rooms \/ entry.late \/ registering
  BY <1>2, <1>4 DEF BenchInv, BenchType, NamesInv
<1> HIDE DEF asked
<1> QED
  BY <1>2, <1>3, <1>4, <1>5, BatchStepInv

LEMMA RestartInv ==
  ASSUME BenchInv, Bench!Restart
  PROVE  BenchInv'
<1> DEFINE asked == [Bench!NotAsked EXCEPT !.step = "rejected"]
<1>1. asked \in Requests /\ asked.step = "rejected"
  BY DEF Bench!NotAsked, Bench!NoChange, Requests, Bench!Change, Bench!Place, Bench!None
<1>2. /\ batch' = [q \in Asked |-> IF q \in Bench!UnderWay THEN asked ELSE batch[q]]
      /\ since' = [q \in Asked |-> {}]
      /\ names' = {} /\ registering' = FALSE /\ rooms' = rooms
  BY DEF Bench!Restart
<1> HIDE DEF asked
<1>3. BenchType'
  BY <1>1, <1>2 DEF BenchInv, BenchType
<1>4. Bench!UnderWay' = {}
  BY <1>1, <1>2 DEF Bench!UnderWay
<1> QED
  BY <1>2, <1>3, <1>4 DEF BenchInv, SinceInv, NamesInv, JudgedByItsRooms, Bench!JudgedByItsRooms

LEMMA BenchInvAlways == Bench!Spec => []BenchInv
<1>1. Bench!Init => BenchInv
  BY BenchInit
<1>2. BenchInv /\ [Bench!Next]_(Bench!vars) => BenchInv'
  <2> SUFFICES ASSUME BenchInv, [Bench!Next]_(Bench!vars)
               PROVE  BenchInv'
    OBVIOUS
  <2>1. CASE UNCHANGED Bench!vars
    <3>1. UNCHANGED <<rooms, registering, names, batch, since>>
      BY <2>1 DEF Bench!vars
    <3>2. BenchType' /\ SinceInv' /\ NamesInv' /\ JudgedByItsRooms'
      BY <3>1 DEF BenchInv, BenchType, SinceInv, NamesInv, JudgedByItsRooms,
                  Bench!JudgedByItsRooms, Bench!UnderWay
    <3> QED
      BY <3>2 DEF BenchInv
  <2>2. CASE \E new \in SUBSET Space : Bench!Register(new)
    BY <2>2, BuildingInv
  <2>3. ASSUME NEW q \in Asked, NEW change \in Bench!Change, Bench!Ask(q, change)
        PROVE  BenchInv'
    BY <2>3, AskInv
  <2>4. ASSUME NEW q \in Asked,
               Bench!NamesFromCache(q) \/ Bench!NamesFromStore(q) \/ Bench!CacheNames(q)
                 \/ Bench!ReadKnown(q) \/ Bench!Commit(q) \/ Bench!Reject(q) \/ Bench!Abort(q)
        PROVE  BenchInv'
    BY <2>4, NamesInvStep, CacheNamesInv, EndInv
  <2> QED
    BY <2>1, <2>2, <2>3, <2>4, BuildingInv, RestartInv DEF Bench!Next
<1> QED
  BY <1>1, <1>2, PTL DEF Bench!Spec

(* Telemetry judges a batch by rooms that were in force while it was under *)
(* way, whatever is registered beside it, unless it met an entry whose     *)
(* lookup overlapped an upsert or the instant before the entry is dropped. *)
THEOREM RoomsAreItsOwn == Bench!Spec => []JudgedByItsRooms
<1>1. BenchInv => JudgedByItsRooms
  BY DEF BenchInv
<1> QED
  BY <1>1, BenchInvAlways, PTL

-----------------------------------------------------------------------------
(* Placing.                                                                *)
Drafts == [added : [Ref -> Editor!Drafted], edited : [Editor!Ident -> Editor!Drafted],
           removed : SUBSET Editor!Ident]
Positions == [Editor!Ident -> Pos \cup {Editor!None}]
Batches == [upsert : Positions, delete : SUBSET Editor!Ident]
Calls == [draft : Drafts, batch : Batches, served : BOOLEAN]

EditorType ==
  /\ listed \subseteq Editor!Ident /\ refOf \in [Editor!Ident -> Ref \cup {Editor!None}]
  /\ accepted \in Positions /\ placements \in Positions
  /\ draft \in Drafts /\ unsent \in Batches
  /\ step \in {"idle", "telemetry", "twin"} /\ call \in Calls /\ late \subseteq Calls
  /\ disturbed \in BOOLEAN /\ lost \in Nat

(* What digital-twin has once it is told `told` is what telemetry took.    *)
Tells(told, placed, taken) ==
  \A x \in Editor!Ident :
    taken[x] = IF told.upsert[x] # Editor!None THEN told.upsert[x]
               ELSE IF x \in told.delete THEN Editor!None ELSE placed[x]

(* Sensors that telemetry has, or had.                                     *)
Given(refs) == Old \cup {x \in Editor!Ident : refs[x] # Editor!None}

(* What is told to go is gone for good.                                    *)
Gone(told, there, refs) == told.delete \cap there = {} /\ told.delete \subseteq Given(refs)

ListedInv == listed \subseteq Given(refOf)

(* What is to be told once telemetry's answer is in.                       *)
ToTell == Editor!Merged(unsent, Editor!ToPlacementBatch(call.draft, answered))
Awaited == step = "telemetry" /\ call.served

(* What digital-twin has and what it will be told make what telemetry      *)
(* took, whichever of the calls has been served.                           *)
Watched ==
  /\ late = {}
  /\ step = "telemetry" => draft = call.draft
  /\ Awaited => (Tells(ToTell, placements, accepted) /\ Gone(ToTell, listed, refOf))
  /\ (Awaited /\ call.draft # Editor!EmptyDraft)
       \/ (Tells(unsent, placements, accepted) /\ Gone(unsent, listed, refOf))
  /\ step = "twin" => call.batch = unsent
  /\ step = "twin" /\ call.served => \A x \in Editor!Ident : placements[x] = accepted[x]

WatchedInv == ~disturbed => Watched

(* A draft of a sensor is made once: it is there, or under way, until the  *)
(* answer empties it.                                                      *)
Made(r, refs) == \E x \in Editor!Ident : refs[x] = r
Once(refs) ==
  \A x, y \in Editor!Ident : refs[x] = refs[y] /\ refs[x] # Editor!None => x = y
Sent(r) == step = "telemetry" /\ call.draft.added[r] # Editor!None

MadeOnce ==
  /\ late = {} /\ Once(refOf)
  /\ \A r \in Ref :
       /\ Made(r, refOf) \/ draft.added[r] # Editor!None \/ Sent(r) => r \in added
       /\ Sent(r) /\ ~call.served => ~Made(r, refOf)
       /\ Made(r, refOf) /\ draft.added[r] # Editor!None => Sent(r) /\ call.served

MadeInv == lost = 0 => MadeOnce

EditorInv ==
  EditorType /\ ListedInv /\ UnsentIsAcceptable /\ WatchedInv /\ MadeInv

-----------------------------------------------------------------------------
LEMMA PlaceholdersDiffer ==
  /\ Editor!None \notin Pos /\ Editor!None \notin Ref /\ Editor!Nowhere # Editor!None
  /\ Old \subseteq Editor!Ident /\ New \subseteq Editor!Ident /\ Old \cap New = {}
BY FurnishingHolds DEF Editor!PlacingAssumption, Editor!None, Editor!Nowhere, Editor!Ident

LEMMA EmptyTyped ==
  /\ Editor!EmptyDraft \in Drafts /\ Editor!EmptyBatch \in Batches /\ Editor!NoCall \in Calls
  /\ Editor!Checked(Editor!EmptyBatch)
<1>1. Editor!EmptyDraft \in Drafts
  BY DEF Editor!EmptyDraft, Drafts, Editor!Drafted
<1>2. Editor!EmptyBatch \in Batches /\ Editor!Checked(Editor!EmptyBatch)
  BY DEF Editor!EmptyBatch, Batches, Positions, Editor!Checked
<1> QED
  BY <1>1, <1>2 DEF Editor!NoCall, Calls

(* What is merged into the rest is told as well, and names nothing twice.  *)
LEMMA MergedTyped ==
  ASSUME NEW older \in Batches, NEW newer \in Batches
  PROVE  /\ Editor!Merged(older, newer) \in Batches
         /\ Editor!Checked(Editor!Merged(older, newer))
<1> DEFINE gone == older.delete \cup newer.delete
           upsert == [x \in Editor!Ident |-> IF x \in gone THEN Editor!None
                                             ELSE Editor!Newer(older, newer)[x]]
<1>1. Editor!Merged(older, newer) = [upsert |-> upsert, delete |-> gone]
  BY DEF Editor!Merged
<1>2. gone \in SUBSET Editor!Ident
  BY DEF Batches
<1>3. \A x \in Editor!Ident : Editor!Newer(older, newer)[x] \in Pos \cup {Editor!None}
  BY DEF Editor!Newer, Batches, Positions
<1>4. upsert \in Positions /\ \A x \in gone : upsert[x] = Editor!None
  BY <1>2, <1>3 DEF Positions
<1> HIDE DEF gone, upsert
<1> QED
  BY <1>1, <1>2, <1>4 DEF Batches, Editor!Checked

LEMMA ToPlacementTyped ==
  ASSUME NEW d \in Drafts, NEW ids
  PROVE  Editor!ToPlacementBatch(d, ids) \in Batches
BY DEF Editor!ToPlacementBatch, Batches, Positions, Drafts

(* An empty draft leaves what is to be told as it is.                      *)
LEMMA NothingToAdd ==
  ASSUME NEW older \in Batches, Editor!Checked(older), NEW ids
  PROVE  Editor!Merged(older, Editor!ToPlacementBatch(Editor!EmptyDraft, ids)) = older
<1> DEFINE newer == Editor!ToPlacementBatch(Editor!EmptyDraft, ids)
<1>1. Editor!AddedIn(Editor!EmptyDraft) = {}
  BY DEF Editor!AddedIn, Editor!EmptyDraft
<1>2. newer.delete = {} /\ \A x \in Editor!Ident : newer.upsert[x] = Editor!None
  BY <1>1, PlaceholdersDiffer DEF Editor!ToPlacementBatch, Editor!EmptyDraft
<1> HIDE DEF newer
<1>3. PICK merged \in Batches : merged = Editor!Merged(older, newer)
  BY MergedTyped, ToPlacementTyped, EmptyTyped DEF newer
<1>4. merged.delete = older.delete
  BY <1>2, <1>3 DEF Editor!Merged
<1>5. \A x \in Editor!Ident : merged.upsert[x] = older.upsert[x]
  BY <1>2, <1>3 DEF Editor!Merged, Editor!Newer, Editor!Checked
<1>6. merged.upsert = older.upsert
  BY <1>5 DEF Batches, Positions
<1> QED
  BY <1>3, <1>4, <1>6 DEF Batches, newer

(* The ids that telemetry gives to the drafted sensors.                    *)
FreshlyGiven(d, ids, refs) ==
  /\ \A r \in Editor!AddedIn(d) : ids[r] \in New /\ refs[ids[r]] = Editor!None
  /\ \A r, q \in Editor!AddedIn(d) : ids[r] = ids[q] => r = q

(* Telemetry takes a draft: what is to be told grows by what it took.      *)
LEMMA TakenIsTold ==
  ASSUME NEW d \in Drafts, NEW ids, NEW held \in Batches, Editor!Checked(held),
         NEW placed, NEW taken, NEW there, NEW refs,
         Tells(held, placed, taken), Gone(held, there, refs), there \subseteq Given(refs),
         Editor!Targets(d) \subseteq there, FreshlyGiven(d, ids, refs),
         NEW taken2,
         \A x \in Editor!Ident : taken2[x] =
           IF x \in d.removed THEN Editor!None
           ELSE IF d.edited[x] \in Pos THEN d.edited[x]
           ELSE IF \E r \in Editor!AddedIn(d) : ids[r] = x /\ d.added[r] \in Pos
                THEN LET r == CHOOSE r \in Editor!AddedIn(d) : ids[r] = x IN d.added[r]
           ELSE taken[x]
  PROVE  Tells(Editor!Merged(held, Editor!ToPlacementBatch(d, ids)), placed, taken2)
<1>1. PICK newer \in Batches : newer = Editor!ToPlacementBatch(d, ids)
  BY ToPlacementTyped
<1>2. PICK told \in Batches : told = Editor!Merged(held, newer)
  BY MergedTyped
<1> SUFFICES ASSUME NEW x \in Editor!Ident
             PROVE  taken2[x] = IF told.upsert[x] # Editor!None THEN told.upsert[x]
                                ELSE IF x \in told.delete THEN Editor!None ELSE placed[x]
  BY <1>1, <1>2 DEF Tells
<1>3. /\ newer.delete = d.removed /\ told.delete = held.delete \cup d.removed
      /\ x \in told.delete => told.upsert[x] = Editor!None
      /\ x \notin told.delete =>
           told.upsert[x] = IF newer.upsert[x] # Editor!None THEN newer.upsert[x] ELSE held.upsert[x]
  BY <1>1, <1>2 DEF Editor!ToPlacementBatch, Editor!Merged, Editor!Newer
<1>4. taken[x] = IF held.upsert[x] # Editor!None THEN held.upsert[x]
                 ELSE IF x \in held.delete THEN Editor!None ELSE placed[x]
  BY DEF Tells
<1>5. d.edited[x] \in Pos => x \in there
  BY PlaceholdersDiffer DEF Editor!Targets
<1>6. \A r \in Editor!AddedIn(d) : ids[r] = x => x \notin Given(refs)
  BY PlaceholdersDiffer DEF FreshlyGiven, Given
<1>7. CASE x \in d.removed
  BY <1>3, <1>7
<1>8. CASE x \in held.delete \ d.removed
  <2>1. x \notin there /\ x \in Given(refs)
    BY <1>8 DEF Gone
  <2>2. taken2[x] = taken[x]
    BY <1>5, <1>6, <1>8, <2>1
  <2>3. held.upsert[x] = Editor!None
    BY <1>8 DEF Editor!Checked
  <2> QED
    BY <1>3, <1>4, <1>8, <2>2, <2>3
<1>9. CASE x \notin held.delete \cup d.removed /\ \E r \in Editor!AddedIn(d) : ids[r] = x
  <2>1. PICK r \in Editor!AddedIn(d) : ids[r] = x
    BY <1>9
  <2>2. (CHOOSE q \in Editor!AddedIn(d) : ids[q] = x) = r
    BY <2>1 DEF FreshlyGiven
  <2>3. d.edited[x] \notin Pos
    BY <1>5, <1>6, <2>1
  <2>4. newer.upsert[x] = IF d.added[r] \in Pos THEN d.added[r] ELSE Editor!None
    BY <1>1, <2>1, <2>2 DEF Editor!ToPlacementBatch
  <2>5. taken2[x] = IF d.added[r] \in Pos THEN d.added[r] ELSE taken[x]
    <3>1. CASE d.added[r] \in Pos
      BY <1>9, <2>1, <2>2, <2>3, <3>1
    <3>2. CASE d.added[r] \notin Pos
      <4>1. ~\E q \in Editor!AddedIn(d) : ids[q] = x /\ d.added[q] \in Pos
        BY <2>1, <3>2 DEF FreshlyGiven
      <4> QED
        BY <1>9, <2>3, <3>2, <4>1
    <3> QED
      BY <3>1, <3>2
  <2> QED
    BY <1>3, <1>4, <1>9, <2>4, <2>5, PlaceholdersDiffer
<1>10. CASE x \notin held.delete \cup d.removed /\ ~\E r \in Editor!AddedIn(d) : ids[r] = x
  <2>1. newer.upsert[x] = IF d.edited[x] \in Pos THEN d.edited[x] ELSE Editor!None
    BY <1>1, <1>10 DEF Editor!ToPlacementBatch
  <2>2. taken2[x] = IF d.edited[x] \in Pos THEN d.edited[x] ELSE taken[x]
    BY <1>10
  <2> QED
    BY <1>3, <1>4, <1>10, <2>1, <2>2, PlaceholdersDiffer
<1> QED
  BY <1>7, <1>8, <1>9, <1>10

(* What was to go stays gone: an id is given once.                         *)
LEMMA TakenStaysGone ==
  ASSUME NEW d \in Drafts, NEW ids, NEW held \in Batches, NEW there, NEW refs,
         Gone(held, there, refs), there \subseteq Given(refs),
         Editor!Targets(d) \subseteq there, FreshlyGiven(d, ids, refs),
         NEW there2, there2 = (there \ d.removed) \cup {ids[r] : r \in Editor!AddedIn(d)},
         NEW refs2, Given(refs) \subseteq Given(refs2)
  PROVE  Gone(Editor!Merged(held, Editor!ToPlacementBatch(d, ids)), there2, refs2)
<1>1. Editor!Merged(held, Editor!ToPlacementBatch(d, ids)).delete = held.delete \cup d.removed
  BY DEF Editor!Merged, Editor!ToPlacementBatch
<1>2. held.delete \cap there = {} /\ held.delete \subseteq Given(refs)
  BY DEF Gone
<1>3. d.removed \subseteq Given(refs)
  BY DEF Editor!Targets
<1>4. \A r \in Editor!AddedIn(d) : ids[r] \notin Given(refs)
  BY PlaceholdersDiffer DEF FreshlyGiven, Given
<1>5. (held.delete \cup d.removed) \cap there2 = {}
  BY <1>2, <1>3, <1>4
<1>6. held.delete \cup d.removed \subseteq Given(refs2)
  BY <1>2, <1>3
<1> QED
  BY <1>1, <1>5, <1>6 DEF Gone

-----------------------------------------------------------------------------
LEMMA EditorInit ==
  ASSUME Editor!Init
  PROVE  EditorInv
<1>1. /\ listed = Old /\ refOf = [x \in Editor!Ident |-> Editor!None]
      /\ placements \in Positions /\ accepted = placements
      /\ draft = Editor!EmptyDraft /\ unsent = Editor!EmptyBatch
      /\ step = "idle" /\ call = Editor!NoCall /\ late = {}
      /\ disturbed = FALSE /\ added = {} /\ lost = 0
  BY DEF Editor!Init, Positions
<1>2. EditorType
  BY <1>1, EmptyTyped, PlaceholdersDiffer DEF EditorType
<1>3. ListedInv
  BY <1>1 DEF ListedInv, Given
<1>4. UnsentIsAcceptable
  BY <1>1, EmptyTyped DEF UnsentIsAcceptable, Editor!UnsentIsAcceptable
<1>5. Tells(unsent, placements, accepted) /\ Gone(unsent, listed, refOf)
  BY <1>1 DEF Tells, Gone, Editor!EmptyBatch
<1>6. WatchedInv
  BY <1>1, <1>5 DEF WatchedInv, Watched, Awaited
<1>7. MadeInv
  BY <1>1, PlaceholdersDiffer DEF MadeInv, MadeOnce, Once, Made, Sent, Editor!EmptyDraft
<1> QED
  BY <1>2, <1>3, <1>4, <1>6, <1>7 DEF EditorInv

(* The user drafts something: what a save has taken up is not touched, or  *)
(* the save is disturbed.                                                  *)
LEMMA DraftingInv ==
  ASSUME EditorInv, draft' \in Drafts, disturbed' = (disturbed \/ step # "idle"),
         UNCHANGED <<listed, refOf, accepted, placements, unsent, step, call, answered, late, lost>>,
         added \subseteq added',
         lost = 0 =>
           \A r \in Ref : draft'.added[r] # Editor!None =>
             r \in added' /\ (draft.added[r] # Editor!None \/ r \notin added)
  PROVE  EditorInv'
<1>1. disturbed' \in BOOLEAN /\ (~disturbed' => ~disturbed /\ step = "idle")
  <2>1. (disturbed \/ step # "idle") \in BOOLEAN
    BY Zenon
  <2> QED
    BY <2>1, Zenon
<1>2. EditorType'
  BY <1>1 DEF EditorInv, EditorType
<1>3. ListedInv' /\ UnsentIsAcceptable'
  BY DEF EditorInv, ListedInv, UnsentIsAcceptable, Editor!UnsentIsAcceptable
<1>4. WatchedInv'
  BY <1>1 DEF EditorInv, WatchedInv, Watched, Awaited
<1>5. MadeInv'
  BY DEF EditorInv, MadeInv, MadeOnce, Sent
<1> QED
  BY <1>2, <1>3, <1>4, <1>5 DEF EditorInv

LEMMA UserInv ==
  ASSUME EditorInv,
         \/ \E r \in Ref :
              \/ Editor!RemoveNew(r)
              \/ \E to \in Pos \cup {Editor!Nowhere} : Editor!AddSensor(r, to) \/ Editor!MoveNew(r, to)
         \/ \E x \in Editor!Ident :
              \/ Editor!RemoveSaved(x)
              \/ \E to \in Pos \cup {Editor!Nowhere} : Editor!MoveSaved(x, to)
  PROVE  EditorInv'
<1>1. draft \in Drafts
  BY DEF EditorInv, EditorType
<1>2. \A r \in Ref : draft.added[r] # Editor!None /\ lost = 0 => r \in added
  BY DEF EditorInv, MadeInv, MadeOnce
<1>3. ASSUME NEW new, Editor!Drafting(new)
      PROVE  /\ draft' = new /\ disturbed' = (disturbed \/ step # "idle")
             /\ UNCHANGED <<listed, refOf, accepted, placements, unsent, step, call, answered,
                            late, lost>>
  BY <1>3 DEF Editor!Drafting, Editor!telemetryVars, Editor!callVars
<1>4. ASSUME NEW r \in Ref, NEW to \in Editor!Drafted,
             Editor!Drafting([draft EXCEPT !.added[r] = to]),
             (added' = added /\ (to = Editor!None \/ draft.added[r] # Editor!None))
               \/ (added' = added \cup {r} /\ r \notin added)
      PROVE  EditorInv'
  <2>1. /\ draft' = [draft EXCEPT !.added[r] = to] /\ disturbed' = (disturbed \/ step # "idle")
        /\ UNCHANGED <<listed, refOf, accepted, placements, unsent, step, call, answered,
                       late, lost>>
    BY <1>3, <1>4
  <2>2. /\ draft' \in Drafts /\ draft'.added[r] = to
        /\ \A q \in Ref \ {r} : draft'.added[q] = draft.added[q]
    BY <1>1, <2>1 DEF Drafts
  <2>3. added \subseteq added'
    BY <1>4
  <2>4. lost = 0 => \A q \in Ref : draft'.added[q] # Editor!None =>
          q \in added' /\ (draft.added[q] # Editor!None \/ q \notin added)
    BY <1>2, <1>4, <2>2
  <2> QED
    BY <2>1, <2>2, <2>3, <2>4, DraftingInv
<1>5. ASSUME NEW new \in Drafts, Editor!Drafting(new), new.added = draft.added, added' = added
      PROVE  EditorInv'
  <2>1. /\ draft' = new /\ disturbed' = (disturbed \/ step # "idle")
        /\ UNCHANGED <<listed, refOf, accepted, placements, unsent, step, call, answered,
                       late, lost>>
    BY <1>3, <1>5
  <2>2. lost = 0 => \A q \in Ref : draft'.added[q] # Editor!None =>
          q \in added' /\ (draft.added[q] # Editor!None \/ q \notin added)
    BY <1>2, <1>5, <2>1
  <2> QED
    BY <1>5, <2>1, <2>2, DraftingInv
<1>6. ASSUME NEW r \in Ref, Editor!RemoveNew(r)
      PROVE  EditorInv'
  <2>1. Editor!None \in Editor!Drafted /\ added' = added
    BY <1>6 DEF Editor!RemoveNew, Editor!Drafted
  <2> QED
    BY <1>4, <1>6, <2>1 DEF Editor!RemoveNew
<1>7. ASSUME NEW r \in Ref, NEW to \in Pos \cup {Editor!Nowhere},
             Editor!AddSensor(r, to) \/ Editor!MoveNew(r, to)
      PROVE  EditorInv'
  <2>1. to \in Editor!Drafted
    BY DEF Editor!Drafted
  <2> QED
    BY <1>4, <1>7, <2>1 DEF Editor!AddSensor, Editor!MoveNew
<1>8. ASSUME NEW x \in Editor!Ident, NEW to \in Pos \cup {Editor!Nowhere}, Editor!MoveSaved(x, to)
      PROVE  EditorInv'
  <2>1. to \in Editor!Drafted
    BY DEF Editor!Drafted
  <2>2. PICK new : new = [draft EXCEPT !.edited[x] = to]
    OBVIOUS
  <2>3. new \in Drafts /\ new.added = draft.added
    BY <1>1, <2>1, <2>2 DEF Drafts
  <2>4. Editor!Drafting(new) /\ added' = added
    BY <1>8, <2>2 DEF Editor!MoveSaved
  <2> QED
    BY <1>5, <2>3, <2>4
<1>9. ASSUME NEW x \in Editor!Ident, Editor!RemoveSaved(x)
      PROVE  EditorInv'
  <2>1. Editor!None \in Editor!Drafted
    BY DEF Editor!Drafted
  <2>2. PICK new : new = [draft EXCEPT !.edited[x] = Editor!None, !.removed = @ \cup {x}]
    OBVIOUS
  <2>3. new \in Drafts /\ new.added = draft.added
    BY <1>1, <2>1, <2>2 DEF Drafts
  <2>4. Editor!Drafting(new) /\ added' = added
    BY <1>9, <2>2 DEF Editor!RemoveSaved
  <2> QED
    BY <1>5, <2>3, <2>4
<1> QED
  BY <1>6, <1>7, <1>8, <1>9

LEMMA DiscardInv ==
  ASSUME EditorInv, Editor!Discard
  PROVE  EditorInv'
<1>1. /\ draft' = Editor!EmptyDraft /\ unsent' = Editor!EmptyBatch
      /\ disturbed' = (disturbed \/ step # "idle" \/ Editor!HasUnsent)
      /\ UNCHANGED <<listed, refOf, accepted, placements, step, call, answered, late, lost, added>>
  BY DEF Editor!Discard, Editor!telemetryVars, Editor!callVars, Editor!limitVars
<1>2. disturbed' \in BOOLEAN /\ (~disturbed' => ~disturbed /\ step = "idle" /\ unsent' = unsent)
  <2>1. (disturbed \/ step # "idle" \/ Editor!HasUnsent) \in BOOLEAN
    BY Zenon
  <2>2. disturbed' \in BOOLEAN
    BY <1>1, <2>1
  <2>3. ~disturbed' => ~disturbed /\ step = "idle" /\ ~Editor!HasUnsent
    BY <1>1, Zenon
  <2> QED
    BY <1>1, <2>2, <2>3 DEF Editor!HasUnsent
<1>3. EditorType'
  BY <1>1, <1>2, EmptyTyped DEF EditorInv, EditorType
<1>4. ListedInv' /\ UnsentIsAcceptable'
  BY <1>1, EmptyTyped DEF EditorInv, ListedInv, UnsentIsAcceptable, Editor!UnsentIsAcceptable
<1>5. WatchedInv'
  BY <1>1, <1>2 DEF EditorInv, WatchedInv, Watched, Awaited
<1>6. MadeInv'
  BY <1>1 DEF EditorInv, MadeInv, MadeOnce, Sent, Editor!EmptyDraft
<1> QED
  BY <1>3, <1>4, <1>5, <1>6 DEF EditorInv

LEMMA SendSensorsInv ==
  ASSUME EditorInv, Editor!SendSensors
  PROVE  EditorInv'
<1>1. PICK flag \in BOOLEAN : flag = (draft = Editor!EmptyDraft)
  OBVIOUS
<1>2. /\ step = "idle" /\ step' = "telemetry"
      /\ call' = [Editor!NoCall EXCEPT !.draft = draft, !.served = flag]
      /\ UNCHANGED <<listed, refOf, accepted, placements, draft, unsent, answered, late,
                     disturbed, lost, added>>
  BY <1>1 DEF Editor!SendSensors, Editor!telemetryVars, Editor!limitVars
<1>3. draft \in Drafts /\ unsent \in Batches /\ Editor!Checked(unsent)
  BY DEF EditorInv, EditorType, UnsentIsAcceptable, Editor!UnsentIsAcceptable
<1>4. /\ call' \in Calls /\ call'.draft = draft /\ call'.served = flag
  BY <1>2, <1>3, EmptyTyped DEF Editor!NoCall, Calls
<1>5. flag => draft = Editor!EmptyDraft
  BY <1>1, Zenon
<1>6. flag => ToTell' = unsent
  BY <1>2, <1>3, <1>4, <1>5, NothingToAdd DEF ToTell
<1>7. EditorType'
  BY <1>2, <1>4 DEF EditorInv, EditorType
<1>8. ListedInv' /\ UnsentIsAcceptable'
  BY <1>2 DEF EditorInv, ListedInv, UnsentIsAcceptable, Editor!UnsentIsAcceptable
<1>9. WatchedInv'
  <2> SUFFICES ASSUME ~disturbed'
               PROVE  Watched'
    BY DEF WatchedInv
  <2>1. late = {} /\ Tells(unsent, placements, accepted) /\ Gone(unsent, listed, refOf)
    BY <1>2 DEF EditorInv, WatchedInv, Watched, Awaited
  <2>2. Awaited' => Tells(ToTell', placements', accepted') /\ Gone(ToTell', listed', refOf')
    BY <1>2, <1>4, <1>6, <2>1 DEF Awaited
  <2> QED
    BY <1>2, <1>4, <2>1, <2>2 DEF Watched
<1>10. MadeInv'
  <2> SUFFICES ASSUME lost = 0
               PROVE  MadeOnce'
    BY <1>2 DEF MadeInv
  <2>1. MadeOnce
    BY DEF EditorInv, MadeInv
  <2>2. \A r \in Ref : Made(r, refOf) => draft.added[r] = Editor!None
    BY <1>2, <2>1 DEF MadeOnce, Sent
  <2>3. \A r \in Ref : Sent(r)' <=> draft.added[r] # Editor!None
    BY <1>2, <1>4 DEF Sent
  <2> QED
    BY <1>2, <2>1, <2>2, <2>3 DEF MadeOnce
<1> QED
  BY <1>7, <1>8, <1>9, <1>10 DEF EditorInv

-----------------------------------------------------------------------------
(* What telemetry has once it has taken a draft.                           *)
LEMMA Taken ==
  ASSUME EditorType, ListedInv, NEW d \in Drafts, NEW ids \in Editor!IdsFor(d),
         Editor!Apply(d, ids)
  PROVE  /\ FreshlyGiven(d, ids, refOf)
         /\ listed' \subseteq Editor!Ident /\ refOf' \in [Editor!Ident -> Ref \cup {Editor!None}]
         /\ accepted' \in Positions
         /\ Given(refOf) \subseteq Given(refOf') /\ listed' \subseteq Given(refOf')
         /\ \A x \in Editor!Ident :
              \/ \E r \in Editor!AddedIn(d) : ids[r] = x /\ refOf'[x] = r /\ refOf[x] = Editor!None
              \/ refOf'[x] = refOf[x] /\ \A r \in Editor!AddedIn(d) : ids[r] # x
<1>1. FreshlyGiven(d, ids, refOf)
  <2>1. \A r \in Editor!AddedIn(d) : r \in Ref /\ ids[r] \in Editor!FreshIds
    BY DEF Editor!IdsFor, Editor!AddedIn
  <2>2. \A r, q \in Editor!AddedIn(d) : ids[r] = ids[q] => r = q
    BY DEF Editor!IdsFor
  <2> QED
    BY <2>1, <2>2 DEF FreshlyGiven, Editor!FreshIds
<1>2. \A x \in Editor!Ident :
        \/ \E r \in Editor!AddedIn(d) : ids[r] = x /\ refOf'[x] = r /\ refOf[x] = Editor!None
        \/ refOf'[x] = refOf[x] /\ \A r \in Editor!AddedIn(d) : ids[r] # x
  <2> SUFFICES ASSUME NEW x \in Editor!Ident, NEW r \in Editor!AddedIn(d), ids[r] = x
               PROVE  refOf'[x] = r /\ refOf[x] = Editor!None
    BY DEF Editor!Apply
  <2>1. (CHOOSE q \in Editor!AddedIn(d) : ids[q] = x) = r
    BY <1>1 DEF FreshlyGiven
  <2> QED
    BY <1>1, <2>1 DEF Editor!Apply, FreshlyGiven
<1>3. refOf' \in [Editor!Ident -> Ref \cup {Editor!None}]
  <2>1. \A x \in Editor!Ident : refOf'[x] \in Ref \cup {Editor!None}
    BY <1>2 DEF EditorType, Editor!AddedIn
  <2>2. refOf' = [x \in Editor!Ident |-> refOf'[x]]
    BY DEF Editor!Apply
  <2> QED
    BY <2>1, <2>2
<1>4. accepted' \in Positions
  <2>1. \A x \in Editor!Ident : accepted[x] \in Pos \cup {Editor!None}
    BY DEF EditorType, Positions
  <2>2. ASSUME NEW x \in Editor!Ident
        PROVE  accepted'[x] \in Pos \cup {Editor!None}
    <3>1. CASE \E r \in Editor!AddedIn(d) : ids[r] = x /\ d.added[r] \in Pos
      <4>1. PICK r \in Editor!AddedIn(d) : ids[r] = x /\ d.added[r] \in Pos
        BY <3>1
      <4>2. (CHOOSE q \in Editor!AddedIn(d) : ids[q] = x) = r
        BY <1>1, <4>1 DEF FreshlyGiven
      <4> QED
        BY <2>1, <4>1, <4>2 DEF Editor!Apply
    <3>2. CASE ~\E r \in Editor!AddedIn(d) : ids[r] = x /\ d.added[r] \in Pos
      BY <2>1, <3>2 DEF Editor!Apply
    <3> QED
      BY <3>1, <3>2
  <2>3. accepted' = [x \in Editor!Ident |-> accepted'[x]]
    BY DEF Editor!Apply
  <2> QED
    BY <2>2, <2>3 DEF Positions
<1>5. Given(refOf) \subseteq Given(refOf')
  BY <1>2, PlaceholdersDiffer DEF Given, Editor!AddedIn
<1>6. listed' = (listed \ d.removed) \cup {ids[r] : r \in Editor!AddedIn(d)}
  BY DEF Editor!Apply
<1>7. \A r \in Editor!AddedIn(d) : ids[r] \in Editor!Ident /\ refOf'[ids[r]] # Editor!None
  BY <1>1, <1>2, PlaceholdersDiffer DEF FreshlyGiven, Editor!AddedIn
<1>8. listed' \subseteq Editor!Ident /\ listed' \subseteq Given(refOf')
  BY <1>5, <1>6, <1>7 DEF EditorType, ListedInv, Given
<1> QED
  BY <1>1, <1>2, <1>3, <1>4, <1>5, <1>8

LEMMA ServeSensorsInv ==
  ASSUME EditorInv, Editor!ServeSensors
  PROVE  EditorInv'
<1>1. PICK ids \in Editor!IdsFor(call.draft) : Editor!Apply(call.draft, ids) /\ answered' = ids
  BY DEF Editor!ServeSensors
<1>2. /\ step = "telemetry" /\ call.served = FALSE /\ Editor!Acceptable(call.draft)
      /\ call' = [call EXCEPT !.served = TRUE]
      /\ UNCHANGED <<placements, draft, unsent, step, late, disturbed, lost, added>>
  BY DEF Editor!ServeSensors, Editor!limitVars, EditorInv, EditorType, Calls
<1>3. call.draft \in Drafts /\ call' \in Calls /\ call'.draft = call.draft /\ call'.served = TRUE
  BY <1>2 DEF EditorInv, EditorType, Calls
<1>4. unsent \in Batches /\ Editor!Checked(unsent)
  BY DEF EditorInv, EditorType, UnsentIsAcceptable, Editor!UnsentIsAcceptable
<1>5. PICK d \in Drafts : d = call.draft
  BY <1>3
<1>6. ids \in Editor!IdsFor(d) /\ Editor!Apply(d, ids) /\ Editor!Targets(d) \subseteq listed
  BY <1>1, <1>2, <1>5 DEF Editor!Acceptable
<1>7. /\ FreshlyGiven(d, ids, refOf)
      /\ listed' \subseteq Editor!Ident /\ refOf' \in [Editor!Ident -> Ref \cup {Editor!None}]
      /\ accepted' \in Positions
      /\ Given(refOf) \subseteq Given(refOf') /\ listed' \subseteq Given(refOf')
      /\ \A x \in Editor!Ident :
           \/ \E r \in Editor!AddedIn(d) : ids[r] = x /\ refOf'[x] = r /\ refOf[x] = Editor!None
           \/ refOf'[x] = refOf[x] /\ \A r \in Editor!AddedIn(d) : ids[r] # x
  BY <1>6, Taken DEF EditorInv
<1>8. EditorType'
  BY <1>2, <1>3, <1>7 DEF EditorInv, EditorType
<1>9. ListedInv' /\ UnsentIsAcceptable'
  BY <1>2, <1>7 DEF EditorInv, ListedInv, UnsentIsAcceptable, Editor!UnsentIsAcceptable
<1>10. WatchedInv'
  <2> SUFFICES ASSUME ~disturbed'
               PROVE  Watched'
    BY DEF WatchedInv
  <2>1. /\ late = {} /\ draft = call.draft
        /\ Tells(unsent, placements, accepted) /\ Gone(unsent, listed, refOf)
    BY <1>2 DEF EditorInv, WatchedInv, Watched, Awaited
  <2>2. ToTell' = Editor!Merged(unsent, Editor!ToPlacementBatch(d, ids))
    BY <1>1, <1>2, <1>3, <1>5 DEF ToTell
  <2>3. listed \subseteq Given(refOf)
    BY DEF EditorInv, ListedInv
  <2>4. \A x \in Editor!Ident : accepted'[x] =
           IF x \in d.removed THEN Editor!None
           ELSE IF d.edited[x] \in Pos THEN d.edited[x]
           ELSE IF \E r \in Editor!AddedIn(d) : ids[r] = x /\ d.added[r] \in Pos
                THEN LET r == CHOOSE r \in Editor!AddedIn(d) : ids[r] = x IN d.added[r]
           ELSE accepted[x]
    BY <1>6 DEF Editor!Apply
  <2>5. Tells(ToTell', placements, accepted')
    BY <1>4, <1>6, <1>7, <2>1, <2>2, <2>3, <2>4, TakenIsTold
  <2>6. listed' = (listed \ d.removed) \cup {ids[r] : r \in Editor!AddedIn(d)}
    BY <1>6 DEF Editor!Apply
  <2>7. Gone(ToTell', listed', refOf')
    BY <1>4, <1>6, <1>7, <2>1, <2>2, <2>3, <2>6, TakenStaysGone
  <2>8. CASE d = Editor!EmptyDraft
    <3>1. ToTell' = unsent
      BY <1>4, <2>2, <2>8, NothingToAdd
    <3> QED
      BY <1>2, <1>3, <2>1, <2>5, <2>7, <3>1 DEF Watched
  <2>9. CASE d # Editor!EmptyDraft
    BY <1>2, <1>3, <1>5, <2>1, <2>5, <2>7, <2>9 DEF Watched, Awaited
  <2> QED
    BY <2>8, <2>9
<1>11. MadeInv'
  <2> SUFFICES ASSUME lost = 0
               PROVE  MadeOnce'
    BY <1>2 DEF MadeInv
  <2>1. MadeOnce
    BY DEF EditorInv, MadeInv
  <2>2. \A r \in Ref : Sent(r) <=> r \in Editor!AddedIn(d)
    BY <1>2, <1>5 DEF Sent, Editor!AddedIn
  <2>3. \A r \in Ref : Made(r, refOf') => Made(r, refOf) \/ r \in Editor!AddedIn(d)
    BY <1>7 DEF Made
  <2>4. \A r \in Editor!AddedIn(d) : r \in Ref /\ ~Made(r, refOf)
    BY <1>2, <2>1, <2>2 DEF MadeOnce, Editor!AddedIn
  <2>5. Once(refOf')
    <3> SUFFICES ASSUME NEW x \in Editor!Ident, NEW y \in Editor!Ident,
                        refOf'[x] = refOf'[y], refOf'[x] # Editor!None
                 PROVE  x = y
      BY DEF Once
    <3>1. CASE refOf'[x] \in Editor!AddedIn(d)
      <4>1. ids[refOf'[x]] = x
        BY <1>7, <2>4, <3>1 DEF Made
      <4>2. ids[refOf'[y]] = y
        BY <1>7, <2>4, <3>1 DEF Made
      <4> QED
        BY <4>1, <4>2
    <3>2. CASE refOf'[x] \notin Editor!AddedIn(d)
      <4>1. refOf'[x] = refOf[x] /\ refOf'[y] = refOf[y]
        BY <1>7, <3>2
      <4> QED
        BY <2>1, <4>1 DEF MadeOnce, Once
    <3> QED
      BY <3>1, <3>2
  <2>6. \A r \in Ref : Sent(r)' <=> Sent(r)
    BY <1>2, <1>3 DEF Sent
  <2>7. ASSUME NEW r \in Ref
        PROVE  /\ Made(r, refOf') \/ draft.added[r] # Editor!None \/ Sent(r) => r \in added
               /\ Made(r, refOf') /\ draft.added[r] # Editor!None => Sent(r)
    BY <1>2, <2>1, <2>2, <2>3 DEF MadeOnce
  <2> QED
    BY <1>2, <1>3, <2>1, <2>5, <2>6, <2>7 DEF MadeOnce
<1> QED
  BY <1>8, <1>9, <1>10, <1>11 DEF EditorInv

LEMMA SensorsSavedInv ==
  ASSUME EditorInv, Editor!SensorsSaved
  PROVE  EditorInv'
<1>1. PICK told : told = Editor!Merged(unsent, Editor!ToPlacementBatch(draft, answered))
  OBVIOUS
<1>2. PICK flag \in BOOLEAN : flag = (told = Editor!EmptyBatch)
  OBVIOUS
<1>3. /\ step = "telemetry" /\ call.served /\ step' = "twin"
      /\ unsent' = told /\ draft' = Editor!EmptyDraft
      /\ call' = [Editor!NoCall EXCEPT !.batch = told, !.served = flag]
      /\ UNCHANGED <<listed, refOf, accepted, placements, late, disturbed, lost, added>>
  BY <1>1, <1>2 DEF Editor!SensorsSaved, Editor!Emptied, Editor!telemetryVars, Editor!limitVars
<1>4. told \in Batches /\ Editor!Checked(told)
  BY <1>1, MergedTyped, ToPlacementTyped DEF EditorInv, EditorType
<1>5. call' \in Calls /\ call'.batch = told /\ call'.served = flag
  BY <1>3, <1>4, EmptyTyped DEF Editor!NoCall, Calls
<1>6. EditorType'
  BY <1>3, <1>4, <1>5, EmptyTyped DEF EditorInv, EditorType
<1>7. ListedInv' /\ UnsentIsAcceptable'
  BY <1>3, <1>4 DEF EditorInv, ListedInv, UnsentIsAcceptable, Editor!UnsentIsAcceptable
<1>8. WatchedInv'
  <2> SUFFICES ASSUME ~disturbed'
               PROVE  Watched'
    BY DEF WatchedInv
  <2>1. late = {} /\ told = ToTell
    BY <1>1, <1>3 DEF EditorInv, WatchedInv, Watched, ToTell
  <2>2. Tells(told, placements, accepted) /\ Gone(told, listed, refOf)
    BY <1>3, <2>1 DEF EditorInv, WatchedInv, Watched, Awaited
  <2>3. flag => \A x \in Editor!Ident : placements[x] = accepted[x]
    <3>1. flag => told = Editor!EmptyBatch
      BY <1>2, Zenon
    <3> QED
      BY <2>2, <3>1 DEF Tells, Editor!EmptyBatch
  <2> QED
    BY <1>3, <1>5, <2>1, <2>2, <2>3 DEF Watched, Awaited
<1>9. MadeInv'
  BY <1>3 DEF EditorInv, MadeInv, MadeOnce, Sent, Editor!EmptyDraft
<1> QED
  BY <1>6, <1>7, <1>8, <1>9 DEF EditorInv

LEMMA ServePlacementsInv ==
  ASSUME EditorInv, Editor!ServePlacements
  PROVE  EditorInv'
<1>1. /\ step = "twin" /\ placements' = Editor!Placed(call.batch)
      /\ call' = [call EXCEPT !.served = TRUE]
      /\ UNCHANGED <<listed, refOf, accepted, draft, unsent, step, late, disturbed, lost, added>>
  BY DEF Editor!ServePlacements, Editor!telemetryVars, Editor!limitVars
<1>2. /\ call.batch \in Batches /\ call' \in Calls
      /\ call'.batch = call.batch /\ call'.served = TRUE
  BY <1>1 DEF EditorInv, EditorType, Calls
<1>3. placements' \in Positions
  BY <1>1, <1>2 DEF EditorInv, EditorType, Editor!Placed, Batches, Positions
<1>4. EditorType'
  BY <1>1, <1>2, <1>3 DEF EditorInv, EditorType
<1>5. ListedInv' /\ UnsentIsAcceptable'
  BY <1>1 DEF EditorInv, ListedInv, UnsentIsAcceptable, Editor!UnsentIsAcceptable
<1>6. WatchedInv'
  <2> SUFFICES ASSUME ~disturbed'
               PROVE  Watched'
    BY DEF WatchedInv
  <2>1. /\ late = {} /\ call.batch = unsent
        /\ Tells(unsent, placements, accepted) /\ Gone(unsent, listed, refOf)
    BY <1>1 DEF EditorInv, WatchedInv, Watched, Awaited
  <2>2. \A x \in Editor!Ident : placements'[x] = accepted[x]
    BY <1>1, <2>1 DEF Tells, Editor!Placed
  <2>3. Tells(unsent, placements', accepted)
    BY <2>1, <2>2 DEF Tells
  <2> QED
    BY <1>1, <1>2, <2>1, <2>2, <2>3 DEF Watched, Awaited
<1>7. MadeInv'
  BY <1>1 DEF EditorInv, MadeInv, MadeOnce, Sent
<1> QED
  BY <1>4, <1>5, <1>6, <1>7 DEF EditorInv

LEMMA PlacementsSavedInv ==
  ASSUME EditorInv, Editor!PlacementsSaved
  PROVE  EditorInv'
<1>1. /\ step = "twin" /\ call.served /\ step' = "idle"
      /\ unsent' = Editor!EmptyBatch /\ call' = Editor!NoCall
      /\ UNCHANGED <<listed, refOf, accepted, placements, draft, late, disturbed, lost, added>>
  BY DEF Editor!PlacementsSaved, Editor!telemetryVars, Editor!limitVars
<1>2. EditorType'
  BY <1>1, EmptyTyped DEF EditorInv, EditorType
<1>3. ListedInv' /\ UnsentIsAcceptable'
  BY <1>1, EmptyTyped DEF EditorInv, ListedInv, UnsentIsAcceptable, Editor!UnsentIsAcceptable
<1>4. WatchedInv'
  <2> SUFFICES ASSUME ~disturbed'
               PROVE  Watched'
    BY DEF WatchedInv
  <2>1. late = {} /\ \A x \in Editor!Ident : placements[x] = accepted[x]
    BY <1>1 DEF EditorInv, WatchedInv, Watched
  <2>2. Tells(unsent', placements, accepted) /\ Gone(unsent', listed, refOf)
    BY <1>1, <2>1 DEF Tells, Gone, Editor!EmptyBatch
  <2> QED
    BY <1>1, <2>1, <2>2 DEF Watched, Awaited
<1>5. MadeInv'
  BY <1>1 DEF EditorInv, MadeInv, MadeOnce, Sent
<1> QED
  BY <1>2, <1>3, <1>4, <1>5 DEF EditorInv

(* A save that fails without a call being lost has not been served: what   *)
(* was to be told is still kept, and the draft is still the whole draft.   *)
LEMMA SaveFailsInv ==
  ASSUME EditorInv, Editor!SaveFails
  PROVE  EditorInv'
<1> DEFINE Missed == late' # late \/ (step = "telemetry" /\ call.served /\ call.draft # Editor!EmptyDraft)
<1>1. /\ step # "idle" /\ step' = "idle" /\ call' = Editor!NoCall /\ unsent' = unsent
      /\ UNCHANGED <<listed, refOf, accepted, placements, draft, added>>
  BY DEF Editor!SaveFails, Editor!AfterFailure, Editor!telemetryVars
<1>2. IF Missed THEN lost' = lost + 1 /\ disturbed' = TRUE ELSE UNCHANGED <<lost, disturbed>>
  BY DEF Editor!SaveFails
<1>3. late' \subseteq Calls
  <2>1. call \in Calls /\ late \subseteq Calls
    BY DEF EditorInv, EditorType
  <2>2. [call EXCEPT !.served = TRUE] \in Calls
    BY <2>1 DEF Calls
  <2>3. late' = late \/ late' = late \cup {[call EXCEPT !.served = TRUE]}
    BY DEF Editor!SaveFails
  <2> QED
    BY <2>1, <2>2, <2>3
<1>4. EditorType'
  <2>1. EditorType
    BY DEF EditorInv
  <2>2. disturbed' \in BOOLEAN /\ lost' \in Nat
    <3>1. disturbed \in BOOLEAN /\ lost \in Nat
      BY <2>1 DEF EditorType
    <3> HIDE DEF Missed
    <3>2. CASE Missed
      <4>1. lost' = lost + 1 /\ disturbed' = TRUE
        BY <1>2, <3>2, Zenon
      <4> QED
        BY <3>1, <4>1
    <3>3. CASE ~Missed
      <4>1. UNCHANGED <<lost, disturbed>>
        BY <1>2, <3>3, Zenon
      <4> QED
        BY <3>1, <4>1
    <3> QED
      BY <3>2, <3>3
  <2> HIDE DEF Missed
  <2> QED
    BY <1>1, <1>3, <2>1, <2>2, EmptyTyped DEF EditorType
<1>5. ListedInv' /\ UnsentIsAcceptable'
  BY <1>1 DEF EditorInv, ListedInv, UnsentIsAcceptable, Editor!UnsentIsAcceptable
<1>6. WatchedInv'
  <2> SUFFICES ASSUME ~disturbed'
               PROVE  Watched'
    BY DEF WatchedInv
  <2>1. ~Missed /\ ~disturbed
    BY <1>2
  <2>2. late' = {} /\ Tells(unsent, placements, accepted) /\ Gone(unsent, listed, refOf)
    BY <2>1 DEF EditorInv, WatchedInv, Watched, Awaited
  <2> QED
    BY <1>1, <2>2 DEF Watched, Awaited
<1>7. MadeInv'
  <2> SUFFICES ASSUME lost' = 0
               PROVE  MadeOnce'
    BY DEF MadeInv
  <2>1. lost \in Nat
    BY DEF EditorInv, EditorType
  <2>2. ~Missed /\ lost = 0
    BY <1>2, <2>1
  <2>3. MadeOnce /\ late' = late
    BY <2>2 DEF EditorInv, MadeInv
  <2>4. \A r \in Ref : Sent(r) /\ call.served => FALSE
    BY <2>2 DEF Sent, Editor!EmptyDraft
  <2>5. \A r \in Ref : ~Sent(r)'
    BY <1>1 DEF Sent
  <2> QED
    BY <1>1, <2>3, <2>4, <2>5 DEF MadeOnce
<1> QED
  BY <1>4, <1>5, <1>6, <1>7 DEF EditorInv

(* A call that is late has been missed before.                             *)
LEMMA ArriveLateInv ==
  ASSUME EditorInv, NEW c \in late, Editor!ArriveLate(c)
  PROVE  EditorInv'
<1>1. /\ late' \subseteq late
      /\ UNCHANGED <<draft, unsent, step, call, disturbed, lost>>
      /\ \/ /\ placements' = placements
            /\ \E ids \in Editor!IdsFor(c.draft) : Editor!Apply(c.draft, ids)
         \/ placements' = placements /\ UNCHANGED <<listed, refOf, accepted>>
         \/ placements' = Editor!Placed(c.batch) /\ UNCHANGED <<listed, refOf, accepted>>
  BY DEF Editor!ArriveLate, Editor!telemetryVars, Editor!callVars, Editor!limitVars
<1>2. c.draft \in Drafts /\ c.batch \in Batches
  BY DEF EditorInv, EditorType, Calls
<1>3. placements' \in Positions
  BY <1>1, <1>2 DEF EditorInv, EditorType, Editor!Placed, Batches, Positions
<1>4. /\ listed' \subseteq Editor!Ident /\ refOf' \in [Editor!Ident -> Ref \cup {Editor!None}]
      /\ accepted' \in Positions /\ listed' \subseteq Given(refOf')
  <2>1. CASE UNCHANGED <<listed, refOf, accepted>>
    BY <2>1 DEF EditorInv, EditorType, ListedInv
  <2>2. CASE \E ids \in Editor!IdsFor(c.draft) : Editor!Apply(c.draft, ids)
    <3>1. PICK d \in Drafts : d = c.draft
      BY <1>2
    <3>2. PICK ids \in Editor!IdsFor(d) : Editor!Apply(d, ids)
      BY <2>2, <3>1
    <3> QED
      BY <3>2, Taken DEF EditorInv
  <2> QED
    BY <1>1, <2>1, <2>2
<1>5. EditorType'
  BY <1>1, <1>3, <1>4 DEF EditorInv, EditorType
<1>6. ListedInv' /\ UnsentIsAcceptable'
  BY <1>1, <1>4 DEF EditorInv, ListedInv, UnsentIsAcceptable, Editor!UnsentIsAcceptable
<1>7. WatchedInv' /\ MadeInv'
  BY <1>1 DEF EditorInv, WatchedInv, Watched, MadeInv, MadeOnce
<1> QED
  BY <1>5, <1>6, <1>7 DEF EditorInv

LEMMA OtherRemovesInv ==
  ASSUME EditorInv, NEW x \in Editor!Ident, Editor!OtherRemoves(x)
  PROVE  EditorInv'
<1>1. /\ listed' = listed \ {x} /\ accepted' = [accepted EXCEPT ![x] = Editor!None]
      /\ placements' = [placements EXCEPT ![x] = Editor!None]
      /\ disturbed' = (disturbed \/ step # "idle" \/ unsent.upsert[x] # Editor!None)
      /\ UNCHANGED <<refOf, draft, unsent, step, call, answered, late, added, lost>>
  BY DEF Editor!OtherRemoves, Editor!callVars
<1>2. /\ disturbed' \in BOOLEAN
      /\ ~disturbed' => ~disturbed /\ step = "idle" /\ unsent.upsert[x] = Editor!None
  <2>1. (disturbed \/ step # "idle" \/ unsent.upsert[x] # Editor!None) \in BOOLEAN
    BY Zenon
  <2> QED
    BY <1>1, <2>1, Zenon
<1>3. /\ accepted' \in Positions /\ placements' \in Positions
      /\ accepted'[x] = Editor!None /\ placements'[x] = Editor!None
      /\ \A y \in Editor!Ident \ {x} : accepted'[y] = accepted[y] /\ placements'[y] = placements[y]
  BY <1>1 DEF EditorInv, EditorType, Positions
<1>4. EditorType'
  BY <1>1, <1>2, <1>3 DEF EditorInv, EditorType
<1>5. ListedInv' /\ UnsentIsAcceptable'
  BY <1>1 DEF EditorInv, ListedInv, UnsentIsAcceptable, Editor!UnsentIsAcceptable
<1>6. WatchedInv'
  <2> SUFFICES ASSUME ~disturbed'
               PROVE  Watched'
    BY DEF WatchedInv
  <2>1. /\ late = {} /\ Tells(unsent, placements, accepted) /\ Gone(unsent, listed, refOf)
    BY <1>2 DEF EditorInv, WatchedInv, Watched, Awaited
  <2>2. Tells(unsent, placements', accepted')
    BY <1>2, <1>3, <2>1 DEF Tells
  <2>3. Gone(unsent, listed', refOf)
    BY <1>1, <2>1 DEF Gone
  <2> QED
    BY <1>1, <1>2, <2>1, <2>2, <2>3 DEF Watched, Awaited
<1>7. MadeInv'
  BY <1>1 DEF EditorInv, MadeInv, MadeOnce, Sent
<1> QED
  BY <1>4, <1>5, <1>6, <1>7 DEF EditorInv

LEMMA EditorInvAlways == Editor!Spec => []EditorInv
<1>1. Editor!Init => EditorInv
  BY EditorInit
<1>2. EditorInv /\ [Editor!Next]_(Editor!vars) => EditorInv'
  <2> SUFFICES ASSUME EditorInv, [Editor!Next]_(Editor!vars)
               PROVE  EditorInv'
    OBVIOUS
  <2>1. CASE UNCHANGED Editor!vars
    <3>1. UNCHANGED <<listed, refOf, accepted, placements, draft, unsent, step, call, answered,
                      late, disturbed, added, lost>>
      BY <2>1 DEF Editor!vars, Editor!telemetryVars, Editor!callVars, Editor!limitVars
    <3>2. EditorType' /\ ListedInv' /\ UnsentIsAcceptable'
      BY <3>1 DEF EditorInv, EditorType, ListedInv, UnsentIsAcceptable, Editor!UnsentIsAcceptable
    <3>3. WatchedInv'
      BY <3>1 DEF EditorInv, WatchedInv, Watched, Awaited, ToTell
    <3>4. MadeInv'
      BY <3>1 DEF EditorInv, MadeInv, MadeOnce, Sent
    <3> QED
      BY <3>2, <3>3, <3>4 DEF EditorInv
  <2>2. ASSUME NEW x \in Editor!Ident, Editor!OtherRemoves(x)
        PROVE  EditorInv'
    BY <2>2, OtherRemovesInv
  <2>3. ASSUME NEW c \in late, Editor!ArriveLate(c)
        PROVE  EditorInv'
    BY <2>3, ArriveLateInv
  <2> QED
    BY <2>1, <2>2, <2>3, UserInv, DiscardInv, SendSensorsInv, ServeSensorsInv, SensorsSavedInv,
       ServePlacementsInv, PlacementsSavedInv, SaveFailsInv DEF Editor!Next
<1> QED
  BY <1>1, <1>2, PTL DEF Editor!Spec

(* What the editor keeps to send to digital-twin again never names a       *)
(* sensor twice, so that digital-twin does not refuse it for ever.         *)
THEOREM KeptCanBeSent == Editor!Spec => []UnsentIsAcceptable
<1>1. EditorInv => UnsentIsAcceptable
  BY DEF EditorInv
<1> QED
  BY <1>1, EditorInvAlways, PTL

(* Between saves, what telemetry took is at digital-twin or still kept to  *)
(* be sent, however many saves failed half-way, unless a call was missed   *)
(* or somebody got between.                                                *)
THEOREM NothingIsForgotten == Editor!Spec => []NothingForgotten
<1>1. EditorInv => NothingForgotten
  <2> SUFFICES ASSUME EditorInv, ~disturbed, step = "idle", NEW x \in Editor!Ident
               PROVE  \/ placements[x] = accepted[x]
                      \/ unsent.upsert[x] = accepted[x] /\ unsent.upsert[x] # Editor!None
                      \/ x \in unsent.delete /\ accepted[x] = Editor!None
    BY DEF NothingForgotten, Editor!NothingForgotten
  <2>1. Tells(unsent, placements, accepted)
    BY DEF EditorInv, WatchedInv, Watched, Awaited
  <2> QED
    BY <2>1 DEF Tells
<1> QED
  BY <1>1, EditorInvAlways, PTL

(* The editor counts as this module does.                                  *)
LEMMA EditorCounts == \A S : Editor!Cardinality(S) = Cardinality(S)
BY DEF Editor!Cardinality, Cardinality

(* As long as every answer of telemetry arrives, a drafted sensor is made  *)
(* at most once, however often the save is tried again.                    *)
THEOREM MadeOnceIfAnswered == Editor!Spec => []CreatedOnceIfAnswered
<1>1. EditorInv => CreatedOnceIfAnswered
  <2> SUFFICES ASSUME EditorInv, lost = 0, NEW r \in Ref
               PROVE  Cardinality({x \in New : refOf[x] = r}) <= 1
    BY EditorCounts DEF CreatedOnceIfAnswered, Editor!CreatedOnceIfAnswered, Editor!CreatedOnce
  <2> DEFINE ofR == {x \in New : refOf[x] = r}
  <2>1. \A x, y \in ofR : x = y
    BY PlaceholdersDiffer DEF EditorInv, MadeInv, MadeOnce, Once
  <2> HIDE DEF ofR
  <2>2. CASE ofR = {}
    BY <2>2, FS_EmptySet DEF ofR
  <2>3. CASE ofR # {}
    <3>1. PICK x \in ofR : ofR = {x}
      BY <2>1, <2>3
    <3>2. Cardinality(ofR) = 1
      BY <3>1, FS_Singleton
    <3> QED
      BY <3>2 DEF ofR
  <2> QED
    BY <2>2, <2>3
<1> QED
  BY <1>1, EditorInvAlways, PTL
=============================================================================
