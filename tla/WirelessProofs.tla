--------------------------- MODULE WirelessProofs ---------------------------
(***************************************************************************)
(* For any phones, routers, faults and plans: nobody is counted twice, a   *)
(* phone counts in one room, no track outlives its floor plan, and what is *)
(* committed is stored.                                                    *)
(*                                                                         *)
(* That nobody is counted twice needs what no variable holds, the tokens   *)
(* that past ticks listed: HistoryInv says that some history of them fits  *)
(* the token table, the ticks on their way and the tracks.  Every poll     *)
(* adds an entry to it.  Ledger makes the settled counts inductive, and    *)
(* TracksInv the plan of the tracks.                                       *)
(***************************************************************************)
EXTENDS MCWireless, FiniteSetTheorems, FunctionTheorems, TLAPS

Token == Phone \X Nat
Row == [token : Token, routers : SUBSET Router]
Batch ==
  {b \in [n : Tick, first : BOOLEAN, stamp : Nat, answered : BOOLEAN, connected : SUBSET Row] :
     IsFiniteSet(b.connected)}
Track == [token : Token, age : Nat, plan : SUBSET Router]
Post == [batch : Batch, stored : BOOLEAN, totals : [Router -> Nat]]
Count == [n : Tick, count : Nat]

CollectorType ==
  /\ now \in 0 .. MaxTicks /\ routers \in {Router, {}}
  /\ table \in BOOLEAN /\ minted \in [Phone -> Nat] /\ unseen \in [Phone -> 0 .. FORGET]

TwinType ==
  /\ plan \in Plan /\ edits \in Nat
  /\ snapshot \in [loaded : Nat, plan : Plan, there : BOOLEAN]
  /\ tracks \in SUBSET Track /\ IsFiniteSet(tracks)
  /\ held \in Nat /\ last \in Nat /\ smooth \in 0 .. FORGET

PipeType ==
  /\ posts \in SUBSET Post /\ observations \in Seq(Batch) /\ taken \in 0 .. 1

CountType ==
  /\ occupancies \in Seq(Count) /\ handled \in Nat /\ settled \in SUBSET Tick
  /\ counted \in [Tick -> Nat \cup {NoCount}] /\ estimated \in [Tick -> Nat \cup {NoCount}]

Types == CollectorType /\ TwinType /\ PipeType /\ CountType /\ faults \in Nat

(* The assumptions on the constants, together. *)
LEMMA Assumptions ==
  /\ FORGET \in Nat \ {0} /\ IsFiniteSet(Phone) /\ MaxTicks \in Nat
  /\ GEOMETRY_TTL \in Nat /\ MAX_TICK_AGE \in Nat /\ MaxEdits \in Nat /\ Ahead \in Nat
  /\ Placings \subseteq SUBSET Router
BY SiteAssumption, CollectorAssumption, TrackingAssumption, WirelessAssumption
   DEF SiteAssumption, CollectorAssumption, TrackingAssumption, WirelessAssumption

(* Only placed routers are in a plan. *)
LEMMA PlanTyped == \A pl \in Plan : pl.known \in BOOLEAN /\ pl.placed \in SUBSET Router
<1>1. ASSUME NEW pl \in [known : {TRUE}, placed : Placings \cup {Router}]
      PROVE  pl.known \in BOOLEAN /\ pl.placed \in SUBSET Router
  <2>1. pl.placed \in Placings \cup {Router} /\ pl.known = TRUE
    OBVIOUS
  <2>2. \A S \in Placings \cup {Router} : S \in SUBSET Router
    BY Assumptions
  <2> QED
    BY <2>1, <2>2
<1>2. NoBuilding.known = FALSE /\ NoBuilding.placed = {}
  BY DEF NoBuilding
<1>3. \A pl \in Plan : pl = NoBuilding \/ pl \in [known : {TRUE}, placed : Placings \cup {Router}]
  BY DEF Plan
<1> QED
  BY <1>1, <1>2, <1>3

-----------------------------------------------------------------------------
(* The rows of a tick: finitely many, of the token each phone has now.     *)
LEMMA Rows ==
  ASSUME NEW reading \in Readings, CollectorType, minted' \in [Phone -> Nat]
  PROVE  /\ Connected(reading.rows) \in SUBSET Row
         /\ IsFiniteSet(Connected(reading.rows))
         /\ \A row \in Connected(reading.rows) :
              /\ row.token[1] \in Phone /\ row.token[2] = minted'[row.token[1]]
              /\ reading.rows[row.token[1]] # {}
         /\ reading.rows \in [Phone -> SUBSET Router]
<1> DEFINE P == {q \in Phone : reading.rows[q] # {}}
           row(p) == [token |-> <<p, minted'[p]>>, routers |-> reading.rows[p]]
           f == [p \in P |-> row(p)]
<1>1. reading.rows \in [Phone -> SUBSET Router]
  BY DEF Readings, LeastIdle, CollectorType
<1>2. Connected(reading.rows) = {row(p) : p \in P}
  BY DEF Connected
<1>3. \A p \in P : row(p) \in Row
  BY <1>1 DEF Row, Token
<1>4. f \in Surjection(P, Connected(reading.rows))
  BY <1>2 DEF Surjection
<1>5. IsFiniteSet(P)
  BY FS_Subset, Assumptions
<1>6. IsFiniteSet(Connected(reading.rows))
  BY <1>4, <1>5, FS_Surjection
<1> QED
  BY <1>1, <1>2, <1>3, <1>6

(* A poll keeps the types of the collector. *)
LEMMA PollType ==
  ASSUME Types, NEW reading \in Readings, Poll(reading)
  PROVE  /\ CollectorType' /\ now' = now + 1 /\ now' \in Tick
<1>1. CollectorType
  BY DEF Types
<1>2. now' = now + 1 /\ now' \in Tick /\ routers' \in {Router, {}} /\ table' = TRUE
  BY <1>1, Assumptions DEF CollectorType, Poll, NextTick, Refresh, Observe, Tick
<1>3. minted' \in [Phone -> Nat]
  BY <1>1 DEF CollectorType, Poll, Observe
<1>4. unseen' \in [Phone -> 0 .. FORGET]
  BY <1>1, Assumptions DEF CollectorType, Poll, Observe, Longer
<1> QED
  BY <1>2, <1>3, <1>4 DEF CollectorType, Tick

(* What a poll posts. *)
LEMMA PostTypes ==
  ASSUME Types, PostTick
  PROVE  /\ CollectorType'
         /\ \E reading \in Readings, stamp \in Nat : \E batch \in Batch :
              /\ Poll(reading) /\ now' \in Tick /\ now' = now + 1
              /\ batch.n = now' /\ batch.first = ~table
              /\ batch.connected = Connected(reading.rows)
              /\ posts' = posts \cup {Posted(batch)} /\ Posted(batch) \in Post
              /\ ~Posted(batch).stored /\ Posted(batch).batch = batch
         /\ UNCHANGED <<trackingVars, topicVars, occupancyVars>>
         /\ faults' \in Nat
<1>1. PICK reading \in Readings, ahead \in BOOLEAN :
        /\ Poll(reading)
        /\ LET batch == [n |-> now', first |-> ~table,
                         stamp |-> 2 * now' + (IF ahead THEN 2 * Ahead + 1 ELSE 0),
                         answered |-> reading.answered # {}, connected |-> Connected(reading.rows)]
           IN posts' = posts \cup {Posted(batch)}
        /\ IF ahead \/ posts # {} THEN Fault ELSE NoFault
  BY DEF PostTick
<1> DEFINE batch == [n |-> now', first |-> ~table,
                     stamp |-> 2 * now' + (IF ahead THEN 2 * Ahead + 1 ELSE 0),
                     answered |-> reading.answered # {}, connected |-> Connected(reading.rows)]
<1>2. CollectorType' /\ now' = now + 1 /\ now' \in Tick
  BY <1>1, PollType
<1>3. CollectorType /\ faults \in Nat
  BY DEF Types
<1>4. Connected(reading.rows) \in SUBSET Row /\ IsFiniteSet(Connected(reading.rows))
  BY <1>2, <1>3, Rows DEF CollectorType
<1>5. batch.stamp \in Nat
  BY <1>2, Assumptions DEF Tick
<1>6. batch \in Batch
  BY <1>2, <1>3, <1>4, <1>5 DEF Batch, CollectorType
<1>7. Posted(batch) \in Post /\ ~Posted(batch).stored /\ Posted(batch).batch = batch
  BY <1>6 DEF Post, Posted, NoTotals
<1>8. UNCHANGED <<trackingVars, topicVars, occupancyVars>> /\ faults' \in Nat
  BY <1>1, <1>3 DEF PostTick, Fault, NoFault
<1>9. posts' = posts \cup {Posted(batch)}
  BY <1>1
<1> HIDE DEF batch
<1>10. batch.n = now' /\ batch.first = ~table /\ batch.connected = Connected(reading.rows)
  BY DEF batch
<1> QED
  BY <1>1, <1>2, <1>6, <1>7, <1>8, <1>9, <1>10, <1>5

(* A step of the tracks: heard tokens are located on the plan, one track   *)
(* each, and the others grow one tick older.                               *)
LEMMA Stepped ==
  ASSUME NEW tick \in Batch, NEW on \in SUBSET Router,
         NEW before \in SUBSET Track, IsFiniteSet(before)
  PROVE  /\ StepTracks(tick, on, before) \in SUBSET Track
         /\ IsFiniteSet(StepTracks(tick, on, before))
         /\ \A t \in StepTracks(tick, on, before) :
              \/ /\ t = [token |-> t.token, age |-> 0, plan |-> on]
                 /\ t.token \in Heard(tick, on)
              \/ \E u \in before :
                   /\ u.token \notin Heard(tick, on)
                   /\ t = [u EXCEPT !.age = u.age + 1] /\ u.age + 1 < FORGET
         /\ \A k \in Heard(tick, on) : \E row \in tick.connected : row.token = k
<1> DEFINE heard == Heard(tick, on)
           listed == {r \in tick.connected : r.routers \cap on # {}}
           quiet == {u \in before : u.token \notin heard}
           older == {[t EXCEPT !.age = t.age + 1] : t \in quiet}
           new == {[token |-> k, age |-> 0, plan |-> on] : k \in heard}
<1>1. tick.connected \in SUBSET Row /\ IsFiniteSet(tick.connected)
  BY DEF Batch
<1>2. heard = {row.token : row \in listed}
  BY DEF Heard
<1>3. \A k \in heard : k \in Token /\ \E row \in tick.connected : row.token = k
  BY <1>1, <1>2 DEF Row
<1>4. IsFiniteSet(heard)
  <2>1. IsFiniteSet(listed)
    BY <1>1, FS_Subset
  <2> HIDE DEF listed
  <2>2. [row \in listed |-> row.token] \in Surjection(listed, {row.token : row \in listed})
    BY DEF Surjection
  <2> QED
    BY <1>2, <2>1, <2>2, FS_Surjection
<1>5. IsFiniteSet(new)
  <2>1. [k \in heard |-> [token |-> k, age |-> 0, plan |-> on]] \in Surjection(heard, new)
    BY DEF Surjection
  <2> QED
    BY <1>4, <2>1, FS_Surjection
<1>6. IsFiniteSet(older)
  <2>1. IsFiniteSet(quiet)
    BY FS_Subset
  <2>2. [t \in quiet |-> [t EXCEPT !.age = t.age + 1]] \in Surjection(quiet, older)
    BY DEF Surjection
  <2> QED
    BY <2>1, <2>2, FS_Surjection
<1>7. StepTracks(tick, on, before) = new \cup {t \in older : t.age < FORGET}
  BY DEF StepTracks
<1>8. IsFiniteSet(StepTracks(tick, on, before))
  <2> DEFINE young == {t \in older : t.age < FORGET}
  <2>1. IsFiniteSet(young)
    BY <1>6, FS_Subset
  <2> HIDE DEF new, young
  <2>2. IsFiniteSet(new \cup young)
    BY <1>5, <2>1, FS_Union
  <2> QED
    BY <1>7, <2>2 DEF young
<1>9. \A t \in new : t \in Track /\ t = [token |-> t.token, age |-> 0, plan |-> on] /\ t.token \in heard
  BY <1>3 DEF Track
<1>10. \A t \in older : t.age < FORGET =>
          t \in Track /\ \E u \in before :
            u.token \notin heard /\ t = [u EXCEPT !.age = u.age + 1] /\ u.age + 1 < FORGET
  BY DEF Track
<1> HIDE DEF heard, new, older
<1>11. \A t \in StepTracks(tick, on, before) :
         t \in Track /\ (\/ t = [token |-> t.token, age |-> 0, plan |-> on] /\ t.token \in heard
                       \/ \E u \in before :
                            u.token \notin heard /\ t = [u EXCEPT !.age = u.age + 1] /\ u.age + 1 < FORGET)
  BY <1>7, <1>9, <1>10
<1>12. StepTracks(tick, on, before) \in SUBSET Track
  BY <1>11
<1>13. \A k \in heard : \E row \in tick.connected : row.token = k
  BY <1>3
<1> QED
  BY <1>8, <1>11, <1>12, <1>13 DEF heard

(* What observing a tick may do to the twin. *)
LEMMA Observed ==
  ASSUME Types, NEW tick \in Batch, NEW fails \in BOOLEAN, ObserveTick(tick, now, fails)
  PROVE  /\ UNCHANGED planVars /\ held' = tick.stamp
         /\ \/ snapshot' = snapshot
            \/ snapshot' = [loaded |-> now, plan |-> plan, there |-> TRUE]
         /\ TwinType'
         /\ \E before \in {{}, tracks} :
              /\ before = IF Moved THEN {} ELSE tracks
              /\ snapshot'.plan.placed \in SUBSET Router
              /\ tracks' = IF snapshot'.plan.known THEN StepTracks(tick, snapshot'.plan.placed, before)
                           ELSE before
         /\ last' = IF snapshot'.plan.known THEN tick.n ELSE last
         /\ smooth' = IF ~snapshot'.plan.known THEN 0
                      ELSE IF tick.n = last THEN smooth
                      ELSE IF tick.n = last + 1 /\ ~tick.first THEN Lengthened
                      ELSE 1
<1>1. /\ UNCHANGED planVars /\ held' = tick.stamp
      /\ tracks' = IF snapshot'.plan.known
                   THEN StepTracks(tick, snapshot'.plan.placed, IF Moved THEN {} ELSE tracks)
                   ELSE IF Moved THEN {} ELSE tracks
      /\ last' = IF snapshot'.plan.known THEN tick.n ELSE last
      /\ smooth' = IF ~snapshot'.plan.known THEN 0
                   ELSE IF tick.n = last THEN smooth
                   ELSE IF tick.n = last + 1 /\ ~tick.first THEN Lengthened
                   ELSE 1
      /\ Geometry(now, fails)
  BY DEF ObserveTick
<1>2. snapshot' = snapshot \/ snapshot' = [loaded |-> now, plan |-> plan, there |-> TRUE]
  BY <1>1 DEF Geometry, KeepSnapshot, Reload
<1>3. TwinType /\ now \in Nat
  BY DEF Types, CollectorType
<1>4. snapshot' \in [loaded : Nat, plan : Plan, there : BOOLEAN]
  <2>1. plan \in Plan /\ snapshot \in [loaded : Nat, plan : Plan, there : BOOLEAN]
    BY <1>3 DEF TwinType
  <2>2. [loaded |-> now, plan |-> plan, there |-> TRUE] \in [loaded : Nat, plan : Plan, there : BOOLEAN]
    BY <1>3, <2>1
  <2> QED
    BY <1>2, <2>1, <2>2
<1>5. snapshot'.plan.placed \in SUBSET Router
  BY <1>4, PlanTyped
<1> DEFINE before == IF Moved THEN {} ELSE tracks
<1>6. before \in {{}, tracks} /\ before \in SUBSET Track /\ IsFiniteSet(before)
  BY <1>3, FS_EmptySet DEF TwinType
<1>7. tracks' = IF snapshot'.plan.known THEN StepTracks(tick, snapshot'.plan.placed, before) ELSE before
  BY <1>1
<1> HIDE DEF before
<1>8. tracks' \in SUBSET Track /\ IsFiniteSet(tracks')
  BY <1>5, <1>6, <1>7, Stepped
<1>9. held' \in Nat /\ last' \in Nat
  BY <1>1, <1>3, Assumptions DEF TwinType, Batch, Tick
<1>10. smooth' \in 0 .. FORGET
  BY <1>1, <1>3, Assumptions DEF TwinType, Lengthened
<1>11. plan' \in Plan /\ edits' \in Nat
  BY <1>1, <1>3 DEF TwinType, planVars
<1>12. TwinType'
  BY <1>4, <1>8, <1>9, <1>10, <1>11 DEF TwinType
<1> QED
  BY <1>1, <1>2, <1>5, <1>6, <1>7, <1>12 DEF before

(* digital-twin takes a tick of the topic: too old, or observed. *)
LEMMA Taken ==
  ASSUME Types, TakeTick
  PROVE  /\ \E tick \in Batch :
              /\ tick = observations[taken + 1] /\ taken + 1 \in 1 .. Len(observations)
              /\ \/ UNCHANGED <<trackingVars, occupancies, counted>>
                 \/ \E fails, sent \in BOOLEAN :
                      ObserveTick(tick, now, fails) /\ PublishCount(tick, sent)
         /\ observations' \in Seq(Batch) /\ taken' \in 0 .. 1
         /\ \A i \in 1 .. Len(observations') :
              \E j \in 1 .. Len(observations) : observations'[i] = observations[j]
         /\ UNCHANGED <<collectorVars, posts, storeVars>> /\ faults' \in Nat
<1>1. /\ observations \in Seq(Batch) /\ taken \in 0 .. 1 /\ faults \in Nat
      /\ Len(observations) \in Nat /\ taken < Len(observations)
      /\ observations' = SubSeq(observations, taken + 1, Len(observations)) /\ taken' = 1
      /\ UNCHANGED <<collectorVars, posts, storeVars>>
  BY DEF Types, PipeType, TakeTick
<1>2. taken + 1 \in 1 .. Len(observations)
  BY <1>1
<1>3. observations' \in Seq(Batch)
  BY <1>1, <1>2
<1>4. ASSUME NEW i \in 1 .. Len(observations')
      PROVE  \E j \in 1 .. Len(observations) : observations'[i] = observations[j]
  <2>1. Len(observations') = Len(observations) - taken
    BY <1>1, <1>2
  <2>2. taken + i \in 1 .. Len(observations)
    BY <1>1, <2>1
  <2>3. observations'[i] = observations[taken + i]
    BY <1>1, <2>1, <2>2
  <2> QED
    BY <2>2, <2>3
<1> DEFINE tick == observations[taken + 1]
<1>5. tick \in Batch
  BY <1>1, <1>2
<1>6. \/ UNCHANGED <<trackingVars, occupancies, counted, faults>>
      \/ \E loads, sent \in BOOLEAN :
           /\ ObserveTick(tick, now, ~loads) /\ PublishCount(tick, sent)
           /\ IF loads /\ sent THEN NoFault ELSE Fault
  BY DEF TakeTick
<1>7. faults' \in Nat
  BY <1>1, <1>6 DEF NoFault, Fault
<1> HIDE DEF tick
<1>8. ASSUME NEW loads \in BOOLEAN, NEW sent \in BOOLEAN,
             ObserveTick(tick, now, ~loads), PublishCount(tick, sent)
      PROVE  \E f, g \in BOOLEAN : ObserveTick(tick, now, f) /\ PublishCount(tick, g)
  BY <1>8
<1>9. \/ UNCHANGED <<trackingVars, occupancies, counted>>
      \/ \E fails, sent \in BOOLEAN : ObserveTick(tick, now, fails) /\ PublishCount(tick, sent)
  BY <1>6, <1>8
<1> QED
  BY <1>1, <1>2, <1>3, <1>4, <1>5, <1>7, <1>9 DEF tick

(* Its count, when it is published. *)
LEMMA Published ==
  ASSUME Types, NEW tick \in Batch, NEW sent \in BOOLEAN, IsFiniteSet(tracks'),
         PublishCount(tick, sent)
  PROVE  \/ UNCHANGED <<occupancies, counted>>
         \/ \E count \in Nat :
              /\ occupancies' = Append(occupancies, [n |-> tick.n, count |-> count])
              /\ counted' = [counted EXCEPT ![tick.n] = IF counted[tick.n] = NoCount THEN count
                                                       ELSE counted[tick.n]]
<1>1. Cardinality(tracks') \in Nat
  BY FS_CardinalityType
<1> QED
  BY <1>1 DEF PublishCount

(* The totals of a stored tick are those of some choice of its rows. *)
LEMMA StoredPosts ==
  ASSUME Types, NEW post \in posts, StoreTotals(post)
  PROVE  /\ posts' \in SUBSET Post /\ faults' \in Nat
         /\ UNCHANGED <<collectorVars, trackingVars, topicVars, occupancyVars>>
         /\ \A q \in posts' : q \in posts
              \/ \E f \in Loudest(post.batch) :
                   q.stored = TRUE /\ q.batch = post.batch /\ q.totals = RoomReadings(post.batch, f)
<1>1. post \in Post /\ posts \in SUBSET Post /\ faults \in Nat
  BY DEF Types, PipeType
<1>2. ASSUME NEW f \in Loudest(post.batch)
      PROVE  RoomReadings(post.batch, f) \in [Router -> Nat]
  <2>1. IsFiniteSet(post.batch.connected)
    BY <1>1 DEF Post, Batch
  <2>2. \A r \in Router : Cardinality({row \in post.batch.connected : f[row] = r}) \in Nat
    BY <2>1, FS_Subset, FS_CardinalityType
  <2> QED
    BY <2>2 DEF RoomReadings
<1>3. CASE posts' = posts \ {post} /\ Fault
  <2>1. posts' \in SUBSET Post /\ \A q \in posts' : q \in posts
    BY <1>1, <1>3
  <2>2. faults' \in Nat
    BY <1>1, <1>3 DEF Fault
  <2> QED
    BY <2>1, <2>2 DEF StoreTotals
<1>4. CASE NoFault /\ \E f \in Loudest(post.batch) :
             posts' = (posts \ {post}) \cup {[post EXCEPT !.stored = TRUE, !.totals = RoomReadings(post.batch, f)]}
  <2>1. PICK f \in Loudest(post.batch) :
          posts' = (posts \ {post}) \cup {[post EXCEPT !.stored = TRUE, !.totals = RoomReadings(post.batch, f)]}
    BY <1>4
  <2> DEFINE q == [post EXCEPT !.stored = TRUE, !.totals = RoomReadings(post.batch, f)]
  <2>2. q \in Post /\ q.stored = TRUE /\ q.batch = post.batch /\ q.totals = RoomReadings(post.batch, f)
    BY <1>1, <1>2 DEF Post
  <2>3. posts' = (posts \ {post}) \cup {q}
    BY <2>1
  <2> HIDE DEF q
  <2> QED
    BY <1>1, <1>4, <2>2, <2>3 DEF StoreTotals, NoFault
<1> QED
  BY <1>3, <1>4 DEF StoreTotals

(* A stored tick goes into the topic, or is lost. *)
LEMMA PublishedTick ==
  ASSUME Types, NEW post \in posts, PublishTick(post)
  PROVE  /\ posts' \in SUBSET posts /\ faults' \in Nat /\ post.batch \in Batch
         /\ observations' \in {observations, Append(observations, post.batch)}
         /\ UNCHANGED <<collectorVars, trackingVars, taken, occupancyVars>>
BY DEF Types, PipeType, PublishTick, Post, Fault, NoFault

-----------------------------------------------------------------------------
(* What is stored is what was counted first; the counts up to `handled`    *)
(* are stored; and the first count of a tick that is still to be read is   *)
(* the one to store, unless one is stored already.  What was counted and   *)
(* not stored is still to be read.                                         *)
Ledger ==
  /\ \A n \in settled : estimated[n] # NoCount
  /\ \A n \in Tick : estimated[n] # NoCount => estimated[n] = counted[n]
  /\ handled <= Len(occupancies)
  /\ \A i \in 1 .. Len(occupancies) : counted[occupancies[i].n] # NoCount
  /\ \A i \in 1 .. handled : estimated[occupancies[i].n] # NoCount
  /\ \A i \in 1 .. Len(occupancies) :
       (\A j \in 1 .. i - 1 : occupancies[j].n # occupancies[i].n) =>
         \/ occupancies[i].count = counted[occupancies[i].n]
         \/ estimated[occupancies[i].n] # NoCount
  /\ \A n \in Tick : counted[n] # NoCount /\ estimated[n] = NoCount =>
       \E i \in 1 .. Len(occupancies) : occupancies[i].n = n

(* The counts on their way are of ticks. *)
LEMMA CountsTyped ==
  ASSUME CountType
  PROVE  /\ Len(occupancies) \in Nat
         /\ \A i \in 1 .. Len(occupancies) :
              occupancies[i] \in Count /\ occupancies[i].n \in Tick /\ occupancies[i].count \in Nat
<1>1. /\ Len(occupancies) \in Nat
      /\ \A i \in 1 .. Len(occupancies) : occupancies[i] \in Count
  BY DEF CountType
<1>2. \A c \in Count : c.n \in Tick /\ c.count \in Nat
  BY DEF Count
<1> QED
  BY <1>1, <1>2

(* Storing the next count, which is the first of its tick or not needed.   *)
LEMMA Inserted ==
  ASSUME Types, Ledger, handled < Len(occupancies),
         estimated' = InsertCount(occupancies[handled + 1])
  PROVE  /\ estimated' \in [Tick -> Nat \cup {NoCount}]
         /\ estimated'[occupancies[handled + 1].n] # NoCount
         /\ \A n \in Tick : estimated[n] # NoCount => estimated'[n] = estimated[n]
         /\ \A n \in Tick : estimated'[n] # NoCount => estimated'[n] = counted[n]
<1>1. CountType
  BY DEF Types
<1>2. /\ handled \in Nat /\ Len(occupancies) \in Nat /\ handled + 1 \in 1 .. Len(occupancies)
      /\ occupancies[handled + 1] \in Count
  BY <1>1 DEF CountType
<1> DEFINE msg == occupancies[handled + 1]
<1>3. msg.n \in Tick /\ msg.count \in Nat /\ msg.count # NoCount
  BY <1>2 DEF Count, NoCount
<1>4. estimated' = [estimated EXCEPT ![msg.n] = IF estimated[msg.n] = NoCount THEN msg.count ELSE estimated[msg.n]]
  BY DEF InsertCount
<1>5. msg.count = counted[msg.n] \/ estimated[msg.n] # NoCount
  <2>1. CASE \E j \in 1 .. handled : occupancies[j].n = msg.n
    BY <2>1 DEF Ledger
  <2>2. CASE \A j \in 1 .. handled : occupancies[j].n # msg.n
    <3>1. handled + 1 - 1 = handled
      BY <1>2
    <3> QED
      BY <1>2, <2>2, <3>1 DEF Ledger
  <2> QED
    BY <2>1, <2>2
<1> HIDE DEF msg
<1>6. \A n \in Tick : estimated'[n] = IF n = msg.n /\ estimated[n] = NoCount THEN msg.count ELSE estimated[n]
  BY <1>1, <1>3, <1>4 DEF CountType
<1>7. estimated' \in [Tick -> Nat \cup {NoCount}]
  BY <1>1, <1>3, <1>4 DEF CountType
<1>8. \A n \in Tick : estimated[n] # NoCount => estimated[n] = counted[n]
  BY DEF Ledger
<1> QED
  BY <1>3, <1>5, <1>6, <1>7, <1>8 DEF msg

(* The counts up to k are committed. *)
LEMMA Committed ==
  ASSUME Types, NEW k \in 1 .. Len(occupancies), Commit(k)
  PROVE  /\ occupancies' \in Seq(Count) /\ settled' \in SUBSET Tick
         /\ Len(occupancies') = Len(occupancies) - k
         /\ \A i \in 1 .. Len(occupancies') :
              k + i \in 1 .. Len(occupancies) /\ occupancies'[i] = occupancies[k + i]
         /\ settled' = settled \cup {occupancies[i].n : i \in 1 .. k}
<1>1. occupancies \in Seq(Count) /\ settled \in SUBSET Tick /\ Len(occupancies) \in Nat
  BY DEF Types, CountType
<1>2. occupancies' = SubSeq(occupancies, k + 1, Len(occupancies))
      /\ settled' = settled \cup {occupancies[i].n : i \in 1 .. k}
  BY DEF Commit
<1>3. \A i \in 1 .. k : occupancies[i].n \in Tick
  BY CountsTyped DEF Types
<1> QED
  BY <1>1, <1>2, <1>3

(* A count is stored, and perhaps committed. *)
LEMMA StoreLedger ==
  ASSUME Types, Ledger, StoreCount
  PROVE  Ledger' /\ CountType'
<1>1. CountType /\ Len(occupancies) \in Nat
  BY DEF Types, CountType
<1>2. /\ handled < Len(occupancies) /\ counted' = counted
      /\ estimated' = InsertCount(occupancies[handled + 1])
  BY DEF StoreCount
<1>3. /\ estimated' \in [Tick -> Nat \cup {NoCount}]
      /\ estimated'[occupancies[handled + 1].n] # NoCount
      /\ \A n \in Tick : estimated[n] # NoCount => estimated'[n] = estimated[n]
      /\ \A n \in Tick : estimated'[n] # NoCount => estimated'[n] = counted[n]
  BY <1>2, Inserted
<1>4. \A i \in 1 .. Len(occupancies) : occupancies[i].n \in Tick
  BY <1>1, CountsTyped
<1>5. \A i \in 1 .. handled + 1 : estimated'[occupancies[i].n] # NoCount
  <2> SUFFICES ASSUME NEW i \in 1 .. handled + 1 PROVE estimated'[occupancies[i].n] # NoCount
    OBVIOUS
  <2>1. i = handled + 1 \/ i \in 1 .. handled
    BY <1>1 DEF CountType
  <2> QED
    BY <1>1, <1>2, <1>3, <1>4, <2>1 DEF CountType, Ledger
<1>6. CASE handled' = handled + 1 /\ UNCHANGED <<settled, occupancies>>
  <2>1. CountType'
    BY <1>1, <1>2, <1>3, <1>6 DEF CountType
  <2>2. \A n \in settled' : estimated'[n] # NoCount
    BY <1>1, <1>3, <1>6 DEF CountType, Ledger
  <2>3. handled' <= Len(occupancies')
    BY <1>1, <1>2, <1>6 DEF CountType
  <2>4. \A i \in 1 .. Len(occupancies) : counted'[occupancies[i].n] # NoCount
    BY <1>2 DEF Ledger
  <2>5. \A i \in 1 .. Len(occupancies) :
          (\A j \in 1 .. i - 1 : occupancies[j].n # occupancies[i].n) =>
            \/ occupancies[i].count = counted[occupancies[i].n]
            \/ estimated'[occupancies[i].n] # NoCount
    BY <1>3, <1>4 DEF Ledger
  <2>6. occupancies' = occupancies /\ handled' = handled + 1
    BY <1>6
  <2>7. \A n \in Tick : counted'[n] # NoCount /\ estimated'[n] = NoCount =>
          \E i \in 1 .. Len(occupancies) : occupancies[i].n = n
    BY <1>2, <1>3 DEF Ledger
  <2> QED
    BY <1>2, <1>3, <1>5, <2>1, <2>2, <2>3, <2>4, <2>5, <2>6, <2>7 DEF Ledger
<1>7. CASE Commit(handled + 1) /\ handled' = 0
  <2> DEFINE k == handled + 1
  <2>1. k \in 1 .. Len(occupancies)
    BY <1>1, <1>2 DEF CountType
  <2>2. /\ occupancies' \in Seq(Count) /\ settled' \in SUBSET Tick
        /\ Len(occupancies') = Len(occupancies) - k
        /\ \A i \in 1 .. Len(occupancies') :
             k + i \in 1 .. Len(occupancies) /\ occupancies'[i] = occupancies[k + i]
        /\ settled' = settled \cup {occupancies[i].n : i \in 1 .. k}
    BY <1>7, <2>1, Committed
  <2>3. CountType'
    BY <1>1, <1>2, <1>3, <1>7, <2>2 DEF CountType
  <2>4. \A n \in settled' : estimated'[n] # NoCount
    BY <1>1, <1>3, <1>5, <2>2 DEF CountType, Ledger
  <2>5. handled' <= Len(occupancies') /\ \A i \in 1 .. handled' : FALSE
    BY <1>1, <1>7, <2>1, <2>2
  <2>6. \A i \in 1 .. Len(occupancies') : counted'[occupancies'[i].n] # NoCount
    <3>1. \A i \in 1 .. Len(occupancies) : counted[occupancies[i].n] # NoCount
      BY DEF Ledger
    <3>2. \A i \in 1 .. Len(occupancies') :
            k + i \in 1 .. Len(occupancies) /\ occupancies'[i] = occupancies[k + i]
      BY <2>2
    <3> HIDE DEF k
    <3> QED
      BY ONLY <1>2, <3>1, <3>2
  <2>7. ASSUME NEW i \in 1 .. Len(occupancies'),
               \A j \in 1 .. i - 1 : occupancies'[j].n # occupancies'[i].n
        PROVE  \/ occupancies'[i].count = counted'[occupancies'[i].n]
               \/ estimated'[occupancies'[i].n] # NoCount
    <3>1. k + i \in 1 .. Len(occupancies) /\ occupancies'[i] = occupancies[k + i]
      BY <2>2
    <3>2. CASE \E j \in 1 .. k : occupancies[j].n = occupancies[k + i].n
      BY <1>5, <3>1, <3>2
    <3>3. CASE \A j \in 1 .. k : occupancies[j].n # occupancies[k + i].n
      <4>1. ASSUME NEW j \in 1 .. (k + i) - 1 PROVE occupancies[j].n # occupancies[k + i].n
        <5>1. j \in 1 .. k \/ (j - k \in 1 .. i - 1 /\ j - k \in 1 .. Len(occupancies') /\ k + (j - k) = j)
          BY <1>1, <2>1, <2>2 DEF CountType
        <5> QED
          BY <2>2, <2>7, <3>1, <3>3, <5>1
      <4>2. \/ occupancies[k + i].count = counted[occupancies[k + i].n]
            \/ estimated[occupancies[k + i].n] # NoCount
        BY <3>1, <4>1 DEF Ledger
      <4> QED
        BY <1>2, <1>3, <1>4, <3>1, <4>2
    <3> QED
      BY <3>2, <3>3
  <2>8. ASSUME NEW n \in Tick, counted'[n] # NoCount, estimated'[n] = NoCount
        PROVE  \E i \in 1 .. Len(occupancies') : occupancies'[i].n = n
    <3>1. PICK i \in 1 .. Len(occupancies) : occupancies[i].n = n
      BY <1>2, <1>3, <2>8 DEF Ledger
    <3>2. i \notin 1 .. k
      BY <1>5, <2>8, <3>1
    <3>3. i - k \in 1 .. Len(occupancies') /\ k + (i - k) = i
      BY <1>1, <2>1, <2>2, <3>2 DEF CountType
    <3> QED
      BY <2>2, <3>1, <3>3
  <2> HIDE DEF k
  <2> QED
    BY <1>2, <1>3, <2>3, <2>4, <2>5, <2>6, <2>7, <2>8 DEF Ledger
<1> QED
  BY <1>6, <1>7 DEF StoreCount

(* A count is read again. *)
LEMMA RetryLedger ==
  ASSUME Types, Ledger, RetryCount
  PROVE  Ledger' /\ CountType'
<1>1. CountType
  BY DEF Types
<1>2. /\ handled < Len(occupancies) /\ handled' = 0
      /\ UNCHANGED <<counted, settled, occupancies>>
      /\ estimated' \in {estimated, InsertCount(occupancies[handled + 1])}
  BY DEF RetryCount, RereadOnError
<1>3. /\ estimated' \in [Tick -> Nat \cup {NoCount}]
      /\ \A n \in Tick : estimated[n] # NoCount => estimated'[n] = estimated[n]
      /\ \A n \in Tick : estimated'[n] # NoCount => estimated'[n] = counted[n]
  <2>1. CASE estimated' = estimated
    BY <1>1, <2>1 DEF CountType, Ledger
  <2>2. CASE estimated' = InsertCount(occupancies[handled + 1])
    BY <1>2, <2>2, Inserted
  <2> QED
    BY <1>2, <2>1, <2>2
<1>4. \A i \in 1 .. Len(occupancies) : occupancies[i].n \in Tick
  BY <1>1, CountsTyped
<1>5. CountType'
  BY <1>1, <1>2, <1>3 DEF CountType
<1>6. Len(occupancies) \in Nat /\ \A i \in 1 .. handled' : FALSE
  BY <1>1, <1>2 DEF CountType
<1>7. \A i \in 1 .. Len(occupancies) :
        (\A j \in 1 .. i - 1 : occupancies[j].n # occupancies[i].n) =>
          \/ occupancies[i].count = counted[occupancies[i].n]
          \/ estimated'[occupancies[i].n] # NoCount
  BY <1>3, <1>4 DEF Ledger
<1>8. \A n \in settled : estimated'[n] # NoCount
  BY <1>1, <1>3 DEF CountType, Ledger
<1>9. \A n \in Tick : counted'[n] # NoCount /\ estimated'[n] = NoCount =>
        \E i \in 1 .. Len(occupancies) : occupancies[i].n = n
  BY <1>2, <1>3 DEF Ledger
<1> QED
  BY <1>2, <1>3, <1>5, <1>6, <1>7, <1>8, <1>9 DEF Ledger

(* A count that is published is the last one to be read; nothing was       *)
(* stored or published for its tick unless a first one was.                *)
LEMMA PublishLedger ==
  ASSUME Types, Ledger, NEW tick \in Batch, NEW sent \in BOOLEAN, IsFiniteSet(tracks'),
         PublishCount(tick, sent), UNCHANGED storeVars
  PROVE  Ledger' /\ CountType'
<1>1. CountType /\ tick.n \in Tick /\ Len(occupancies) \in Nat
  BY DEF Types, CountType, Batch
<1>2. handled' = handled /\ settled' = settled /\ estimated' = estimated
  BY DEF storeVars
<1>3. CASE UNCHANGED <<occupancies, counted>>
  BY <1>1, <1>2, <1>3 DEF Ledger, CountType
<1>4. CASE \E count \in Nat :
              /\ occupancies' = Append(occupancies, [n |-> tick.n, count |-> count])
              /\ counted' = [counted EXCEPT ![tick.n] = IF counted[tick.n] = NoCount THEN count
                                                       ELSE counted[tick.n]]
  <2>1. PICK count \in Nat :
              /\ occupancies' = Append(occupancies, [n |-> tick.n, count |-> count])
              /\ counted' = [counted EXCEPT ![tick.n] = IF counted[tick.n] = NoCount THEN count
                                                       ELSE counted[tick.n]]
    BY <1>4
  <2>2. count # NoCount
    BY DEF NoCount
  <2>3. /\ counted' \in [Tick -> Nat \cup {NoCount}]
        /\ \A n \in Tick : counted'[n] = IF n = tick.n /\ counted[n] = NoCount THEN count ELSE counted[n]
    BY <1>1, <2>1 DEF CountType
  <2> DEFINE msg == [n |-> tick.n, count |-> count]
             e == Len(occupancies) + 1
  <2>4. msg \in Count /\ msg.n = tick.n /\ msg.count = count
    BY <1>1 DEF Count
  <2> HIDE DEF msg
  <2>5. /\ occupancies' \in Seq(Count) /\ Len(occupancies') = e
        /\ occupancies'[e] = msg
        /\ \A i \in 1 .. Len(occupancies) : occupancies'[i] = occupancies[i]
    BY <1>1, <2>1, <2>4 DEF CountType, msg
  <2>6. CountType'
    BY <1>1, <1>2, <2>3, <2>5 DEF CountType
  <2>7. \A i \in 1 .. Len(occupancies) : occupancies[i].n \in Tick
    BY <1>1, CountsTyped
  <2>8. \A n \in Tick : estimated'[n] # NoCount => estimated'[n] = counted'[n]
    BY <1>2, <2>2, <2>3 DEF Ledger
  <2>9. ASSUME NEW i \in 1 .. Len(occupancies')
        PROVE  /\ counted'[occupancies'[i].n] # NoCount
               /\ (\A j \in 1 .. i - 1 : occupancies'[j].n # occupancies'[i].n) =>
                    \/ occupancies'[i].count = counted'[occupancies'[i].n]
                    \/ estimated'[occupancies'[i].n] # NoCount
    <3>1. CASE i \in 1 .. Len(occupancies)
      <4>1. occupancies'[i] = occupancies[i] /\ \A j \in 1 .. i - 1 : occupancies'[j] = occupancies[j]
        BY <1>1, <2>5, <3>1
      <4>2. counted[occupancies[i].n] # NoCount /\ occupancies[i].n \in Tick
        BY <2>7, <3>1 DEF Ledger
      <4>3. counted'[occupancies'[i].n] = counted[occupancies[i].n]
        BY <2>3, <4>1, <4>2
      <4> QED
        BY <1>2, <3>1, <4>1, <4>2, <4>3 DEF Ledger
    <3>2. CASE i = e
      <4>1. occupancies'[i].n = tick.n /\ occupancies'[i].count = count
        BY <2>4, <2>5, <3>2
      <4>2. counted'[tick.n] # NoCount
        BY <1>1, <2>2, <2>3
      <4>3. ASSUME \A j \in 1 .. i - 1 : occupancies'[j].n # occupancies'[i].n,
                   counted[tick.n] # NoCount, estimated[tick.n] = NoCount
            PROVE  count = counted[tick.n]
        <5>1. PICK j \in 1 .. Len(occupancies) : occupancies[j].n = tick.n
          BY <1>1, <4>3 DEF Ledger
        <5>2. j \in 1 .. i - 1 /\ occupancies'[j] = occupancies[j]
          BY <1>1, <2>5, <3>2
        <5> QED
          BY <4>1, <4>3, <5>1, <5>2
      <4> QED
        BY <1>1, <1>2, <2>3, <4>1, <4>2, <4>3
    <3> QED
      BY <1>1, <2>5, <3>1, <3>2
  <2>10. ASSUME NEW n \in Tick, counted'[n] # NoCount, estimated'[n] = NoCount
         PROVE  \E i \in 1 .. Len(occupancies') : occupancies'[i].n = n
    <3>1. CASE n = tick.n
      BY <1>1, <2>4, <2>5, <3>1
    <3>2. CASE n # tick.n
      <4>1. PICK i \in 1 .. Len(occupancies) : occupancies[i].n = n
        BY <1>2, <2>3, <2>10, <3>2 DEF Ledger
      <4> QED
        BY <1>1, <2>5, <4>1
    <3> QED
      BY <3>1, <3>2
  <2>11. /\ handled' <= Len(occupancies')
         /\ \A i \in 1 .. handled' : estimated'[occupancies'[i].n] # NoCount
    <3>1. \A i \in 1 .. handled : i \in 1 .. Len(occupancies)
      BY <1>1 DEF CountType, Ledger
    <3> QED
      BY <1>1, <1>2, <2>5, <3>1 DEF CountType, Ledger
  <2>12. \A n \in settled' : estimated'[n] # NoCount
    BY <1>2 DEF Ledger
  <2> HIDE DEF e
  <2> QED
    BY <2>6, <2>8, <2>9, <2>10, <2>11, <2>12 DEF Ledger
<1> QED
  BY <1>3, <1>4, Published

-----------------------------------------------------------------------------
(* A token has one track, which is forgotten after FORGET ticks; without a *)
(* plan there is none.                                                     *)
TracksInv ==
  /\ \A t \in tracks : t.age < FORGET
  /\ \A t, u \in tracks : t.token = u.token => t = u
  /\ ~snapshot.there => tracks = {} /\ snapshot = NoSnapshot
  /\ PlanNotMixed

(* Observing a tick keeps that: tracks of a plan whose routers moved are   *)
(* dropped, and a reload that fails keeps the plan with its tracks.        *)
LEMMA ObservedTracks ==
  ASSUME Types, TracksInv, NEW tick \in Batch, NEW fails \in BOOLEAN,
         ObserveTick(tick, now, fails)
  PROVE  TracksInv'
<1>1. TwinType /\ TwinType'
  BY Observed DEF Types
<1>2. \/ snapshot' = snapshot
      \/ snapshot' = [loaded |-> now, plan |-> plan, there |-> TRUE]
  BY Observed
<1> DEFINE on == snapshot'.plan.placed
<1>3. PICK before \in {{}, tracks} :
        /\ before = IF Moved THEN {} ELSE tracks
        /\ on \in SUBSET Router
        /\ tracks' = IF snapshot'.plan.known THEN StepTracks(tick, on, before) ELSE before
  BY Observed
<1>4. before \in SUBSET Track /\ IsFiniteSet(before)
  BY <1>1, <1>3, FS_EmptySet DEF TwinType
<1>5. before \subseteq tracks
  BY <1>3
<1>6. \A u \in before : u.plan = on
  <2> SUFFICES ASSUME NEW u \in before PROVE u.plan = on
    OBVIOUS
  <2>1. u \in tracks /\ ~Moved
    BY <1>3
  <2>2. snapshot.there /\ u.plan = snapshot.plan.placed
    BY <2>1 DEF TracksInv, PlanNotMixed
  <2>3. snapshot'.there
    BY <1>2, <2>2
  <2> QED
    BY <2>1, <2>2, <2>3 DEF Moved
<1>7. ~snapshot'.there => tracks' = {} /\ snapshot' = NoSnapshot
  <2> SUFFICES ASSUME ~snapshot'.there PROVE tracks' = {} /\ snapshot' = NoSnapshot
    OBVIOUS
  <2>1. snapshot' = snapshot
    BY <1>2
  <2>2. snapshot = NoSnapshot /\ tracks = {}
    BY <2>1 DEF TracksInv
  <2>3. ~snapshot'.plan.known
    BY <2>1, <2>2 DEF NoSnapshot, NoBuilding
  <2> QED
    BY <1>3, <2>1, <2>2, <2>3
<1>8. CASE ~snapshot'.plan.known
  <2>1. tracks' = before
    BY <1>3, <1>8
  <2> QED
    BY <1>5, <1>6, <1>7, <2>1 DEF TracksInv, PlanNotMixed
<1>9. CASE snapshot'.plan.known
  <2>1. tracks' = StepTracks(tick, on, before)
    BY <1>3, <1>9
  <2>2. \A t \in tracks' :
          \/ t = [token |-> t.token, age |-> 0, plan |-> on] /\ t.token \in Heard(tick, on)
          \/ \E u \in before :
               u.token \notin Heard(tick, on) /\ t = [u EXCEPT !.age = u.age + 1] /\ u.age + 1 < FORGET
    BY <1>3, <1>4, <2>1, Stepped
  <2>3. \A u \in before : /\ [u EXCEPT !.age = u.age + 1].token = u.token
                         /\ [u EXCEPT !.age = u.age + 1].plan = u.plan
                         /\ [u EXCEPT !.age = u.age + 1].age = u.age + 1
    BY <1>4 DEF Track
  <2> HIDE DEF on
  <2>4. \A t \in tracks' : t.age < FORGET /\ t.plan = on
    <3> SUFFICES ASSUME NEW t \in tracks' PROVE t.age < FORGET /\ t.plan = on
      OBVIOUS
    <3>1. CASE t = [token |-> t.token, age |-> 0, plan |-> on]
      <4>1. t.age = 0 /\ t.plan = on
        BY <3>1
      <4> QED
        BY <4>1, Assumptions
    <3>2. CASE \E u \in before :
                 u.token \notin Heard(tick, on) /\ t = [u EXCEPT !.age = u.age + 1] /\ u.age + 1 < FORGET
      BY <1>6, <2>3, <3>2
    <3> QED
      BY <2>2, <3>1, <3>2
  <2>5. \A t, v \in tracks' : t.token = v.token => t = v
    <3> SUFFICES ASSUME NEW t \in tracks', NEW v \in tracks', t.token = v.token PROVE t = v
      OBVIOUS
    <3>1. CASE t.token \in Heard(tick, on)
      <4>1. ASSUME NEW x \in tracks', x.token \in Heard(tick, on)
            PROVE  x = [token |-> x.token, age |-> 0, plan |-> on]
        <5>1. CASE \E u \in before : u.token \notin Heard(tick, on) /\ x = [u EXCEPT !.age = u.age + 1]
          BY <2>3, <4>1, <5>1
        <5> QED
          BY <2>2, <4>1, <5>1
      <4>2. t = [token |-> t.token, age |-> 0, plan |-> on]
        BY <3>1, <4>1
      <4>3. v = [token |-> v.token, age |-> 0, plan |-> on]
        BY <3>1, <4>1
      <4> QED
        BY <4>2, <4>3
    <3>2. CASE t.token \notin Heard(tick, on)
      <4>1. PICK u \in before : t = [u EXCEPT !.age = u.age + 1]
        BY <2>2, <3>2
      <4>2. PICK w \in before : v = [w EXCEPT !.age = w.age + 1]
        BY <2>2, <3>2
      <4>3. u.token = w.token
        BY <2>3, <4>1, <4>2
      <4>4. u = w
        BY <1>5, <4>3 DEF TracksInv
      <4> QED
        BY <4>1, <4>2, <4>4
    <3> QED
      BY <3>1, <3>2
  <2> QED
    BY <1>7, <2>4, <2>5 DEF TracksInv, PlanNotMixed, on
<1> QED
  BY <1>8, <1>9

(* A restart has neither tracks nor plan. *)
LEMMA RestartedTwin ==
  ASSUME Types, TwinRestarts
  PROVE  TwinType' /\ TracksInv'
<1>1. TwinType /\ FORGET \in Nat
  BY Assumptions DEF Types
<1>2. /\ snapshot' = NoSnapshot /\ tracks' = {} /\ held' = 0 /\ last' = 0 /\ smooth' = 0
      /\ plan' = plan /\ edits' = edits
  BY DEF TwinRestarts, planVars
<1>3. NoSnapshot \in [loaded : Nat, plan : Plan, there : BOOLEAN]
  BY DEF NoSnapshot, Plan
<1> QED
  BY <1>1, <1>2, <1>3, FS_EmptySet DEF TwinType, TracksInv, PlanNotMixed

(* An edit leaves the plan that is held alone. *)
LEMMA EditedPlan ==
  ASSUME Types, Edit
  PROVE  /\ TwinType' /\ UNCHANGED <<snapshot, tracks, held, last, smooth>>
         /\ UNCHANGED <<collectorVars, posts, topicVars, occupancyVars, faults>>
<1>1. TwinType
  BY DEF Types
<1>2. PICK new \in Plan : EditPlan(new)
  BY DEF Edit
<1> QED
  BY <1>1, <1>2 DEF TwinType, EditPlan, Edit

-----------------------------------------------------------------------------
(* A history h holds the tokens every tick listed, and whether the token   *)
(* table was new at it or missing.                                         *)
Entry == [tokens : SUBSET Token, broken : BOOLEAN]
Kept(h, i, j) == \A g \in i + 1 .. j : ~h[g].broken

(* While its table is kept, a phone has one token in any FORGET ticks in a *)
(* row; and one listed less than FORGET ticks ago still has its token.     *)
Past(h) ==
  /\ h \in [1 .. now -> Entry]
  /\ \A i, j \in 1 .. now : i <= j /\ j < i + FORGET /\ Kept(h, i, j) =>
       \A k \in h[i].tokens, l \in h[j].tokens : k[1] = l[1] => k = l
  /\ table => \A i \in 1 .. now : now < i + FORGET /\ Kept(h, i, now) =>
       \A k \in h[i].tokens : minted[k[1]] = k[2] /\ i + unseen[k[1]] <= now

(* What is on its way to digital-twin, and what it has, is of the history: *)
(* its run of ticks is without a gap, and a track as young as the run was  *)
(* heard in as many ticks as its age says.                                 *)
Conforms(h, batch) ==
  /\ batch.n \in 1 .. now /\ h[batch.n].broken = batch.first
  /\ \A row \in batch.connected : row.token \in h[batch.n].tokens
Carried(h) ==
  /\ \A post \in posts : Conforms(h, post.batch)
  /\ \A i \in 1 .. Len(observations) : Conforms(h, observations[i])
Followed(h) ==
  /\ smooth <= last /\ last <= now
  /\ Kept(h, last - smooth + 1, last)
  /\ \A t \in tracks : t.age < smooth => \E g \in last - t.age .. last : t.token \in h[g].tokens

(* One more tick of the history. *)
And(h, e) == [i \in 1 .. now + 1 |-> IF i = now + 1 THEN e ELSE h[i]]

LEMMA Extended ==
  ASSUME NEW h, NEW H, NEW e \in Entry, now \in Nat, FORGET \in Nat, h \in [1 .. now -> Entry],
         H = And(h, e)
  PROVE  /\ H \in [1 .. now + 1 -> Entry] /\ H[now + 1] = e
         /\ \A i \in 1 .. now : H[i] = h[i]
         /\ \A i, j \in 1 .. now : Kept(H, i, j) => Kept(h, i, j)
         /\ \A i \in 1 .. now : Kept(H, i, now + 1) => Kept(h, i, now) /\ ~e.broken
<1>1. H \in [1 .. now + 1 -> Entry] /\ H[now + 1] = e /\ \A i \in 1 .. now : H[i] = h[i]
  BY DEF And
<1>2. \A i, j \in 1 .. now : Kept(H, i, j) => Kept(h, i, j)
  BY <1>1 DEF Kept
<1>3. \A i \in 1 .. now : Kept(H, i, now + 1) => Kept(h, i, now) /\ ~e.broken
  BY <1>1 DEF Kept
<1> QED
  BY <1>1, <1>2, <1>3

(* A poll adds the tokens it listed: a phone seen less than FORGET ticks   *)
(* ago still has its token, and one that was forgotten gets its next one.  *)
LEMMA PollPast ==
  ASSUME Types, NEW h, NEW H, NEW e, Past(h), NEW reading \in Readings, Poll(reading),
         e = [tokens |-> {row.token : row \in Connected(reading.rows)}, broken |-> ~table],
         H = And(h, e)
  PROVE  Past(H)' /\ \A i \in 1 .. now : H[i] = h[i]
<1>1. /\ CollectorType /\ CollectorType' /\ now' = now + 1 /\ now \in Nat
      /\ table \in BOOLEAN /\ unseen \in [Phone -> 0 .. FORGET] /\ minted \in [Phone -> Nat]
      /\ FORGET \in Nat \ {0}
  BY PollType, Assumptions DEF Types, CollectorType
<1>2. /\ Connected(reading.rows) \in SUBSET Row
      /\ \A row \in Connected(reading.rows) :
           /\ row.token[1] \in Phone /\ row.token[2] = minted'[row.token[1]]
           /\ reading.rows[row.token[1]] # {}
  BY <1>1, Rows DEF CollectorType
<1>3. \A k \in e.tokens : /\ k \in Token /\ k[2] = minted'[k[1]] /\ k[1] \in Phone
                         /\ reading.rows[k[1]] # {}
  <2>1. \A k \in e.tokens : \E row \in Connected(reading.rows) : k = row.token
    OBVIOUS
  <2>2. \A row \in Row : row.token \in Token
    BY DEF Row
  <2> QED
    BY <1>2, <2>1, <2>2
<1>4. e \in Entry /\ e.broken = ~table
  BY <1>1, <1>3 DEF Entry
<1>5. h \in [1 .. now -> Entry]
  BY DEF Past
<1>6. /\ H \in [1 .. now + 1 -> Entry] /\ H[now + 1] = e
      /\ \A i \in 1 .. now : H[i] = h[i]
      /\ \A i, j \in 1 .. now : Kept(H, i, j) => Kept(h, i, j)
      /\ \A i \in 1 .. now : Kept(H, i, now + 1) => Kept(h, i, now) /\ ~e.broken
  <2>1. H = And(h, e) /\ FORGET \in Nat
    BY <1>1
  <2> QED
    BY ONLY <1>1, <1>4, <1>5, <2>1, Extended
<1>7. \A k, l \in e.tokens : k[1] = l[1] => k = l
  BY <1>3 DEF Token
<1>8. /\ \A p \in Phone : unseen[p] < FORGET => minted'[p] = minted[p] /\ unseen'[p] <= unseen[p] + 1
      /\ \A p \in Phone : reading.rows[p] # {} => unseen'[p] = 0
  BY <1>1 DEF Poll, Observe, Unknown, Longer
<1>9. ASSUME NEW i \in 1 .. now, now + 1 < i + FORGET, Kept(H, i, now + 1), NEW k \in h[i].tokens
      PROVE  /\ k \in Token /\ k[1] \in Phone /\ minted'[k[1]] = k[2]
             /\ i + unseen'[k[1]] <= now + 1
  <2>6. Kept(h, i, now) /\ ~e.broken
    BY <1>6, <1>9
  <2>7. now < i + FORGET
    BY <1>1, <1>9
  <2>1. table /\ now < i + FORGET /\ Kept(h, i, now)
    BY <1>4, <2>6, <2>7
  <2>2. minted[k[1]] = k[2] /\ i + unseen[k[1]] <= now
    BY <1>9, <2>1 DEF Past
  <2>3. k \in Token /\ k[1] \in Phone
    BY <1>5, <1>9 DEF Entry, Token
  <2>4. unseen[k[1]] \in Nat /\ unseen'[k[1]] \in Nat
    BY <1>1, <2>3 DEF CollectorType
  <2>5. unseen[k[1]] < FORGET
    BY <1>1, <1>9, <2>2, <2>4
  <2> QED
    BY <1>1, <1>8, <2>2, <2>3, <2>4, <2>5
<1>10. ASSUME NEW i \in 1 .. now + 1, NEW j \in 1 .. now + 1,
              i <= j, j < i + FORGET, Kept(H, i, j),
              NEW k \in H[i].tokens, NEW l \in H[j].tokens, k[1] = l[1]
       PROVE  k = l
  <2>1. CASE j \in 1 .. now
    <3>1. i \in 1 .. now
      BY <1>1, <1>10, <2>1
    <3>2. Kept(h, i, j)
      BY ONLY <1>6, <1>10, <2>1, <3>1
    <3>3. k \in h[i].tokens /\ l \in h[j].tokens
      BY <1>6, <1>10, <2>1, <3>1
    <3> QED
      BY <1>10, <2>1, <3>1, <3>2, <3>3 DEF Past
  <2>2. CASE j = now + 1 /\ i \in 1 .. now
    <3>1. k \in Token /\ k[2] = minted'[k[1]]
      BY <1>6, <1>9, <1>10, <2>2
    <3>2. l \in Token /\ l[2] = minted'[l[1]]
      BY <1>3, <1>6, <1>10, <2>2
    <3> QED
      BY <1>10, <3>1, <3>2 DEF Token
  <2>3. CASE j = now + 1 /\ i = now + 1
    BY <1>6, <1>7, <1>10, <2>3
  <2> QED
    BY <1>1, <2>1, <2>2, <2>3
<1>11. ASSUME NEW i \in 1 .. now + 1, now + 1 < i + FORGET, Kept(H, i, now + 1), NEW k \in H[i].tokens
       PROVE  minted'[k[1]] = k[2] /\ i + unseen'[k[1]] <= now + 1
  <2>1. CASE i \in 1 .. now
    BY <1>6, <1>9, <1>11, <2>1
  <2>2. CASE i = now + 1
    <3>1. k \in e.tokens
      BY <1>6, <1>11, <2>2
    <3>2. unseen'[k[1]] = 0 /\ minted'[k[1]] = k[2]
      BY <1>3, <1>8, <3>1
    <3> QED
      BY <1>1, <2>2, <3>2
  <2> QED
    BY <1>1, <2>1, <2>2
<1>12. Past(H)'
  <2>1. \A i, j \in 1 .. now' : i <= j /\ j < i + FORGET /\ Kept(H, i, j) =>
          \A k \in H[i].tokens, l \in H[j].tokens : k[1] = l[1] => k = l
    BY ONLY <1>1, <1>10
  <2>2. \A i \in 1 .. now' : now' < i + FORGET /\ Kept(H, i, now') =>
          \A k \in H[i].tokens : minted'[k[1]] = k[2] /\ i + unseen'[k[1]] <= now'
    BY ONLY <1>1, <1>11
  <2>3. H \in [1 .. now' -> Entry]
    BY <1>1, <1>6
  <2> QED
    BY <2>1, <2>2, <2>3 DEF Past, Kept
<1> QED
  BY <1>6, <1>12

(* A tick without the building lists nothing, and the table is gone. *)
LEMMA SkipPast ==
  ASSUME Types, NEW h, NEW H, NEW e, Past(h), PollWithout,
         e = [tokens |-> {}, broken |-> TRUE], H = And(h, e)
  PROVE  CollectorType' /\ now' = now + 1 /\ Past(H)' /\ \A i \in 1 .. now : H[i] = h[i]
<1>1. /\ CollectorType /\ now' = now + 1 /\ now \in Nat /\ FORGET \in Nat \ {0}
      /\ table' = FALSE /\ minted' = minted /\ unseen' = [p \in Phone |-> FORGET]
      /\ routers' \in {Router, {}} /\ now < MaxTicks
  <2>1. CollectorType /\ now \in 0 .. MaxTicks /\ MaxTicks \in Nat /\ FORGET \in Nat \ {0}
    BY Assumptions DEF Types, CollectorType
  <2> QED
    BY <2>1 DEF PollWithout, NextTick, NoTable, Refresh
<1>2. CollectorType'
  <2>1. FORGET \in 0 .. FORGET /\ MaxTicks \in Nat
    BY Assumptions
  <2>2. unseen' \in [Phone -> 0 .. FORGET]
    BY <1>1, <2>1
  <2>3. now' \in 0 .. MaxTicks
    BY <1>1, <2>1
  <2>5. table' \in BOOLEAN
    BY <1>1
  <2>4. minted' \in [Phone -> Nat]
    BY <1>1 DEF CollectorType
  <2> QED
    BY <1>1, <2>2, <2>3, <2>4, <2>5 DEF CollectorType
<1>3. e \in Entry /\ e.broken = TRUE /\ e.tokens = {}
  BY DEF Entry
<1>4. h \in [1 .. now -> Entry]
  BY DEF Past
<1>5. /\ H \in [1 .. now + 1 -> Entry] /\ H[now + 1] = e
      /\ \A i \in 1 .. now : H[i] = h[i]
      /\ \A i, j \in 1 .. now : Kept(H, i, j) => Kept(h, i, j)
      /\ \A i \in 1 .. now : Kept(H, i, now + 1) => Kept(h, i, now) /\ ~e.broken
  <2>1. H = And(h, e) /\ FORGET \in Nat
    BY <1>1
  <2> QED
    BY ONLY <1>1, <1>3, <1>4, <2>1, Extended
<1>6. ASSUME NEW i \in 1 .. now + 1, NEW j \in 1 .. now + 1,
             i <= j, j < i + FORGET, Kept(H, i, j),
             NEW k \in H[i].tokens, NEW l \in H[j].tokens, k[1] = l[1]
      PROVE  k = l
  <2>1. CASE j = now + 1
    BY <1>3, <1>5, <1>6, <2>1
  <2>2. CASE j \in 1 .. now
    <3>1. i \in 1 .. now
      BY <1>1, <1>6, <2>2
    <3>2. Kept(h, i, j)
      BY ONLY <1>5, <1>6, <2>2, <3>1
    <3>3. k \in h[i].tokens /\ l \in h[j].tokens
      BY <1>5, <1>6, <2>2, <3>1
    <3> QED
      BY <1>6, <2>2, <3>1, <3>2, <3>3 DEF Past
  <2> QED
    BY <1>1, <2>1, <2>2
<1>7. Past(H)'
  <2>1. \A i, j \in 1 .. now' : i <= j /\ j < i + FORGET /\ Kept(H, i, j) =>
          \A k \in H[i].tokens, l \in H[j].tokens : k[1] = l[1] => k = l
    BY ONLY <1>1, <1>6
  <2>2. H \in [1 .. now' -> Entry]
    BY <1>1, <1>5
  <2> QED
    BY <1>1, <2>1, <2>2 DEF Past, Kept
<1> QED
  BY <1>1, <1>2, <1>5, <1>7

(* A collector that restarts has no table. *)
LEMMA RestartPast ==
  ASSUME Types, NEW h, Past(h), CollectorRestarts
  PROVE  CollectorType' /\ now' = now /\ Past(h)'
<1>1. /\ CollectorType /\ now' = now /\ table' = FALSE /\ minted' = minted
      /\ unseen' = [p \in Phone |-> FORGET] /\ routers' \in {Router, {}}
  BY DEF Types, CollectorRestarts, NoTable
<1>2. CollectorType'
  <2>1. FORGET \in 0 .. FORGET /\ MaxTicks \in Nat
    BY Assumptions
  <2>2. unseen' \in [Phone -> 0 .. FORGET]
    BY <1>1, <2>1
  <2> QED
    BY <1>1, <2>1, <2>2 DEF CollectorType
<1>3. Past(h)'
  BY <1>1 DEF Past, Kept
<1> QED
  BY <1>1, <1>2, <1>3

(* Steps of others. *)
LEMMA SamePast ==
  ASSUME NEW h, Past(h), UNCHANGED collectorVars
  PROVE  Past(h)'
BY DEF Past, Kept, collectorVars, tokenVars

(* What conforms to a history conforms to a longer one. *)
LEMMA StillConforms ==
  ASSUME now \in Nat, now' \in Nat, now <= now', NEW h, NEW H, \A i \in 1 .. now : H[i] = h[i]
  PROVE  /\ \A b : Conforms(h, b) => Conforms(H, b)'
         /\ Carried(h) /\ UNCHANGED <<posts, observations>> => Carried(H)'
<1>1. ASSUME NEW b, Conforms(h, b) PROVE Conforms(H, b)'
  BY <1>1 DEF Conforms
<1> QED
  BY <1>1 DEF Carried

(* And what the twin has goes on fitting it. *)
LEMMA StillFollowed ==
  ASSUME Types, now' \in Nat, now <= now', NEW h, NEW H, \A i \in 1 .. now : H[i] = h[i],
         Followed(h), UNCHANGED <<last, smooth, tracks>>
  PROVE  Followed(H)'
<1>1. /\ last \in Nat /\ smooth \in Nat /\ now \in Nat
      /\ \A t \in tracks : t.age \in Nat
  BY Assumptions DEF Types, TwinType, CollectorType, Track
<1>2. smooth <= last /\ last <= now
  BY DEF Followed
<1>3. Kept(H, last - smooth + 1, last)
  BY <1>1, <1>2 DEF Followed, Kept
<1>4. ASSUME NEW t \in tracks, t.age < smooth
      PROVE  \E g \in last - t.age .. last : t.token \in H[g].tokens
  <2>1. PICK g \in last - t.age .. last : t.token \in h[g].tokens
    BY <1>4 DEF Followed
  <2>2. g \in 1 .. now
    BY <1>1, <1>2, <1>4
  <2> QED
    BY <2>1, <2>2
<1> QED
  BY <1>1, <1>2, <1>3, <1>4 DEF Followed, Kept

(* A run one longer that ends one later begins no earlier. *)
LEMMA OneLonger ==
  ASSUME NEW l \in Nat, NEW r \in Nat, NEW s \in Nat, s <= r + 1,
         NEW g \in (l + 1 - s + 1) + 1 .. l + 1
  PROVE  g = l + 1 \/ g \in (l - r + 1) + 1 .. l
OBVIOUS

(* A tick that is observed lengthens the run, or begins one. *)
LEMMA ObservedFollows ==
  ASSUME Types, NEW h, Followed(h), NEW tick \in Batch, Conforms(h, tick),
         NEW fails \in BOOLEAN, ObserveTick(tick, now, fails), now' = now
  PROVE  Followed(h)'
<1>1. /\ last \in Nat /\ smooth \in 0 .. FORGET /\ now \in Nat /\ FORGET \in Nat \ {0}
      /\ tracks \in SUBSET Track /\ IsFiniteSet(tracks) /\ \A t \in tracks : t.age \in Nat
  BY Assumptions DEF Types, TwinType, CollectorType, Track
<1>2. smooth <= last /\ last <= now /\ Kept(h, last - smooth + 1, last)
  BY DEF Followed
<1>3. tick.n \in 1 .. now /\ h[tick.n].broken = tick.first
      /\ \A row \in tick.connected : row.token \in h[tick.n].tokens
  BY DEF Conforms
<1> DEFINE on == snapshot'.plan.placed
<1>4. PICK before \in {{}, tracks} :
        /\ on \in SUBSET Router
        /\ tracks' = IF snapshot'.plan.known THEN StepTracks(tick, on, before) ELSE before
  BY Observed
<1>5. /\ last' = IF snapshot'.plan.known THEN tick.n ELSE last
      /\ smooth' = IF ~snapshot'.plan.known THEN 0
                   ELSE IF tick.n = last THEN smooth
                   ELSE IF tick.n = last + 1 /\ ~tick.first THEN Lengthened
                   ELSE 1
      /\ \A t \in tracks' : t.age \in Nat
  BY Observed DEF TwinType, Track
<1>6. before \in SUBSET Track /\ IsFiniteSet(before) /\ before \subseteq tracks
  BY <1>1, <1>4, FS_EmptySet
<1>7. CASE ~snapshot'.plan.known
  <2>1. smooth' = 0 /\ last' = last
    BY <1>5, <1>7
  <2>2. Kept(h, last - 0 + 1, last)
    BY <1>1 DEF Kept
  <2> QED
    BY <1>1, <1>2, <1>5, <2>1, <2>2 DEF Followed, Kept
<1>8. CASE snapshot'.plan.known
  <2>1. tracks' = StepTracks(tick, on, before) /\ last' = tick.n
    BY <1>4, <1>5, <1>8
  <2>2. /\ \A t \in tracks' :
             \/ t = [token |-> t.token, age |-> 0, plan |-> on] /\ t.token \in Heard(tick, on)
             \/ \E u \in before :
                  u.token \notin Heard(tick, on) /\ t = [u EXCEPT !.age = u.age + 1] /\ u.age + 1 < FORGET
        /\ \A k \in Heard(tick, on) : \E row \in tick.connected : row.token = k
    BY <1>4, <1>6, <2>1, Stepped
  <2> HIDE DEF on
  <2>3. /\ smooth' \in Nat /\ smooth' <= last'
        /\ smooth' <= 1 \/ (smooth' <= smooth /\ last' = last) \/ (smooth' <= smooth + 1 /\ last' = last + 1)
        /\ Kept(h, last' - smooth' + 1, last')
    <3>1. CASE tick.n = last
      BY <1>1, <1>2, <1>5, <1>8, <2>1, <3>1
    <3>2. CASE tick.n = last + 1 /\ ~tick.first
      <4>1. smooth' = Lengthened
        BY <1>1, <1>5, <1>8, <3>2
      <4>2. smooth' \in Nat /\ smooth' <= smooth + 1
        BY <1>1, <4>1 DEF Lengthened
      <4>3. PICK s \in Nat : s = smooth' /\ s <= smooth + 1
        BY <4>2
      <4>4. last' = last + 1 /\ last \in Nat /\ smooth \in Nat
        BY <1>1, <2>1, <3>2
      <4>5. ASSUME NEW g \in (last + 1 - s + 1) + 1 .. last + 1
            PROVE  ~h[g].broken
        <5>1. g = last + 1 \/ g \in (last - smooth + 1) + 1 .. last
          BY <4>3, <4>4, OneLonger
        <5> QED
          BY <1>2, <1>3, <3>2, <5>1 DEF Kept
      <4>6. Kept(h, last + 1 - s + 1, last + 1)
        BY <4>5 DEF Kept
      <4>7. Kept(h, last' - smooth' + 1, last') /\ s <= last + 1
        BY <1>2, <4>3, <4>4, <4>6
      <4> QED
        BY <4>3, <4>4, <4>7
    <3>3. CASE tick.n # last /\ ~(tick.n = last + 1 /\ ~tick.first)
      <4>1. smooth' = 1 /\ last' = tick.n
        BY <1>5, <1>8, <3>3
      <4>2. Kept(h, tick.n - 1 + 1, tick.n)
        BY <1>3 DEF Kept
      <4> QED
        BY <1>1, <1>3, <4>1, <4>2
    <3> QED
      BY <3>1, <3>2, <3>3
  <2>4. ASSUME NEW t \in tracks', t.age < smooth'
        PROVE  \E g \in last' - t.age .. last' : t.token \in h[g].tokens
    <3>1. CASE t = [token |-> t.token, age |-> 0, plan |-> on] /\ t.token \in Heard(tick, on)
      <4>1. t.age = 0
        BY <3>1
      <4>2. t.token \in h[tick.n].tokens
        BY <1>3, <2>2, <3>1
      <4> QED
        BY <1>1, <1>3, <2>1, <4>1, <4>2
    <3>2. CASE \E u \in before : t = [u EXCEPT !.age = u.age + 1]
      <4>1. PICK u \in before : t = [u EXCEPT !.age = u.age + 1]
        BY <3>2
      <4>2. u \in tracks /\ u.age \in Nat /\ t.token = u.token /\ t.age = u.age + 1
        BY <1>1, <1>6, <4>1 DEF Track
      <4>3. u.age < smooth /\ last' \in {last, last + 1}
        BY <1>1, <2>3, <2>4, <4>2
      <4>4. PICK g \in last - u.age .. last : t.token \in h[g].tokens
        BY <4>2, <4>3 DEF Followed
      <4>5. g \in last' - t.age .. last'
        BY <1>1, <4>2, <4>3, <4>4
      <4> QED
        BY <4>4, <4>5
    <3> QED
      BY <2>2, <3>1, <3>2
  <2>5. last' <= now'
    BY <1>3, <2>1
  <2> QED
    BY <2>3, <2>4, <2>5 DEF Followed, Kept
<1> QED
  BY <1>7, <1>8

-----------------------------------------------------------------------------
(* A set that is split among the routers is as large as its parts are.     *)
LEMMA Split ==
  ASSUME NEW batch, IsFiniteSet(batch.connected), NEW f \in [batch.connected -> Router]
  PROVE  Cardinality(People(RoomReadings(batch, f))) = Cardinality(batch.connected)
<1> DEFINE C == batch.connected
           totals == RoomReadings(batch, f)
           Part(r) == {x \in C : f[x] = r}
           U == UNION {{r} \X (1 .. totals[r]) : r \in Router}
           c == [r \in Router |-> CHOOSE g : g \in Bijection(Part(r), 1 .. totals[r])]
           G == [x \in C |-> <<f[x], c[f[x]][x]>>]
<1>1. ASSUME NEW r \in Router
      PROVE  c[r] \in Bijection(Part(r), 1 .. totals[r])
  <2>1. IsFiniteSet(Part(r))
    BY FS_Subset
  <2>2. totals[r] = Cardinality(Part(r))
    BY DEF RoomReadings
  <2>3. ExistsBijection(1 .. totals[r], Part(r))
    BY <2>1, <2>2, FS_CardinalityType
  <2>4. ExistsBijection(Part(r), 1 .. totals[r])
    BY <2>3, Fun_ExistsBijSymmetric
  <2>5. \E g : g \in Bijection(Part(r), 1 .. totals[r])
    BY <2>4 DEF ExistsBijection
  <2> HIDE DEF Part
  <2> QED
    BY <2>5
<1> HIDE DEF c
<1>3. /\ \A x \in C : f[x] \in Router /\ x \in Part(f[x])
      /\ \A r \in Router : \A x \in Part(r) : x \in C /\ f[x] = r
  OBVIOUS
<1> HIDE DEF Part
<1>2. ASSUME NEW r \in Router
      PROVE  /\ c[r] \in [Part(r) -> 1 .. totals[r]]
             /\ \A x, y \in Part(r) : c[r][x] = c[r][y] => x = y
             /\ \A k \in 1 .. totals[r] : \E x \in Part(r) : c[r][x] = k
  BY <1>1 DEF Bijection, Injection, Surjection, IsInjective
<1>4. G \in [C -> U]
  <2> SUFFICES ASSUME NEW x \in C PROVE <<f[x], c[f[x]][x]>> \in U
    OBVIOUS
  <2>1. f[x] \in Router /\ x \in Part(f[x])
    BY <1>3
  <2>2. c[f[x]] \in [Part(f[x]) -> 1 .. totals[f[x]]]
    BY <1>2, <2>1
  <2>3. c[f[x]][x] \in 1 .. totals[f[x]]
    BY <2>1, <2>2
  <2> QED
    BY <2>1, <2>3
<1>5. ASSUME NEW x \in C, NEW y \in C, G[x] = G[y] PROVE x = y
  <2>1. f[x] = f[y] /\ c[f[x]][x] = c[f[x]][y]
    BY <1>5
  <2>2. f[x] \in Router /\ x \in Part(f[x]) /\ y \in Part(f[x])
    BY <1>3, <2>1
  <2> QED
    BY <1>2, <2>1, <2>2
<1>6. ASSUME NEW u \in U PROVE \E x \in C : G[x] = u
  <2>1. PICK r \in Router : u \in {r} \X (1 .. totals[r])
    OBVIOUS
  <2>2. PICK x \in Part(r) : c[r][x] = u[2]
    BY <1>2, <2>1
  <2>3. G[x] = <<r, u[2]>> /\ x \in C
    BY <1>3, <2>2
  <2> QED
    BY <2>1, <2>3
<1> HIDE DEF G, U
<1>7. G \in Bijection(C, U)
  BY <1>4, <1>5, <1>6 DEF Bijection, Injection, Surjection, IsInjective
<1>8. Cardinality(U) = Cardinality(C)
  BY <1>7, FS_Bijection DEF ExistsBijection
<1> QED
  BY <1>8 DEF People, U

(* What telemetry stores for a tick adds up to its rows. *)
LEMMA StoredCounted ==
  ASSUME Types, CountedOnce, NEW post \in posts, StoreTotals(post)
  PROVE  CountedOnce'
<1>1. ASSUME NEW q \in posts', NEW f \in Loudest(post.batch),
             q.batch = post.batch, q.totals = RoomReadings(post.batch, f)
      PROVE  Cardinality(People(q.totals)) = Cardinality(q.batch.connected)
  <2>1. IsFiniteSet(post.batch.connected)
    <3>1. post \in Post
      BY DEF Types, PipeType
    <3> QED
      BY <3>1 DEF Post, Batch
  <2>2. f \in [post.batch.connected -> Router]
    BY DEF Loudest
  <2> QED
    BY <1>1, <2>1, <2>2, Split
<1>2. \A q \in posts' : q \in posts
        \/ \E f \in Loudest(post.batch) :
             q.stored = TRUE /\ q.batch = post.batch /\ q.totals = RoomReadings(post.batch, f)
  BY StoredPosts
<1> SUFFICES ASSUME NEW q \in posts', q.stored
             PROVE  Cardinality(People(q.totals)) = Cardinality(q.batch.connected)
  BY DEF CountedOnce
<1> QED
  BY <1>1, <1>2 DEF CountedOnce

-----------------------------------------------------------------------------
(* The inductive invariant. *)
HistoryInv == \E h : Past(h) /\ Carried(h) /\ Followed(h)

Inv == Types /\ Ledger /\ TracksInv /\ HistoryInv /\ CountedOnce

LEMMA InitInv == Init => Inv
<1> SUFFICES ASSUME Init PROVE Inv
  OBVIOUS
<1>1. CollectorInit /\ TrackingInit /\ posts = {} /\ observations = <<>> /\ taken = 0
      /\ occupancies = <<>> /\ handled = 0 /\ settled = {} /\ faults = 0
      /\ counted = [n \in Tick |-> NoCount] /\ estimated = [n \in Tick |-> NoCount]
  BY DEF Init
<1>2. CollectorType
  <2>1. 0 \in 0 .. MaxTicks /\ FORGET \in 0 .. FORGET
    BY Assumptions
  <2> QED
    BY <1>1, <2>1 DEF CollectorType, CollectorInit
<1>3. TwinType /\ TracksInv
  <2>1. NoSnapshot \in [loaded : Nat, plan : Plan, there : BOOLEAN]
    BY DEF NoSnapshot, Plan
  <2>2. [known |-> TRUE, placed |-> Router] \in Plan
    BY DEF Plan
  <2> QED
    BY <1>1, <2>1, <2>2, Assumptions, FS_EmptySet
       DEF TwinType, TracksInv, TrackingInit, PlanNotMixed
<1>4. PipeType /\ CountType
  BY <1>1 DEF PipeType, CountType
<1>5. Ledger
  BY <1>1 DEF Ledger
<1>6. HistoryInv
  <2>1. Past(<<>>)
    BY <1>1 DEF Past, CollectorInit
  <2>2. Carried(<<>>)
    BY <1>1 DEF Carried
  <2>3. Followed(<<>>)
    BY <1>1 DEF Followed, Kept, TrackingInit, CollectorInit
  <2> QED
    BY <2>1, <2>2, <2>3 DEF HistoryInv
<1>7. CountedOnce
  BY <1>1 DEF CountedOnce
<1> QED
  BY <1>1, <1>2, <1>3, <1>4, <1>5, <1>6, <1>7 DEF Inv, Types

(* The parts of the invariant a step leaves alone. *)
LEMMA SameTwin ==
  ASSUME Inv, UNCHANGED trackingVars
  PROVE  TwinType' /\ TracksInv' /\ UNCHANGED <<last, smooth, tracks>>
BY DEF Inv, Types, TwinType, TracksInv, PlanNotMixed, trackingVars, planVars

LEMMA SameLedger ==
  ASSUME Inv, UNCHANGED occupancyVars
  PROVE  CountType' /\ Ledger'
BY DEF Inv, Types, CountType, Ledger, occupancyVars, storeVars

LEMMA SameCollector ==
  ASSUME Inv, UNCHANGED collectorVars
  PROVE  CollectorType' /\ now \in Nat /\ now' = now
BY DEF Inv, Types, CollectorType, collectorVars, tokenVars

LEMMA RestartInv == ASSUME Inv, RestartCollector PROVE Inv'
<1>1. Types /\ CollectorRestarts /\ Fault
      /\ UNCHANGED <<trackingVars, posts, topicVars, occupancyVars>>
  BY DEF Inv, RestartCollector
<1>2. PICK h : Past(h) /\ Carried(h) /\ Followed(h)
  BY DEF Inv, HistoryInv
<1>3. CollectorType' /\ now' = now /\ Past(h)'
  BY <1>1, <1>2, RestartPast
<1>4. now \in Nat
  BY <1>1 DEF Types, CollectorType
<1>5. Carried(h)'
  BY <1>1, <1>2, <1>3, <1>4, StillConforms DEF topicVars
<1>6. TwinType' /\ TracksInv' /\ UNCHANGED <<last, smooth, tracks>> /\ CountType' /\ Ledger'
  BY <1>1, SameTwin, SameLedger
<1>7. Followed(h)'
  BY <1>1, <1>2, <1>3, <1>4, <1>6, StillFollowed
<1>8. PipeType' /\ faults' \in Nat /\ CountedOnce'
  BY <1>1 DEF Inv, Types, PipeType, topicVars, Fault, CountedOnce
<1> QED
  BY <1>3, <1>5, <1>6, <1>7, <1>8 DEF Inv, Types, HistoryInv

LEMMA PostInv == ASSUME Inv, PostTick PROVE Inv'
<1>1. Types
  BY DEF Inv
<1>2. PICK h : Past(h) /\ Carried(h) /\ Followed(h)
  BY DEF Inv, HistoryInv
<1>3. PICK reading \in Readings, batch \in Batch :
        /\ Poll(reading) /\ now' \in Tick /\ now' = now + 1
        /\ batch.n = now' /\ batch.first = ~table
        /\ batch.connected = Connected(reading.rows)
        /\ posts' = posts \cup {Posted(batch)} /\ Posted(batch) \in Post
        /\ ~Posted(batch).stored /\ Posted(batch).batch = batch
  BY <1>1, PostTypes
<1>4. CollectorType' /\ UNCHANGED <<trackingVars, topicVars, occupancyVars>> /\ faults' \in Nat
  BY <1>1, PostTypes
<1> DEFINE e == [tokens |-> {row.token : row \in Connected(reading.rows)}, broken |-> ~table]
<1>5. PICK E : E = e
  OBVIOUS
<1>6. PICK H : H = And(h, E)
  OBVIOUS
<1>7. Past(H)' /\ \A i \in 1 .. now : H[i] = h[i]
  BY <1>1, <1>2, <1>3, <1>5, <1>6, PollPast
<1>8. now \in Nat /\ now' \in Nat /\ now <= now'
  BY <1>1, <1>3 DEF Types, CollectorType
<1>9. H[now + 1] = E
  BY <1>6, <1>8 DEF And
<1>10. Conforms(H, batch)'
  BY <1>3, <1>5, <1>8, <1>9 DEF Conforms
<1>11. Carried(H)'
  <2>1. \A b : Conforms(h, b) => Conforms(H, b)'
    BY <1>7, <1>8, StillConforms
  <2>2. \A post \in posts' : post \in posts \/ post.batch = batch
    BY <1>3
  <2>3. observations' = observations
    BY <1>4 DEF topicVars
  <2> QED
    BY <1>2, <1>10, <2>1, <2>2, <2>3 DEF Carried
<1>12. TwinType' /\ TracksInv' /\ UNCHANGED <<last, smooth, tracks>> /\ CountType' /\ Ledger'
  BY <1>4, SameTwin, SameLedger
<1>13. Followed(H)'
  BY <1>1, <1>2, <1>7, <1>8, <1>12, StillFollowed
<1>14. PipeType'
  BY <1>1, <1>3, <1>4 DEF Types, PipeType, topicVars
<1>15. CountedOnce'
  BY <1>3 DEF Inv, CountedOnce
<1> QED
  BY <1>4, <1>7, <1>11, <1>12, <1>13, <1>14, <1>15 DEF Inv, Types, HistoryInv

LEMMA SkipInv == ASSUME Inv, SkipTick PROVE Inv'
<1>1. Types /\ PollWithout
      /\ UNCHANGED <<trackingVars, posts, topicVars, occupancyVars, faults>>
  BY DEF Inv, SkipTick
<1>2. PICK h : Past(h) /\ Carried(h) /\ Followed(h)
  BY DEF Inv, HistoryInv
<1>3. PICK E : E = [tokens |-> {}, broken |-> TRUE]
  OBVIOUS
<1>4. PICK H : H = And(h, E)
  OBVIOUS
<1>5. CollectorType' /\ now' = now + 1 /\ Past(H)' /\ \A i \in 1 .. now : H[i] = h[i]
  BY <1>1, <1>2, <1>3, <1>4, SkipPast
<1>6. now \in Nat /\ now' \in Nat /\ now <= now'
  BY <1>1, <1>5 DEF Types, CollectorType
<1>7. Carried(H)'
  BY <1>1, <1>2, <1>5, <1>6, StillConforms DEF topicVars
<1>8. TwinType' /\ TracksInv' /\ UNCHANGED <<last, smooth, tracks>> /\ CountType' /\ Ledger'
  BY <1>1, SameTwin, SameLedger
<1>9. Followed(H)'
  BY <1>1, <1>2, <1>5, <1>6, <1>8, StillFollowed
<1>10. PipeType' /\ faults' \in Nat /\ CountedOnce'
  BY <1>1 DEF Inv, Types, PipeType, topicVars, CountedOnce
<1> QED
  BY <1>5, <1>7, <1>8, <1>9, <1>10 DEF Inv, Types, HistoryInv

(* Telemetry and the stored counts leave the collector and the twin alone. *)
LEMMA OthersInv ==
  ASSUME Inv, UNCHANGED <<collectorVars, trackingVars>>, NEW h, Past(h), Followed(h), Carried(h)'
  PROVE  CollectorType' /\ TwinType' /\ TracksInv' /\ HistoryInv'
<1>1. CollectorType' /\ now \in Nat /\ now' = now
  BY SameCollector
<1>2. Past(h)'
  BY SamePast
<1>3. TwinType' /\ TracksInv' /\ UNCHANGED <<last, smooth, tracks>>
  BY SameTwin
<1>4. Followed(h)'
  BY <1>1, <1>3, StillFollowed DEF Inv
<1> QED
  BY <1>1, <1>2, <1>3, <1>4 DEF HistoryInv

LEMMA StoreTotalsInv ==
  ASSUME Inv, NEW post \in posts, StoreTotals(post) PROVE Inv'
<1>1. Types /\ CountedOnce
  BY DEF Inv
<1>2. PICK h : Past(h) /\ Carried(h) /\ Followed(h)
  BY DEF Inv, HistoryInv
<1>3. /\ posts' \in SUBSET Post /\ faults' \in Nat
      /\ UNCHANGED <<collectorVars, trackingVars, topicVars, occupancyVars>>
      /\ \A q \in posts' : q \in posts \/ q.batch = post.batch
  BY <1>1, StoredPosts
<1>4. Carried(h)'
  <2>1. now' = now /\ observations' = observations
    BY <1>3 DEF collectorVars, topicVars
  <2>2. \A b : Conforms(h, b) => Conforms(h, b)'
    BY <2>1 DEF Conforms
  <2> QED
    BY <1>2, <1>3, <2>1, <2>2 DEF Carried
<1>5. CollectorType' /\ TwinType' /\ TracksInv' /\ HistoryInv'
  BY <1>2, <1>3, <1>4, OthersInv
<1>6. CountType' /\ Ledger' /\ CountedOnce'
  BY <1>1, <1>3, SameLedger, StoredCounted
<1>7. PipeType'
  BY <1>1, <1>3 DEF Types, PipeType, topicVars
<1> QED
  BY <1>3, <1>5, <1>6, <1>7 DEF Inv, Types

LEMMA PublishTickInv ==
  ASSUME Inv, NEW post \in posts, PublishTick(post) PROVE Inv'
<1>1. Types /\ CountedOnce
  BY DEF Inv
<1>2. PICK h : Past(h) /\ Carried(h) /\ Followed(h)
  BY DEF Inv, HistoryInv
<1>3. /\ posts' \in SUBSET posts /\ faults' \in Nat /\ post.batch \in Batch
      /\ observations' \in {observations, Append(observations, post.batch)}
      /\ UNCHANGED <<collectorVars, trackingVars, taken, occupancyVars>>
  BY <1>1, PublishedTick
<1>4. observations \in Seq(Batch)
  BY <1>1 DEF Types, PipeType
<1>5. Carried(h)'
  <2>1. \A b : Conforms(h, b) => Conforms(h, b)'
    BY <1>3 DEF Conforms, collectorVars
  <2>2. \A i \in 1 .. Len(observations') :
          observations'[i] = post.batch \/ \E j \in 1 .. Len(observations) : observations'[i] = observations[j]
    BY <1>3, <1>4
  <2> QED
    BY <1>2, <1>3, <2>1, <2>2 DEF Carried
<1>6. CollectorType' /\ TwinType' /\ TracksInv' /\ HistoryInv'
  BY <1>2, <1>3, <1>5, OthersInv
<1>7. CountType' /\ Ledger' /\ CountedOnce'
  BY <1>1, <1>3, SameLedger DEF CountedOnce
<1>8. PipeType'
  BY <1>1, <1>3, <1>4 DEF Types, PipeType
<1> QED
  BY <1>3, <1>6, <1>7, <1>8 DEF Inv, Types

LEMMA EditInv == ASSUME Inv, Edit PROVE Inv'
<1>1. Types
  BY DEF Inv
<1>2. PICK h : Past(h) /\ Carried(h) /\ Followed(h)
  BY DEF Inv, HistoryInv
<1>3. /\ TwinType' /\ UNCHANGED <<snapshot, tracks, held, last, smooth>>
      /\ UNCHANGED <<collectorVars, posts, topicVars, occupancyVars, faults>>
  BY <1>1, EditedPlan
<1>4. CollectorType' /\ now \in Nat /\ now' = now /\ Past(h)'
  BY <1>2, <1>3, SameCollector, SamePast
<1>5. Carried(h)' /\ Followed(h)'
  BY <1>1, <1>2, <1>3, <1>4, StillConforms, StillFollowed DEF topicVars
<1>6. CountType' /\ Ledger' /\ TracksInv'
  BY <1>3, SameLedger DEF Inv, TracksInv, PlanNotMixed
<1>7. PipeType' /\ faults' \in Nat /\ CountedOnce'
  BY <1>3 DEF Inv, Types, PipeType, topicVars, CountedOnce
<1> QED
  BY <1>3, <1>4, <1>5, <1>6, <1>7 DEF Inv, Types, HistoryInv

LEMMA TakeInv == ASSUME Inv, TakeTick PROVE Inv'
<1>1. Types /\ Ledger /\ TracksInv
  BY DEF Inv
<1>2. PICK h : Past(h) /\ Carried(h) /\ Followed(h)
  BY DEF Inv, HistoryInv
<1>3. PICK tick \in Batch :
        /\ tick = observations[taken + 1] /\ taken + 1 \in 1 .. Len(observations)
        /\ \/ UNCHANGED <<trackingVars, occupancies, counted>>
           \/ \E fails, sent \in BOOLEAN : ObserveTick(tick, now, fails) /\ PublishCount(tick, sent)
  BY <1>1, Taken
<1>4. /\ observations' \in Seq(Batch) /\ taken' \in 0 .. 1
      /\ \A i \in 1 .. Len(observations') :
           \E j \in 1 .. Len(observations) : observations'[i] = observations[j]
      /\ UNCHANGED <<collectorVars, posts, storeVars>> /\ faults' \in Nat
  BY <1>1, Taken
<1>5. CollectorType' /\ now \in Nat /\ now' = now /\ Past(h)'
  BY <1>2, <1>4, SameCollector, SamePast
<1>6. Conforms(h, tick)
  BY <1>2, <1>3 DEF Carried
<1>7. Carried(h)'
  <2>1. \A b : Conforms(h, b) => Conforms(h, b)'
    BY <1>5 DEF Conforms
  <2> QED
    BY <1>2, <1>4, <2>1 DEF Carried
<1>8. PipeType' /\ CountedOnce'
  BY <1>1, <1>4 DEF Inv, Types, PipeType, CountedOnce
<1>9. TwinType' /\ TracksInv' /\ Followed(h)' /\ CountType' /\ Ledger'
  <2>1. CASE UNCHANGED <<trackingVars, occupancies, counted>>
    <3>1. UNCHANGED occupancyVars
      BY <1>4, <2>1 DEF occupancyVars
    <3>2. TwinType' /\ TracksInv' /\ UNCHANGED <<last, smooth, tracks>> /\ CountType' /\ Ledger'
      BY <2>1, <3>1, SameTwin, SameLedger
    <3> QED
      BY <1>1, <1>2, <1>5, <3>2, StillFollowed
  <2>2. CASE \E fails, sent \in BOOLEAN : ObserveTick(tick, now, fails) /\ PublishCount(tick, sent)
    <3>1. PICK fails \in BOOLEAN, sent \in BOOLEAN :
            ObserveTick(tick, now, fails) /\ PublishCount(tick, sent)
      BY <2>2
    <3>2. TwinType' /\ TracksInv'
      BY <1>1, <3>1, Observed, ObservedTracks
    <3>3. Followed(h)'
      BY <1>1, <1>2, <1>5, <1>6, <3>1, ObservedFollows
    <3>4. IsFiniteSet(tracks')
      BY <3>2 DEF TwinType
    <3>5. CountType' /\ Ledger'
      BY <1>1, <1>4, <3>1, <3>4, PublishLedger
    <3> QED
      BY <3>2, <3>3, <3>5
  <2> QED
    BY <1>3, <2>1, <2>2
<1> QED
  BY <1>4, <1>5, <1>7, <1>8, <1>9 DEF Inv, Types, HistoryInv

LEMMA ReconnectInv == ASSUME Inv, TwinReconnects PROVE Inv'
<1>1. /\ Types
      /\ TwinRestarts \/ UNCHANGED trackingVars
      /\ Fault /\ taken' \in {taken, 0} /\ UNCHANGED <<collectorVars, posts, observations, occupancyVars>>
  BY DEF Inv, TwinReconnects
<1>2. PICK h : Past(h) /\ Carried(h) /\ Followed(h)
  BY DEF Inv, HistoryInv
<1>3. CollectorType' /\ now \in Nat /\ now' = now /\ Past(h)' /\ CountType' /\ Ledger'
  BY <1>1, <1>2, SameCollector, SamePast, SameLedger
<1>4. Carried(h)'
  BY <1>1, <1>2, <1>3, StillConforms
<1>5. PipeType' /\ faults' \in Nat /\ CountedOnce'
  BY <1>1 DEF Inv, Types, PipeType, Fault, CountedOnce
<1>6. CASE UNCHANGED trackingVars
  <2>1. TwinType' /\ TracksInv' /\ UNCHANGED <<last, smooth, tracks>>
    BY <1>6, SameTwin
  <2>2. Followed(h)'
    BY <1>1, <1>2, <1>3, <2>1, StillFollowed
  <2> QED
    BY <1>3, <1>4, <1>5, <2>1, <2>2 DEF Inv, Types, HistoryInv
<1>7. CASE TwinRestarts
  <2>1. TwinType' /\ TracksInv'
    BY <1>1, <1>7, RestartedTwin
  <2>2. Followed(h)'
    BY <1>3, <1>7 DEF Followed, Kept, TwinRestarts
  <2> QED
    BY <1>3, <1>4, <1>5, <2>1, <2>2 DEF Inv, Types, HistoryInv
<1> QED
  BY <1>1, <1>6, <1>7

LEMMA CountInv == ASSUME Inv, StoreCount \/ RetryCount PROVE Inv'
<1>1. /\ Types /\ Ledger
      /\ UNCHANGED <<collectorVars, trackingVars, posts, topicVars>> /\ faults' \in Nat
  BY DEF Inv, Types, StoreCount, RetryCount, Fault
<1>2. PICK h : Past(h) /\ Carried(h) /\ Followed(h)
  BY DEF Inv, HistoryInv
<1>3. now \in Nat /\ now' = now
  BY <1>1, SameCollector
<1>4. Carried(h)'
  BY <1>1, <1>2, <1>3, StillConforms DEF topicVars
<1>5. CollectorType' /\ TwinType' /\ TracksInv' /\ HistoryInv'
  BY <1>1, <1>2, <1>4, OthersInv
<1>6. CountType' /\ Ledger'
  BY <1>1, StoreLedger, RetryLedger
<1>7. PipeType' /\ CountedOnce'
  BY <1>1 DEF Inv, Types, PipeType, topicVars, CountedOnce
<1> QED
  BY <1>1, <1>5, <1>6, <1>7 DEF Inv, Types

LEMMA StutterInv == ASSUME Inv, UNCHANGED vars PROVE Inv'
<1>1. UNCHANGED <<collectorVars, trackingVars, occupancyVars, posts, topicVars, faults>>
  BY DEF vars
<1>2. PICK h : Past(h) /\ Carried(h) /\ Followed(h)
  BY DEF Inv, HistoryInv
<1>3. now \in Nat /\ now' = now
  BY <1>1, SameCollector
<1>4. Carried(h)'
  BY <1>1, <1>2, <1>3, StillConforms DEF topicVars
<1>5. CollectorType' /\ TwinType' /\ TracksInv' /\ HistoryInv' /\ CountType' /\ Ledger'
  BY <1>1, <1>2, <1>4, OthersInv, SameLedger
<1>6. PipeType' /\ CountedOnce' /\ faults' \in Nat
  BY <1>1 DEF Inv, Types, PipeType, topicVars, CountedOnce
<1> QED
  BY <1>5, <1>6 DEF Inv, Types

LEMMA NextInv == ASSUME Inv, [Next]_vars PROVE Inv'
BY RestartInv, PostInv, SkipInv, StoreTotalsInv, PublishTickInv, EditInv, TakeInv,
   ReconnectInv, CountInv, StutterInv DEF Next

LEMMA InvAlways == Spec => []Inv
BY InitInv, NextInv, PTL DEF Spec

-----------------------------------------------------------------------------
(* Two tracks of one phone that are as young as the run were heard within  *)
(* FORGET ticks of one table, so under one token.                          *)
LEMMA OneTrackEach ==
  ASSUME Inv
  PROVE  NoGhosts
<1> SUFFICES ASSUME smooth >= FORGET, NEW t \in tracks, NEW u \in tracks,
                    t.token[1] = u.token[1]
             PROVE  t = u
  BY DEF NoGhosts
<1>1. PICK h : Past(h) /\ Followed(h)
  BY DEF Inv, HistoryInv
<1>2. /\ last \in Nat /\ smooth = FORGET /\ FORGET \in Nat /\ now \in Nat
      /\ t.age \in Nat /\ u.age \in Nat
  <2>1. smooth \in 0 .. FORGET /\ last \in Nat /\ now \in Nat /\ FORGET \in Nat
    BY Assumptions DEF Inv, Types, TwinType, CollectorType
  <2>2. t \in Track /\ u \in Track
    BY DEF Inv, Types, TwinType
  <2> QED
    BY <2>1, <2>2 DEF Track
<1>3. t.age < FORGET /\ u.age < FORGET /\ (t.token = u.token => t = u)
  BY DEF Inv, TracksInv
<1>4. PICK i \in last - t.age .. last : t.token \in h[i].tokens
  BY <1>1, <1>2, <1>3 DEF Followed
<1>5. PICK j \in last - u.age .. last : u.token \in h[j].tokens
  BY <1>1, <1>2, <1>3 DEF Followed
<1>6. /\ smooth <= last /\ last <= now /\ Kept(h, last - FORGET + 1, last)
  BY <1>1, <1>2 DEF Followed
<1>7. i \in 1 .. now /\ j \in 1 .. now /\ i < j + FORGET /\ j < i + FORGET
      /\ last - FORGET + 1 <= i /\ last - FORGET + 1 <= j /\ i <= last /\ j <= last
  BY <1>2, <1>3, <1>6
<1>8. Kept(h, i, j) /\ Kept(h, j, i)
  BY <1>2, <1>6, <1>7 DEF Kept
<1>9. CASE i <= j
  BY <1>1, <1>3, <1>4, <1>5, <1>7, <1>8, <1>9 DEF Past
<1>10. CASE j <= i
  BY <1>1, <1>3, <1>4, <1>5, <1>7, <1>8, <1>10 DEF Past
<1> QED
  BY <1>7, <1>9, <1>10

(* "A phone that changed its token" leaves no second person behind once    *)
(* FORGET ticks in a row were tracked, whatever was lost, restarted or out *)
(* of order before (tokens.py and tracks.rs count their ticks themselves). *)
THEOREM OnePersonEach == Spec => []NoGhosts
BY InvAlways, OneTrackEach, PTL

(* However many routers list a phone, it counts in one room (room_readings *)
(* takes its loudest row).                                                 *)
THEOREM OneRoomEach == Spec => []CountedOnce
<1>1. Inv => CountedOnce
  BY DEF Inv
<1> QED
  BY <1>1, InvAlways, PTL

(* Every track was located on the floor plan that is held, through reloads *)
(* that fail, edits and restarts (Tracking::geometry).                     *)
THEOREM PlanStaysWhole == Spec => []PlanNotMixed
<1>1. Inv => PlanNotMixed
  BY DEF Inv, TracksInv
<1> QED
  BY <1>1, InvAlways, PTL

(* Behind a committed offset every count is stored, as it was first        *)
(* published, whatever was read again (occupancy_consumer.rs).             *)
THEOREM CommittedIsStored == Spec => []CountsSettled
<1>1. Inv => CountsSettled
  BY DEF Inv, Types, CountType, Ledger, CountsSettled
<1> QED
  BY <1>1, InvAlways, PTL
=============================================================================
