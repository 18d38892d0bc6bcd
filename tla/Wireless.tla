------------------------------ MODULE Wireless ------------------------------
(***************************************************************************)
(* Counting the people of one building by its Wi-Fi: the collector posts   *)
(* each tick to telemetry, which stores the phones of each router's room   *)
(* and passes the tick on through the topic `observations`; digital-twin   *)
(* tracks it and sends its count back through the topic `occupancies`,     *)
(* which telemetry stores.                                                 *)
(*                                                                         *)
(* A router has a room of its own.  A tick's stamp is its time, doubled,   *)
(* or an odd number when the collector's clock ran ahead: no two ticks     *)
(* have the same one.                                                      *)
(***************************************************************************)
EXTENDS Collector, Tracking, Sequences, Integers

CONSTANTS
  Ahead,      \* how far ahead the collector's clock may be
  MaxLag,     \* bound: ticks on their way when the next one is posted
  MaxFaults   \* bound: faults of any kind

ASSUME WirelessAssumption == Ahead \in Nat /\ MaxLag \in Nat /\ MaxFaults \in Nat

VARIABLES
  posts,         \* ticks telemetry is handling, with the totals it stored
  observations,  \* topic: the ticks not yet taken, after the last one taken
  taken,         \* 1 if digital-twin took the first of them, else 0
  occupancies,   \* topic: the counts behind which nothing is committed
  handled,       \* how many of them telemetry has stored since it connected
  settled,       \* ticks of which a count is committed (history)
  counted,       \* per tick, the count first published (history)
  estimated,     \* per tick, the count stored
  faults

topicVars == <<observations, taken>>
storeVars == <<handled, settled, estimated>>
occupancyVars == <<occupancies, counted, storeVars>>
vars == <<collectorVars, trackingVars, posts, topicVars, occupancyVars, faults>>

Tick == 1 .. MaxTicks
NoCount == -1

Init ==
  /\ CollectorInit /\ TrackingInit
  /\ posts = {}
  /\ observations = <<>> /\ taken = 0
  /\ occupancies = <<>> /\ handled = 0 /\ settled = {}
  /\ counted = [n \in Tick |-> NoCount] /\ estimated = [n \in Tick |-> NoCount]
  /\ faults = 0

Fault == faults < MaxFaults /\ faults' = faults + 1
NoFault == UNCHANGED faults

-----------------------------------------------------------------------------
(* The collector *)

RestartCollector ==
  /\ CollectorRestarts /\ Fault
  /\ UNCHANGED <<trackingVars, posts, topicVars, occupancyVars>>

NoTotals == [r \in Router |-> 0]
Posted(batch) == [batch |-> batch, stored |-> FALSE, totals |-> NoTotals]

(* One poll, posted.  A post that fails is not repeated; one that timed    *)
(* out may still be in telemetry's hands when the next is made.            *)
PostTick ==
  \E reading \in Readings, ahead \in BOOLEAN :
    /\ Cardinality(posts) + (Len(observations) - taken) + Len(occupancies) <= MaxLag
    /\ Poll(reading)
    /\ LET batch == [n |-> now', first |-> ~table,
                     stamp |-> 2 * now' + (IF ahead THEN 2 * Ahead + 1 ELSE 0),
                     answered |-> reading.answered # {}, connected |-> Connected(reading.rows)]
       IN posts' = posts \cup {Posted(batch)}
    /\ IF ahead \/ posts # {} THEN Fault ELSE NoFault
    /\ UNCHANGED <<trackingVars, topicVars, occupancyVars>>

SkipTick ==
  /\ PollWithout
  /\ UNCHANGED <<trackingVars, posts, topicVars, occupancyVars, faults>>

-----------------------------------------------------------------------------
(* telemetry: Observations::accept *)

(* Each token counts in one of the routers that list it, its loudest one. *)
Loudest(batch) ==
  {f \in [batch.connected -> Router] : \A row \in batch.connected : f[row] \in row.routers}
EveryRow(batch, f) ==  \* mutant: a phone counts wherever it is listed
  [r \in Router |-> Cardinality({row \in batch.connected : r \in row.routers})]
RoomReadings(batch, f) ==
  [r \in Router |-> Cardinality({row \in batch.connected : f[row] = r})]

(* The readings are stored, and the tick is to be published; or the insert *)
(* fails, perhaps with effect, or it never arrived.                        *)
StoreTotals(post) ==
  /\ ~post.stored
  /\ \/ /\ \E f \in Loudest(post.batch) :
             posts' = (posts \ {post}) \cup {[post EXCEPT !.stored = TRUE, !.totals = RoomReadings(post.batch, f)]}
        /\ NoFault
     \/ posts' = posts \ {post} /\ Fault
  /\ UNCHANGED <<collectorVars, trackingVars, topicVars, occupancyVars>>

(* A publication that fails may still have landed. *)
PublishTick(post) ==
  /\ post.stored
  /\ posts' = posts \ {post}
  /\ \/ observations' = Append(observations, post.batch) /\ NoFault
     \/ UNCHANGED observations /\ Fault
  /\ UNCHANGED <<collectorVars, trackingVars, taken, occupancyVars>>

-----------------------------------------------------------------------------
(* digital-twin *)

Edit ==
  /\ \E new \in Plan : EditPlan(new)
  /\ UNCHANGED <<collectorVars, posts, topicVars, occupancyVars, faults>>

(* The count of a tick, unless its publication fails: that is not retried. *)
PublishCount(tick, sent) ==
  LET count == Cardinality(tracks')
  IN IF sent /\ CountsRooms(tick)
     THEN /\ occupancies' = Append(occupancies, [n |-> tick.n, count |-> count])
          /\ counted' = [counted EXCEPT ![tick.n] = IF @ = NoCount THEN count ELSE @]
     ELSE UNCHANGED <<occupancies, counted>>

TakeTick ==
  /\ taken < Len(observations)
  /\ observations' = SubSeq(observations, taken + 1, Len(observations)) /\ taken' = 1
  /\ LET tick == observations[taken + 1]
     IN \/ /\ StaleTick(tick, now)
           /\ UNCHANGED <<trackingVars, occupancies, counted, faults>>
        \/ \E loads, sent \in BOOLEAN :
             /\ ObserveTick(tick, now, ~loads)
             /\ PublishCount(tick, sent)
             /\ IF loads /\ sent THEN NoFault ELSE Fault
  /\ UNCHANGED <<collectorVars, posts, storeVars>>

(* Its consumer comes back where the commits every 5 s left it, which is   *)
(* at most one tick behind; the process may have restarted.                *)
TwinReconnects ==
  /\ Fault
  /\ TwinRestarts \/ UNCHANGED trackingVars
  /\ taken' \in {taken, 0}
  /\ UNCHANGED <<collectorVars, posts, observations, occupancyVars>>

-----------------------------------------------------------------------------
(* telemetry: the consumer of occupancies *)

OverwriteCount(message) ==  \* mutant: an upsert
  [estimated EXCEPT ![message.n] = message.count]
InsertCount(message) ==
  [estimated EXCEPT ![message.n] = IF @ = NoCount THEN message.count ELSE @]

(* The first k counts need not be read again. *)
Commit(k) ==
  /\ settled' = settled \cup {occupancies[i].n : i \in 1 .. k}
  /\ occupancies' = SubSeq(occupancies, k + 1, Len(occupancies))

(* Stored, and the asynchronous commit lands now, or with a later one.     *)
StoreCount ==
  /\ handled < Len(occupancies)
  /\ estimated' = InsertCount(occupancies[handled + 1])
  /\ \/ Commit(handled + 1) /\ handled' = 0
     \/ handled' = handled + 1 /\ UNCHANGED <<settled, occupancies>>
  /\ UNCHANGED <<collectorVars, trackingVars, posts, topicVars, counted, faults>>

RereadOnError == UNCHANGED <<settled, occupancies>>

(* Not stored, or the answer is lost: it rereads from the last commit.     *)
RetryCount ==
  /\ handled < Len(occupancies)
  /\ Fault
  /\ estimated' \in {estimated, InsertCount(occupancies[handled + 1])}
  /\ RereadOnError /\ handled' = 0
  /\ UNCHANGED <<collectorVars, trackingVars, posts, topicVars, counted>>

Next ==
  \/ RestartCollector \/ PostTick \/ SkipTick
  \/ \E post \in posts : StoreTotals(post) \/ PublishTick(post)
  \/ Edit \/ TakeTick \/ TwinReconnects
  \/ StoreCount \/ RetryCount

Spec == Init /\ [][Next]_vars

-----------------------------------------------------------------------------
(* A phone that changed its token leaves no second person behind: once     *)
(* FORGET ticks in a row were tracked, no phone has two tracks.  Both      *)
(* sides forget on their own (tokens.py, tracks.rs), in ticks they count   *)
(* themselves.                                                             *)
NoGhosts ==
  smooth >= FORGET =>
    \A t, u \in tracks : t.token[1] = u.token[1] => t = u

(* As many pairs as the totals count people. *)
People(totals) == UNION {{r} \X (1 .. totals[r]) : r \in Router}

(* A phone listed by two routers at once, as after a roam, counts in one   *)
(* room only (room_readings).                                              *)
CountedOnce ==
  \A post \in posts :
    post.stored => Cardinality(People(post.totals)) = Cardinality(post.batch.connected)

(* What telemetry need not read again is stored, as digital-twin counted   *)
(* it first: "a repeated reading is dropped on insert", and a failed one   *)
(* is read again.                                                          *)
CountsSettled == \A n \in settled : estimated[n] = counted[n]
=============================================================================
