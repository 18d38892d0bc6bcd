------------------------------- MODULE Alerts -------------------------------
(***************************************************************************)
(* From a breach to an alert.  notification reads telemetry's `alerts`     *)
(* topic and handles up to IN_FLIGHT records at once; a record's handler   *)
(* asks redis whether the condition is still cooling down, asks            *)
(* digital-twin whom it concerns, delivers, and starts the cooldown.       *)
(* Records finish in any order, so Watermarks works out which offset may   *)
(* be committed; a record that could not be handled is parked on the       *)
(* dead-letter topic.  One process, one partition (ensure_topics); every   *)
(* step of a handler up to its next await is an action.                    *)
(***************************************************************************)
EXTENDS Naturals, Sequences, FiniteSets

CONSTANTS
  Key,         \* conditions that cool down: metric, field, building and room
  IN_FLIGHT,
  MaxRecords,  \* bound: records telemetry produces
  MaxFaults    \* bound: stops, and calls that err

ASSUME AlertsAssumption ==
  /\ IN_FLIGHT \in Nat \ {0} /\ MaxRecords \in Nat /\ MaxFaults \in Nat
  /\ Key \cap {"invalid", "unsupported"} = {}

Record == Key \cup {"invalid", "unsupported"}
Offset == 1 .. MaxRecords  \* record i of the topic; Kafka counts from 0
Stage == {"none", "checking", "looking", "delivering", "arming", "parking"}
Outcome == {"delivered", "unroutable", "suppressed", "unsupported", "parked"}

VARIABLES
  topic,
  position,   \* records fetched on this connection
  stage,      \* stage[i]: what the handler of record i does next
  in_flight, completed,  \* Watermarks
  committed,  \* the group's offset: records 1 .. committed are behind it
  cooldown,   \* conditions whose key is in redis
  outcome,    \* history: outcome[i] is what became of i, on any delivery
  alerts,     \* history: alerts[k] counts those since k last cooled down
  faults

watermarks == <<in_flight, completed, committed>>
vars == <<topic, position, stage, watermarks, cooldown, outcome, alerts, faults>>

TypeOK ==
  /\ topic \in Seq(Record)
  /\ position \in Nat
  /\ stage \in [Offset -> Stage]
  /\ in_flight \subseteq Offset /\ completed \subseteq Offset
  /\ committed \in Nat
  /\ cooldown \subseteq Key
  /\ outcome \in [Offset -> SUBSET Outcome]
  /\ alerts \in [Key -> Nat]
  /\ faults \in Nat

Init ==
  /\ topic = <<>> /\ position = 0 /\ committed = 0
  /\ stage = [i \in Offset |-> "none"]
  /\ in_flight = {} /\ completed = {} /\ cooldown = {}
  /\ outcome = [i \in Offset |-> {}]
  /\ alerts = [k \in Key |-> 0]
  /\ faults = 0

At(i, s) == i <= Len(topic) /\ stage[i] = s
GoTo(i, s) == stage' = [stage EXCEPT ![i] = s]
Becomes(i, o) == outcome' = [outcome EXCEPT ![i] = @ \cup {o}]
Fault == faults < MaxFaults /\ faults' = faults + 1
Running == {i \in Offset : stage[i] # "none"}

-----------------------------------------------------------------------------
(* Watermarks *)

CommittableAny(done, running) == done  \* mutant: whatever is done is committed
CommittableIfIdle(done, running) ==    \* mutant: nothing moves until all is done
  IF running = {} THEN done \ {1} ELSE {}
(* The done offsets below every running one. *)
Committable(done, running) == {i \in done : \A r \in running : i < r}

(* The highest committable offset is committed, asynchronously: that may   *)
(* land at once or never.                                                  *)
Finished(i, running) ==
  LET rest == running \ {i}
      run == Committable(completed \cup {i}, rest)
  IN /\ in_flight' = rest
     /\ completed' = (completed \cup {i}) \ run
     /\ \/ UNCHANGED committed
        \/ \E w \in run : (\A j \in run : j <= w) /\ committed' = w

Finish(i) == GoTo(i, "none") /\ Finished(i, in_flight)

-----------------------------------------------------------------------------
Produce ==
  /\ Len(topic) < MaxRecords
  /\ \E r \in Record : topic' = Append(topic, r)
  /\ UNCHANGED <<position, stage, watermarks, cooldown, outcome, alerts, faults>>

(* The mutant keeps the slot of a record whose parking failed. *)
SlotFreeOfStuck == Cardinality(in_flight) < IN_FLIGHT  \* mutant
SlotFree == Cardinality(Running) < IN_FLIGHT

FirstStage(i) == IF topic[i] = "invalid" THEN "parking" ELSE "checking"

(* A record is parsed and sorted before the first await. *)
Fetch ==
  /\ SlotFree
  /\ position < Len(topic)
  /\ position' = position + 1
  /\ LET i == position + 1 IN
     IF topic[i] = "unsupported"
     THEN /\ Becomes(i, "unsupported")
          /\ Finished(i, in_flight \cup {i})
          /\ UNCHANGED stage
     ELSE /\ GoTo(i, FirstStage(i))
          /\ in_flight' = in_flight \cup {i}
          /\ UNCHANGED <<completed, committed, outcome>>
  /\ UNCHANGED <<topic, cooldown, alerts, faults>>

Suppress(i) ==
  /\ At(i, "checking") /\ topic[i] \in cooldown
  /\ Becomes(i, "suppressed")
  /\ Finish(i)
  /\ UNCHANGED <<topic, position, cooldown, alerts, faults>>

Proceed(i) ==
  /\ At(i, "checking") /\ topic[i] \notin cooldown
  /\ GoTo(i, "looking")
  /\ UNCHANGED <<topic, position, watermarks, cooldown, outcome, alerts, faults>>

(* redis or digital-twin errs: the record is to be parked. *)
HandlingErrs(i) ==
  /\ At(i, "checking") \/ At(i, "looking")
  /\ Fault
  /\ GoTo(i, "parking")
  /\ UNCHANGED <<topic, position, watermarks, cooldown, outcome, alerts>>

LookArms(i) ==  \* mutant: the cooldown starts before the delivery
  /\ At(i, "looking")
  /\ GoTo(i, "delivering") /\ cooldown' = cooldown \cup {topic[i]}
  /\ UNCHANGED <<topic, position, watermarks, outcome, alerts, faults>>
(* A building in no domain is not delivered, and cools down all the same. *)
Look(i) ==
  /\ At(i, "looking")
  /\ \/ GoTo(i, "delivering") /\ UNCHANGED outcome
     \/ GoTo(i, "arming") /\ Becomes(i, "unroutable")
  /\ UNCHANGED <<topic, position, watermarks, cooldown, alerts, faults>>

(* To the bell and to every device, domain by domain; errors are logged. *)
Deliver(i) ==
  /\ At(i, "delivering")
  /\ Becomes(i, "delivered")
  /\ alerts' = [alerts EXCEPT ![topic[i]] = @ + 1]
  /\ GoTo(i, "arming")
  /\ UNCHANGED <<topic, position, watermarks, cooldown, faults>>

ArmUnlessTold(i) ==  \* mutant: only an alert without receivers cools down
  /\ At(i, "arming")
  /\ cooldown' = IF "delivered" \in outcome[i] THEN cooldown ELSE cooldown \cup {topic[i]}
  /\ Finish(i)
  /\ UNCHANGED <<topic, position, outcome, alerts, faults>>
Arm(i) ==
  /\ At(i, "arming")
  /\ cooldown' = cooldown \cup {topic[i]}
  /\ Finish(i)
  /\ UNCHANGED <<topic, position, outcome, alerts, faults>>

(* The error is logged, whether or not the key was set. *)
ArmErrs(i) ==
  /\ At(i, "arming") /\ Fault
  /\ cooldown' \in {cooldown, cooldown \cup {topic[i]}}
  /\ Finish(i)
  /\ UNCHANGED <<topic, position, outcome, alerts>>

Park(i) ==
  /\ At(i, "parking")
  /\ Becomes(i, "parked")
  /\ Finish(i)
  /\ UNCHANGED <<topic, position, cooldown, alerts, faults>>

(* The handler returns and leaves the offset in flight. *)
ParkErrs(i) ==
  /\ At(i, "parking") /\ Fault
  /\ GoTo(i, "none")
  /\ Becomes(i, "parked") \/ UNCHANGED outcome
  /\ UNCHANGED <<topic, position, watermarks, cooldown, alerts>>

CoolDown(k) ==
  /\ k \in cooldown
  /\ cooldown' = cooldown \ {k}
  /\ alerts' = [alerts EXCEPT ![k] = 0]
  /\ UNCHANGED <<topic, position, stage, watermarks, outcome, faults>>

ForgetCompleted == completed' = {}
(* The process stops and starts again at the group's offset. *)
Stop ==
  /\ Fault
  /\ position' = committed
  /\ stage' = [i \in Offset |-> "none"]
  /\ in_flight' = {} /\ ForgetCompleted
  /\ UNCHANGED <<topic, committed, cooldown, outcome, alerts>>

Handle(i) == Suppress(i) \/ Proceed(i) \/ Look(i) \/ Deliver(i) \/ Arm(i) \/ Park(i)

Next ==
  \/ Produce \/ Fetch \/ Stop
  \/ \E i \in Offset : Handle(i) \/ HandlingErrs(i) \/ ArmErrs(i) \/ ParkErrs(i)
  \/ \E k \in Key : CoolDown(k)

Spec == Init /\ [][Next]_vars

(* The stream is polled for ever, and every call has a deadline. *)
FairSpec == Spec /\ WF_vars(Fetch) /\ \A i \in Offset : WF_vars(Handle(i))

-----------------------------------------------------------------------------
(* What is needed, beyond the properties below, to prove them: see module  *)
(* AlertsProofs.                                                           *)
Handled(i) == outcome[i] # {}
Told(i) == outcome[i] \cap {"delivered", "unroutable"} # {}

FetchedInv ==
  /\ committed <= position /\ position <= Len(topic) /\ Len(topic) <= MaxRecords
  /\ in_flight \cup completed \subseteq 1 .. position
  /\ \A i \in 1 .. position : i \in in_flight \/ Handled(i)
  /\ \A i \in Offset : Handled(i) => i <= Len(topic)
  /\ \A i \in Offset : stage[i] # "none" => i \in in_flight
  /\ \A i \in Offset : stage[i] \in Stage \ {"none", "parking"} => topic[i] \in Key

ToldInv ==
  /\ \A i \in Offset : stage[i] = "arming" => Told(i)
  /\ \A k \in cooldown : \E j \in 1 .. Len(topic) : topic[j] = k /\ Told(j)

-----------------------------------------------------------------------------
(* "Without this, a crash can leave the offset past a breach that was      *)
(* never delivered": whatever order records finish in and whenever the     *)
(* process stops, the committed offset has only handled records behind it. *)
CommittedIsHandled == \A i \in 1 .. committed : Handled(i)

(* A breach is suppressed only when one of its condition was delivered, or *)
(* concerned nobody - never because a handler stopped half-way.            *)
SuppressedAfterTold ==
  \A i \in 1 .. Len(topic) : "suppressed" \in outcome[i] =>
    \E j \in 1 .. Len(topic) : topic[j] = topic[i] /\ Told(j)

(* With nothing in flight, nothing done is held back from the commit.      *)
NothingHeldBack == in_flight = {} => completed = {}

(* Every breach is handled, except one whose parking failed, which does    *)
(* not "wedge the partition behind it".                                    *)
Stuck(i) == i \in in_flight /\ stage[i] = "none"
EveryBreachIsHandled ==
  \A i \in Offset : i <= Len(topic) ~> Handled(i) \/ Stuck(i)

(* services/notification.qd: the cooldown "is also what absorbs the        *)
(* duplicates". It is checked long before it is started, so those in       *)
(* flight at once all pass; as long as nothing errs, a condition is never  *)
(* reported by more of them than there are slots until it has cooled down. *)
DuplicatesAbsorbed == faults = 0 => \A k \in Key : alerts[k] <= IN_FLIGHT
=============================================================================
