---------------------------- MODULE AlertsProofs ----------------------------
(***************************************************************************)
(* For any number of records, conditions and faults: the committed offset  *)
(* has only handled records behind it, nothing done is held back while     *)
(* nothing runs, and a breach is suppressed only after one of its          *)
(* condition was told.  FetchedInv makes the first inductive: what was     *)
(* fetched is handled or in flight, and the offset to commit is below all  *)
(* that is in flight.  That duplicates are absorbed is counted in slots:   *)
(* until its condition cools down, whoever delivered is still arming.      *)
(***************************************************************************)
EXTENDS Alerts, FiniteSetTheorems, TLAPS

Inv ==
  /\ TypeOK /\ FetchedInv /\ ToldInv
  /\ CommittedIsHandled /\ SuppressedAfterTold /\ NothingHeldBack

USE DEF Offset

LEMMA InitInv == Init => Inv
BY AlertsAssumption
   DEF Init, Inv, TypeOK, FetchedInv, ToldInv, CommittedIsHandled, SuppressedAfterTold,
       NothingHeldBack, Handled, Told, Stage, Outcome, Record

(* Outcomes are only added, and to records of the topic, so what was       *)
(* handled stays handled.                                                  *)
Grows ==
  /\ topic' = topic
  /\ outcome' \in [Offset -> SUBSET Outcome]
  /\ \A i \in Offset : outcome[i] \subseteq outcome'[i]
  /\ \A i \in Offset : outcome'[i] # outcome[i] => i <= Len(topic)

LEMMA HandledStays ==
  ASSUME Inv, Grows
  PROVE  /\ \A i \in Offset : Handled(i) => Handled(i)'
         /\ \A i \in Offset : Told(i) => Told(i)'
         /\ \A i \in Offset : Handled(i)' => i <= Len(topic)
BY DEF FetchedInv, Inv, TypeOK, Grows, Handled, Told

(* A handler reaches its next stage, and the watermarks stay.              *)
LEMMA MoveInv ==
  ASSUME Inv, NEW i \in Offset, NEW s \in Stage, stage[i] # "none",
         s \in {"none", "parking"} \/ topic[i] \in Key, GoTo(i, s), Grows,
         UNCHANGED <<position, watermarks, cooldown>>, alerts' \in [Key -> Nat], faults' \in Nat,
         \A j \in Offset : "suppressed" \in outcome'[j] => "suppressed" \in outcome[j],
         s = "arming" => Told(i)'
  PROVE  Inv'
<1>1. /\ TypeOK /\ FetchedInv /\ ToldInv
      /\ CommittedIsHandled /\ SuppressedAfterTold /\ NothingHeldBack
  BY DEF Inv
<1>2. /\ \A j \in Offset : Handled(j) => Handled(j)'
      /\ \A j \in Offset : Told(j) => Told(j)'
  BY HandledStays
<1>3. /\ \A j \in Offset : stage'[j] = IF j = i THEN s ELSE stage[j]
      /\ stage' \in [Offset -> Stage]
      /\ topic' = topic /\ position' = position /\ in_flight' = in_flight
      /\ completed' = completed /\ committed' = committed /\ cooldown' = cooldown
  BY <1>1 DEF GoTo, TypeOK, Grows, watermarks
<1>4. TypeOK'
  BY <1>1, <1>3 DEF TypeOK, Grows
<1>5. /\ position \in Nat /\ committed \in Nat /\ Len(topic) \in Nat /\ MaxRecords \in Nat
      /\ position <= Len(topic) /\ committed <= position /\ Len(topic) <= MaxRecords
  BY <1>1, AlertsAssumption DEF FetchedInv, TypeOK
<1>6. FetchedInv'
  BY <1>1, <1>2, <1>3, <1>5, HandledStays DEF FetchedInv
<1>7. ToldInv'
  BY <1>1, <1>2, <1>3, <1>5 DEF ToldInv
<1>8. CommittedIsHandled'
  BY <1>1, <1>2, <1>3, <1>5 DEF CommittedIsHandled
<1>9. SuppressedAfterTold'
  BY <1>1, <1>2, <1>3, <1>5 DEF SuppressedAfterTold
<1>10. NothingHeldBack'
  BY <1>1, <1>3 DEF NothingHeldBack
<1> QED
  BY <1>4, <1>6, <1>7, <1>8, <1>9, <1>10 DEF Inv

(* The watermark: a committable offset has nothing in flight below it.     *)
LEMMA WatermarkIsHandled ==
  ASSUME Inv, Grows, NEW i \in Offset, NEW running \in SUBSET Offset, NEW p \in Nat,
         p <= MaxRecords, position <= p,
         i \in 1 .. p, Handled(i)',
         \A j \in 1 .. p : j \in running \/ Handled(j)',
         completed \subseteq 1 .. p, running \subseteq 1 .. p,
         Finished(i, running)
  PROVE  /\ in_flight' = running \ {i}
         /\ in_flight' \subseteq Offset /\ completed' \subseteq Offset
         /\ in_flight' \cup completed' \subseteq 1 .. p
         /\ \A j \in 1 .. p : j \in in_flight' \/ Handled(j)'
         /\ committed' \in Nat /\ committed' <= p
         /\ \A j \in 1 .. committed' : Handled(j)'
         /\ NothingHeldBack'
<1> DEFINE run == Committable(completed \cup {i}, running \ {i})
<1>1. /\ in_flight' = running \ {i}
      /\ completed' = (completed \cup {i}) \ run
      /\ committed' = committed \/ \E w \in run : committed' = w
  BY DEF Finished
<1>2. /\ TypeOK /\ FetchedInv /\ CommittedIsHandled /\ MaxRecords \in Nat
  BY AlertsAssumption DEF Inv
<1>3. /\ committed \in Nat /\ position \in Nat /\ committed <= position
      /\ completed \subseteq Offset
  BY <1>2 DEF TypeOK, FetchedInv
<1>4. \A j \in run : j \in 1 .. p /\ \A r \in running \ {i} : j < r
  BY <1>3 DEF Committable
<1>5. \A j \in 1 .. p : j \in in_flight' \/ Handled(j)'
  BY <1>1
<1>6. \A j \in 1 .. committed : Handled(j)'
  BY <1>2, <1>3, HandledStays DEF CommittedIsHandled
<1>7. \A w \in run : \A j \in 1 .. w : Handled(j)'
  <2> SUFFICES ASSUME NEW w \in run, NEW j \in 1 .. w
               PROVE  Handled(j)'
    OBVIOUS
  <2>1. w \in 1 .. p /\ w \in Nat /\ j \in Nat /\ j \in 1 .. p
    BY <1>4
  <2>2. j \notin running \ {i}
    BY <1>4, <2>1
  <2> QED
    BY <1>1, <1>5, <2>1, <2>2
<1>8. /\ committed' \in Nat /\ committed' <= p
      /\ \A j \in 1 .. committed' : Handled(j)'
  <2>1. CASE committed' = committed
    BY <1>3, <1>6, <2>1
  <2>2. CASE \E w \in run : committed' = w
    BY <1>4, <1>7, <2>2
  <2> QED
    BY <1>1, <2>1, <2>2
<1>9. NothingHeldBack'
  BY <1>1 DEF NothingHeldBack, Committable
<1>10. in_flight' \cup completed' \subseteq 1 .. p
  BY <1>1
<1>11. in_flight' \subseteq Offset /\ completed' \subseteq Offset
  BY <1>1, <1>3
<1> QED
  BY <1>1, <1>5, <1>8, <1>9, <1>10, <1>11

(* A handler ends: i leaves the running records, and the watermark moves.  *)
LEMMA FinishInv ==
  ASSUME Inv, Grows, NEW i \in Offset, NEW running \in SUBSET Offset, NEW p \in Nat,
         p <= Len(topic), position <= p, position' = p,
         i \in 1 .. p, Handled(i)',
         \A j \in 1 .. p : j \in running \/ Handled(j)',
         in_flight \subseteq running, running \subseteq 1 .. p,
         Finished(i, running),
         stage' = [stage EXCEPT ![i] = "none"],
         cooldown' \subseteq Key,
         \A k \in cooldown' : k \in cooldown \/ (k = topic[i] /\ Told(i)'),
         \A j \in Offset : "suppressed" \in outcome'[j] =>
           "suppressed" \in outcome[j] \/ topic[j] \in cooldown,
         alerts' \in [Key -> Nat], faults' \in Nat
  PROVE  Inv'
<1>1. /\ TypeOK /\ FetchedInv /\ ToldInv /\ SuppressedAfterTold
      /\ MaxRecords \in Nat /\ topic' = topic
  BY AlertsAssumption DEF Inv, Grows
<1>2. /\ \A j \in Offset : Handled(j) => Handled(j)'
      /\ \A j \in Offset : Told(j) => Told(j)'
  BY HandledStays
<1>3. /\ position \in Nat /\ Len(topic) \in Nat /\ Len(topic) <= MaxRecords
      /\ in_flight \cup completed \subseteq 1 .. position
      /\ \A j \in Offset : stage[j] # "none" => j \in in_flight
      /\ \A j \in Offset : stage[j] \in Stage \ {"none", "parking"} => topic[j] \in Key
  BY <1>1 DEF FetchedInv, TypeOK
<1>4. p <= MaxRecords /\ completed \subseteq 1 .. p
  BY <1>1, <1>3
<1>5. /\ in_flight' = running \ {i}
      /\ in_flight' \subseteq Offset /\ completed' \subseteq Offset
      /\ in_flight' \cup completed' \subseteq 1 .. p
      /\ \A j \in 1 .. p : j \in in_flight' \/ Handled(j)'
      /\ committed' \in Nat /\ committed' <= p
      /\ \A j \in 1 .. committed' : Handled(j)'
      /\ NothingHeldBack'
  BY <1>4, WatermarkIsHandled
<1>6. /\ stage' \in [Offset -> Stage]
      /\ \A j \in Offset : stage'[j] = IF j = i THEN "none" ELSE stage[j]
  BY <1>1 DEF TypeOK, Stage
<1>7. TypeOK'
  BY <1>1, <1>5, <1>6 DEF TypeOK, Grows
<1>8. FetchedInv'
  <2>1. \A j \in Offset : Handled(j)' => j <= Len(topic)'
    BY <1>1, HandledStays
  <2> QED
    BY <1>1, <1>3, <1>5, <1>6, <2>1 DEF FetchedInv
<1>9. ToldInv'
  <2>1. \A j \in Offset : stage'[j] = "arming" => Told(j)'
    BY <1>1, <1>2, <1>6 DEF ToldInv
  <2>2. \A k \in cooldown' : \E j \in 1 .. Len(topic) : topic[j] = k /\ Told(j)'
    <3>1. \A j \in 1 .. Len(topic) : j \in Offset
      BY <1>1, <1>3
    <3>2. \A k \in cooldown : \E j \in 1 .. Len(topic) : topic[j] = k /\ Told(j)'
      BY <1>1, <1>2, <3>1 DEF ToldInv
    <3>3. i \in 1 .. Len(topic)
      BY <1>3
    <3> QED
      BY <3>2, <3>3
  <2> QED
    BY <1>1, <2>1, <2>2 DEF ToldInv
<1>10. SuppressedAfterTold'
  <2> SUFFICES ASSUME NEW j \in 1 .. Len(topic), "suppressed" \in outcome'[j]
               PROVE  \E l \in 1 .. Len(topic) : topic[l] = topic[j] /\ Told(l)'
    BY <1>1 DEF SuppressedAfterTold
  <2>1. \A l \in 1 .. Len(topic) : l \in Offset
    BY <1>1, <1>3
  <2>2. CASE "suppressed" \in outcome[j]
    BY <1>1, <1>2, <2>1, <2>2 DEF SuppressedAfterTold
  <2>3. CASE topic[j] \in cooldown
    BY <1>1, <1>2, <2>1, <2>3 DEF ToldInv
  <2> QED
    BY <2>1, <2>2, <2>3
<1>11. CommittedIsHandled'
  BY <1>5 DEF CommittedIsHandled
<1> QED
  BY <1>5, <1>7, <1>8, <1>9, <1>10, <1>11 DEF Inv

(* A handler that ends before or at its last await.                        *)
LEMMA HandlerInv ==
  ASSUME Inv, NEW i \in Offset,
         Handle(i) \/ HandlingErrs(i) \/ ArmErrs(i) \/ ParkErrs(i)
  PROVE  Inv'
<1>1. /\ TypeOK /\ FetchedInv /\ ToldInv /\ MaxRecords \in Nat
  BY AlertsAssumption DEF Inv
<1>2. /\ position \in Nat /\ Len(topic) \in Nat /\ position <= Len(topic)
      /\ in_flight \subseteq 1 .. position /\ in_flight \subseteq Offset
      /\ 1 .. position \subseteq Offset /\ (stage[i] # "none" => i <= Len(topic))
      /\ \A j \in 1 .. position : j \in in_flight \/ Handled(j)
      /\ stage[i] # "none" => i \in in_flight
      /\ stage[i] \in Stage \ {"none", "parking"} => topic[i] \in Key
      /\ stage[i] = "arming" => Told(i)
      /\ outcome \in [Offset -> SUBSET Outcome] /\ cooldown \subseteq Key
      /\ alerts \in [Key -> Nat] /\ faults \in Nat /\ Len(topic) <= MaxRecords
  BY <1>1 DEF TypeOK, FetchedInv, ToldInv
<1>3. ASSUME NEW o \in Outcome, Becomes(i, o), topic' = topic, stage[i] # "none"
      PROVE  /\ Grows /\ Handled(i)' /\ (o \in {"delivered", "unroutable"} => Told(i)')
             /\ \A j \in Offset : "suppressed" \in outcome'[j] =>
                  "suppressed" \in outcome[j] \/ (o = "suppressed" /\ j = i)
  <2>1. outcome' = [outcome EXCEPT ![i] = @ \cup {o}]
    BY <1>3 DEF Becomes
  <2> QED
    BY <1>2, <1>3, <2>1 DEF Grows, Handled, Told
<1>4. ASSUME UNCHANGED outcome, topic' = topic PROVE Grows
  BY <1>2, <1>4 DEF Grows
(* What FinishInv needs, when the record that ends was in flight. *)
<1>5. ASSUME Grows, Handled(i)', stage[i] # "none", Finish(i), position' = position,
             cooldown' \subseteq Key,
             \A k \in cooldown' : k \in cooldown \/ (k = topic[i] /\ Told(i)'),
             \A j \in Offset : "suppressed" \in outcome'[j] =>
               "suppressed" \in outcome[j] \/ topic[j] \in cooldown,
             alerts' = alerts, faults' \in Nat
      PROVE  Inv'
  <2>1. \A j \in 1 .. position : j \in in_flight \/ Handled(j)'
    BY <1>2, <1>5, HandledStays
  <2>2. i \in 1 .. position /\ stage' = [stage EXCEPT ![i] = "none"]
        /\ Finished(i, in_flight)
    BY <1>2, <1>5 DEF Finish, GoTo
  <2>3. /\ in_flight \in SUBSET Offset /\ in_flight \subseteq 1 .. position
        /\ position \in Nat /\ position <= Len(topic) /\ position <= position
        /\ alerts' \in [Key -> Nat]
    BY <1>2, <1>5
  <2>4. /\ Grows /\ Handled(i)' /\ position' = position /\ cooldown' \subseteq Key
        /\ \A k \in cooldown' : k \in cooldown \/ (k = topic[i] /\ Told(i)')
        /\ \A j \in Offset : "suppressed" \in outcome'[j] =>
             "suppressed" \in outcome[j] \/ topic[j] \in cooldown
        /\ faults' \in Nat
    BY <1>5
  <2> QED
    BY <2>1, <2>2, <2>3, <2>4, FinishInv
<1>6. CASE Suppress(i)
  <2>1. /\ Becomes(i, "suppressed") /\ topic' = topic /\ "suppressed" \in Outcome
        /\ topic[i] \in cooldown /\ stage[i] # "none"
    BY <1>6 DEF Suppress, Outcome, At
  <2>2. /\ Grows /\ Handled(i)'
        /\ \A j \in Offset : "suppressed" \in outcome'[j] =>
             "suppressed" \in outcome[j] \/ topic[j] \in cooldown
    BY <1>3, <2>1
  <2> QED
    BY <1>2, <1>5, <1>6, <2>2 DEF Suppress, At
<1>7. CASE Proceed(i)
  <2>1. /\ stage[i] = "checking" /\ GoTo(i, "looking") /\ topic[i] \in Key
        /\ UNCHANGED <<topic, position, watermarks, cooldown, outcome, alerts, faults>>
    BY <1>2, <1>7 DEF Proceed, At, Stage
  <2>2. Grows
    BY <1>4, <2>1
  <2> QED
    BY <1>2, <2>1, <2>2, MoveInv DEF Stage
<1>8. CASE Look(i)
  <2>1. CASE GoTo(i, "delivering") /\ UNCHANGED outcome
    BY <1>2, <1>4, <1>8, <2>1, MoveInv DEF Look, At, Stage
  <2>2. CASE GoTo(i, "arming") /\ Becomes(i, "unroutable")
    <3>1. /\ Grows /\ Told(i)'
          /\ \A j \in Offset : "suppressed" \in outcome'[j] => "suppressed" \in outcome[j]
      BY <1>3, <1>8, <2>2 DEF Look, Outcome, At
    <3> QED
      BY <1>2, <1>8, <2>2, <3>1, MoveInv DEF Look, At, Stage
  <2> QED
    BY <1>8, <2>1, <2>2 DEF Look
<1>9. CASE Deliver(i)
  <2>1. /\ Grows /\ Told(i)'
        /\ \A j \in Offset : "suppressed" \in outcome'[j] => "suppressed" \in outcome[j]
    BY <1>3, <1>9 DEF Deliver, Outcome, At
  <2>2. /\ stage[i] = "delivering" /\ GoTo(i, "arming") /\ topic[i] \in Key
        /\ UNCHANGED <<position, watermarks, cooldown>>
        /\ alerts' = [alerts EXCEPT ![topic[i]] = @ + 1] /\ faults' = faults
    BY <1>2, <1>9 DEF Deliver, At, Stage
  <2>3. alerts' \in [Key -> Nat] /\ faults' \in Nat
    BY <1>2, <2>2
  <2> QED
    BY <2>1, <2>2, <2>3, MoveInv DEF Stage
<1>10. CASE Arm(i) \/ ArmErrs(i)
  <2>1. /\ stage[i] = "arming" /\ Finish(i) /\ UNCHANGED <<topic, position, outcome, alerts>>
        /\ cooldown' \in {cooldown, cooldown \cup {topic[i]}} /\ faults' \in Nat
    BY <1>2, <1>10 DEF Arm, ArmErrs, At, Fault
  <2>2. Grows /\ topic[i] \in Key /\ Told(i)
    BY <1>2, <1>4, <2>1 DEF Stage
  <2>3. Told(i)' /\ Handled(i)'
    BY <2>1, <2>2, HandledStays DEF Told, Handled
  <2> QED
    BY <1>2, <1>5, <2>1, <2>2, <2>3
<1>11. CASE Park(i)
  <2>1. /\ Grows /\ Handled(i)'
        /\ \A j \in Offset : "suppressed" \in outcome'[j] => "suppressed" \in outcome[j]
    BY <1>3, <1>11 DEF Park, Outcome, At
  <2> QED
    BY <1>2, <1>5, <1>11, <2>1 DEF Park, At
<1>12. CASE HandlingErrs(i)
  <2>1. faults' \in Nat /\ stage[i] \in {"checking", "looking"}
    BY <1>2, <1>12 DEF HandlingErrs, Fault, At
  <2> QED
    BY <1>2, <1>4, <1>12, <2>1, MoveInv DEF HandlingErrs, Stage
<1>13. CASE ParkErrs(i)
  <2>1. /\ stage[i] = "parking" /\ GoTo(i, "none") /\ faults' \in Nat
        /\ UNCHANGED <<topic, position, watermarks, cooldown, alerts>>
    BY <1>2, <1>13 DEF ParkErrs, Fault, At
  <2>2. /\ Grows
        /\ \A j \in Offset : "suppressed" \in outcome'[j] => "suppressed" \in outcome[j]
    <3>1. CASE UNCHANGED outcome
      BY <1>4, <2>1, <3>1
    <3>2. CASE Becomes(i, "parked")
      BY <1>3, <2>1, <3>2 DEF Outcome
    <3> QED
      BY <1>13, <3>1, <3>2 DEF ParkErrs
  <2> QED
    BY <1>2, <2>1, <2>2, MoveInv DEF Stage
<1> QED
  BY <1>6, <1>7, <1>8, <1>9, <1>10, <1>11, <1>12, <1>13 DEF Handle

LEMMA FetchInv == ASSUME Inv, Fetch PROVE Inv'
<1>1. /\ TypeOK /\ FetchedInv /\ ToldInv /\ MaxRecords \in Nat
      /\ CommittedIsHandled /\ SuppressedAfterTold /\ NothingHeldBack
  BY AlertsAssumption DEF Inv
<1>2. /\ position \in Nat /\ Len(topic) \in Nat /\ position <= Len(topic)
      /\ Len(topic) <= MaxRecords
      /\ in_flight \subseteq 1 .. position /\ in_flight \subseteq Offset
      /\ \A j \in 1 .. position : j \in in_flight \/ Handled(j)
      /\ outcome \in [Offset -> SUBSET Outcome] /\ cooldown \subseteq Key
      /\ stage \in [Offset -> Stage]
      /\ \A j \in Offset : stage[j] # "none" => j \in in_flight
  BY <1>1 DEF TypeOK, FetchedInv
<1>0. PICK i \in Nat : i = position + 1
  BY <1>2
<1>6. position < Len(topic) /\ position' = i /\ UNCHANGED <<topic, cooldown, alerts, faults>>
  BY <1>0 DEF Fetch
<1>7. i \in Offset /\ i \in Nat /\ i <= Len(topic) /\ i \notin in_flight
  BY <1>0, <1>1, <1>2, <1>6
<1>3. /\ position < Len(topic) /\ position' = i /\ UNCHANGED <<topic, cooldown, alerts, faults>>
      /\ i \in Offset /\ i \in Nat /\ i <= Len(topic) /\ i \notin in_flight
      /\ stage[i] = "none" /\ i = position + 1
  BY <1>0, <1>2, <1>6, <1>7
<1>4. CASE topic[i] = "unsupported"
  <2>1. outcome' = [outcome EXCEPT ![i] = @ \cup {"unsupported"}] /\ stage' = stage
        /\ Finished(i, in_flight \cup {i})
    BY <1>0, <1>4 DEF Fetch, Becomes
  <2>2. /\ Grows /\ Handled(i)'
        /\ \A j \in Offset : "suppressed" \in outcome'[j] => "suppressed" \in outcome[j]
    BY <1>2, <1>3, <2>1 DEF Grows, Handled, Outcome
  <2>3. stage' = [stage EXCEPT ![i] = "none"]
    BY <1>2, <1>3, <2>1
  <2>7. \A j \in 1 .. i : j \in Offset /\ (j = i \/ j \in 1 .. position)
    BY <1>1, <1>2, <1>3
  <2>4. \A j \in 1 .. i : j \in in_flight \cup {i} \/ Handled(j)'
    BY <1>2, <2>2, <2>7, HandledStays
  <2>5. alerts' \in [Key -> Nat] /\ faults' \in Nat
    BY <1>1, <1>3 DEF TypeOK
  <2>6. /\ in_flight \cup {i} \in SUBSET Offset /\ in_flight \cup {i} \subseteq 1 .. i
        /\ i \in 1 .. i /\ position <= i /\ in_flight \subseteq in_flight \cup {i}
    BY <1>2, <1>3
  <2> QED
    BY <1>2, <1>3, <2>1, <2>2, <2>3, <2>4, <2>5, <2>6, FinishInv
<1>5. CASE topic[i] # "unsupported"
  <2>1. /\ stage' = [stage EXCEPT ![i] = FirstStage(i)]
        /\ in_flight' = in_flight \cup {i}
        /\ UNCHANGED <<completed, committed, outcome>>
    BY <1>0, <1>5 DEF Fetch, GoTo
  <2>2. FirstStage(i) \in {"parking", "checking"} /\ (FirstStage(i) = "checking" => topic[i] \in Key)
    BY <1>1, <1>3, <1>5 DEF FirstStage, TypeOK, Record
  <2>3. \A j \in Offset : stage'[j] = IF j = i THEN FirstStage(i) ELSE stage[j]
    BY <1>2, <2>1
  <2>4. TypeOK'
    BY <1>1, <1>3, <2>1, <2>2 DEF TypeOK, Stage
  <2>5. FetchedInv'
    <3>1. /\ committed' <= position' /\ position' <= Len(topic') /\ Len(topic') <= MaxRecords
          /\ in_flight' \cup completed' \subseteq 1 .. position'
      BY <1>1, <1>2, <1>3, <2>1 DEF FetchedInv, TypeOK
    <3>2. \A j \in 1 .. position' : j \in in_flight' \/ Handled(j)'
      BY <1>2, <1>3, <2>1 DEF Handled
    <3>3. /\ \A j \in Offset : stage'[j] # "none" => j \in in_flight'
          /\ \A j \in Offset : stage'[j] \in Stage \ {"none", "parking"} => topic'[j] \in Key
      BY <1>1, <1>2, <1>3, <2>1, <2>2, <2>3 DEF FetchedInv
    <3>4. \A j \in Offset : Handled(j)' => j <= Len(topic)'
      BY <1>1, <1>3, <2>1 DEF FetchedInv, Handled
    <3> QED
      BY <3>1, <3>2, <3>3, <3>4 DEF FetchedInv
  <2>6. ToldInv' /\ SuppressedAfterTold' /\ CommittedIsHandled'
    BY <1>1, <1>3, <2>1, <2>2, <2>3
       DEF ToldInv, SuppressedAfterTold, CommittedIsHandled, Told, Handled
  <2>7. NothingHeldBack'
    BY <2>1 DEF NothingHeldBack
  <2> QED
    BY <2>4, <2>5, <2>6, <2>7 DEF Inv
<1> QED
  BY <1>4, <1>5

LEMMA ProduceInv == ASSUME Inv, Produce PROVE Inv'
<1>1. /\ TypeOK /\ FetchedInv /\ ToldInv /\ MaxRecords \in Nat
      /\ CommittedIsHandled /\ SuppressedAfterTold /\ NothingHeldBack
  BY AlertsAssumption DEF Inv
<1>2. PICK r \in Record : topic' = Append(topic, r)
  BY DEF Produce
<1>3. /\ topic \in Seq(Record) /\ topic' \in Seq(Record)
      /\ Len(topic) \in Nat /\ Len(topic') = Len(topic) + 1 /\ Len(topic) < MaxRecords
      /\ \A j \in 1 .. Len(topic) : topic'[j] = topic[j]
  BY <1>1, <1>2 DEF TypeOK, Produce
<1>4. UNCHANGED <<position, stage, in_flight, completed, committed, cooldown, outcome, alerts, faults>>
  BY DEF Produce, watermarks
<1>5. TypeOK'
  BY <1>1, <1>3, <1>4 DEF TypeOK
<1>6. FetchedInv'
  <2>1. /\ committed <= position /\ position <= Len(topic') /\ Len(topic') <= MaxRecords
        /\ in_flight \cup completed \subseteq 1 .. position
        /\ \A j \in 1 .. position : j \in in_flight \/ Handled(j)
        /\ \A j \in Offset : Handled(j) => j <= Len(topic')
    BY <1>1, <1>3 DEF FetchedInv, TypeOK
  <2>2. \A j \in Offset : stage[j] # "none" =>
          j \in in_flight /\ j \in 1 .. Len(topic) /\ topic'[j] = topic[j]
    BY <1>1, <1>3 DEF FetchedInv, TypeOK
  <2>3. \A j \in Offset : stage[j] \in Stage \ {"none", "parking"} => topic'[j] \in Key
    BY <1>1, <2>2 DEF FetchedInv
  <2> QED
    BY <1>4, <2>1, <2>2, <2>3 DEF FetchedInv, Handled
<1>7. ToldInv'
  BY <1>1, <1>3, <1>4 DEF ToldInv, Told
<1>8. SuppressedAfterTold'
  <2> SUFFICES ASSUME NEW j \in 1 .. Len(topic'), "suppressed" \in outcome[j]
               PROVE  \E l \in 1 .. Len(topic') : topic'[l] = topic'[j] /\ Told(l)'
    BY <1>4 DEF SuppressedAfterTold
  <2>1. CASE j \in 1 .. Len(topic)
    BY <1>1, <1>3, <1>4, <2>1 DEF SuppressedAfterTold, Told
  <2>2. CASE j = Len(topic')
    <3>1. j \in Offset /\ ~(j <= Len(topic))
      BY <1>1, <1>3, <2>2
    <3>2. ~Handled(j)
      BY <1>1, <3>1 DEF FetchedInv
    <3> QED
      BY <3>2 DEF Handled
  <2> QED
    BY <1>3, <2>1, <2>2
<1>9. CommittedIsHandled' /\ NothingHeldBack'
  BY <1>1, <1>4 DEF CommittedIsHandled, NothingHeldBack, Handled
<1> QED
  BY <1>5, <1>6, <1>7, <1>8, <1>9 DEF Inv

LEMMA StopInv == ASSUME Inv, Stop PROVE Inv'
<1>1. /\ TypeOK /\ FetchedInv /\ ToldInv /\ MaxRecords \in Nat
      /\ CommittedIsHandled /\ SuppressedAfterTold /\ NothingHeldBack
  BY AlertsAssumption DEF Inv
<1>2. /\ position' = committed /\ in_flight' = {} /\ completed' = {}
      /\ stage' = [i \in Offset |-> "none"] /\ faults' \in Nat
      /\ UNCHANGED <<topic, committed, cooldown, outcome, alerts>>
  BY <1>1 DEF Stop, Fault, ForgetCompleted, TypeOK
<1>3. TypeOK'
  BY <1>1, <1>2 DEF TypeOK, Stage
<1>4. FetchedInv'
  <2>1. /\ committed \in Nat /\ committed <= Len(topic) /\ Len(topic) <= MaxRecords
        /\ \A j \in 1 .. committed : Handled(j)
        /\ \A j \in Offset : Handled(j) => j <= Len(topic)
    BY <1>1 DEF FetchedInv, CommittedIsHandled, TypeOK
  <2>2. committed <= committed
    BY <2>1
  <2>3. \A j \in Offset : stage'[j] = "none"
    BY <1>2
  <2> QED
    BY <1>2, <2>1, <2>2, <2>3 DEF FetchedInv, Handled
<1>5. ToldInv' /\ CommittedIsHandled' /\ SuppressedAfterTold' /\ NothingHeldBack'
  BY <1>1, <1>2 DEF ToldInv, CommittedIsHandled, SuppressedAfterTold, NothingHeldBack, Told, Handled
<1> QED
  BY <1>3, <1>4, <1>5 DEF Inv

LEMMA CoolDownInv == ASSUME Inv, NEW k \in Key, CoolDown(k) PROVE Inv'
<1>1. /\ TypeOK /\ FetchedInv /\ ToldInv
      /\ CommittedIsHandled /\ SuppressedAfterTold /\ NothingHeldBack
  BY DEF Inv
<1>2. /\ cooldown' \subseteq cooldown /\ alerts' \in [Key -> Nat]
      /\ UNCHANGED <<topic, position, stage, in_flight, completed, committed, outcome, faults>>
  BY <1>1 DEF CoolDown, TypeOK, watermarks
<1>3. TypeOK'
  BY <1>1, <1>2 DEF TypeOK
<1>4. FetchedInv'
  BY <1>1, <1>2 DEF FetchedInv, Handled
<1>5. ToldInv' /\ CommittedIsHandled' /\ SuppressedAfterTold' /\ NothingHeldBack'
  BY <1>1, <1>2 DEF ToldInv, CommittedIsHandled, SuppressedAfterTold, NothingHeldBack, Told, Handled
<1> QED
  BY <1>3, <1>4, <1>5 DEF Inv

LEMMA InvAlways == Spec => []Inv
<1>1. ASSUME Inv, UNCHANGED vars PROVE Inv'
  <2>1. TypeOK'
    BY <1>1 DEF Inv, vars, watermarks, TypeOK
  <2>2. FetchedInv'
    BY <1>1 DEF Inv, vars, watermarks, FetchedInv, Handled
  <2>3. ToldInv' /\ SuppressedAfterTold'
    BY <1>1 DEF Inv, vars, watermarks, ToldInv, SuppressedAfterTold, Told
  <2>4. CommittedIsHandled' /\ NothingHeldBack'
    BY <1>1 DEF Inv, vars, watermarks, CommittedIsHandled, NothingHeldBack, Handled
  <2> QED
    BY <2>1, <2>2, <2>3, <2>4 DEF Inv
<1>2. Inv /\ [Next]_vars => Inv'
  BY <1>1, HandlerInv, FetchInv, ProduceInv, StopInv, CoolDownInv DEF Next
<1> QED
  BY InitInv, <1>2, PTL DEF Spec

(* Every variable keeps its type. *)
THEOREM TypeCorrect == Spec => []TypeOK
<1>1. Inv => TypeOK
  BY DEF Inv
<1> QED
  BY InvAlways, <1>1, PTL

(* However many handlers run, in whatever order they end, and wherever the *)
(* process stops: no offset is committed past an alert that was neither    *)
(* handled nor parked (alert_listener.rs, Watermarks).                     *)
THEOREM CommitsLoseNothing == Spec => []CommittedIsHandled
<1>1. Inv => CommittedIsHandled
  BY DEF Inv
<1> QED
  BY InvAlways, <1>1, PTL

(* An alert is only suppressed because of one that reached its domains, or *)
(* had none to reach (alerts.rs, on_breach: the cooldown starts last).     *)
THEOREM SuppressionIsEarned == Spec => []SuppressedAfterTold
<1>1. Inv => SuppressedAfterTold
  BY DEF Inv
<1> QED
  BY InvAlways, <1>1, PTL

(* Out-of-order completions are released together: with nothing in flight, *)
(* the watermark is at the last record done (alert_listener.rs, finished). *)
THEOREM WatermarkCatchesUp == Spec => []NothingHeldBack
<1>1. Inv => NothingHeldBack
  BY DEF Inv
<1> QED
  BY InvAlways, <1>1, PTL

-----------------------------------------------------------------------------
(* Duplicates.  Past the check of the cooldown, an alert for k is coming   *)
(* until it was delivered, then it arms.  Before k cools down each alert   *)
(* delivered has its handler still arming, in a slot of its own; once k    *)
(* cools down no handler comes anew.                                       *)

Coming(k) == {i \in Offset : stage[i] \in {"looking", "delivering"} /\ topic[i] = k}
Arming(k) == {i \in Offset : stage[i] = "arming" /\ topic[i] = k}

SlotsInv ==
  /\ Cardinality(Running) <= IN_FLIGHT
  /\ faults = 0 => \A k \in Key :
       IF k \in cooldown THEN alerts[k] + Cardinality(Coming(k)) <= IN_FLIGHT
                         ELSE alerts[k] <= Cardinality(Arming(k))

LEMMA Finite ==
  ASSUME NEW S \in SUBSET Offset
  PROVE  IsFiniteSet(S) /\ Cardinality(S) \in Nat
<1>1. IsFiniteSet(1 .. MaxRecords)
  BY AlertsAssumption, FS_Interval
<1> QED BY <1>1, FS_Subset, FS_CardinalityType

LEMMA Fewer ==
  ASSUME NEW S \in SUBSET Offset, NEW T \in SUBSET S
  PROVE  Cardinality(T) <= Cardinality(S)
BY Finite, FS_Subset

(* A condition's alerts that come or arm each hold a slot.                 *)
LEMMA SlotsShared ==
  ASSUME NEW k
  PROVE  Cardinality(Coming(k)) + Cardinality(Arming(k)) <= Cardinality(Running)
<1>1. /\ Coming(k) \in SUBSET Offset /\ Arming(k) \in SUBSET Offset /\ Running \in SUBSET Offset
      /\ Coming(k) \cap Arming(k) = {} /\ Coming(k) \cup Arming(k) \in SUBSET Running
  BY DEF Coming, Arming, Running
<1>2. Cardinality(Coming(k) \cup Arming(k)) <= Cardinality(Running)
  BY <1>1, Fewer
<1>3. Cardinality(Coming(k) \cup Arming(k)) = Cardinality(Coming(k)) + Cardinality(Arming(k))
  BY <1>1, Finite, FS_Union, FS_EmptySet
<1> QED BY <1>2, <1>3

(* What one step does to the slots of a condition. *)
SameSlots(k) == Coming(k)' = Coming(k) /\ Arming(k)' = Arming(k)

LEMMA SlotsKept ==
  ASSUME Inv, SlotsInv, Cardinality(Running)' <= IN_FLIGHT, faults' = faults, NEW k \in Key,
         faults = 0, alerts'[k] = alerts[k], k \in cooldown' <=> k \in cooldown, SameSlots(k)
  PROVE  IF k \in cooldown' THEN alerts'[k] + Cardinality(Coming(k)') <= IN_FLIGHT
                            ELSE alerts'[k] <= Cardinality(Arming(k)')
BY DEF SlotsInv, SameSlots

(* A handler that goes from one stage to another moves i alone.            *)
LEMMA StageStep ==
  ASSUME Inv, NEW i \in Offset, NEW s \in Stage, GoTo(i, s), topic' = topic, NEW k
  PROVE  /\ Running' = IF s = "none" THEN Running \ {i} ELSE Running \cup {i}
         /\ Coming(k)' = IF s \in {"looking", "delivering"} /\ topic[i] = k
                         THEN Coming(k) \cup {i} ELSE Coming(k) \ {i}
         /\ Arming(k)' = IF s = "arming" /\ topic[i] = k
                         THEN Arming(k) \cup {i} ELSE Arming(k) \ {i}
<1>1. \A j \in Offset : stage'[j] = IF j = i THEN s ELSE stage[j]
  BY DEF GoTo, Inv, TypeOK
<1>2. Running' = IF s = "none" THEN Running \ {i} ELSE Running \cup {i}
  BY <1>1 DEF Running
<1>3. Coming(k)' = IF s \in {"looking", "delivering"} /\ topic[i] = k
                   THEN Coming(k) \cup {i} ELSE Coming(k) \ {i}
  BY <1>1 DEF Coming
<1>4. Arming(k)' = IF s = "arming" /\ topic[i] = k THEN Arming(k) \cup {i} ELSE Arming(k) \ {i}
  BY <1>1 DEF Arming
<1> QED BY <1>2, <1>3, <1>4

LEMMA StillRunning ==
  ASSUME SlotsInv, Running' \subseteq Running
  PROVE  Cardinality(Running)' <= IN_FLIGHT
<1>1. Running \in SUBSET Offset /\ Running' \in SUBSET Running /\ Running' \in SUBSET Offset
  BY DEF Running
<1>2. Cardinality(Running') <= Cardinality(Running) /\ Cardinality(Running) \in Nat /\ Cardinality(Running') \in Nat
  BY <1>1, Fewer, Finite
<1> QED BY <1>2, AlertsAssumption DEF SlotsInv

SlotsOK(k) == IF k \in cooldown THEN alerts[k] + Cardinality(Coming(k)) <= IN_FLIGHT
                                ELSE alerts[k] <= Cardinality(Arming(k))

(* Handlers, while nothing errs. *)
LEMMA HandleSlots ==
  ASSUME Inv, SlotsInv, faults = 0, NEW i \in Offset, Handle(i), NEW k \in Key
  PROVE  SlotsOK(k)'
<1>0. /\ stage[i] # "none" /\ topic' = topic /\ stage[i] \in Stage
      /\ Coming(k) \in SUBSET Offset /\ Arming(k) \in SUBSET Offset
      /\ alerts \in [Key -> Nat] /\ SlotsOK(k) /\ cooldown \subseteq Key
      /\ stage[i] \in Stage \ {"none", "parking"} => topic[i] \in Key
  BY DEF Handle, Suppress, Proceed, Look, Deliver, Arm, Park, At, Coming, Arming, Inv, TypeOK,
         SlotsInv, SlotsOK, FetchedInv
<1>1. /\ IsFiniteSet(Coming(k)) /\ Cardinality(Coming(k)) \in Nat
      /\ IsFiniteSet(Arming(k)) /\ Cardinality(Arming(k)) \in Nat
      /\ IN_FLIGHT \in Nat /\ alerts[k] \in Nat
  BY <1>0, Finite, AlertsAssumption
<1>2. ASSUME SameSlots(k), cooldown' = cooldown, alerts' = alerts PROVE SlotsOK(k)'
  BY <1>0, <1>2 DEF SlotsOK, SameSlots
<1>3. CASE Suppress(i) \/ Park(i)
  <2>1. GoTo(i, "none") /\ stage[i] \in {"checking", "parking"} /\ cooldown' = cooldown /\ alerts' = alerts
    BY <1>3 DEF Suppress, Park, Finish, At
  <2>2. SameSlots(k)
    BY <1>0, <2>1, StageStep DEF SameSlots, Coming, Arming, Stage
  <2> QED BY <1>2, <2>1, <2>2
<1>4. CASE Proceed(i)
  <2>1. /\ GoTo(i, "looking") /\ stage[i] = "checking" /\ topic[i] \notin cooldown
        /\ cooldown' = cooldown /\ alerts' = alerts
    BY <1>4 DEF Proceed, At
  <2>2. Arming(k)' = Arming(k)
    BY <1>0, <2>1, StageStep DEF Arming, Stage
  <2>3. topic[i] # k => Coming(k)' = Coming(k)
    BY <1>0, <2>1, StageStep DEF Coming, Stage
  <2> QED BY <1>0, <2>1, <2>2, <2>3 DEF SlotsOK
<1>5. CASE Look(i)
  <2>1. stage[i] = "looking" /\ cooldown' = cooldown /\ alerts' = alerts
    BY <1>5 DEF Look, At
  <2>2. CASE GoTo(i, "delivering")
    <3>1. SameSlots(k)
      BY <1>0, <2>1, <2>2, StageStep DEF SameSlots, Coming, Arming, Stage
    <3> QED BY <1>2, <2>1, <3>1
  <2>3. CASE GoTo(i, "arming")
    <3>1. Coming(k)' = Coming(k) \ {i} /\ Arming(k)' \in {Arming(k) \cup {i}, Arming(k) \ {i}} /\ i \notin Arming(k)
      BY <1>0, <2>1, <2>3, StageStep DEF Stage, Arming
    <3>2. Arming(k) \ {i} = Arming(k)
      BY <3>1
    <3>3. /\ Cardinality(Coming(k) \ {i}) <= Cardinality(Coming(k))
          /\ Cardinality(Coming(k) \ {i}) \in Nat
      BY <1>0, Fewer, Finite
    <3>4. /\ Cardinality(Arming(k)) <= Cardinality(Arming(k) \cup {i})
          /\ Cardinality(Arming(k) \cup {i}) \in Nat
      BY <1>0, Fewer, Finite
    <3>5. CASE k \in cooldown
      BY <1>0, <1>1, <2>1, <3>1, <3>3, <3>5 DEF SlotsOK
    <3>6. CASE k \notin cooldown
      <4>1. Cardinality(Arming(k)) <= Cardinality(Arming(k)')
        BY <1>1, <3>1, <3>2, <3>4
      <4>2. Cardinality(Arming(k)') \in Nat
        BY <1>1, <3>1, <3>2, <3>4
      <4>3. alerts[k] <= Cardinality(Arming(k)')
        BY <1>0, <1>1, <3>6, <4>1, <4>2 DEF SlotsOK
      <4> QED BY <2>1, <3>6, <4>3 DEF SlotsOK
    <3> QED BY <3>5, <3>6
  <2> QED BY <1>5, <2>2, <2>3 DEF Look
<1>6. CASE Deliver(i)
  <2>1. /\ stage[i] = "delivering" /\ cooldown' = cooldown /\ GoTo(i, "arming")
        /\ alerts' = [alerts EXCEPT ![topic[i]] = @ + 1]
    BY <1>6 DEF Deliver, At
  <2>2. /\ Coming(k)' = Coming(k) \ {i}
        /\ Arming(k)' = IF topic[i] = k THEN Arming(k) \cup {i} ELSE Arming(k) \ {i}
    BY <1>0, <2>1, StageStep DEF Stage
  <2>3. CASE topic[i] # k
    <3>1. SameSlots(k)
      <4>1. i \notin Coming(k) /\ i \notin Arming(k)
        BY <2>3 DEF Coming, Arming
      <4> QED BY <2>3, <2>2, <4>1 DEF SameSlots
    <3>2. alerts'[k] = alerts[k]
      BY <1>0, <2>1, <2>3
    <3> QED BY <1>0, <2>1, <3>1, <3>2 DEF SlotsOK, SameSlots
  <2>4. CASE topic[i] = k
    <3>1. /\ Coming(k)' = Coming(k) \ {i} /\ i \in Coming(k)
          /\ Arming(k)' = Arming(k) \cup {i} /\ i \notin Arming(k)
      BY <2>1, <2>4, <2>2 DEF Coming, Arming
    <3>2. alerts'[k] = alerts[k] + 1
      BY <1>0, <2>1, <2>4
    <3>3. Cardinality(Coming(k) \ {i}) = Cardinality(Coming(k)) - 1
      BY <1>1, <3>1, FS_RemoveElement
    <3>4. Cardinality(Arming(k) \cup {i}) = Cardinality(Arming(k)) + 1
      BY <1>1, <3>1, FS_AddElement
    <3> QED BY <1>0, <1>1, <2>1, <3>1, <3>2, <3>3, <3>4 DEF SlotsOK
  <2> QED BY <2>3, <2>4
<1>7. CASE Arm(i)
  <2>1. /\ stage[i] = "arming" /\ GoTo(i, "none") /\ alerts' = alerts
        /\ cooldown' = cooldown \cup {topic[i]}
    BY <1>7 DEF Arm, Finish, At
  <2>2. Coming(k)' = Coming(k)
    BY <1>0, <2>1, StageStep DEF Coming, Stage
  <2>3. CASE topic[i] # k
    <3>1. SameSlots(k)
      BY <1>0, <2>1, <2>2, <2>3, StageStep DEF SameSlots, Arming, Stage
    <3> QED BY <1>0, <2>1, <2>3, <3>1 DEF SlotsOK, SameSlots
  <2>4. CASE topic[i] = k
    <3>1. Cardinality(Running) \in Nat /\ Cardinality(Running) <= IN_FLIGHT
      BY Finite DEF SlotsInv, Running
    <3>2. alerts[k] + Cardinality(Coming(k)) <= IN_FLIGHT
      BY <1>0, <1>1, <3>1, SlotsShared DEF SlotsOK
    <3> QED BY <2>1, <2>2, <2>4, <3>2 DEF SlotsOK
  <2> QED BY <2>3, <2>4
<1> QED BY <1>3, <1>4, <1>5, <1>6, <1>7 DEF Handle

LEMMA NextSlotsInv ==
  ASSUME Inv, SlotsInv, [Next]_vars
  PROVE  SlotsInv'
<1>0. /\ TypeOK /\ FetchedInv /\ faults \in Nat
  BY DEF Inv, TypeOK
<1>1. ASSUME NEW i \in Offset, Handle(i) \/ HandlingErrs(i) \/ ArmErrs(i) \/ ParkErrs(i)
      PROVE  SlotsInv'
  <2>1. \E s \in Stage : GoTo(i, s) /\ stage[i] # "none" /\ topic' = topic
    BY <1>1 DEF Handle, Suppress, Proceed, Look, Deliver, Arm, Park, HandlingErrs, ArmErrs, ParkErrs,
                Finish, At, Stage
  <2>2. Running' \subseteq Running
    BY <2>1, StageStep DEF Running
  <2>3. Cardinality(Running)' <= IN_FLIGHT
    BY <2>2, StillRunning
  <2>4. CASE Handle(i)
    <3>1. faults' = faults
      BY <2>4 DEF Handle, Suppress, Proceed, Look, Deliver, Arm, Park
    <3> QED BY <2>3, <2>4, <3>1, HandleSlots DEF SlotsInv, SlotsOK
  <2>5. CASE HandlingErrs(i) \/ ArmErrs(i) \/ ParkErrs(i)
    <3>1. faults' # 0
      BY <1>0, <2>5 DEF HandlingErrs, ArmErrs, ParkErrs, Fault
    <3> QED BY <2>3, <3>1 DEF SlotsInv
  <2> QED BY <1>1, <2>4, <2>5
<1>2. CASE Fetch
  <2>1. CASE stage' = stage /\ topic' = topic
    <3>1. Running' = Running /\ \A k : SameSlots(k)
      BY <2>1 DEF Running, SameSlots, Coming, Arming
    <3> QED BY <1>2, <3>1, StillRunning, SlotsKept DEF Fetch, SlotsInv
  <2>2. ASSUME stage' # stage PROVE SlotsInv'
    <3> DEFINE i == position + 1
    <3>1. /\ SlotFree /\ GoTo(i, FirstStage(i)) /\ topic' = topic
          /\ cooldown' = cooldown /\ alerts' = alerts /\ faults' = faults
      BY <1>2, <2>2 DEF Fetch
    <3>2. i \in Offset /\ FirstStage(i) \in {"parking", "checking"}
      BY <1>0, <1>2, AlertsAssumption DEF FetchedInv, TypeOK, Fetch, FirstStage
    <3>3. stage[i] = "none"
      BY <1>0, <3>2 DEF FetchedInv, TypeOK
    <3>4. Running' = Running \cup {i} /\ \A k : SameSlots(k)
      BY <3>1, <3>2, <3>3, StageStep DEF SameSlots, Coming, Arming, Stage
    <3>5. Cardinality(Running)' <= IN_FLIGHT
      <4>1. Running \in SUBSET Offset
        BY DEF Running
      <4>2. IsFiniteSet(Running) /\ Cardinality(Running) \in Nat /\ Cardinality(Running) < IN_FLIGHT
        BY <3>1, <4>1, Finite DEF SlotFree
      <4>3. Cardinality(Running \cup {i}) <= Cardinality(Running) + 1
        BY <4>2, FS_AddElement
      <4>4. Cardinality(Running \cup {i}) \in Nat
        BY <3>2, <4>1, Finite
      <4> QED BY <3>4, <4>2, <4>3, <4>4, AlertsAssumption
    <3> QED BY <3>1, <3>4, <3>5, SlotsKept DEF SlotsInv
  <2> QED BY <1>2, <2>1, <2>2 DEF Fetch
<1>3. CASE Produce
  <2>1. /\ stage' = stage /\ cooldown' = cooldown /\ alerts' = alerts /\ faults' = faults
        /\ Running' = Running
    BY <1>3 DEF Produce, Running
  <2>2. \A j \in Offset : stage[j] # "none" => topic'[j] = topic[j]
    <3>1. PICK r \in Record : topic' = Append(topic, r)
      BY <1>3 DEF Produce
    <3>2. \A j \in Offset : stage[j] # "none" => j \in 1 .. Len(topic)
      BY <1>0 DEF FetchedInv, TypeOK
    <3> QED BY <1>0, <3>1, <3>2 DEF TypeOK
  <2>3. \A k : SameSlots(k)
    BY <2>1, <2>2 DEF SameSlots, Coming, Arming
  <2> QED BY <2>1, <2>3, StillRunning, SlotsKept DEF SlotsInv
<1>4. CASE Stop
  <2>1. faults' # 0 /\ Running' = {}
    BY <1>0, <1>4 DEF Stop, Fault, Running
  <2>2. Cardinality(Running)' <= IN_FLIGHT
    BY <2>1, StillRunning
  <2> QED BY <2>1, <2>2 DEF SlotsInv
<1>5. ASSUME NEW x \in Key, CoolDown(x) PROVE SlotsInv'
  <2>1. /\ topic' = topic /\ stage' = stage /\ faults' = faults
        /\ cooldown' = cooldown \ {x} /\ alerts' = [alerts EXCEPT ![x] = 0]
    BY <1>5 DEF CoolDown
  <2>2. Running' = Running /\ \A k : SameSlots(k)
    BY <2>1 DEF Running, SameSlots, Coming, Arming
  <2>3. Cardinality(Running)' <= IN_FLIGHT
    BY <2>2, StillRunning
  <2>4. ASSUME NEW k \in Key, faults = 0
        PROVE  IF k \in cooldown' THEN alerts'[k] + Cardinality(Coming(k)') <= IN_FLIGHT
                                  ELSE alerts'[k] <= Cardinality(Arming(k)')
    <3>1. CASE k # x
      BY <1>0, <2>1, <2>2, <2>3, <2>4, <3>1, SlotsKept DEF TypeOK
    <3>2. CASE k = x
      <4>1. alerts'[k] = 0 /\ k \notin cooldown'
        BY <1>0, <2>1, <3>2 DEF TypeOK
      <4>2. Cardinality(Arming(k)) \in Nat
        BY Finite DEF Arming
      <4> QED BY <2>2, <4>1, <4>2 DEF SameSlots
    <3> QED BY <3>1, <3>2
  <2> QED BY <2>1, <2>3, <2>4 DEF SlotsInv
<1>6. CASE UNCHANGED vars
  <2>1. /\ topic' = topic /\ stage' = stage /\ faults' = faults
        /\ cooldown' = cooldown /\ alerts' = alerts
    BY <1>6 DEF vars
  <2>2. Running' = Running /\ \A k : SameSlots(k)
    BY <2>1 DEF Running, SameSlots, Coming, Arming
  <2> QED BY <2>1, <2>2, StillRunning, SlotsKept DEF SlotsInv
<1> QED BY <1>1, <1>2, <1>3, <1>4, <1>5, <1>6 DEF Next

(* alerts.rs checks the cooldown long before it starts one: while nothing  *)
(* errs, the duplicates that pass are as many as the slots, at most.       *)
THEOREM DuplicatesBounded == Spec => []DuplicatesAbsorbed
<1>1. Init => SlotsInv
  <2> SUFFICES ASSUME Init PROVE SlotsInv
    OBVIOUS
  <2>1. Running = {} /\ cooldown = {} /\ \A k \in Key : alerts[k] = 0
    BY DEF Init, Running
  <2>2. \A k \in Key : Cardinality(Arming(k)) \in Nat
    BY Finite DEF Arming
  <2> QED BY <2>1, <2>2, FS_EmptySet, AlertsAssumption DEF SlotsInv
<1>2. Inv /\ SlotsInv /\ [Next]_vars => SlotsInv'
  BY NextSlotsInv
<1>3. Inv /\ SlotsInv => DuplicatesAbsorbed
  <2> SUFFICES ASSUME Inv, SlotsInv, faults = 0, NEW k \in Key PROVE alerts[k] <= IN_FLIGHT
    BY DEF DuplicatesAbsorbed
  <2>1. /\ Cardinality(Coming(k)) \in Nat /\ Cardinality(Arming(k)) \in Nat
        /\ Cardinality(Running) \in Nat /\ alerts[k] \in Nat
    BY Finite DEF Coming, Arming, Running, Inv, TypeOK
  <2> QED BY <2>1, SlotsShared, AlertsAssumption DEF SlotsInv
<1> QED BY <1>1, <1>2, <1>3, InvAlways, PTL DEF Spec
=============================================================================
