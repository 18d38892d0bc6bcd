--------------------------- MODULE ChoicesProofs ---------------------------
(***************************************************************************)
(* What the users of a building have set: the preferences of notification, *)
(* the columns of dashboard, and the simulators of telemetry.  Each of the *)
(* three is proved by itself, for any number of accounts, devices,         *)
(* requests, buildings and sensors, without the bounds that MCNext puts on *)
(* what overlaps.                                                          *)
(***************************************************************************)
EXTENDS MCChoices, TLAPS

-----------------------------------------------------------------------------
(* dashboard.  The last change is in memory; as long as nothing else has   *)
(* been written beside it, it is the one write under way or is saved.      *)
ColumnsInv ==
  alone /\ ~lost =>
    \/ writes = {} /\ saved = memory
    \/ writes = {[change |-> changes, columns |-> memory]}

LEMMA SpawnInv ==
  ASSUME NEW columns, memory' = columns, Columnwise!Spawn(columns)
  PROVE  ColumnsInv'
<1>1. /\ changes' = changes + 1
      /\ writes' = writes \cup {[change |-> changes + 1, columns |-> columns]}
      /\ alone' = (writes = {})
  BY DEF Columnwise!Spawn
<1>2. CASE writes = {}
  <2>1. writes' = {[change |-> changes', columns |-> memory']}
    BY <1>1, <1>2
  <2> QED
    BY <2>1 DEF ColumnsInv
<1>3. CASE writes # {}
  <2>1. ~alone'
    BY <1>1, <1>3
  <2> QED
    BY <2>1 DEF ColumnsInv
<1> QED
  BY <1>2, <1>3

LEMMA ColumnsNext ==
  ASSUME ColumnsInv, [Columnwise!Next]_(Columnwise!vars)
  PROVE  ColumnsInv'
<1>1. ASSUME NEW columns \in Columns, Columnwise!UpdatePreferences(columns) PROVE ColumnsInv'
  BY <1>1, SpawnInv DEF Columnwise!UpdatePreferences
<1>2. CASE Columnwise!InitPreferences
  <2>1. CASE memory = Columnwise!NotKnown
    BY <1>2, <2>1, SpawnInv DEF Columnwise!InitPreferences
  <2>2. CASE memory # Columnwise!NotKnown
    BY <1>2, <2>2 DEF Columnwise!InitPreferences, Columnwise!InitKnown, ColumnsInv
  <2> QED
    BY <2>1, <2>2
<1>3. CASE Columnwise!Restart
  BY <1>3 DEF Columnwise!Restart, Columnwise!Hydrated, ColumnsInv
<1>4. ASSUME NEW write \in writes, Columnwise!Upsert(write) PROVE ColumnsInv'
  <2> SUFFICES ASSUME alone, ~lost PROVE writes' = {} /\ saved' = memory'
    BY <1>4 DEF Columnwise!Upsert, ColumnsInv
  <2>1. write = [change |-> changes, columns |-> memory] /\ writes = {write}
    BY DEF ColumnsInv
  <2> QED
    BY <1>4, <2>1 DEF Columnwise!Upsert
<1>5. ASSUME NEW write \in writes, Columnwise!UpsertFails(write) PROVE ColumnsInv'
  <2> SUFFICES ASSUME alone, ~lost' PROVE FALSE
    BY <1>5 DEF Columnwise!UpsertFails, ColumnsInv
  <2>1. ~lost /\ write.change # changes
    BY <1>5 DEF Columnwise!UpsertFails
  <2>2. write = [change |-> changes, columns |-> memory]
    BY <2>1 DEF ColumnsInv
  <2> QED
    BY <2>1, <2>2
<1>6. CASE UNCHANGED Columnwise!vars
  BY <1>6 DEF Columnwise!vars, ColumnsInv
<1> QED
  BY <1>1, <1>2, <1>3, <1>4, <1>5, <1>6 DEF Columnwise!Next

(* A change of the columns that met no other write, and whose own write    *)
(* was neither refused nor cut off, is what a restart of dashboard finds   *)
(* (update_preferences, which does not wait for the task that it spawns).  *)
THEOREM SavedIsFound == Columnwise!Spec => []SavedWhenAlone
<1>1. Columnwise!Init => ColumnsInv
  BY DEF Columnwise!Init, ColumnsInv
<1>2. ColumnsInv => SavedWhenAlone
  BY DEF ColumnsInv, SavedWhenAlone, Columnwise!SavedWhenAlone
<1> QED
  BY <1>1, <1>2, ColumnsNext, PTL DEF Columnwise!Spec

-----------------------------------------------------------------------------
(* The simulators.  What telemetry and the simulators keep.                *)
Requests == [step : {"none", "reading", "asking", "ended"}, building : Building \cup {"none"},
             plan : SUBSET Simulators!Sensor, alone : BOOLEAN]

SimulatorsType ==
  /\ stored \in [Building -> SUBSET Simulators!Sensor]
  /\ start \in [Start -> Requests]
  /\ call \in [Start -> [Simulators!Simulator ->
                            {"none", "out", "late", "handled", "ok", "failed"}]]
  /\ holds \in [Simulators!Simulator -> [Building -> SUBSET Simulators!Sensor]]
  /\ isRunning \in BOOLEAN
  /\ chain \in [Start -> {"none", "posting", "waiting"}]
  /\ batch \in [Start -> SUBSET Building]
  /\ settled \in [Building -> SUBSET (Simulators!Sensor \cup {"unsettled"})]

(* Calls are made when telemetry asks, and what is left of them when it    *)
(* has answered can only be late.                                          *)
CallsInv ==
  \A r \in Start :
    /\ start[r].step \in {"reading", "asking"} => start[r].building \in Building
    /\ start[r].step \in {"none", "reading"} =>
         \A s \in Simulators!Simulator : call[r][s] = "none"
    /\ start[r].step = "ended" =>
         \A s \in Simulators!Simulator : call[r][s] \in {"none", "late", "failed"}
    /\ (\E s \in Simulators!Simulator : call[r][s] \in {"out", "late"}) =>
         start[r].building \in Building

(* A request that has met no other is the only one of its building, and    *)
(* the simulators that have handled it hold their shares.                  *)
AloneInv ==
  \A r \in Start : start[r].alone =>
    /\ start[r].step \in {"reading", "asking"}
    /\ \A q \in Start \ {r} :
         Simulators!Open(q) => start[q].building # start[r].building
    /\ \A s \in Simulators!Simulator : call[r][s] \in {"handled", "ok"} =>
         holds[s][start[r].building] = Simulators!Share(start[r].plan, s)

(* What is settled is held, and nothing is under way that could change it. *)
SettledInv ==
  \A b \in Building : settled[b] # Simulators!Unsettled =>
    /\ Simulators!OpenFor(b) = {}
    /\ \A s \in Simulators!Simulator : holds[s][b] = Simulators!Share(settled[b], s)

SimulatorsInv ==
  SimulatorsType /\ CallsInv /\ AloneInv /\ SettledInv /\ RunningTicks

USE DEF Simulators!Unsettled

LEMMA Clock ==
  ASSUME Simulators!SimulationsAssumption
  PROVE  "sensor" \in Simulators!Simulator
BY DEF Simulators!SimulationsAssumption, Simulators!Simulator, Simulators!Kinds

LEMMA ShareOfSensors ==
  ASSUME NEW plan \in SUBSET Simulators!Sensor, NEW s
  PROVE  Simulators!Share(plan, s) \in SUBSET Simulators!Sensor
BY DEF Simulators!Share

(* Only what a request, a call or a holding changes concerns AloneInv and  *)
(* SettledInv.                                                             *)
LEMMA AskingUnchanged ==
  ASSUME SimulatorsInv, UNCHANGED <<start, call, holds, settled>>
  PROVE  CallsInv' /\ AloneInv' /\ SettledInv'
BY DEF SimulatorsInv, CallsInv, AloneInv, SettledInv, Simulators!Open, Simulators!Late,
   Simulators!OpenFor, Simulators!Share, Simulators!Simulator, Simulators!Kinds

LEMMA ClockUnchanged ==
  ASSUME SimulatorsInv, UNCHANGED <<holds, isRunning, chain>>
  PROVE  RunningTicks'
BY DEF SimulatorsInv, RunningTicks, Simulators!RunningTicks, Simulators!Alive

LEMMA SimulatorsInit ==
  ASSUME Simulators!SimulationsAssumption, Simulators!Init
  PROVE  SimulatorsInv
<1>1. SimulatorsType
  BY DEF Simulators!Init, SimulatorsType, Requests, Simulators!NotAsked
<1>2. CallsInv /\ AloneInv /\ SettledInv
  BY DEF Simulators!Init, CallsInv, AloneInv, SettledInv, Simulators!NotAsked
<1>3. RunningTicks
  BY Clock DEF Simulators!Init, RunningTicks, Simulators!RunningTicks
<1> QED
  BY <1>1, <1>2, <1>3 DEF SimulatorsInv

LEMMA EditInv ==
  ASSUME SimulatorsInv, NEW b \in Building, NEW x \in Simulators!Sensor, Simulators!Edit(b, x)
  PROVE  SimulatorsInv'
<1>1. /\ stored' = [stored EXCEPT ![b] = IF x \in stored[b] THEN stored[b] \ {x}
                                        ELSE stored[b] \cup {x}]
      /\ UNCHANGED <<start, call, holds, isRunning, chain, batch, settled>>
  BY DEF Simulators!Edit, Simulators!telemetryVars, Simulators!clockVars
<1>2. SimulatorsType'
  BY <1>1 DEF SimulatorsInv, SimulatorsType
<1> QED
  BY <1>1, <1>2, AskingUnchanged, ClockUnchanged DEF SimulatorsInv

LEMMA SpoiltRequests ==
  ASSUME SimulatorsInv, NEW rs
  PROVE  /\ Simulators!Spoilt(rs) \in [Start -> Requests]
         /\ \A q \in Start :
              /\ Simulators!Spoilt(rs)[q].step = start[q].step
              /\ Simulators!Spoilt(rs)[q].building = start[q].building
              /\ Simulators!Spoilt(rs)[q].plan = start[q].plan
              /\ Simulators!Spoilt(rs)[q].alone => start[q].alone /\ q \notin rs
<1>1. ASSUME NEW q \in Start
      PROVE  /\ Simulators!Spoilt(rs)[q] \in Requests
             /\ Simulators!Spoilt(rs)[q].step = start[q].step
             /\ Simulators!Spoilt(rs)[q].building = start[q].building
             /\ Simulators!Spoilt(rs)[q].plan = start[q].plan
             /\ Simulators!Spoilt(rs)[q].alone => start[q].alone /\ q \notin rs
  <2>1. start[q] \in Requests
    BY DEF SimulatorsInv, SimulatorsType
  <2>2. CASE q \in rs
    <3>1. Simulators!Spoilt(rs)[q] = [start[q] EXCEPT !.alone = FALSE]
      BY <2>2 DEF Simulators!Spoilt
    <3> QED
      BY <2>1, <3>1 DEF Requests
  <2>3. CASE q \notin rs
    <3>1. Simulators!Spoilt(rs)[q] = start[q]
      BY <2>3 DEF Simulators!Spoilt
    <3> QED
      BY <2>1, <2>3, <3>1
  <2> QED
    BY <2>2, <2>3
<1>2. Simulators!Spoilt(rs) =
        [q \in Start |-> IF q \in rs THEN [start[q] EXCEPT !.alone = FALSE] ELSE start[q]]
  BY DEF Simulators!Spoilt
<1> DEFINE spoilt == Simulators!Spoilt(rs)
<1>3. \A q \in Start : spoilt[q] \in Requests
  BY <1>1
<1> DEFINE f(q) == IF q \in rs THEN [start[q] EXCEPT !.alone = FALSE] ELSE start[q]
<1>4. spoilt = [q \in Start |-> f(q)]
  BY <1>2
<1> HIDE DEF spoilt, f
<1>5. spoilt \in [Start -> Requests]
  BY <1>3, <1>4
<1> QED
  BY <1>1, <1>5 DEF spoilt

(* A request that begins spoils those of its building that are under way.  *)
LEMMA BeginInv ==
  ASSUME SimulatorsInv, NEW r \in Start, NEW b \in Building,
         Simulators!BeginStart(r, b) \/ Simulators!BeginStop(r, b)
  PROVE  SimulatorsInv'
<1> DEFINE others == Simulators!OpenFor(b)
<1>1. PICK step \in {"reading", "asking"} :
        /\ start[r].step = "none"
        /\ start' = [Simulators!Spoilt(others) EXCEPT
             ![r] = [step |-> step, building |-> b, plan |-> {}, alone |-> others = {}]]
        /\ settled' = [settled EXCEPT ![b] = Simulators!Unsettled]
        /\ UNCHANGED <<stored, holds, isRunning, chain, batch>>
        /\ \/ step = "reading" /\ call' = call
           \/ /\ step = "asking"
              /\ call' = [call EXCEPT ![r] = [s \in Simulators!Simulator |->
                   IF s \in Simulators!Simulator THEN "out" ELSE "ok"]]
  BY DEF Simulators!BeginStart, Simulators!BeginStop, Simulators!Begin, Simulators!Send,
     Simulators!clockVars
<1>2. PICK flag \in BOOLEAN :
        /\ flag => others = {}
        /\ start' = [Simulators!Spoilt(others) EXCEPT
             ![r] = [step |-> step, building |-> b, plan |-> {}, alone |-> flag]]
  <2>1. (others = {}) \in BOOLEAN
    OBVIOUS
  <2> QED
    BY <1>1, <2>1
<1> HIDE DEF others
<1> DEFINE fresh == [step |-> step, building |-> b, plan |-> {}, alone |-> flag]
<1>3. fresh \in Requests
  BY DEF Requests
<1>4. /\ fresh.step = step /\ fresh.building = b /\ fresh.plan = {} /\ fresh.alone = flag
  OBVIOUS
<1> HIDE DEF fresh
<1>5. start' \in [Start -> Requests] /\ start'[r] = fresh
  BY <1>2, <1>3, SpoiltRequests DEF fresh
<1>6. \A q \in Start \ {r} :
        /\ start'[q].step = start[q].step /\ start'[q].building = start[q].building
        /\ start'[q].plan = start[q].plan
        /\ start'[q].alone => start[q].alone /\ q \notin others
        /\ call'[q] = call[q]
  <2>1. \A q \in Start \ {r} : start'[q] = Simulators!Spoilt(others)[q]
    BY <1>2, SpoiltRequests
  <2>2. \A q \in Start \ {r} : call'[q] = call[q]
    BY <1>1 DEF SimulatorsInv, SimulatorsType
  <2> QED
    BY <2>1, <2>2, SpoiltRequests
<1>7. \A s \in Simulators!Simulator : call'[r][s] = IF step = "reading" THEN "none" ELSE "out"
  BY <1>1 DEF SimulatorsInv, SimulatorsType, CallsInv
<1>8. \A q \in Start \ {r} : Simulators!Open(q)' <=> Simulators!Open(q)
  BY <1>6 DEF Simulators!Open, Simulators!Late
<1>9. SimulatorsType'
  <2>2. call' \in [Start -> [Simulators!Simulator ->
                            {"none", "out", "late", "handled", "ok", "failed"}]]
    BY <1>1 DEF SimulatorsInv, SimulatorsType
  <2>3. settled' \in [Building -> SUBSET (Simulators!Sensor \cup {"unsettled"})]
    BY <1>1 DEF SimulatorsInv, SimulatorsType
  <2> QED
    BY <1>1, <1>5, <2>2, <2>3 DEF SimulatorsInv, SimulatorsType
<1>10. CallsInv'
  BY <1>6, <1>7, <1>4, <1>5 DEF SimulatorsInv, CallsInv
<1>11. AloneInv'
  <2> SUFFICES ASSUME NEW p \in Start, start'[p].alone
               PROVE  /\ start'[p].step \in {"reading", "asking"}
                      /\ \A q \in Start \ {p} :
                           Simulators!Open(q)' => start'[q].building # start'[p].building
                      /\ \A s \in Simulators!Simulator : call'[p][s] \in {"handled", "ok"} =>
                           holds[s][start'[p].building] = Simulators!Share(start'[p].plan, s)
    BY <1>1 DEF AloneInv, Simulators!Share, Simulators!Simulator, Simulators!Kinds
  <2>1. CASE p = r
    BY <1>2, <1>6, <1>7, <1>8, <1>4, <1>5, <2>1 DEF others, Simulators!OpenFor
  <2>2. CASE p # r
    <3>1. start[p].alone /\ p \notin others
      BY <1>6, <2>2
    <3>2. Simulators!Open(p)
      BY <3>1 DEF SimulatorsInv, AloneInv, Simulators!Open
    <3>3. start[p].building # b
      BY <3>1, <3>2 DEF others, Simulators!OpenFor
    <3> QED
      BY <1>4, <1>5, <1>6, <1>8, <2>2, <3>1, <3>3 DEF SimulatorsInv, AloneInv
  <2> QED
    BY <2>1, <2>2
<1>12. SettledInv'
  <2> SUFFICES ASSUME NEW c \in Building, settled'[c] # Simulators!Unsettled
               PROVE  /\ \A q \in Start : Simulators!Open(q)' => start'[q].building # c
                      /\ \A s \in Simulators!Simulator :
                           holds[s][c] = Simulators!Share(settled'[c], s)
    BY <1>1 DEF SettledInv, Simulators!OpenFor, Simulators!Share, Simulators!Simulator,
       Simulators!Kinds
  <2>1. c # b /\ settled'[c] = settled[c]
    BY <1>1 DEF SimulatorsInv, SimulatorsType
  <2> QED
    BY <1>4, <1>5, <1>6, <1>8, <2>1 DEF SimulatorsInv, SettledInv, Simulators!OpenFor
<1> QED
  BY <1>1, <1>9, <1>10, <1>11, <1>12, ClockUnchanged DEF SimulatorsInv

(* The sensors are read, and every simulator is told.                      *)
LEMMA SendSharesInv ==
  ASSUME SimulatorsInv, NEW r \in Start, Simulators!SendShares(r)
  PROVE  SimulatorsInv'
<1>1. PICK plan : plan = stored[start[r].building]
  OBVIOUS
<1>2. /\ start[r].step = "reading"
      /\ start' = [start EXCEPT ![r] = [start[r] EXCEPT !.step = "asking", !.plan = plan]]
      /\ call' = [call EXCEPT ![r] = [s \in Simulators!Simulator |->
                                       IF s \in Simulators!Simulator THEN "out" ELSE "ok"]]
      /\ UNCHANGED <<stored, holds, isRunning, chain, batch, settled>>
  BY <1>1 DEF Simulators!SendShares, Simulators!Send, Simulators!Recipients,
     Simulators!clockVars, SimulatorsInv, SimulatorsType, Requests
<1>3. plan \in SUBSET Simulators!Sensor
  BY <1>1, <1>2 DEF SimulatorsInv, SimulatorsType, CallsInv
<1>4. start[r] \in Requests /\ start'[r] = [start[r] EXCEPT !.step = "asking", !.plan = plan]
  BY <1>2 DEF SimulatorsInv, SimulatorsType
<1>5. /\ start'[r] \in Requests /\ start'[r].step = "asking"
      /\ start'[r].building = start[r].building /\ start'[r].alone = start[r].alone
  BY <1>3, <1>4 DEF Requests
<1>6. \A s \in Simulators!Simulator : call'[r][s] = "out"
  BY <1>2 DEF SimulatorsInv, SimulatorsType
<1>7. \A q \in Start \ {r} : start'[q] = start[q] /\ call'[q] = call[q]
  BY <1>2 DEF SimulatorsInv, SimulatorsType
<1>8. \A q \in Start : Simulators!Open(q)' => Simulators!Open(q)
  BY <1>2, <1>7 DEF Simulators!Open, Simulators!Late
<1>9. SimulatorsType'
  <2>1. start' \in [Start -> Requests]
    BY <1>2, <1>4, <1>5 DEF SimulatorsInv, SimulatorsType
  <2>2. call' \in [Start -> [Simulators!Simulator ->
                            {"none", "out", "late", "handled", "ok", "failed"}]]
    BY <1>2 DEF SimulatorsInv, SimulatorsType
  <2> QED
    BY <1>2, <2>1, <2>2 DEF SimulatorsInv, SimulatorsType
<1>10. CallsInv'
  BY <1>2, <1>5, <1>6, <1>7 DEF SimulatorsInv, CallsInv
<1>11. AloneInv'
  <2> SUFFICES ASSUME NEW p \in Start, start'[p].alone
               PROVE  /\ start'[p].step \in {"reading", "asking"}
                      /\ \A q \in Start \ {p} :
                           Simulators!Open(q)' => start'[q].building # start'[p].building
                      /\ \A s \in Simulators!Simulator : call'[p][s] \in {"handled", "ok"} =>
                           holds[s][start'[p].building] = Simulators!Share(start'[p].plan, s)
    BY <1>2 DEF AloneInv, Simulators!Share, Simulators!Simulator, Simulators!Kinds
  <2>1. start[p].alone
    BY <1>5, <1>7
  <2> QED
    BY <1>5, <1>6, <1>7, <1>8, <2>1 DEF SimulatorsInv, AloneInv
<1>12. SettledInv'
  <2>1. \A q \in Start : start'[q].building = start[q].building
    BY <1>5, <1>7
  <2> QED
    BY <1>2, <1>8, <2>1 DEF SimulatorsInv, SettledInv, Simulators!OpenFor, Simulators!Share,
       Simulators!Simulator, Simulators!Kinds
<1> QED
  BY <1>2, <1>9, <1>10, <1>11, <1>12, ClockUnchanged DEF SimulatorsInv

LEMMA ReadFailsInv ==
  ASSUME SimulatorsInv, NEW r \in Start, Simulators!ReadFails(r)
  PROVE  SimulatorsInv'
<1>1. /\ start[r].step = "reading"
      /\ start' = [start EXCEPT ![r] = [Simulators!NotAsked EXCEPT !.step = "ended"]]
      /\ UNCHANGED <<stored, call, holds, isRunning, chain, batch, settled>>
  BY DEF Simulators!ReadFails, Simulators!clockVars
<1>2. /\ start'[r] \in Requests /\ start'[r].step = "ended" /\ ~start'[r].alone
      /\ start' \in [Start -> Requests] /\ \A q \in Start \ {r} : start'[q] = start[q]
  BY <1>1 DEF SimulatorsInv, SimulatorsType, Simulators!NotAsked, Requests
<1>3. \A s \in Simulators!Simulator : call[r][s] = "none"
  BY <1>1 DEF SimulatorsInv, CallsInv
<1>4. ~Simulators!Open(r)'
  BY <1>1, <1>2, <1>3 DEF Simulators!Open, Simulators!Late, Simulators!Simulator,
     Simulators!Kinds
<1>5. \A q \in Start \ {r} : Simulators!Open(q)' <=> Simulators!Open(q)
  BY <1>1, <1>2 DEF Simulators!Open, Simulators!Late, Simulators!Simulator, Simulators!Kinds
<1>6. SimulatorsType'
  BY <1>1, <1>2 DEF SimulatorsInv, SimulatorsType
<1>7. CallsInv'
  BY <1>1, <1>2, <1>3 DEF SimulatorsInv, CallsInv, Simulators!Simulator, Simulators!Kinds
<1>8. AloneInv'
  <2> SUFFICES ASSUME NEW p \in Start, start'[p].alone
               PROVE  /\ start'[p].step \in {"reading", "asking"}
                      /\ \A q \in Start \ {p} :
                           Simulators!Open(q)' => start'[q].building # start'[p].building
                      /\ \A s \in Simulators!Simulator : call[p][s] \in {"handled", "ok"} =>
                           holds[s][start'[p].building] = Simulators!Share(start'[p].plan, s)
    BY <1>1 DEF AloneInv, Simulators!Share, Simulators!Simulator, Simulators!Kinds
  <2>1. p # r
    BY <1>2
  <2> QED
    BY <1>2, <1>4, <1>5, <2>1 DEF SimulatorsInv, AloneInv
<1>9. SettledInv'
  BY <1>1, <1>2, <1>4, <1>5 DEF SimulatorsInv, SettledInv, Simulators!OpenFor, Simulators!Share,
     Simulators!Simulator, Simulators!Kinds
<1> QED
  BY <1>1, <1>6, <1>7, <1>8, <1>9, ClockUnchanged DEF SimulatorsInv

(* Calls that end, one way or the other, without having reached a          *)
(* simulator: those that were handled or answered stay so or have failed.  *)
LEMMA CallInv ==
  ASSUME SimulatorsInv, NEW r \in Start, NEW s \in Simulators!Simulator,
         Simulators!Hear(r, s) \/ Simulators!GiveUp(r, s)
  PROVE  SimulatorsInv'
<1>1. PICK fate \in {"ok", "late", "failed"} :
        /\ call' = [call EXCEPT ![r][s] = fate] /\ call[r][s] \in {"out", "handled"}
        /\ fate = "ok" => call[r][s] = "handled"
        /\ fate = "late" => call[r][s] = "out"
        /\ UNCHANGED <<stored, start, holds, isRunning, chain, batch, settled>>
  BY DEF Simulators!Hear, Simulators!GiveUp, Simulators!clockVars
<1>2. /\ call'[r][s] = fate /\ \A t \in Simulators!Simulator \ {s} : call'[r][t] = call[r][t]
      /\ \A q \in Start \ {r} : call'[q] = call[q]
  BY <1>1 DEF SimulatorsInv, SimulatorsType
<1>3. start[r].step = "asking"
  <2>1. start[r].step \in {"none", "reading", "asking", "ended"}
    BY DEF SimulatorsInv, SimulatorsType, Requests
  <2> QED
    BY <1>1, <2>1 DEF SimulatorsInv, CallsInv
<1>4. \A q \in Start : Simulators!Open(q)' => Simulators!Open(q)
  <2>1. Simulators!Open(r)
    BY <1>3 DEF Simulators!Open
  <2>2. ASSUME NEW q \in Start \ {r} PROVE Simulators!Open(q)' => Simulators!Open(q)
    BY <1>1, <1>2, <2>2 DEF Simulators!Open, Simulators!Late, Simulators!Simulator,
       Simulators!Kinds
  <2> QED
    BY <2>1, <2>2
<1>5. SimulatorsType'
  BY <1>1 DEF SimulatorsInv, SimulatorsType, Simulators!Simulator, Simulators!Kinds
<1>6. CallsInv'
  BY <1>1, <1>2, <1>3 DEF SimulatorsInv, CallsInv, Simulators!Simulator, Simulators!Kinds
<1>7. AloneInv'
  <2> SUFFICES ASSUME NEW p \in Start, start[p].alone
               PROVE  /\ start[p].step \in {"reading", "asking"}
                      /\ \A q \in Start \ {p} :
                           Simulators!Open(q)' => start[q].building # start[p].building
                      /\ \A t \in Simulators!Simulator : call'[p][t] \in {"handled", "ok"} =>
                           holds[t][start[p].building] = Simulators!Share(start[p].plan, t)
    BY <1>1 DEF AloneInv, Simulators!Share, Simulators!Simulator, Simulators!Kinds
  <2>1. \A t \in Simulators!Simulator :
          call'[p][t] \in {"handled", "ok"} => call[p][t] \in {"handled", "ok"}
    BY <1>1, <1>2
  <2> QED
    BY <1>4, <2>1 DEF SimulatorsInv, AloneInv
<1>8. SettledInv'
  BY <1>1, <1>4 DEF SimulatorsInv, SettledInv, Simulators!OpenFor, Simulators!Share,
     Simulators!Simulator, Simulators!Kinds
<1> QED
  BY <1>1, <1>5, <1>6, <1>7, <1>8, ClockUnchanged DEF SimulatorsInv

(* A simulator handles a call: the building's share is what it says, and   *)
(* no request of the building but this one may be alone or settled.        *)
LEMMA DeliverInv ==
  ASSUME Simulators!SimulationsAssumption, SimulatorsInv, NEW r \in Start,
         NEW s \in Simulators!Simulator, Simulators!Deliver(r, s)
  PROVE  SimulatorsInv'
<1> DEFINE b == start[r].building
<1> DEFINE share == Simulators!Share(start[r].plan, s)
<1>1. /\ call[r][s] \in {"out", "late"}
      /\ call' = [call EXCEPT ![r][s] = IF call[r][s] = "out" THEN "handled" ELSE "failed"]
      /\ UNCHANGED <<stored, start, settled>>
      /\ holds' = [holds EXCEPT ![s] = Simulators!Replaced(r, s)]
      /\ IF s = "sensor" THEN Simulators!ClockStart(r, Simulators!Replaced(r, s))
                         ELSE UNCHANGED <<isRunning, chain, batch>>
  BY DEF Simulators!Deliver, Simulators!clockVars, SimulatorsInv, SimulatorsType
<1>2. b \in Building /\ start[r].plan \in SUBSET Simulators!Sensor
  BY <1>1 DEF SimulatorsInv, SimulatorsType, CallsInv, Requests
<1>3. share \in SUBSET Simulators!Sensor
  BY <1>2, ShareOfSensors
<1>4. /\ Simulators!Replaced(r, s) = [holds[s] EXCEPT ![b] = share]
      /\ Simulators!Replaced(r, s) \in [Building -> SUBSET Simulators!Sensor]
  BY <1>2, <1>3 DEF Simulators!Replaced, SimulatorsInv, SimulatorsType
<1> HIDE DEF share
<1>5. /\ holds' \in [Simulators!Simulator -> [Building -> SUBSET Simulators!Sensor]]
      /\ holds'[s] = Simulators!Replaced(r, s)
      /\ holds'[s][b] = share
      /\ \A c \in Building \ {b} : holds'[s][c] = holds[s][c]
      /\ \A t \in Simulators!Simulator \ {s} : holds'[t] = holds[t]
  BY <1>1, <1>2, <1>4 DEF SimulatorsInv, SimulatorsType
<1>6. /\ call'[r][s] = IF call[r][s] = "out" THEN "handled" ELSE "failed"
      /\ \A t \in Simulators!Simulator \ {s} : call'[r][t] = call[r][t]
      /\ \A q \in Start \ {r} : call'[q] = call[q]
      /\ call' \in [Start -> [Simulators!Simulator ->
                            {"none", "out", "late", "handled", "ok", "failed"}]]
  BY <1>1 DEF SimulatorsInv, SimulatorsType
<1>7. start[r].step \in {"asking", "ended"}
  <2>1. start[r].step \in {"none", "reading", "asking", "ended"}
    BY DEF SimulatorsInv, SimulatorsType, Requests
  <2> QED
    BY <1>1, <2>1 DEF SimulatorsInv, CallsInv
<1>8. call[r][s] = "out" => start[r].step = "asking"
  BY <1>7 DEF SimulatorsInv, CallsInv
<1>9. Simulators!Open(r)
  BY <1>1, <1>7, <1>8 DEF Simulators!Open, Simulators!Late
<1>10. \A q \in Start : Simulators!Open(q)' => Simulators!Open(q)
  <2>1. ASSUME NEW q \in Start \ {r} PROVE Simulators!Open(q)' => Simulators!Open(q)
    BY <1>1, <1>6, <2>1 DEF Simulators!Open, Simulators!Late, Simulators!Simulator,
       Simulators!Kinds
  <2> QED
    BY <1>9, <2>1
<1>11. /\ isRunning' \in BOOLEAN /\ chain' \in [Start -> {"none", "posting", "waiting"}]
       /\ batch' \in [Start -> SUBSET Building]
  <2>1. CASE s = "sensor"
    <3>1. Simulators!Active(Simulators!Replaced(r, s)) \in SUBSET Building
      BY DEF Simulators!Active
    <3>2. Simulators!Runs(Simulators!Replaced(r, s)) \in BOOLEAN
      BY DEF Simulators!Runs
    <3>3. Simulators!ClockStart(r, Simulators!Replaced(r, s))
      BY <1>1, <2>1
    <3>4. isRunning' \in BOOLEAN
      BY <3>2, <3>3 DEF Simulators!ClockStart
    <3> QED
      BY <3>1, <3>3, <3>4 DEF Simulators!ClockStart, Simulators!TickBatch, SimulatorsInv,
         SimulatorsType
  <2>2. CASE s # "sensor"
    BY <1>1, <2>2 DEF SimulatorsInv, SimulatorsType
  <2> QED
    BY <2>1, <2>2
<1>12. SimulatorsType'
  BY <1>1, <1>5, <1>6, <1>11 DEF SimulatorsInv, SimulatorsType
<1>13. CallsInv'
  BY <1>1, <1>2, <1>6, <1>7, <1>8 DEF SimulatorsInv, CallsInv
<1>14. AloneInv'
  <2> SUFFICES ASSUME NEW p \in Start, start[p].alone
               PROVE  /\ start[p].step \in {"reading", "asking"}
                      /\ \A q \in Start \ {p} :
                           Simulators!Open(q)' => start[q].building # start[p].building
                      /\ \A t \in Simulators!Simulator : call'[p][t] \in {"handled", "ok"} =>
                           holds'[t][start[p].building] = Simulators!Share(start[p].plan, t)
    BY <1>1 DEF AloneInv, Simulators!Share, Simulators!Simulator, Simulators!Kinds
  <2>1. /\ start[p].step \in {"reading", "asking"}
        /\ \A q \in Start \ {p} :
             Simulators!Open(q)' => start[q].building # start[p].building
    BY <1>10 DEF SimulatorsInv, AloneInv
  <2>2. start[p].building \in Building
    BY <2>1 DEF SimulatorsInv, CallsInv
  <2>3. ASSUME NEW t \in Simulators!Simulator, call'[p][t] \in {"handled", "ok"}
        PROVE  holds'[t][start[p].building] = Simulators!Share(start[p].plan, t)
    <3>1. CASE p = r /\ t = s
      BY <1>5, <3>1 DEF share
    <3>2. CASE p = r /\ t # s
      <4>1. call[p][t] \in {"handled", "ok"} /\ holds'[t] = holds[t]
        BY <1>5, <1>6, <2>3, <3>2
      <4> QED
        BY <4>1 DEF SimulatorsInv, AloneInv
    <3>3. CASE p # r
      <4>1. start[p].building # b /\ call[p][t] \in {"handled", "ok"}
        BY <1>6, <1>9, <2>3, <3>3 DEF SimulatorsInv, AloneInv
      <4>2. holds'[t][start[p].building] = holds[t][start[p].building]
        BY <1>5, <2>2, <4>1
      <4> QED
        BY <4>1, <4>2 DEF SimulatorsInv, AloneInv
    <3> QED
      BY <3>1, <3>2, <3>3
  <2> QED
    BY <2>1, <2>3
<1>15. SettledInv'
  <2>1. settled[b] = Simulators!Unsettled
    BY <1>2, <1>9 DEF SimulatorsInv, SettledInv, Simulators!OpenFor
  <2>2. ASSUME NEW c \in Building, settled[c] # Simulators!Unsettled
        PROVE  /\ \A q \in Start : Simulators!Open(q)' => start[q].building # c
               /\ \A t \in Simulators!Simulator :
                    holds'[t][c] = Simulators!Share(settled[c], t)
    <3>1. c # b
      BY <2>1, <2>2
    <3>2. \A t \in Simulators!Simulator : holds'[t][c] = holds[t][c]
      BY <1>5, <3>1
    <3> QED
      BY <1>10, <2>2, <3>2 DEF SimulatorsInv, SettledInv, Simulators!OpenFor
  <2> QED
    BY <1>1, <2>2 DEF SettledInv, Simulators!OpenFor, Simulators!Share, Simulators!Simulator,
       Simulators!Kinds
<1>16. RunningTicks'
  <2>1. CASE s = "sensor"
    <3>1. isRunning' <=> \E c \in Building : holds'["sensor"][c] # {}
      <4>1. Simulators!ClockStart(r, holds'["sensor"])
        BY <1>1, <1>5, <2>1
      <4> QED
        BY <4>1 DEF Simulators!ClockStart, Simulators!Runs, Simulators!Active
    <3>2. isRunning' => Simulators!Alive' # {}
      <4>1. CASE isRunning
        <5>1. chain' = chain
          BY <1>1, <2>1, <4>1 DEF Simulators!ClockStart
        <5> QED
          BY <4>1, <5>1 DEF SimulatorsInv, RunningTicks, Simulators!RunningTicks, Simulators!Alive
      <4>2. CASE ~isRunning /\ isRunning'
        <5>1. chain'[r] = "posting"
          BY <1>1, <2>1, <4>2 DEF Simulators!ClockStart, Simulators!Runs, SimulatorsInv,
             SimulatorsType
        <5> QED
          BY <5>1 DEF Simulators!Alive
      <4> QED
        BY <4>1, <4>2
    <3> QED
      BY <3>1, <3>2 DEF RunningTicks, Simulators!RunningTicks
  <2>2. CASE s # "sensor"
    BY <1>1, <1>5, <2>2, Clock DEF SimulatorsInv, RunningTicks, Simulators!RunningTicks,
       Simulators!Alive
  <2> QED
    BY <2>1, <2>2
<1> QED
  BY <1>12, <1>13, <1>14, <1>15, <1>16 DEF SimulatorsInv

(* A request is answered.  If it stayed alone and every simulator said yes *)
(* then each has handled it, and no call of it is left over.               *)
LEMMA FinishInv ==
  ASSUME SimulatorsInv, NEW r \in Start, Simulators!Finish(r)
  PROVE  SimulatorsInv'
<1> DEFINE b == start[r].building
<1> DEFINE left(s) == IF call[r][s] = "late" THEN "late" ELSE "failed"
<1>1. /\ start[r].step = "asking"
      /\ start' = [start EXCEPT ![r] = [start[r] EXCEPT !.step = "ended", !.alone = FALSE]]
      /\ call' = [call EXCEPT ![r] = [s \in Simulators!Simulator |-> left(s)]]
      /\ settled' = [settled EXCEPT ![b] = IF Simulators!AllAnswered(r) /\ start[r].alone
                                          THEN start[r].plan ELSE Simulators!Unsettled]
      /\ UNCHANGED <<stored, holds, isRunning, chain, batch>>
  BY DEF Simulators!Finish, Simulators!clockVars, SimulatorsInv, SimulatorsType, Requests
<1>2. start[r] \in Requests /\ b \in Building
  BY <1>1 DEF SimulatorsInv, SimulatorsType, CallsInv
<1>3. /\ start'[r] = [start[r] EXCEPT !.step = "ended", !.alone = FALSE]
      /\ start' \in [Start -> Requests] /\ \A q \in Start \ {r} : start'[q] = start[q]
  BY <1>1, <1>2 DEF SimulatorsInv, SimulatorsType, Requests
<1>4. start'[r].step = "ended" /\ ~start'[r].alone /\ start'[r].building = b
  BY <1>2, <1>3 DEF Requests
<1>5. \A s \in Simulators!Simulator : call'[r][s] = left(s)
  BY <1>1 DEF SimulatorsInv, SimulatorsType
<1>6. \A q \in Start \ {r} : call'[q] = call[q]
  BY <1>1 DEF SimulatorsInv, SimulatorsType
<1>7. \A q \in Start : Simulators!Open(q)' => Simulators!Open(q)
  BY <1>1, <1>3, <1>6 DEF Simulators!Open, Simulators!Late
<1>8. SimulatorsType'
  <2>1. call' \in [Start -> [Simulators!Simulator ->
                            {"none", "out", "late", "handled", "ok", "failed"}]]
    BY <1>1 DEF SimulatorsInv, SimulatorsType
  <2>2. start[r].plan \in SUBSET Simulators!Sensor
    BY <1>2 DEF Requests
  <2>3. settled' \in [Building -> SUBSET (Simulators!Sensor \cup {"unsettled"})]
    BY <1>1, <2>2 DEF SimulatorsInv, SimulatorsType
  <2> QED
    BY <1>1, <1>3, <2>1, <2>3 DEF SimulatorsInv, SimulatorsType
<1>9. CallsInv'
  <2>1. \A s \in Simulators!Simulator :
          call'[r][s] \in {"late", "failed"} /\ call'[r][s] # "out"
    BY <1>5
  <2> QED
    BY <1>1, <1>2, <1>3, <1>4, <1>6, <2>1 DEF SimulatorsInv, CallsInv
<1>10. AloneInv'
  <2> SUFFICES ASSUME NEW p \in Start, start'[p].alone
               PROVE  /\ start'[p].step \in {"reading", "asking"}
                      /\ \A q \in Start \ {p} :
                           Simulators!Open(q)' => start'[q].building # start'[p].building
                      /\ \A t \in Simulators!Simulator : call'[p][t] \in {"handled", "ok"} =>
                           holds[t][start'[p].building] = Simulators!Share(start'[p].plan, t)
    BY <1>1 DEF AloneInv, Simulators!Share, Simulators!Simulator, Simulators!Kinds
  <2>1. p # r
    BY <1>4
  <2>2. \A q \in Start : start'[q].building = start[q].building
    BY <1>3, <1>4
  <2> QED
    BY <1>3, <1>6, <1>7, <2>1, <2>2 DEF SimulatorsInv, AloneInv
<1>11. SettledInv'
  <2> SUFFICES ASSUME NEW c \in Building, settled'[c] # Simulators!Unsettled
               PROVE  /\ \A q \in Start : Simulators!Open(q)' => start'[q].building # c
                      /\ \A s \in Simulators!Simulator :
                           holds[s][c] = Simulators!Share(settled'[c], s)
    BY <1>1 DEF SettledInv, Simulators!OpenFor, Simulators!Share, Simulators!Simulator,
       Simulators!Kinds
  <2>1. \A q \in Start : start'[q].building = start[q].building
    BY <1>3, <1>4
  <2>2. CASE c = b
    <3>1. /\ Simulators!AllAnswered(r) /\ start[r].alone
          /\ settled'[b] = start[r].plan
      BY <1>1, <1>2, <2>2 DEF SimulatorsInv, SimulatorsType
    <3>2. ~Simulators!Open(r)'
      BY <1>4, <1>5, <3>1 DEF Simulators!AllAnswered, Simulators!Open, Simulators!Late,
         Simulators!Simulator, Simulators!Kinds
    <3> QED
      BY <1>7, <2>1, <2>2, <3>1, <3>2 DEF SimulatorsInv, AloneInv, Simulators!AllAnswered
  <2>3. CASE c # b
    <3>1. settled'[c] = settled[c]
      BY <1>1, <2>3 DEF SimulatorsInv, SimulatorsType
    <3> QED
      BY <1>7, <2>1, <3>1 DEF SimulatorsInv, SettledInv, Simulators!OpenFor
  <2> QED
    BY <2>2, <2>3
<1> QED
  BY <1>1, <1>8, <1>9, <1>10, <1>11, ClockUnchanged DEF SimulatorsInv

(* A chain that ends finds the simulator stopped.                          *)
LEMMA ChainInv ==
  ASSUME SimulatorsInv, NEW r \in Start, Simulators!Posted(r) \/ Simulators!Tick(r)
  PROVE  SimulatorsInv'
<1>1. PICK next \in {"none", "posting", "waiting"} :
        /\ chain' = [chain EXCEPT ![r] = next]
        /\ isRunning => next # "none"
        /\ batch' \in [Start -> SUBSET Building]
        /\ UNCHANGED <<stored, start, call, holds, isRunning, settled>>
  <2>1. CASE Simulators!Posted(r)
    BY <2>1 DEF Simulators!Posted, Simulators!telemetryVars, SimulatorsInv, SimulatorsType
  <2>2. CASE Simulators!Tick(r)
    BY <2>2 DEF Simulators!Tick, Simulators!TickBatch, Simulators!Active,
       Simulators!telemetryVars, SimulatorsInv, SimulatorsType
  <2> QED
    BY <2>1, <2>2
<1>2. SimulatorsType'
  BY <1>1 DEF SimulatorsInv, SimulatorsType
<1>3. RunningTicks'
  <2>1. isRunning => chain'[r] # "none"
    BY <1>1 DEF SimulatorsInv, SimulatorsType
  <2> QED
    BY <1>1, <2>1 DEF SimulatorsInv, RunningTicks, Simulators!RunningTicks, Simulators!Alive
<1> QED
  BY <1>1, <1>2, <1>3, AskingUnchanged DEF SimulatorsInv

(* A simulator that starts again holds nothing, and nothing is settled.    *)
LEMMA RestartInv ==
  ASSUME Simulators!SimulationsAssumption, SimulatorsInv,
         NEW s \in Simulators!Simulator, Simulators!Restart(s)
  PROVE  SimulatorsInv'
<1>1. /\ holds' = [holds EXCEPT ![s] = [b \in Building |-> {}]]
      /\ start' = Simulators!Spoilt(Start)
      /\ settled' = [b \in Building |-> Simulators!Unsettled]
      /\ UNCHANGED <<stored, call>>
      /\ \/ /\ s = "sensor" /\ isRunning' = FALSE
            /\ chain' = [r \in Start |-> "none"] /\ batch' = [r \in Start |-> {}]
         \/ s # "sensor" /\ UNCHANGED <<isRunning, chain, batch>>
  BY DEF Simulators!Restart, Simulators!clockVars
<1>2. /\ start' \in [Start -> Requests]
      /\ \A q \in Start : /\ start'[q].step = start[q].step
                          /\ start'[q].building = start[q].building /\ ~start'[q].alone
  BY <1>1, SpoiltRequests
<1>3. SimulatorsType'
  BY <1>1, <1>2 DEF SimulatorsInv, SimulatorsType
<1>4. CallsInv'
  BY <1>1, <1>2 DEF SimulatorsInv, CallsInv, Simulators!Simulator, Simulators!Kinds
<1>5. AloneInv' /\ SettledInv'
  BY <1>1, <1>2 DEF AloneInv, SettledInv
<1>6. RunningTicks'
  <2>1. CASE s = "sensor"
    <3>1. \A b \in Building : holds'["sensor"][b] = {}
      BY <1>1, <2>1 DEF SimulatorsInv, SimulatorsType
    <3> QED
      BY <1>1, <2>1, <3>1 DEF RunningTicks, Simulators!RunningTicks
  <2>2. CASE s # "sensor"
    <3>1. holds'["sensor"] = holds["sensor"]
      BY <1>1, <2>2, Clock DEF SimulatorsInv, SimulatorsType
    <3> QED
      BY <1>1, <2>2, <3>1 DEF SimulatorsInv, RunningTicks, Simulators!RunningTicks,
         Simulators!Alive
  <2> QED
    BY <2>1, <2>2
<1> QED
  BY <1>3, <1>4, <1>5, <1>6 DEF SimulatorsInv

LEMMA SimulatorsInvAlways == Simulators!Spec => []SimulatorsInv
<1>1. SimulatorsInv /\ [Simulators!Next]_(Simulators!vars) => SimulatorsInv'
  <2> SUFFICES ASSUME SimulatorsInv, [Simulators!Next]_(Simulators!vars) PROVE SimulatorsInv'
    OBVIOUS
  <2>1. CASE UNCHANGED Simulators!vars
    <3>1. UNCHANGED <<stored, start, call, holds, isRunning, chain, batch, settled>>
      BY <2>1 DEF Simulators!vars, Simulators!telemetryVars, Simulators!clockVars
    <3>2. SimulatorsType'
      BY <3>1 DEF SimulatorsInv, SimulatorsType
    <3> QED
      BY <3>1, <3>2, AskingUnchanged, ClockUnchanged DEF SimulatorsInv
  <2> QED
    BY <2>1, ChoicesHold, EditInv, BeginInv, SendSharesInv, ReadFailsInv, DeliverInv, CallInv,
       FinishInv, ChainInv, RestartInv DEF Simulators!Next
<1> QED
  BY <1>1, ChoicesHold, SimulatorsInit, PTL DEF Simulators!Spec

(* A start or a stop that was answered, and met no other call for the same *)
(* building, left every simulator with its share of the sensors as they    *)
(* were read, until the next is asked (Simulations.start and stop of       *)
(* telemetry, startOrAdd of the simulators).                               *)
THEOREM SharesAreHeld == Simulators!Spec => []AnsweredIsHeld
<1>1. SimulatorsInv => AnsweredIsHeld
  BY DEF SimulatorsInv, SettledInv, AnsweredIsHeld, Simulators!AnsweredIsHeld
<1> QED
  BY <1>1, SimulatorsInvAlways, PTL

(* sensor-simulator says that it is running exactly while it simulates a   *)
(* building, and then one of its chains of ticks is alive: however starts, *)
(* stops, late calls, timers and restarts follow one another.              *)
THEOREM RunningIsTicking == Simulators!Spec => []RunningTicks
<1>1. SimulatorsInv => RunningTicks
  BY DEF SimulatorsInv
<1> QED
  BY <1>1, SimulatorsInvAlways, PTL

-----------------------------------------------------------------------------
(* notification.  What is stored of preferences and devices.               *)
Asked == [account : Account \cup {Nobody}, left : Seq(Choice), pulled : BOOLEAN,
          alone : BOOLEAN]

PreferencesType ==
  /\ entries \in [Account -> SUBSET Choice]
  /\ request \in [Request -> Asked]
  /\ \A r \in Request : request[r].left # <<>> => request[r].account \in Account
  /\ migration \in [Replica -> {"looking", "switching", "marking", "serving"}]
  /\ marked \in BOOLEAN
  /\ chosen \in [Account -> [Metric -> BOOLEAN \cup {Unknown}]]

DevicesType ==
  /\ owner \in [Device -> Account \cup {Nobody}] /\ browser \in [Device -> Account \cup {Nobody}]
  /\ dead \in SUBSET Device
  /\ push \in [Push -> [step : {"idle", "accounts", "devices", "sending"}, metric : Metric,
                        accounts : SUBSET Account, devices : SUBSET Device,
                        gone : SUBSET Device]]
  /\ owed \in [Push -> SUBSET Device]

Of(a, m) == {e \in entries[a] : e[1] = m}

(* Between its two updates a request that is alone has pulled every entry  *)
(* of its metric, and no other is about to push one.                       *)
MidwayInv ==
  \A r \in Request, a \in Account, m \in Metric :
    Midway(r, a, m) /\ request[r].alone =>
      /\ Of(a, m) = {}
      /\ \A q \in Request \ {r} : ~Midway(q, a, m)

(* A choice in force is the only entry, and nothing is about to push.      *)
ChosenInv ==
  \A a \in Account, m \in Metric : chosen[a][m] # Unknown =>
    /\ Of(a, m) = {<<m, chosen[a][m]>>}
    /\ \A r \in Request : ~Midway(r, a, m)

(* A device that lives is stored under who registered it, and only the     *)
(* dead are taken for gone.                                                *)
OwnersInv ==
  /\ \A d \in Device : browser[d] # Nobody => owner[d] = browser[d]
  /\ \A d \in dead : browser[d] = Nobody
  /\ \A p \in Push : push[p].gone \subseteq dead

(* What a push owes is of accounts that want it, and is not left out of    *)
(* what the push has read so far.                                          *)
OwedInv ==
  \A p \in Push :
    /\ push[p].step = "idle" => owed[p] = {}
    /\ push[p].step = "sending" => owed[p] \subseteq push[p].devices
    /\ \A d \in owed[p] :
         /\ browser[d] # Nobody /\ chosen[browser[d]][push[p].metric] = TRUE
         /\ push[p].step = "devices" => browser[d] \in push[p].accounts

PreferencesInv ==
  PreferencesType /\ DevicesType /\ MidwayInv /\ ChosenInv /\ OwnersInv /\ OwedInv

LEMMA ChoicesOn ==
  /\ \A m \in Metric, on \in BOOLEAN : <<m, on>> \in Choice
  /\ <<Temperature, TRUE>> \in Choice /\ <<Temperature, FALSE>> \in Choice
  /\ << <<Temperature, TRUE>>, <<NewMetric, TRUE>> >> \in Seq(Choice)
<1>1. Temperature \in Metric /\ NewMetric \in Metric
  BY DEF Metric
<1>2. \A m \in Metric, on \in BOOLEAN : <<m, on>> \in Choice
  BY DEF Choice
<1>3. \A c, e \in Choice : <<c, e>> \in Seq(Choice)
  OBVIOUS
<1>4. <<Temperature, TRUE>> \in Choice /\ <<NewMetric, TRUE>> \in Choice
  BY <1>1, <1>2
<1> QED
  BY <1>1, <1>2, <1>3, <1>4

LEMMA PreferencesInit == Init => PreferencesInv
<1> SUFFICES ASSUME Init PROVE PreferencesInv
  OBVIOUS
<1>1. /\ NoRequest \in Asked /\ NoRequest.left = <<>>
      /\ NoPush \in [step : {"idle", "accounts", "devices", "sending"}, metric : Metric,
                     accounts : SUBSET Account, devices : SUBSET Device, gone : SUBSET Device]
      /\ NoPush.step = "idle" /\ NoPush.gone = {}
  BY DEF NoRequest, NoPush, Asked, Metric
<1>2. entries \in [Account -> SUBSET Choice]
  BY ChoicesOn DEF Init
<1>3. chosen \in [Account -> [Metric -> BOOLEAN \cup {Unknown}]]
  BY DEF Init
<1>4. PreferencesType
  BY <1>1, <1>2, <1>3 DEF Init, PreferencesType
<1>5. DevicesType
  BY <1>1 DEF Init, DevicesType
<1>6. MidwayInv /\ OwedInv /\ OwnersInv
  BY <1>1 DEF Init, MidwayInv, OwedInv, OwnersInv, Midway, Writes
<1>7. ChosenInv
  <2> SUFFICES ASSUME NEW a \in Account, NEW m \in Metric, chosen[a][m] # Unknown
               PROVE  Of(a, m) = {<<m, chosen[a][m]>>}
    BY <1>1 DEF Init, ChosenInv, Midway, Writes
  <2>1. <<m, TRUE>> \in entries[a] /\ chosen[a][m] = TRUE
    BY DEF Init
  <2>2. \A x, y \in BOOLEAN, n \in {Temperature} : <<m, x>> = <<n, y>> => m = n /\ x = y
    OBVIOUS
  <2>3. entries[a] = {<<Temperature, TRUE>>} /\ m = Temperature
    <3>1. entries[a] \in {{}, {<<Temperature, TRUE>>}, {<<Temperature, FALSE>>}}
      BY DEF Init
    <3>2. \/ <<m, TRUE>> = <<Temperature, TRUE>> /\ entries[a] = {<<Temperature, TRUE>>}
          \/ <<m, TRUE>> = <<Temperature, FALSE>>
      BY <2>1, <3>1
    <3> QED
      BY <2>2, <3>2
  <2>4. <<Temperature, TRUE>>[1] = Temperature
    OBVIOUS
  <2> QED
    BY <2>1, <2>3, <2>4 DEF Of
<1> QED
  BY <1>4, <1>5, <1>6, <1>7 DEF PreferencesInv

(* Steps of preferences leave the devices and the pushes alone, but for    *)
(* what is owed, and steps of devices and pushes leave the preferences.    *)
LEMMA PreferencesUnchanged ==
  ASSUME PreferencesInv, UNCHANGED <<entries, request, migration, marked, chosen>>
  PROVE  PreferencesType' /\ MidwayInv' /\ ChosenInv'
<1>1. PreferencesType'
  BY DEF PreferencesInv, PreferencesType
<1>2. MidwayInv' /\ ChosenInv'
  BY DEF PreferencesInv, MidwayInv, ChosenInv, Of, Midway, Writes, Next1
<1> QED
  BY <1>1, <1>2

LEMMA DevicesUnchanged ==
  ASSUME PreferencesInv, UNCHANGED <<chosen, owner, browser, dead, push, owed>>
  PROVE  DevicesType' /\ OwnersInv' /\ OwedInv'
<1>1. DevicesType' /\ OwnersInv'
  BY DEF PreferencesInv, DevicesType, OwnersInv
<1>2. OwedInv'
  BY DEF PreferencesInv, OwedInv
<1> QED
  BY <1>1, <1>2

(* A request that is not midway afterwards, while nothing else changes.    *)
LEMMA RequestInv ==
  ASSUME PreferencesAssumption, PreferencesInv, NEW r \in Request,
         \/ \E a \in Chooser, updates \in Updates : Accept(r, a, updates)
         \/ Abandon(r)
  PROVE  PreferencesInv'
<1>1. PICK next \in Asked :
        /\ request' = [request EXCEPT ![r] = next]
        /\ ~next.pulled
        /\ next.left # <<>> => next.account \in Account
  <2>1. ASSUME NEW a \in Chooser, NEW updates \in Updates
        PROVE  /\ [NoRequest EXCEPT !.account = a, !.left = updates] \in Asked
               /\ ~[NoRequest EXCEPT !.account = a, !.left = updates].pulled
               /\ [NoRequest EXCEPT !.account = a, !.left = updates].account \in Account
    <3>1. updates \in Seq(Choice)
      <4>1. \A c \in Choice : <<c>> \in Seq(Choice)
        OBVIOUS
      <4> QED
        BY <4>1, ChoicesOn DEF Updates
    <3> QED
      BY <2>1, <3>1 DEF PreferencesAssumption, NoRequest, Asked
  <2>2. NoRequest \in Asked /\ ~NoRequest.pulled /\ NoRequest.left = <<>>
    BY DEF NoRequest, Asked
  <2> QED
    BY <2>1, <2>2 DEF Accept, Abandon
<1>2. /\ UNCHANGED <<entries, migration, marked, chosen>>
      /\ UNCHANGED <<owner, browser, dead, push, owed>>
  BY DEF Accept, Abandon, deviceVars
<1>3. request'[r] = next /\ \A q \in Request \ {r} : request'[q] = request[q]
  BY <1>1 DEF PreferencesInv, PreferencesType
<1>4. \A q \in Request, a \in Account, m \in Metric :
        Midway(q, a, m)' => Midway(q, a, m) /\ request'[q] = request[q]
  BY <1>1, <1>3 DEF Midway, Writes, Next1
<1>5. PreferencesType'
  BY <1>1, <1>2, <1>3 DEF PreferencesInv, PreferencesType
<1>6. MidwayInv' /\ ChosenInv'
  BY <1>2, <1>4 DEF PreferencesInv, MidwayInv, ChosenInv, Of
<1> QED
  BY <1>2, <1>5, <1>6, DevicesUnchanged DEF PreferencesInv

LEMMA NextChoice ==
  ASSUME PreferencesInv, NEW r \in Request, request[r].left # <<>>
  PROVE  /\ request[r].account \in Account
         /\ Next1(r) \in Choice /\ Next1(r)[1] \in Metric /\ Next1(r)[2] \in BOOLEAN
         /\ Next1(r) = <<Next1(r)[1], Next1(r)[2]>>
<1>1. request[r].account \in Account /\ request[r].left \in Seq(Choice)
  BY DEF PreferencesInv, PreferencesType, Asked
<1>2. \A s \in Seq(Choice) : s # <<>> => Head(s) \in Choice
  OBVIOUS
<1>3. Next1(r) \in Choice
  BY <1>1, <1>2 DEF Next1
<1>4. \A c \in Choice : c[1] \in Metric /\ c[2] \in BOOLEAN /\ c = <<c[1], c[2]>>
  BY DEF Choice
<1> QED
  BY <1>1, <1>3, <1>4

(* The first update of a choice: whoever is midway beside it, it included, *)
(* is alone no more.                                                       *)
LEMMA PullInv ==
  ASSUME PreferencesInv, NEW r \in Request, Pull(r)
  PROVE  PreferencesInv'
<1>1. PICK a, m : a = request[r].account /\ m = Next1(r)[1]
  OBVIOUS
<1> DEFINE others == {q \in Request \ {r} : Midway(q, a, m)}
<1>2. /\ request[r].left # <<>> /\ ~request[r].pulled
      /\ entries' = [entries EXCEPT ![a] = PullEntries(entries[a], m)]
      /\ chosen' = [chosen EXCEPT ![a][m] = Unknown]
      /\ request' = [q \in Request |->
           IF q = r THEN [request[r] EXCEPT !.pulled = TRUE, !.alone = others = {}]
           ELSE IF q \in others THEN [request[q] EXCEPT !.alone = FALSE]
           ELSE request[q]]
      /\ owed' = [p \in Push |->
           IF push[p].metric = m THEN {d \in owed[p] : browser[d] # a} ELSE owed[p]]
      /\ UNCHANGED <<migration, marked, owner, browser, dead, push>>
  BY <1>1 DEF Pull, deviceVars, PreferencesInv, PreferencesType
<1>3. a \in Account /\ m \in Metric
  BY <1>1, <1>2, NextChoice
<1>4. PICK flag \in BOOLEAN :
        /\ flag => others = {}
        /\ request'[r] = [request[r] EXCEPT !.pulled = TRUE, !.alone = flag]
  <2>1. (others = {}) \in BOOLEAN
    OBVIOUS
  <2> QED
    BY <1>2, <2>1
<1> HIDE DEF others
<1>5. /\ request'[r] \in Asked
      /\ request'[r].account = a /\ request'[r].left = request[r].left
      /\ request'[r].pulled /\ request'[r].alone = flag
  BY <1>1, <1>4 DEF PreferencesInv, PreferencesType, Asked
<1>6. ASSUME NEW q \in Request \ {r}
      PROVE  /\ request'[q] \in Asked
             /\ request'[q].account = request[q].account /\ request'[q].left = request[q].left
             /\ request'[q].pulled = request[q].pulled
             /\ request'[q].alone => request[q].alone /\ q \notin others
  <2>1. CASE q \in others
    BY <1>2, <2>1 DEF PreferencesInv, PreferencesType, Asked
  <2>2. CASE q \notin others
    BY <1>2, <2>2 DEF PreferencesInv, PreferencesType
  <2> QED
    BY <2>1, <2>2
<1>7. request' \in [Request -> Asked]
  <2> DEFINE next(q) == IF q = r THEN [request[r] EXCEPT !.pulled = TRUE, !.alone = others = {}]
                        ELSE IF q \in others THEN [request[q] EXCEPT !.alone = FALSE]
                        ELSE request[q]
  <2>1. request' = [q \in Request |-> next(q)]
    BY <1>2
  <2> HIDE DEF next
  <2> QED
    BY <1>5, <1>6, <2>1
<1>8. entries' \in [Account -> SUBSET Choice]
  BY <1>2, <1>3 DEF PullEntries, PreferencesInv, PreferencesType
<1>9. chosen' \in [Account -> [Metric -> BOOLEAN \cup {Unknown}]]
  BY <1>2, <1>3 DEF PreferencesInv, PreferencesType
<1>10. PreferencesType'
  <2>1. \A q \in Request : request'[q].left # <<>> => request'[q].account \in Account
    <3>1. ASSUME NEW q \in Request \ {r}
          PROVE  request'[q].left # <<>> => request'[q].account \in Account
      BY <1>6 DEF PreferencesInv, PreferencesType
    <3> QED
      BY <1>3, <1>5, <3>1
  <2> QED
    BY <1>2, <1>7, <1>8, <1>9, <2>1 DEF PreferencesInv, PreferencesType
<1>11. DevicesType' /\ OwnersInv'
  BY <1>2 DEF PreferencesInv, DevicesType, OwnersInv
<1>12. /\ \A c \in Account, n \in Metric : Of(c, n)' \subseteq Of(c, n)
       /\ \A c \in Account, n \in Metric : c # a \/ n # m => Of(c, n)' = Of(c, n)
       /\ Of(a, m)' = {}
  <2>1. /\ entries'[a] = {e \in entries[a] : e[1] # m}
        /\ \A c \in Account \ {a} : entries'[c] = entries[c]
    BY <1>2, <1>3 DEF PullEntries, PreferencesInv, PreferencesType
  <2> QED
    BY <2>1 DEF Of
<1>13. \A q \in Request \ {r}, c \in Account, n \in Metric : Midway(q, c, n)' <=> Midway(q, c, n)
  BY <1>6 DEF Midway, Writes, Next1
<1>14. \A c \in Account, n \in Metric : Midway(r, c, n)' => c = a /\ n = m
  BY <1>1, <1>5 DEF Midway, Writes, Next1
<1>15. MidwayInv'
  <2> SUFFICES ASSUME NEW q \in Request, NEW c \in Account, NEW n \in Metric,
                      Midway(q, c, n)', request'[q].alone
               PROVE  Of(c, n)' = {} /\ \A o \in Request \ {q} : ~Midway(o, c, n)'
    BY DEF MidwayInv
  <2>1. CASE q = r
    <3>1. c = a /\ n = m /\ others = {}
      BY <1>4, <1>5, <1>14, <2>1
    <3>2. \A o \in Request \ {r} : ~Midway(o, a, m)
      BY <3>1 DEF others
    <3> QED
      BY <1>3, <1>12, <1>13, <2>1, <3>1, <3>2
  <2>2. CASE q # r
    <3>1. Midway(q, c, n) /\ request[q].alone /\ (c # a \/ n # m)
      BY <1>6, <1>13, <2>2 DEF others
    <3> QED
      BY <1>12, <1>13, <1>14, <3>1 DEF PreferencesInv, MidwayInv
  <2> QED
    BY <2>1, <2>2
<1>16. ChosenInv'
  <2> SUFFICES ASSUME NEW c \in Account, NEW n \in Metric, chosen'[c][n] # Unknown
               PROVE  /\ Of(c, n)' = {<<n, chosen'[c][n]>>}
                      /\ \A q \in Request : ~Midway(q, c, n)'
    BY DEF ChosenInv
  <2>1. (c # a \/ n # m) /\ chosen'[c][n] = chosen[c][n]
    BY <1>2, <1>3 DEF PreferencesInv, PreferencesType
  <2> QED
    BY <1>12, <1>13, <1>14, <2>1 DEF PreferencesInv, ChosenInv
<1>17. OwedInv'
  <2> SUFFICES ASSUME NEW p \in Push
               PROVE  /\ push[p].step = "idle" => owed'[p] = {}
                      /\ push[p].step = "sending" => owed'[p] \subseteq push[p].devices
                      /\ \A d \in owed'[p] :
                           /\ browser[d] # Nobody /\ chosen'[browser[d]][push[p].metric] = TRUE
                           /\ push[p].step = "devices" => browser[d] \in push[p].accounts
    BY <1>2 DEF OwedInv
  <2>1. /\ owed'[p] \subseteq owed[p]
        /\ push[p].metric = m => \A d \in owed'[p] : browser[d] # a
    BY <1>2
  <2>2. ASSUME NEW d \in owed'[p]
        PROVE  chosen'[browser[d]][push[p].metric] = chosen[browser[d]][push[p].metric]
    <3>1. /\ browser[d] \in Account /\ push[p].metric \in Metric
          /\ browser[d] # a \/ push[p].metric # m
      BY <2>1 DEF PreferencesInv, DevicesType, OwedInv
    <3> QED
      BY <1>2, <1>3, <3>1 DEF PreferencesInv, PreferencesType
  <2> QED
    BY <2>1, <2>2 DEF PreferencesInv, OwedInv
<1> QED
  BY <1>10, <1>11, <1>15, <1>16, <1>17 DEF PreferencesInv

(* The second update: the choice is in force if nothing came between.      *)
LEMMA PushEntryInv ==
  ASSUME PreferencesAssumption, PreferencesInv, NEW r \in Request, PushEntry(r)
  PROVE  PreferencesInv'
<1>1. PICK a, c : a = request[r].account /\ c = Next1(r)
  OBVIOUS
<1>2. /\ request[r].left # <<>> /\ request[r].pulled
      /\ entries' = [entries EXCEPT ![a] = entries[a] \cup {c}]
      /\ chosen' = [chosen EXCEPT ![a][c[1]] = IF request[r].alone THEN c[2] ELSE Unknown]
      /\ UNCHANGED <<migration, marked, owner, browser, dead, push, owed>>
  BY <1>1 DEF PushEntry, deviceVars, PreferencesInv, PreferencesType
<1>3. a \in Account /\ c \in Choice /\ c[1] \in Metric /\ c[2] \in BOOLEAN /\ c = <<c[1], c[2]>>
  BY <1>1, <1>2, NextChoice
<1>4. PICK next \in Asked :
        /\ request' = [request EXCEPT ![r] = next]
        /\ ~next.pulled
        /\ next.left # <<>> => next.account \in Account
  <2>1. request[r] \in Asked /\ Tail(request[r].left) \in Seq(Choice)
    BY <1>2 DEF PreferencesInv, PreferencesType, Asked
  <2>2. NoRequest \in Asked /\ ~NoRequest.pulled /\ NoRequest.left = <<>>
    BY DEF NoRequest, Asked
  <2>3. /\ Written(request[r]) \in Asked /\ ~Written(request[r]).pulled
        /\ Written(request[r]).left # <<>> => Written(request[r]).account = a
    BY <1>1, <2>1, <2>2 DEF Written, Asked
  <2>4. request' = [request EXCEPT ![r] = Written(request[r])]
    BY DEF PushEntry
  <2> QED
    BY <1>3, <2>3, <2>4
<1>5. request'[r] = next /\ \A q \in Request \ {r} : request'[q] = request[q]
  BY <1>4 DEF PreferencesInv, PreferencesType
<1>6. \A q \in Request, b \in Account, n \in Metric :
        Midway(q, b, n)' => q # r /\ Midway(q, b, n) /\ request'[q] = request[q]
  BY <1>4, <1>5 DEF Midway, Writes, Next1
<1>7. Midway(r, a, c[1])
  BY <1>1, <1>2 DEF Midway, Writes
<1>8. PreferencesType'
  <2>1. entries' \in [Account -> SUBSET Choice]
    BY <1>2, <1>3 DEF PreferencesInv, PreferencesType
  <2>2. chosen' \in [Account -> [Metric -> BOOLEAN \cup {Unknown}]]
    BY <1>2, <1>3 DEF PreferencesInv, PreferencesType
  <2> QED
    BY <1>2, <1>4, <1>5, <2>1, <2>2 DEF PreferencesInv, PreferencesType
<1>9. DevicesType' /\ OwnersInv'
  BY <1>2 DEF PreferencesInv, DevicesType, OwnersInv
<1>10. /\ \A b \in Account, n \in Metric : b # a \/ n # c[1] => Of(b, n)' = Of(b, n)
      /\ Of(a, c[1])' = Of(a, c[1]) \cup {c}
  <2>1. /\ entries'[a] = entries[a] \cup {c}
        /\ \A b \in Account \ {a} : entries'[b] = entries[b]
    BY <1>2, <1>3 DEF PreferencesInv, PreferencesType
  <2>2. ASSUME NEW b \in Account, NEW n \in Metric, b # a \/ n # c[1]
        PROVE  Of(b, n)' = Of(b, n)
    BY <2>1, <2>2 DEF Of
  <2>3. Of(a, c[1])' = Of(a, c[1]) \cup {c}
    BY <2>1 DEF Of
  <2> QED
    BY <2>2, <2>3
<1>11. chosen[a][c[1]] = Unknown
  BY <1>3, <1>7 DEF PreferencesInv, ChosenInv
<1>12. \A b \in Account, n \in Metric : b # a \/ n # c[1] => chosen'[b][n] = chosen[b][n]
  BY <1>2, <1>3 DEF PreferencesInv, PreferencesType
<1>13. MidwayInv'
  <2> SUFFICES ASSUME NEW q \in Request, NEW b \in Account, NEW n \in Metric,
                      Midway(q, b, n)', request'[q].alone
               PROVE  Of(b, n)' = {} /\ \A o \in Request \ {q} : ~Midway(o, b, n)'
    BY DEF MidwayInv
  <2>1. q # r /\ Midway(q, b, n) /\ request[q].alone
    BY <1>6
  <2>2. b # a \/ n # c[1]
    BY <1>7, <2>1 DEF PreferencesInv, MidwayInv
  <2> QED
    BY <1>6, <1>10, <2>1, <2>2 DEF PreferencesInv, MidwayInv
<1>14. ChosenInv'
  <2> SUFFICES ASSUME NEW b \in Account, NEW n \in Metric, chosen'[b][n] # Unknown
               PROVE  /\ Of(b, n)' = {<<n, chosen'[b][n]>>}
                      /\ \A q \in Request : ~Midway(q, b, n)'
    BY DEF ChosenInv
  <2>1. CASE b = a /\ n = c[1]
    <3>1. request[r].alone /\ chosen'[a][c[1]] = c[2]
      BY <1>2, <1>3, <2>1 DEF PreferencesInv, PreferencesType
    <3>2. Of(a, c[1]) = {} /\ \A q \in Request \ {r} : ~Midway(q, a, c[1])
      BY <1>3, <1>7, <3>1 DEF PreferencesInv, MidwayInv
    <3> QED
      <4>1. Of(a, c[1])' = {<<c[1], chosen'[a][c[1]]>>}
        BY <1>3, <1>10, <3>1, <3>2
      <4> QED
        BY <1>3, <1>6, <2>1, <3>2, <4>1
  <2>2. CASE b # a \/ n # c[1]
    BY <1>6, <1>10, <1>12, <2>2 DEF PreferencesInv, ChosenInv
  <2> QED
    BY <2>1, <2>2
<1>15. OwedInv'
  <2>1. ASSUME NEW p \in Push, NEW d \in owed[p]
        PROVE  chosen'[browser[d]][push[p].metric] = chosen[browser[d]][push[p].metric]
    <3>1. /\ browser[d] \in Account /\ push[p].metric \in Metric
          /\ chosen[browser[d]][push[p].metric] = TRUE
      BY DEF PreferencesInv, DevicesType, OwedInv
    <3>2. browser[d] # a \/ push[p].metric # c[1]
      BY <1>11, <3>1 DEF PreferencesAssumption
    <3> QED
      BY <1>12, <3>1, <3>2
  <2> QED
    BY <1>2, <2>1 DEF PreferencesInv, OwedInv
<1> QED
  BY <1>8, <1>9, <1>13, <1>14, <1>15 DEF PreferencesInv

LEMMA ReplicaInv ==
  ASSUME PreferencesInv, NEW n \in Replica,
         Look(n) \/ Mark(n) \/ GiveUp(n) \/ StartAgain(n)
  PROVE  PreferencesInv'
<1>1. /\ UNCHANGED <<entries, request, chosen>>
      /\ UNCHANGED <<owner, browser, dead, push, owed>>
      /\ marked' \in BOOLEAN
      /\ migration' \in [Replica -> {"looking", "switching", "marking", "serving"}]
  BY DEF Look, Mark, GiveUp, StartAgain, deviceVars, PreferencesInv, PreferencesType
<1>2. PreferencesType'
  BY <1>1 DEF PreferencesInv, PreferencesType
<1>3. MidwayInv' /\ ChosenInv'
  BY <1>1 DEF PreferencesInv, MidwayInv, ChosenInv, Of, Midway, Writes, Next1
<1> QED
  BY <1>1, <1>2, <1>3, DevicesUnchanged DEF PreferencesInv

(* The migration adds an entry only where the new metric has none, so that *)
(* no choice in force is touched; a request midway there is alone no more. *)
LEMMA SwitchOnInv ==
  ASSUME PreferencesAssumption, PreferencesInv, NEW n \in Replica, SwitchOn(n)
  PROVE  PreferencesInv'
<1> DEFINE met(r) == \E a \in Account : WasBefore(a) /\ Midway(r, a, NewMetric)
<1>1. /\ entries' = [a \in Account |->
           IF WasBefore(a) THEN entries[a] \cup {<<NewMetric, TRUE>>} ELSE entries[a]]
      /\ request' = [r \in Request |->
           [request[r] EXCEPT !.alone = request[r].alone
              /\ \A a \in Account : ~(WasBefore(a) /\ Midway(r, a, NewMetric))]]
      /\ migration' = [migration EXCEPT ![n] = "marking"]
      /\ UNCHANGED <<marked, chosen>> /\ UNCHANGED <<owner, browser, dead, push, owed>>
  BY DEF SwitchOn, deviceVars
<1>2. ASSUME NEW r \in Request
      PROVE  /\ request'[r] \in Asked
             /\ request'[r].account = request[r].account /\ request'[r].left = request[r].left
             /\ request'[r].pulled = request[r].pulled
             /\ request'[r].alone => request[r].alone /\ ~met(r)
  <2>1. PICK flag \in BOOLEAN :
          /\ flag => request[r].alone /\ ~met(r)
          /\ request'[r] = [request[r] EXCEPT !.alone = flag]
    <3>1. (request[r].alone /\ \A a \in Account : ~(WasBefore(a) /\ Midway(r, a, NewMetric)))
            \in BOOLEAN
      OBVIOUS
    <3> QED
      BY <1>1, <3>1
  <2> QED
    BY <2>1 DEF PreferencesInv, PreferencesType, Asked
<1>3. request' \in [Request -> Asked]
  <2> DEFINE next(r) == [request[r] EXCEPT !.alone = request[r].alone
              /\ \A a \in Account : ~(WasBefore(a) /\ Midway(r, a, NewMetric))]
  <2>1. request' = [r \in Request |-> next(r)]
    BY <1>1
  <2> HIDE DEF next
  <2> QED
    BY <1>2, <2>1
<1>4. PICK added \in Choice :
        /\ added[1] = NewMetric
        /\ entries' = [a \in Account |->
             IF WasBefore(a) THEN entries[a] \cup {added} ELSE entries[a]]
  <2>1. <<NewMetric, TRUE>> \in Choice /\ <<NewMetric, TRUE>>[1] = NewMetric
    BY ChoicesOn DEF Metric
  <2> QED
    BY <1>1, <2>1
<1>5. \A a \in Account : /\ WasBefore(a) => entries'[a] = entries[a] \cup {added}
                        /\ ~WasBefore(a) => entries'[a] = entries[a]
  BY <1>4
<1>6. entries' \in [Account -> SUBSET Choice]
  BY <1>4 DEF PreferencesInv, PreferencesType
<1>7. PreferencesType'
  <2>1. migration' \in [Replica -> {"looking", "switching", "marking", "serving"}]
    BY <1>1 DEF PreferencesInv, PreferencesType
  <2>2. \A r \in Request : request'[r].left # <<>> => request'[r].account \in Account
    BY <1>2 DEF PreferencesInv, PreferencesType
  <2> QED
    BY <1>1, <1>3, <1>6, <2>1, <2>2 DEF PreferencesInv, PreferencesType
<1>8. ASSUME NEW a \in Account, NEW m \in Metric, ~WasBefore(a) \/ m # NewMetric
      PROVE  Of(a, m)' = Of(a, m)
  <2>1. CASE ~WasBefore(a)
    BY <1>5, <2>1 DEF Of
  <2>2. CASE WasBefore(a)
    <3>1. added[1] # m /\ entries'[a] = entries[a] \cup {added}
      BY <1>4, <1>5, <1>8, <2>2
    <3> QED
      BY <3>1 DEF Of
  <2> QED
    BY <2>1, <2>2
<1>9. \A r \in Request, a \in Account, m \in Metric : Midway(r, a, m)' <=> Midway(r, a, m)
  BY <1>2 DEF Midway, Writes, Next1
<1>10. MidwayInv'
  <2> SUFFICES ASSUME NEW r \in Request, NEW a \in Account, NEW m \in Metric,
                      Midway(r, a, m), request'[r].alone
               PROVE  Of(a, m)' = {} /\ \A q \in Request \ {r} : ~Midway(q, a, m)
    BY <1>9 DEF MidwayInv
  <2>1. request[r].alone /\ (~WasBefore(a) \/ m # NewMetric)
    BY <1>2
  <2> QED
    BY <1>8, <2>1 DEF PreferencesInv, MidwayInv
<1>11. ChosenInv'
  <2> SUFFICES ASSUME NEW a \in Account, NEW m \in Metric, chosen[a][m] # Unknown
               PROVE  /\ Of(a, m)' = {<<m, chosen[a][m]>>}
                      /\ \A r \in Request : ~Midway(r, a, m)
    BY <1>1, <1>9 DEF ChosenInv
  <2>1. Of(a, m) = {<<m, chosen[a][m]>>} /\ \A r \in Request : ~Midway(r, a, m)
    BY DEF PreferencesInv, ChosenInv
  <2>2. ~WasBefore(a) \/ m # NewMetric
    <3>1. <<m, chosen[a][m]>> \in entries[a] /\ <<m, chosen[a][m]>>[1] = m
      BY <2>1 DEF Of
    <3> QED
      BY <3>1 DEF WasBefore
  <2> QED
    BY <1>8, <2>1, <2>2
<1> QED
  BY <1>1, <1>7, <1>10, <1>11, DevicesUnchanged DEF PreferencesInv

(* A device goes to another account, or is gone: no push owes it any more. *)
LEMMA DeviceInv ==
  ASSUME PreferencesAssumption, PreferencesInv, NEW d \in Device,
         EndpointDies(d) \/ \E a \in Account : Register(d, a)
  PROVE  PreferencesInv'
<1>1. PICK who \in Account \cup {Nobody} :
        /\ d \notin dead
        /\ browser' = [browser EXCEPT ![d] = who]
        /\ \/ who = Nobody /\ dead' = dead \cup {d} /\ owner' = owner
           \/ who # Nobody /\ dead' = dead /\ owner' = [owner EXCEPT ![d] = who]
        /\ \A p \in Push : owed'[p] = IF who # Nobody /\ browser[d] = who THEN owed[p]
                                       ELSE owed[p] \ {d}
        /\ owed' \in [Push -> SUBSET Device]
        /\ UNCHANGED <<entries, request, migration, marked, chosen, push>>
  <2>1. CASE EndpointDies(d)
    <3>1. /\ d \notin dead /\ browser' = [browser EXCEPT ![d] = Nobody]
          /\ dead' = dead \cup {d} /\ owner' = owner
          /\ owed' = [p \in Push |-> owed[p] \ {d}]
          /\ UNCHANGED <<entries, request, migration, marked, chosen, push>>
      BY <2>1 DEF EndpointDies, preferenceVars
    <3>2. owed' \in [Push -> SUBSET Device]
      BY <3>1 DEF PreferencesInv, DevicesType
    <3> QED
      BY <3>1, <3>2
  <2>2. ASSUME NEW a \in Account, Register(d, a)
        PROVE  /\ d \notin dead /\ browser' = [browser EXCEPT ![d] = a]
               /\ dead' = dead /\ owner' = [owner EXCEPT ![d] = a]
               /\ \A p \in Push : owed'[p] = IF browser[d] = a THEN owed[p] ELSE owed[p] \ {d}
               /\ owed' \in [Push -> SUBSET Device]
               /\ UNCHANGED <<entries, request, migration, marked, chosen, push>>
    BY <2>2 DEF Register, preferenceVars, PreferencesInv, DevicesType
  <2>3. \A a \in Account : a # Nobody
    BY DEF PreferencesAssumption
  <2> QED
    BY <2>1, <2>2, <2>3
<1>2. browser'[d] = who /\ \A e \in Device \ {d} : browser'[e] = browser[e] /\ owner'[e] = owner[e]
  BY <1>1 DEF PreferencesInv, DevicesType
<1>3. DevicesType'
  BY <1>1 DEF PreferencesInv, DevicesType
<1>4. OwnersInv'
  <2>1. ASSUME NEW e \in Device, browser'[e] # Nobody PROVE owner'[e] = browser'[e]
    BY <1>1, <1>2, <2>1 DEF PreferencesInv, DevicesType, OwnersInv
  <2>2. ASSUME NEW e \in dead' PROVE browser'[e] = Nobody
    BY <1>1, <1>2, <2>2 DEF PreferencesInv, DevicesType, OwnersInv
  <2>3. \A p \in Push : push'[p].gone \subseteq dead'
    BY <1>1 DEF PreferencesInv, OwnersInv
  <2> QED
    BY <2>1, <2>2, <2>3 DEF OwnersInv
<1>5. OwedInv'
  <2>1. \A p \in Push : owed'[p] \subseteq owed[p]
    BY <1>1
  <2>2. ASSUME NEW p \in Push, NEW e \in owed'[p] PROVE browser'[e] = browser[e]
    <3>1. e \in Device
      BY <2>1, <2>2 DEF PreferencesInv, DevicesType
    <3> QED
      BY <1>1, <1>2, <2>2, <3>1
  <2> QED
    BY <1>1, <2>1, <2>2 DEF PreferencesInv, OwedInv
<1> QED
  BY <1>1, <1>3, <1>4, <1>5, PreferencesUnchanged DEF PreferencesInv

(* One step of a push changes what it has read, and who it owes.           *)
LEMMA StepInv ==
  ASSUME PreferencesInv, NEW p \in Push,
         NEW next \in [step : {"idle", "accounts", "devices", "sending"}, metric : Metric,
                       accounts : SUBSET Account, devices : SUBSET Device,
                       gone : SUBSET Device],
         NEW due \in SUBSET Device,
         push' = [push EXCEPT ![p] = next], owed' = [owed EXCEPT ![p] = due],
         UNCHANGED <<entries, request, migration, marked, chosen>>,
         UNCHANGED <<owner, browser, dead>>,
         next.gone \subseteq dead,
         next.step = "idle" => due = {},
         next.step = "sending" => due \subseteq next.devices,
         \A d \in due : /\ browser[d] # Nobody /\ chosen[browser[d]][next.metric] = TRUE
                        /\ next.step = "devices" => browser[d] \in next.accounts
  PROVE  PreferencesInv'
<1>1. /\ push'[p] = next /\ owed'[p] = due
      /\ \A q \in Push \ {p} : push'[q] = push[q] /\ owed'[q] = owed[q]
  BY DEF PreferencesInv, DevicesType
<1>2. DevicesType'
  BY DEF PreferencesInv, DevicesType
<1>3. OwnersInv'
  BY <1>1 DEF PreferencesInv, OwnersInv
<1>4. OwedInv'
  <2> SUFFICES ASSUME NEW q \in Push
               PROVE  /\ push'[q].step = "idle" => owed'[q] = {}
                      /\ push'[q].step = "sending" => owed'[q] \subseteq push'[q].devices
                      /\ \A d \in owed'[q] :
                           /\ browser[d] # Nobody /\ chosen[browser[d]][push'[q].metric] = TRUE
                           /\ push'[q].step = "devices" => browser[d] \in push'[q].accounts
    BY DEF OwedInv
  <2> QED
    BY <1>1 DEF PreferencesInv, OwedInv
<1> QED
  BY <1>2, <1>3, <1>4, PreferencesUnchanged DEF PreferencesInv

LEMMA PushInv ==
  ASSUME PreferencesAssumption, PreferencesInv, NEW p \in Push,
         \/ \E m \in Metric : ToDomain(p, m)
         \/ AccountsSubscribedTo(p) \/ FindByAccounts(p) \/ FailToRead(p) \/ Delivered(p)
         \/ \E d \in Device : Send(p, d) \/ FailToDelete(p, d)
  PROVE  PreferencesInv'
<1> DEFINE Pushes == [step : {"idle", "accounts", "devices", "sending"}, metric : Metric,
                      accounts : SUBSET Account, devices : SUBSET Device, gone : SUBSET Device]
<1>1. /\ push[p] \in Pushes /\ owed[p] \in SUBSET Device /\ push[p].gone \subseteq dead
      /\ push[p].step \in {"idle", "accounts", "devices", "sending"} /\ push[p].metric \in Metric
      /\ push[p].accounts \in SUBSET Account
      /\ push[p].devices \in SUBSET Device /\ push[p].gone \in SUBSET Device
  BY DEF PreferencesInv, DevicesType, OwnersInv
<1>2. /\ push[p].step = "idle" => owed[p] = {}
      /\ push[p].step = "sending" => owed[p] \subseteq push[p].devices
      /\ \A d \in owed[p] :
           /\ browser[d] # Nobody /\ chosen[browser[d]][push[p].metric] = TRUE
           /\ push[p].step = "devices" => browser[d] \in push[p].accounts
  BY DEF PreferencesInv, OwedInv
<1>3. /\ NoPush \in Pushes /\ NoPush.step = "idle" /\ NoPush.gone = {}
  BY DEF NoPush, Metric
<1>4. owed = [owed EXCEPT ![p] = owed[p]]
  BY DEF PreferencesInv, DevicesType
<1>5. ASSUME NEW m \in Metric, ToDomain(p, m) PROVE PreferencesInv'
  <2> DEFINE next == [NoPush EXCEPT !.step = "accounts", !.metric = m]
  <2> DEFINE due == {d \in Device : browser[d] # Nobody /\ chosen[browser[d]][m] = TRUE}
  <2>1. /\ push' = [push EXCEPT ![p] = next] /\ owed' = [owed EXCEPT ![p] = due]
        /\ UNCHANGED <<entries, request, migration, marked, chosen>>
        /\ UNCHANGED <<owner, browser, dead>>
    BY <1>5 DEF ToDomain, preferenceVars, deviceVars
  <2>2. /\ next \in Pushes /\ next.step = "accounts" /\ next.metric = m /\ next.gone = {}
        /\ due \in SUBSET Device
        /\ \A d \in due : browser[d] # Nobody /\ chosen[browser[d]][m] = TRUE
    BY <1>5 DEF NoPush
  <2> HIDE DEF next, due
  <2> QED
    BY <2>1, <2>2, StepInv
<1>6. CASE AccountsSubscribedTo(p)
  <2> DEFINE accounts == {a \in Account : <<push[p].metric, TRUE>> \in entries[a]}
  <2> DEFINE next == [push[p] EXCEPT !.step = "devices", !.accounts = accounts]
  <2>1. /\ push[p].step = "accounts" /\ push' = [push EXCEPT ![p] = next] /\ owed' = owed
        /\ UNCHANGED <<entries, request, migration, marked, chosen>>
        /\ UNCHANGED <<owner, browser, dead>>
    BY <1>6 DEF AccountsSubscribedTo, preferenceVars, deviceVars, PreferencesInv, DevicesType
  <2>2. /\ next \in Pushes /\ next.step = "devices" /\ next.metric = push[p].metric
        /\ next.accounts = accounts /\ next.gone = push[p].gone
    BY <1>1
  <2>3. \A d \in owed[p] : browser[d] \in accounts
    <3> SUFFICES ASSUME NEW d \in owed[p] PROVE <<push[p].metric, TRUE>> \in entries[browser[d]]
                                                /\ browser[d] \in Account
      OBVIOUS
    <3>1. browser[d] \in Account /\ chosen[browser[d]][push[p].metric] = TRUE
      BY <1>1, <1>2 DEF PreferencesInv, DevicesType
    <3>2. Of(browser[d], push[p].metric) = {<<push[p].metric, TRUE>>}
      BY <1>1, <3>1 DEF PreferencesInv, ChosenInv, PreferencesAssumption
    <3> QED
      BY <3>1, <3>2 DEF Of
  <2>4. /\ owed' = [owed EXCEPT ![p] = owed[p]]
        /\ next.gone \subseteq dead
        /\ next.step = "idle" => owed[p] = {}
        /\ next.step = "sending" => owed[p] \subseteq next.devices
        /\ \A e \in owed[p] :
             /\ browser[e] # Nobody /\ chosen[browser[e]][next.metric] = TRUE
             /\ next.step = "devices" => browser[e] \in next.accounts
    BY <1>1, <1>2, <1>4, <2>1, <2>2, <2>3
  <2> HIDE DEF next, accounts
  <2> QED
    BY <1>1, <2>1, <2>2, <2>4, StepInv
<1>7. CASE FindByAccounts(p)
  <2> DEFINE devices == {d \in Device : owner[d] \in push[p].accounts}
  <2> DEFINE next == [push[p] EXCEPT !.step = "sending", !.accounts = {}, !.devices = devices]
  <2>1. /\ push[p].step = "devices" /\ push' = [push EXCEPT ![p] = next] /\ owed' = owed
        /\ UNCHANGED <<entries, request, migration, marked, chosen>>
        /\ UNCHANGED <<owner, browser, dead>>
    BY <1>7 DEF FindByAccounts, preferenceVars, deviceVars, PreferencesInv, DevicesType
  <2>2. /\ next \in Pushes /\ next.step = "sending" /\ next.metric = push[p].metric
        /\ next.devices = devices /\ next.gone = push[p].gone
    BY <1>1
  <2>3. owed[p] \subseteq devices
    BY <1>1, <1>2, <2>1 DEF PreferencesInv, OwnersInv
  <2>4. /\ owed' = [owed EXCEPT ![p] = owed[p]]
        /\ next.gone \subseteq dead
        /\ next.step = "idle" => owed[p] = {}
        /\ next.step = "sending" => owed[p] \subseteq next.devices
        /\ \A e \in owed[p] :
             /\ browser[e] # Nobody /\ chosen[browser[e]][next.metric] = TRUE
             /\ next.step = "devices" => browser[e] \in next.accounts
    BY <1>1, <1>2, <1>4, <2>1, <2>2, <2>3
  <2> HIDE DEF next, devices
  <2> QED
    BY <1>1, <2>1, <2>2, <2>4, StepInv
<1>8. CASE FailToRead(p) \/ Delivered(p)
  <2>1. /\ push' = [push EXCEPT ![p] = NoPush] /\ owed' = [owed EXCEPT ![p] = {}]
        /\ UNCHANGED <<entries, request, migration, marked, chosen>>
        /\ UNCHANGED <<owner, browser, dead>>
    BY <1>2, <1>4, <1>8 DEF FailToRead, Delivered, preferenceVars, deviceVars
  <2> QED
    BY <1>3, <2>1, StepInv
<1>9. ASSUME NEW d \in Device, Send(p, d) PROVE PreferencesInv'
  <2> DEFINE gone == IF d \in dead THEN push[p].gone \cup {d} ELSE push[p].gone
  <2> DEFINE next == [push[p] EXCEPT !.devices = push[p].devices \ {d}, !.gone = gone]
  <2>1. /\ push[p].step = "sending" /\ push' = [push EXCEPT ![p] = next]
        /\ owed' = [owed EXCEPT ![p] = owed[p] \ {d}]
        /\ UNCHANGED <<entries, request, migration, marked, chosen>>
        /\ UNCHANGED <<owner, browser, dead>>
    BY <1>9 DEF Send, preferenceVars, deviceVars, PreferencesInv, DevicesType
  <2>2. /\ next \in Pushes /\ next.step = "sending" /\ next.metric = push[p].metric
        /\ next.devices = push[p].devices \ {d} /\ next.gone = gone
        /\ gone \subseteq dead
    BY <1>1, <2>1
  <2> DEFINE due == owed[p] \ {d}
  <2>3. /\ due \in SUBSET Device
        /\ next.gone \subseteq dead
        /\ next.step = "idle" => due = {}
        /\ next.step = "sending" => due \subseteq next.devices
        /\ \A e \in due :
             /\ browser[e] # Nobody /\ chosen[browser[e]][next.metric] = TRUE
             /\ next.step = "devices" => browser[e] \in next.accounts
    BY <1>1, <1>2, <2>1, <2>2
  <2> HIDE DEF next, gone, due
  <2>4. owed' = [owed EXCEPT ![p] = due]
    BY <2>1 DEF due
  <2> QED
    BY <2>1, <2>2, <2>3, <2>4, StepInv
<1>10. ASSUME NEW d \in Device, FailToDelete(p, d) PROVE PreferencesInv'
  <2> DEFINE next == [push[p] EXCEPT !.gone = push[p].gone \ {d}]
  <2>1. /\ push' = [push EXCEPT ![p] = next] /\ owed' = owed
        /\ UNCHANGED <<entries, request, migration, marked, chosen>>
        /\ UNCHANGED <<owner, browser, dead>>
    BY <1>10 DEF FailToDelete, preferenceVars, deviceVars, PreferencesInv, DevicesType
  <2>2. /\ next \in Pushes /\ next.step = push[p].step /\ next.metric = push[p].metric
        /\ next.accounts = push[p].accounts /\ next.devices = push[p].devices
        /\ next.gone \subseteq dead
    BY <1>1
  <2>3. /\ owed' = [owed EXCEPT ![p] = owed[p]]
        /\ next.step = "idle" => owed[p] = {}
        /\ next.step = "sending" => owed[p] \subseteq next.devices
        /\ \A e \in owed[p] :
             /\ browser[e] # Nobody /\ chosen[browser[e]][next.metric] = TRUE
             /\ next.step = "devices" => browser[e] \in next.accounts
    BY <1>2, <1>4, <2>1, <2>2
  <2> HIDE DEF next
  <2> QED
    BY <1>1, <2>1, <2>2, <2>3, StepInv
<1> QED
  BY <1>5, <1>6, <1>7, <1>8, <1>9, <1>10

(* What a push deletes is dead: no account loses a device that lives.      *)
LEMMA DeleteInv ==
  ASSUME PreferencesInv, NEW p \in Push, NEW d \in Device, DeleteByEndpoint(p, d)
  PROVE  PreferencesInv'
<1>1. /\ d \in push[p].gone /\ owner' = [e \in Device |-> IF e = d THEN Nobody ELSE owner[e]]
      /\ push' = [push EXCEPT ![p] = [push[p] EXCEPT !.gone = push[p].gone \ {d}]]
      /\ UNCHANGED <<entries, request, migration, marked, chosen>>
      /\ UNCHANGED <<browser, dead, owed>>
  BY DEF DeleteByEndpoint, ByEndpoint, preferenceVars, PreferencesInv, DevicesType
<1>2. \A q \in Push :
        /\ push'[q].step = push[q].step /\ push'[q].metric = push[q].metric
        /\ push'[q].accounts = push[q].accounts /\ push'[q].devices = push[q].devices
        /\ push'[q].gone \subseteq push[q].gone
  BY <1>1 DEF PreferencesInv, DevicesType
<1>3. DevicesType'
  BY <1>1 DEF PreferencesInv, DevicesType
<1>4. d \in dead
  BY <1>1 DEF PreferencesInv, OwnersInv
<1>5. OwnersInv'
  BY <1>1, <1>2, <1>4 DEF PreferencesInv, OwnersInv
<1>6. OwedInv'
  BY <1>1, <1>2 DEF PreferencesInv, OwedInv
<1> QED
  BY <1>1, <1>3, <1>5, <1>6, PreferencesUnchanged DEF PreferencesInv

LEMMA PreferencesInvAlways == Spec => []PreferencesInv
<1>1. PreferencesInv /\ [Next]_vars => PreferencesInv'
  <2> SUFFICES ASSUME PreferencesInv, [Next]_vars PROVE PreferencesInv'
    OBVIOUS
  <2>1. CASE UNCHANGED vars
    <3>1. /\ UNCHANGED <<entries, request, migration, marked, chosen>>
          /\ UNCHANGED <<chosen, owner, browser, dead, push, owed>>
      BY <2>1 DEF vars, preferenceVars, deviceVars
    <3> QED
      BY <3>1, PreferencesUnchanged, DevicesUnchanged DEF PreferencesInv
  <2> QED
    BY <2>1, PreferencesAssumption, RequestInv, PullInv, PushEntryInv, ReplicaInv, SwitchOnInv,
       DeviceInv, PushInv, DeleteInv DEF Next
<1> QED
  BY <1>1, PreferencesInit, PTL DEF Spec

(* An explicit choice that met no other while it was written is the only   *)
(* entry of its metric, through any number of migrations, until the next   *)
(* choice begins (set and switch_on_new_metrics_once of notification).     *)
THEOREM ChoicesAreKept == Spec => []ChoiceHolds
<1>1. PreferencesInv => ChoiceHolds
  BY DEF PreferencesInv, ChosenInv, ChoiceHolds, Of
<1> QED
  BY <1>1, PreferencesInvAlways, PTL

(* A push that is about to send has every live device of every account     *)
(* that wanted it from its beginning: no dead device beside it, and        *)
(* nothing that an earlier push deleted, makes it miss one (to_domain and  *)
(* deliver of notification).                                               *)
THEOREM NobodyIsMissed == Spec => []ReachesEveryDevice
<1>1. PreferencesInv => ReachesEveryDevice
  BY DEF PreferencesInv, OwedInv, ReachesEveryDevice
<1> QED
  BY <1>1, PreferencesInvAlways, PTL
=============================================================================
