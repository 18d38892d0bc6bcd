---------------------------- MODULE Simulations ----------------------------
(***************************************************************************)
(* The simulators that stand in for a building's sensors.  Telemetry       *)
(* splits the sensors by their kind and tells every simulator its share;   *)
(* a call that telemetry gave up may still arrive later.                   *)
(*                                                                         *)
(* sensor-simulator has one timer for all of its buildings: a chain of     *)
(* ticks that lives as long as it finds the simulator running.             *)
(* aq-simulator has a task per building, which is gone at once when it is  *)
(* cancelled, so that it is no state of its own; ap-simulator serves the   *)
(* collector and posts nothing.  Buildings are registered; only sensors    *)
(* with a room are simulated, so that the others are left out.             *)
(***************************************************************************)
EXTENDS Naturals, FiniteSets

CONSTANTS
  Building,
  Clocked, Drifting,    \* sensors of the kinds of sensor-simulator and of aq-simulator
  Request,              \* starts and stops, from the dashboards
  MAX_EDITS, MAX_RESTARTS

SimulationsAssumption ==   \* Simulation::new refuses a kind that two would take
  Clocked # {} /\ Clocked \cap Drifting = {} /\ MAX_EDITS \in Nat /\ MAX_RESTARTS \in Nat

Sensor == Clocked \cup Drifting
Kinds(s) == IF s = "sensor" THEN Clocked ELSE Drifting
Simulator == {s \in {"sensor", "aq"} : Kinds(s) # {}}   \* those configured
Share(plan, s) == plan \cap Kinds(s)

VARIABLES
  stored,               \* per building: its sensors
  request,              \* per request: what telemetry is doing for it
  call,                 \* per request and simulator: where the call is
  holds,                \* per simulator and building: what it simulates
  isRunning,            \* sensor-simulator's flag
  chain,                \* its chains of ticks, by the request that began each
  batch,                \* per chain: the buildings it is posting for
  settled,              \* per building: what the last answered request left (history)
  edits, restarts

telemetryVars == <<request, call>>
clockVars == <<isRunning, chain, batch>>
vars == <<stored, telemetryVars, holds, clockVars, settled, edits, restarts>>

Unsettled == {"unsettled"}
NotAsked == [step |-> "none", building |-> "none", plan |-> {}, alone |-> FALSE]

Init ==
  /\ stored = [b \in Building |-> Sensor]
  /\ request = [r \in Request |-> NotAsked]
  /\ call = [r \in Request |-> [s \in Simulator |-> "none"]]
  /\ holds = [s \in Simulator |-> [b \in Building |-> {}]]
  /\ isRunning = FALSE
  /\ chain = [r \in Request |-> "none"] /\ batch = [r \in Request |-> {}]
  /\ settled = [b \in Building |-> Unsettled]
  /\ edits = 0 /\ restarts = 0

(* "late" is a call that telemetry gave up and that may still arrive.      *)
Late(r) == \E s \in Simulator : call[r][s] = "late"
Open(r) == request[r].step \in {"reading", "asking"} \/ Late(r)
OpenFor(b) == {r \in Request : request[r].building = b /\ Open(r)}
Spoilt(rs) == [r \in Request |-> IF r \in rs THEN [request[r] EXCEPT !.alone = FALSE] ELSE request[r]]

-----------------------------------------------------------------------------
(* A sensor is added or removed; simulators are not told.                  *)
Edit(b, x) ==
  /\ edits < MAX_EDITS /\ edits' = edits + 1
  /\ stored' = [stored EXCEPT ![b] = IF x \in @ THEN @ \ {x} ELSE @ \cup {x}]
  /\ UNCHANGED <<telemetryVars, holds, clockVars, settled, restarts>>

RecipientsWithWork(plan) == {s \in Simulator : Share(plan, s) # {}}  \* mutant: spares idle ones
Recipients(plan) == Simulator

Send(r, recipients) ==
  call' = [call EXCEPT ![r] = [s \in Simulator |-> IF s \in recipients THEN "out" ELSE "ok"]]

Begin(r, b, step) ==
  /\ request[r].step = "none"
  /\ request' = [Spoilt(OpenFor(b)) EXCEPT
       ![r] = [step |-> step, building |-> b, plan |-> {}, alone |-> OpenFor(b) = {}]]
  /\ settled' = [settled EXCEPT ![b] = Unsettled]
  /\ UNCHANGED <<stored, holds, clockVars, edits, restarts>>

BeginStart(r, b) == Begin(r, b, "reading") /\ UNCHANGED call

(* Every simulator is told to drop the building, as by an empty share.     *)
BeginStop(r, b) == Begin(r, b, "asking") /\ Send(r, Simulator)

SendShares(r) ==
  /\ request[r].step = "reading"
  /\ LET plan == stored[request[r].building] IN
       /\ request' = [request EXCEPT ![r].step = "asking", ![r].plan = plan]
       /\ Send(r, Recipients(plan))
  /\ UNCHANGED <<stored, holds, clockVars, settled, edits, restarts>>

(* The store fails, or telemetry stops.                                    *)
ReadFails(r) ==
  /\ request[r].step = "reading"
  /\ request' = [request EXCEPT ![r] = [NotAsked EXCEPT !.step = "ended"]]
  /\ UNCHANGED <<stored, call, holds, clockVars, settled, edits, restarts>>

-----------------------------------------------------------------------------
Active(held) == {b \in Building : held[b] # {}}
TickBatch(held) == Active(held)
StillRuns(held) == isRunning \/ Active(held) # {}  \* mutant: a stop leaves the flag
Runs(held) == Active(held) # {}

(* startOrAdd of sensor-simulator: replaces; nothing to simulate is a stop.*)
ClockStart(r, held) ==
  /\ isRunning' = Runs(held)
  /\ IF isRunning \/ Active(held) = {}
     THEN UNCHANGED <<chain, batch>>
     ELSE chain' = [chain EXCEPT ![r] = "posting"] /\ batch' = [batch EXCEPT ![r] = TickBatch(held)]

Replaced(r, s) == [holds[s] EXCEPT ![request[r].building] = Share(request[r].plan, s)]

Deliver(r, s) ==
  /\ call[r][s] \in {"out", "late"}
  /\ call' = [call EXCEPT ![r][s] = IF @ = "out" THEN "handled" ELSE "failed"]
  /\ holds' = [holds EXCEPT ![s] = Replaced(r, s)]
  /\ IF s = "sensor"
     THEN ClockStart(r, Replaced(r, s)) ELSE UNCHANGED clockVars
  /\ UNCHANGED <<stored, request, settled, edits, restarts>>

Hear(r, s) ==
  /\ call[r][s] = "handled"
  /\ call' = [call EXCEPT ![r][s] = "ok"]
  /\ UNCHANGED <<stored, request, holds, clockVars, settled, edits, restarts>>

(* Not reached, or no answer within TIMEOUT: the call may still arrive.    *)
GiveUp(r, s) ==
  /\ \/ call[r][s] = "out" /\ \E fate \in {"late", "failed"} : call' = [call EXCEPT ![r][s] = fate]
     \/ call[r][s] = "handled" /\ call' = [call EXCEPT ![r][s] = "failed"]
  /\ UNCHANGED <<stored, request, holds, clockVars, settled, edits, restarts>>

AllAnswered(r) == \A s \in Simulator : call[r][s] = "ok"

Finish(r) ==
  /\ request[r].step = "asking" /\ \A s \in Simulator : call[r][s] \notin {"out", "handled"}
  /\ request' = [request EXCEPT ![r].step = "ended", ![r].alone = FALSE]
  /\ call' = [call EXCEPT ![r] = [s \in Simulator |-> IF @[s] = "late" THEN "late" ELSE "failed"]]
  /\ settled' = [settled EXCEPT ![request[r].building] =
       IF AllAnswered(r) /\ request[r].alone THEN request[r].plan ELSE Unsettled]
  /\ UNCHANGED <<stored, holds, clockVars, edits, restarts>>

-----------------------------------------------------------------------------
(* tick: every building's batch has been posted, or refused, or lost.      *)
Posted(r) ==
  /\ chain[r] = "posting"
  /\ chain' = [chain EXCEPT ![r] = "waiting"] /\ batch' = [batch EXCEPT ![r] = {}]
  /\ UNCHANGED <<stored, telemetryVars, holds, isRunning, settled, edits, restarts>>

(* The timer fires after the delay.                                        *)
Tick(r) ==
  /\ chain[r] = "waiting"
  /\ IF isRunning
     THEN chain' = [chain EXCEPT ![r] = "posting"] /\ batch' = [batch EXCEPT ![r] = TickBatch(holds["sensor"])]
     ELSE chain' = [chain EXCEPT ![r] = "none"] /\ UNCHANGED batch
  /\ UNCHANGED <<stored, telemetryVars, holds, isRunning, settled, edits, restarts>>

(* A simulator keeps everything in memory.                                 *)
Restart(s) ==
  /\ restarts < MAX_RESTARTS /\ restarts' = restarts + 1
  /\ holds' = [holds EXCEPT ![s] = [b \in Building |-> {}]]
  /\ IF s = "sensor"
     THEN isRunning' = FALSE /\ chain' = [r \in Request |-> "none"] /\ batch' = [r \in Request |-> {}]
     ELSE UNCHANGED clockVars
  /\ request' = Spoilt(Request)
  /\ settled' = [b \in Building |-> Unsettled]
  /\ UNCHANGED <<stored, call, edits>>

Next ==
  \/ \E b \in Building, x \in Sensor : Edit(b, x)
  \/ \E r \in Request, b \in Building : BeginStart(r, b) \/ BeginStop(r, b)
  \/ \E r \in Request : SendShares(r) \/ ReadFails(r) \/ Finish(r) \/ Posted(r) \/ Tick(r)
  \/ \E r \in Request, s \in Simulator : Deliver(r, s) \/ Hear(r, s) \/ GiveUp(r, s)
  \/ \E s \in Simulator : Restart(s)

Spec == Init /\ [][Next]_vars

-----------------------------------------------------------------------------
Alive == {r \in Request : chain[r] # "none"}

(* sensor-simulator.qd: "Replaces what the building simulates": once a     *)
(* start or a stop has been answered that met no other call for the same   *)
(* building, not even a late one, and until the next is asked, every       *)
(* simulator holds its share of the sensors as they were read, no more.    *)
AnsweredIsHeld ==
  \A b \in Building : settled[b] # Unsettled =>
    \A s \in Simulator : holds[s][b] = Share(settled[b], s)

(* Whatever starts, stops and late calls do, sensor-simulator says that it *)
(* is running exactly while it has a building, and then it ticks: it never *)
(* shows as running with all of its timers gone.                           *)
RunningTicks ==
  /\ isRunning <=> \E b \in Building : holds["sensor"][b] # {}
  /\ isRunning => Alive # {}

(* sensor-simulator.qd: "Each simulator ticks every 10 s and POSTs one     *)
(* signed batch": there are no two chains of ticks. This does not hold: a   *)
(* start before the timer of a stopped chain fires revives that chain.      *)
TicksOnce == Cardinality(Alive) <= 1
=============================================================================
