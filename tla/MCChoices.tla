------------------------------ MODULE MCChoices ------------------------------
(***************************************************************************)
(* An instance of Preferences, Dashboard and Simulations for TLC: what the *)
(* users of a building have set. The services share nothing, so in each    *)
(* behaviour one of them moves and the others stay as they began.          *)
(* Preferences that overlap are checked without devices, and the devices   *)
(* with one preference at a time. The requests of a simulation, any of     *)
(* which might come first, are begun in order and overlap in twos; one     *)
(* call arrives late at a time, and one edit or restart gets between.      *)
(***************************************************************************)
EXTENDS Preferences, TLC

CONSTANTS
  Columns, Defaults, MAX_CHANGES,
  Building, Clocked, Drifting, Start, MAX_EDITS, MAX_RESTARTS

VARIABLES
  memory, saved, changes, writes, alone, lost,
  stored, start, call, holds, isRunning, chain, batch, settled, edits, restarts,
  moves        \* which of them does, and what there are many of

Columnwise == INSTANCE Dashboard
Simulators == INSTANCE Simulations WITH Request <- Start, request <- start

ASSUME ChoicesHold == Columnwise!DashboardAssumption /\ Simulators!SimulationsAssumption

columnVars == <<memory, saved, changes, writes, alone, lost>>
simulatorVars == <<stored, start, call, holds, isRunning, chain, batch, settled, edits, restarts>>

Symmetry == Permutations(Chooser) \cup Permutations(Device) \cup Permutations(Request)

OneOfTheOthers ==
  /\ moves = "many choices" => \A d \in Device : owner[d] = Nobody /\ d \notin dead
  /\ moves = "many devices" => Cardinality({r \in Request : request[r] # NoRequest}) <= 1

MCInit ==
  /\ Init /\ Columnwise!Init /\ Simulators!Init
  /\ moves \in {"many choices", "many devices", "dashboard", "simulators"} /\ OneOfTheOthers
  /\ moves # "dashboard" => memory = Defaults
  /\ moves \in {"dashboard", "simulators"} =>
       entries = [a \in Account |-> {}] /\ owner = [d \in Device |-> Nobody]

MCNext ==
  \/ /\ moves \in {"many choices", "many devices"} /\ Next
     /\ UNCHANGED <<columnVars, simulatorVars, moves>> /\ OneOfTheOthers'
  \/ /\ moves = "dashboard" /\ Columnwise!Next
     /\ UNCHANGED <<vars, simulatorVars, moves>>
  \/ /\ moves = "simulators" /\ Simulators!Next
     /\ edits' + restarts' <= 1 /\ Cardinality({r \in Start : Simulators!Open(r)'}) <= 2
     /\ Cardinality({p \in Start \X Simulators!Simulator : call'[p[1]][p[2]] = "late"}) <= 1
     /\ \A r, q \in Start : start'[q].step # "none" =>
          (r < q => start'[r].step # "none") /\ (r < q - 1 => start'[r].step = "ended")
     /\ UNCHANGED <<vars, columnVars, moves>>

MCSpec == MCInit /\ [][MCNext]_<<vars, columnVars, simulatorVars, moves>>

(* Dashboard: a change that met no other write, and whose own was made, is *)
(* what a restart finds.                                                   *)
SavedWhenAlone == Columnwise!SavedWhenAlone

(* sensor-simulator.qd: a start or a stop that was answered, and met no    *)
(* other call, left every simulator with its share of the sensors.         *)
AnsweredIsHeld == Simulators!AnsweredIsHeld

(* sensor-simulator says that it is running exactly while it has a         *)
(* building, and then it ticks.                                            *)
RunningTicks == Simulators!RunningTicks
=============================================================================
