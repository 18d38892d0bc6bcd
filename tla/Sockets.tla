------------------------------ MODULE Sockets -------------------------------
(***************************************************************************)
(* socket: who is in the room of one building, to which its telemetry and  *)
(* devices are relayed.  A subscription is decided by the building's       *)
(* domains, asked of digital-twin one lookup at a time and remembered for  *)
(* TTL; nobody is put out when they change, but no connection gets old.    *)
(*                                                                         *)
(* Time goes in ticks: a handler that can go on does so within the tick,   *)
(* and so do timers that are due.                                          *)
(***************************************************************************)
EXTENDS Naturals, Sequences, FiniteSets, Functions

CONSTANTS
  Socket,            \* connections a pod may have at once
  Domain,
  TTL, TIMEOUT,      \* of an answer remembered, of one request to digital-twin
  LIFETIME, SPREAD,  \* of a connection, and by how much its jitter shortens it
  SWEEP              \* between two looks for connections past their lifetime

ASSUME SocketsAssumption ==
  /\ TTL \in Nat \ {0} /\ TIMEOUT \in Nat
  /\ LIFETIME \in Nat \ {0} /\ SPREAD \in 0 .. LIFETIME /\ SWEEP \in Nat \ {0}

VARIABLES
  domains,      \* the building's, in digital-twin
  gone,         \* ticks since a domain was last one of the building's (history)
  cache,        \* the answer remembered, and its age
  gate,         \* sockets whose subscription waits; the first one looks up
  lookup,       \* its request
  up, claims, age,  \* connections, the domains of their identity, their age
  room,         \* sockets joined to the building's room
  sweep         \* ticks since the last sweep

twinVars == <<domains, gone>>
connVars == <<up, claims, age>>
vars == <<twinVars, cache, gate, lookup, connVars, room, sweep>>

(* A domain the building had this long ago lets nobody stay in the room.   *)
Bound == TIMEOUT + TTL + LIFETIME + SWEEP

NoLookup == [step |-> "none", attempts |-> 0, age |-> 0, answer |-> {}]
Sent(n) == [step |-> "sent", attempts |-> n, age |-> 0, answer |-> {}]

TypeOK ==
  /\ domains \subseteq Domain /\ gone \in [Domain -> 0 .. Bound]
  /\ cache \in [domains : SUBSET Domain, age : 0 .. TTL]
  /\ gate \in Seq(Socket)
  /\ lookup \in [step : {"none", "sent", "read"}, attempts : 0 .. 1, age : 0 .. TIMEOUT,
                 answer : SUBSET Domain]
  /\ up \subseteq Socket /\ claims \in [Socket -> SUBSET Domain]
  /\ age \in [Socket -> 0 .. LIFETIME + SWEEP]
  /\ room \subseteq Socket /\ sweep \in 0 .. SWEEP

Init ==
  /\ domains \in SUBSET Domain
  /\ gone = [d \in Domain |-> IF d \in domains THEN 0 ELSE Bound]
  /\ cache = [domains |-> {}, age |-> TTL]
  /\ gate = <<>> /\ lookup = NoLookup
  /\ up = {} /\ claims = [s \in Socket |-> {}] /\ age = [s \in Socket |-> 0]
  /\ room = {} /\ sweep = 0

-----------------------------------------------------------------------------
(* An editor changes the building, deletes it, or makes it again.          *)
EditDomains(new) ==
  /\ new # domains /\ domains' = new
  /\ gone' = [d \in Domain |-> IF d \in new THEN 0 ELSE gone[d]]
  /\ UNCHANGED <<cache, gate, lookup, connVars, room, sweep>>

(* The identity is that of the handshake, as long as the connection lasts. *)
Connect(s, held) ==
  /\ s \notin up /\ s \notin Range(gate)
  /\ up' = up \cup {s}
  /\ claims' = [claims EXCEPT ![s] = held]
  /\ age' = [age EXCEPT ![s] = 0]
  /\ UNCHANGED <<twinVars, cache, gate, lookup, room, sweep>>

Drop(dropped) ==
  /\ up' = up \ dropped /\ room' = room \ dropped
  /\ claims' = [s \in Socket |-> IF s \in dropped THEN {} ELSE claims[s]]
  /\ age' = [s \in Socket |-> IF s \in dropped THEN 0 ELSE age[s]]

(* A subscription that waits is not told that its socket went away.        *)
Disconnect(s) ==
  /\ s \in up
  /\ Drop({s})
  /\ UNCHANGED <<twinVars, cache, gate, lookup, sweep>>

-----------------------------------------------------------------------------
AnyAnswer == cache.domains # {}  \* mutant: an answer is remembered for ever
Fresh == cache.age < TTL
MayRead(s, ds) == ds \cap claims[s] # {}

(* The handler goes on with the answer: it joins, or refuses.              *)
Joined(s, ds) == IF s \in up /\ MayRead(s, ds) THEN room \cup {s} ELSE room

Subscribe(s) ==
  /\ s \in up /\ s \notin Range(gate)
  /\ IF Fresh
     THEN room' = Joined(s, cache.domains) /\ UNCHANGED gate
     ELSE gate' = Append(gate, s) /\ UNCHANGED room
  /\ UNCHANGED <<twinVars, cache, lookup, connVars, sweep>>

(* It is answered where it is received, before a subscription that waits.  *)
Unsubscribe(s) ==
  /\ s \in up
  /\ room' = room \ {s}
  /\ UNCHANGED <<twinVars, cache, gate, lookup, connVars, sweep>>

(* The first in the gate looks once more at what is remembered.            *)
EnterGate ==
  /\ gate # <<>> /\ lookup.step = "none"
  /\ IF Fresh
     THEN room' = Joined(Head(gate), cache.domains) /\ gate' = Tail(gate) /\ UNCHANGED lookup
     ELSE lookup' = Sent(0) /\ UNCHANGED <<gate, room>>
  /\ UNCHANGED <<twinVars, cache, connVars, sweep>>

TwinReads ==
  /\ lookup.step = "sent"
  /\ lookup' = [lookup EXCEPT !.step = "read", !.answer = domains]
  /\ UNCHANGED <<twinVars, cache, gate, connVars, room, sweep>>

Remember(ds) == cache' = [domains |-> ds, age |-> 0]
LeaveGate == lookup' = NoLookup /\ gate' = Tail(gate)

Answered ==
  /\ lookup.step = "read"
  /\ Remember(lookup.answer)
  /\ room' = Joined(Head(gate), lookup.answer)
  /\ LeaveGate
  /\ UNCHANGED <<twinVars, connVars, sweep>>

(* Not reached, not in time, or an error of the server: asked once more.   *)
AlwaysRetrying == TRUE  \* mutant
WorthRetrying == lookup.attempts = 0

Retry ==
  /\ lookup.step # "none" /\ WorthRetrying
  /\ lookup' = Sent(1)
  /\ UNCHANGED <<twinVars, cache, gate, connVars, room, sweep>>

(* After that, or when it is refused, the subscription is Unavailable.     *)
Unavailable ==
  /\ lookup.step # "none"
  /\ LeaveGate
  /\ UNCHANGED <<twinVars, cache, connVars, room, sweep>>

-----------------------------------------------------------------------------
(* lifetime_for: each connection has a lifetime of its own.                *)
Expired(s, spared) == age[s] >= LIFETIME \/ (age[s] >= LIFETIME - SPREAD /\ s \notin spared)

ExpireStaleSockets ==
  /\ sweep = SWEEP /\ sweep' = 0
  /\ \E spared \in SUBSET up : Drop({s \in up : Expired(s, spared)})
  /\ UNCHANGED <<twinVars, cache, gate, lookup>>

PodRestarts ==
  /\ Drop(up)
  /\ cache' = [domains |-> {}, age |-> TTL]
  /\ gate' = <<>> /\ lookup' = NoLookup /\ sweep' = 0
  /\ UNCHANGED twinVars

Capped(n, max) == IF n < max THEN n + 1 ELSE max

Tick ==
  /\ sweep < SWEEP /\ sweep' = sweep + 1
  /\ IF lookup.step = "none" THEN gate = <<>> /\ UNCHANGED lookup
     ELSE lookup.age < TIMEOUT /\ lookup' = [lookup EXCEPT !.age = @ + 1]
  /\ cache' = [cache EXCEPT !.age = Capped(@, TTL)]
  /\ age' = [s \in Socket |-> IF s \in up THEN age[s] + 1 ELSE 0]
  /\ gone' = [d \in Domain |-> IF d \in domains THEN 0 ELSE Capped(gone[d], Bound)]
  /\ UNCHANGED <<domains, gate, up, claims, room>>

Next ==
  \/ \E new \in SUBSET Domain : EditDomains(new)
  \/ \E s \in Socket :
       (\E held \in SUBSET Domain : Connect(s, held)) \/ Disconnect(s) \/ Subscribe(s) \/ Unsubscribe(s)
  \/ EnterGate \/ TwinReads \/ Answered \/ Retry \/ Unavailable
  \/ ExpireStaleSockets \/ PodRestarts \/ Tick

(* Handlers, the sweeper and the clock go on; digital-twin may stay silent, *)
(* and then the timeout is what ends a request.                             *)
GivesUp == lookup.age = TIMEOUT /\ (Retry \/ (~WorthRetrying /\ Unavailable))

Spec ==
  /\ Init /\ [][Next]_vars
  /\ WF_vars(EnterGate) /\ WF_vars(GivesUp) /\ WF_vars(ExpireStaleSockets) /\ WF_vars(Tick)

-----------------------------------------------------------------------------
(* Whoever hears of the building could read it not long ago: what is       *)
(* remembered is young, and so is who was let in by it.                    *)
RoomFollowsDomains ==
  \A s \in room : \E d \in claims[s] : gone[d] < Bound

(* A subscription is answered, whatever digital-twin does.                 *)
EverySubscribeIsAnswered ==
  \A s \in Socket : s \in Range(gate) ~> s \notin Range(gate)
=============================================================================
