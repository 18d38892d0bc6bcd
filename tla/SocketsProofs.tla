---------------------------- MODULE SocketsProofs ---------------------------
(***************************************************************************)
(* Proofs about the services that talk to an open page, for any numbers    *)
(* of connections, questions and readings and any durations.               *)
(*                                                                         *)
(* Sockets: each stage passes its domains on to the next one and adds how  *)
(* long it may hold them: a request TIMEOUT, the answer that is remembered *)
(* TTL, a connection LIFETIME and SWEEP.  Conversations: a question under  *)
(* way takes up the room that its answer will.  Live: a snapshot is no     *)
(* older than what was stored when the page asked for it.                  *)
(***************************************************************************)
EXTENDS Sockets, MCPages, FiniteSetTheorems, WellFoundedInduction, TLAPS

(* An answer on its way is no older than its request.                      *)
AnswerYoung ==
  lookup.step = "read" => \A d \in lookup.answer : gone[d] <= lookup.age

CacheYoung ==
  Fresh => \A d \in cache.domains : gone[d] <= TIMEOUT + cache.age

(* The last sweep left nobody past LIFETIME.                               *)
NobodyOld == \A s \in up : age[s] < LIFETIME + sweep

RoomYoung ==
  \A s \in room : s \in up /\ \E d \in claims[s] : gone[d] < TIMEOUT + TTL + age[s]

(* Only the first in the gate has a request.                               *)
LookupHeld == lookup.step # "none" => gate # <<>>

IInv == TypeOK /\ AnswerYoung /\ CacheYoung /\ NobodyOld /\ RoomYoung /\ LookupHeld

(* The initial states satisfy the invariant.                               *)
THEOREM InitIInv == Init => IInv
<1> USE SocketsAssumption
<1> SUFFICES ASSUME Init PROVE IInv
  OBVIOUS
<1>1. TypeOK
  BY DEF Init, TypeOK, NoLookup, Bound
<1>2. AnswerYoung /\ CacheYoung /\ NobodyOld /\ RoomYoung /\ LookupHeld
  BY DEF Init, AnswerYoung, CacheYoung, Fresh, NobodyOld, RoomYoung, LookupHeld, NoLookup
<1> QED BY <1>1, <1>2 DEF IInv

(* The shapes of the two records.                                          *)
Lookups == [step : {"none", "sent", "read"}, attempts : 0 .. 1, age : 0 .. TIMEOUT,
            answer : SUBSET Domain]
Caches == [domains : SUBSET Domain, age : 0 .. TTL]

LEMMA Shapes ==
  ASSUME IInv
  PROVE  /\ lookup \in Lookups /\ cache \in Caches
         /\ lookup.step \in {"none", "sent", "read"} /\ lookup.age \in 0 .. TIMEOUT
         /\ lookup.answer \in SUBSET Domain /\ cache.age \in 0 .. TTL
<1>1. lookup \in Lookups /\ cache \in Caches
  BY DEF IInv, TypeOK, Lookups, Caches
<1>2. /\ lookup.step \in {"none", "sent", "read"} /\ lookup.age \in 0 .. TIMEOUT
      /\ lookup.answer \in SUBSET Domain
  BY <1>1 DEF Lookups
<1>3. cache.age \in 0 .. TTL
  BY <1>1 DEF Caches
<1> QED BY <1>1, <1>2, <1>3

LEMMA SentShape == \A n \in 0 .. 1 : Sent(n) \in Lookups /\ Sent(n).step = "sent"
BY SocketsAssumption DEF Sent, Lookups

-----------------------------------------------------------------------------
(* Whoever joins by an answer that is young enough is in the room rightly. *)
LEMMA JoinYoung ==
  ASSUME IInv, NEW s \in Socket, NEW ds \in SUBSET Domain,
         \A d \in ds : gone[d] < TIMEOUT + TTL
  PROVE  \A t \in Joined(s, ds) : t \in up /\ \E d \in claims[t] : gone[d] < TIMEOUT + TTL + age[t]
<1> USE SocketsAssumption
<1>1. CASE s \in up /\ MayRead(s, ds)
  <2>1. PICK d \in claims[s] : d \in ds
    BY <1>1 DEF MayRead
  <2>2. d \in Domain /\ gone[d] \in Nat /\ age[s] \in Nat
    BY <2>1 DEF IInv, TypeOK, Bound
  <2>3. gone[d] < TIMEOUT + TTL + age[s]
    BY <2>1, <2>2
  <2> QED BY <1>1, <2>1, <2>3 DEF Joined, IInv, RoomYoung
<1>2. CASE ~(s \in up /\ MayRead(s, ds))
  BY <1>2 DEF Joined, IInv, RoomYoung
<1> QED BY <1>1, <1>2

LEMMA JoinTyped ==
  ASSUME TypeOK, NEW s \in Socket, NEW ds
  PROVE  Joined(s, ds) \subseteq Socket
BY DEF Joined, TypeOK

(* What is remembered and fresh lets in nobody that it should not.         *)
LEMMA CacheJoins ==
  ASSUME IInv, Fresh
  PROVE  \A d \in cache.domains : gone[d] < TIMEOUT + TTL
<1> USE SocketsAssumption
<1> TAKE d \in cache.domains
<1>1. d \in Domain /\ gone[d] \in Nat /\ cache.age \in Nat /\ cache.age < TTL
  BY DEF IInv, TypeOK, Fresh, Bound
<1>2. gone[d] <= TIMEOUT + cache.age
  BY DEF IInv, CacheYoung
<1> QED BY <1>1, <1>2

-----------------------------------------------------------------------------
(* Connections that are dropped leave the room.                            *)
LEMMA DropKeeps ==
  ASSUME IInv, NEW dropped \in SUBSET Socket, Drop(dropped), UNCHANGED twinVars
  PROVE  /\ up' \subseteq Socket /\ claims' \in [Socket -> SUBSET Domain]
         /\ age' \in [Socket -> 0 .. LIFETIME + SWEEP] /\ room' \subseteq Socket
         /\ RoomYoung'
         /\ \A s \in up' : s \in up /\ s \notin dropped /\ age'[s] = age[s]
<1> USE SocketsAssumption
<1>1. up' \subseteq Socket /\ claims' \in [Socket -> SUBSET Domain] /\ room' \subseteq Socket
  BY DEF IInv, TypeOK, Drop
<1>2. age' \in [Socket -> 0 .. LIFETIME + SWEEP]
  BY DEF IInv, TypeOK, Drop
<1>3. \A s \in up' : s \in up /\ s \notin dropped /\ age'[s] = age[s] /\ claims'[s] = claims[s]
  BY DEF IInv, TypeOK, Drop
<1>4. \A s \in room' : s \in room /\ s \in up'
  BY DEF IInv, RoomYoung, Drop
<1>5. RoomYoung'
  BY <1>3, <1>4 DEF IInv, RoomYoung, twinVars
<1> QED BY <1>1, <1>2, <1>3, <1>5

LEMMA EditKeeps ==
  ASSUME IInv, NEW new \in SUBSET Domain, EditDomains(new)
  PROVE  IInv'
<1> USE SocketsAssumption
<1>1. gone' \in [Domain -> 0 .. Bound] /\ \A d \in Domain : gone'[d] <= gone[d]
  BY DEF EditDomains, IInv, TypeOK, Bound
<1>2. TypeOK'
  BY <1>1 DEF EditDomains, IInv, TypeOK, connVars
<1>3. AnswerYoung'
  BY <1>1, <1>2 DEF EditDomains, IInv, TypeOK, AnswerYoung, Bound
<1>4. CacheYoung'
  BY <1>1, <1>2 DEF EditDomains, IInv, TypeOK, CacheYoung, Fresh, Bound
<1>5. RoomYoung'
  <2> SUFFICES ASSUME NEW s \in room
               PROVE  s \in up /\ \E d \in claims[s] : gone'[d] < TIMEOUT + TTL + age[s]
    BY DEF EditDomains, RoomYoung, connVars
  <2>1. PICK d \in claims[s] : gone[d] < TIMEOUT + TTL + age[s]
    BY DEF IInv, RoomYoung
  <2>2. s \in up /\ s \in Socket /\ d \in Domain
    BY DEF IInv, TypeOK, RoomYoung
  <2>3. gone'[d] <= gone[d] /\ gone[d] \in Nat /\ gone'[d] \in Nat /\ age[s] \in Nat
    BY <1>1, <2>2 DEF IInv, TypeOK, Bound
  <2>4. gone'[d] < TIMEOUT + TTL + age[s]
    BY <2>1, <2>3
  <2> QED BY <2>2, <2>4
<1>6. NobodyOld' /\ LookupHeld'
  BY DEF EditDomains, IInv, NobodyOld, LookupHeld, connVars
<1> QED BY <1>2, <1>3, <1>4, <1>5, <1>6 DEF IInv

LEMMA ConnectKeeps ==
  ASSUME IInv, NEW s \in Socket, NEW has \in SUBSET Domain, Connect(s, has)
  PROVE  IInv'
<1> USE SocketsAssumption
<1>1. TypeOK'
  BY DEF Connect, IInv, TypeOK, twinVars
<1>2. \A t \in up : t # s /\ age'[t] = age[t] /\ claims'[t] = claims[t]
  BY DEF Connect, IInv, TypeOK
<1>3. NobodyOld'
  <2>1. age'[s] = 0 /\ sweep \in Nat
    BY DEF Connect, IInv, TypeOK
  <2> QED BY <1>2, <2>1 DEF Connect, IInv, NobodyOld
<1>4. RoomYoung'
  BY <1>2 DEF Connect, IInv, RoomYoung, twinVars
<1>5. AnswerYoung' /\ CacheYoung' /\ LookupHeld'
  BY DEF Connect, IInv, AnswerYoung, CacheYoung, Fresh, LookupHeld, twinVars
<1> QED BY <1>1, <1>3, <1>4, <1>5 DEF IInv

LEMMA DisconnectKeeps ==
  ASSUME IInv, NEW s \in Socket, Disconnect(s)
  PROVE  IInv'
<1>1. /\ up' \subseteq Socket /\ claims' \in [Socket -> SUBSET Domain]
      /\ age' \in [Socket -> 0 .. LIFETIME + SWEEP] /\ room' \subseteq Socket
      /\ RoomYoung'
      /\ \A t \in up' : t \in up /\ age'[t] = age[t]
  BY DropKeeps DEF Disconnect
<1>2. TypeOK'
  BY <1>1 DEF Disconnect, IInv, TypeOK, twinVars
<1>3. NobodyOld'
  BY <1>1 DEF Disconnect, IInv, NobodyOld
<1>4. AnswerYoung' /\ CacheYoung' /\ LookupHeld'
  BY DEF Disconnect, IInv, AnswerYoung, CacheYoung, Fresh, LookupHeld, twinVars
<1> QED BY <1>1, <1>2, <1>3, <1>4 DEF IInv

-----------------------------------------------------------------------------
LEMMA SubscribeKeeps ==
  ASSUME IInv, NEW s \in Socket, Subscribe(s)
  PROVE  IInv'
<1> USE SocketsAssumption
<1>1. AnswerYoung' /\ CacheYoung' /\ NobodyOld'
  BY DEF Subscribe, IInv, AnswerYoung, CacheYoung, Fresh, NobodyOld, twinVars, connVars
<1>2. CASE Fresh
  <2>1. room' = Joined(s, cache.domains) /\ gate' = gate
    BY <1>2 DEF Subscribe
  <2>2. cache.domains \in SUBSET Domain
    BY DEF IInv, TypeOK
  <2>3. \A t \in room' : t \in up /\ \E d \in claims[t] : gone[d] < TIMEOUT + TTL + age[t]
    BY <1>2, <2>1, <2>2, CacheJoins, JoinYoung
  <2>4. TypeOK'
    BY <2>1, JoinTyped DEF Subscribe, IInv, TypeOK, twinVars, connVars
  <2>5. RoomYoung' /\ LookupHeld'
    BY <2>1, <2>3 DEF Subscribe, IInv, RoomYoung, LookupHeld, twinVars, connVars
  <2> QED BY <1>1, <2>4, <2>5 DEF IInv
<1>3. CASE ~Fresh
  <2>1. gate' = Append(gate, s) /\ room' = room
    BY <1>3 DEF Subscribe
  <2>2. gate' \in Seq(Socket) /\ gate' # <<>>
    <3>1. gate \in Seq(Socket)
      BY DEF IInv, TypeOK
    <3>2. Append(gate, s) \in Seq(Socket) /\ Len(Append(gate, s)) = Len(gate) + 1
      BY <3>1
    <3>3. Len(gate) \in Nat
      BY <3>1
    <3> QED BY <2>1, <3>2, <3>3
  <2>3. TypeOK'
    BY <2>1, <2>2 DEF Subscribe, IInv, TypeOK, twinVars, connVars
  <2>4. RoomYoung' /\ LookupHeld'
    BY <2>1, <2>2 DEF Subscribe, IInv, RoomYoung, LookupHeld, twinVars, connVars
  <2> QED BY <1>1, <2>3, <2>4 DEF IInv
<1> QED BY <1>2, <1>3

LEMMA UnsubscribeKeeps ==
  ASSUME IInv, NEW s \in Socket, Unsubscribe(s)
  PROVE  IInv'
<1>1. TypeOK'
  BY DEF Unsubscribe, IInv, TypeOK, twinVars, connVars
<1>2. AnswerYoung' /\ CacheYoung' /\ NobodyOld' /\ LookupHeld'
  BY DEF Unsubscribe, IInv, AnswerYoung, CacheYoung, Fresh, NobodyOld, LookupHeld, twinVars,
         connVars
<1>3. RoomYoung'
  BY DEF Unsubscribe, IInv, RoomYoung, twinVars, connVars
<1> QED BY <1>1, <1>2, <1>3 DEF IInv

LEMMA EnterGateKeeps ==
  ASSUME IInv, EnterGate
  PROVE  IInv'
<1> USE SocketsAssumption
<1>1. CacheYoung' /\ NobodyOld'
  BY DEF EnterGate, IInv, CacheYoung, Fresh, NobodyOld, twinVars, connVars
<1>2. gate \in Seq(Socket) /\ gate # <<>> /\ Head(gate) \in Socket /\ Tail(gate) \in Seq(Socket)
  BY DEF EnterGate, IInv, TypeOK
<1>3. CASE Fresh
  <2>1. room' = Joined(Head(gate), cache.domains) /\ gate' = Tail(gate) /\ lookup' = lookup
    BY <1>3 DEF EnterGate
  <2>2. cache.domains \in SUBSET Domain
    BY DEF IInv, TypeOK
  <2>3. \A t \in room' : t \in up /\ \E d \in claims[t] : gone[d] < TIMEOUT + TTL + age[t]
    BY <1>2, <1>3, <2>1, <2>2, CacheJoins, JoinYoung
  <2>4. TypeOK'
    BY <1>2, <2>1, JoinTyped DEF EnterGate, IInv, TypeOK, twinVars, connVars
  <2>5. RoomYoung' /\ LookupHeld' /\ AnswerYoung'
    BY <2>1, <2>3 DEF EnterGate, IInv, RoomYoung, LookupHeld, AnswerYoung, twinVars, connVars
  <2> QED BY <1>1, <2>4, <2>5 DEF IInv
<1>4. CASE ~Fresh
  <2>1. lookup' = Sent(0) /\ gate' = gate /\ room' = room
    BY <1>4 DEF EnterGate
  <2>2. TypeOK'
    <3>1. lookup' \in Lookups
      BY <2>1, SentShape
    <3> QED BY <2>1, <3>1 DEF EnterGate, IInv, TypeOK, Lookups, twinVars, connVars
  <2>3. AnswerYoung' /\ LookupHeld'
    BY <1>2, <2>1, SentShape DEF AnswerYoung, LookupHeld
  <2>4. RoomYoung'
    BY <2>1 DEF EnterGate, IInv, RoomYoung, twinVars, connVars
  <2> QED BY <1>1, <2>2, <2>3, <2>4 DEF IInv
<1> QED BY <1>3, <1>4

(* digital-twin answers with the domains of this moment.                   *)
LEMMA TwinReadsKeeps ==
  ASSUME IInv, \A d \in domains : gone[d] = 0, TwinReads
  PROVE  IInv'
<1> USE SocketsAssumption
<1>1. lookup' = [lookup EXCEPT !.step = "read", !.answer = domains] /\ lookup.step = "sent"
  BY DEF TwinReads
<1>2. TypeOK'
  BY <1>1 DEF TwinReads, IInv, TypeOK, twinVars, connVars
<1>3. lookup'.answer = domains /\ lookup'.age = lookup.age /\ lookup.age \in Nat
  BY <1>1 DEF IInv, TypeOK
<1>4. AnswerYoung'
  BY <1>3 DEF TwinReads, AnswerYoung, twinVars
<1>5. CacheYoung' /\ NobodyOld' /\ RoomYoung'
  BY DEF TwinReads, IInv, CacheYoung, Fresh, NobodyOld, RoomYoung, twinVars, connVars
<1>6. LookupHeld'
  BY <1>1 DEF TwinReads, IInv, LookupHeld
<1> QED BY <1>2, <1>4, <1>5, <1>6 DEF IInv

LEMMA AnsweredKeeps ==
  ASSUME IInv, Answered
  PROVE  IInv'
<1> USE SocketsAssumption
<1>1. gate \in Seq(Socket) /\ gate # <<>> /\ Head(gate) \in Socket /\ Tail(gate) \in Seq(Socket)
  BY DEF Answered, IInv, TypeOK, LookupHeld
<1>2. /\ lookup.answer \in SUBSET Domain
      /\ \A d \in lookup.answer : gone[d] \in Nat /\ gone[d] <= TIMEOUT
  BY DEF Answered, IInv, TypeOK, AnswerYoung, Bound
<1>3. \A t \in room' : t \in up /\ \E d \in claims[t] : gone[d] < TIMEOUT + TTL + age[t]
  <2>1. \A d \in lookup.answer : gone[d] < TIMEOUT + TTL
    BY <1>2
  <2> QED BY <1>1, <1>2, <2>1, JoinYoung DEF Answered
<1>4. RoomYoung'
  BY <1>3 DEF Answered, RoomYoung, twinVars, connVars
<1>5. TypeOK'
  <2>1. cache' \in [domains : SUBSET Domain, age : 0 .. TTL]
    BY <1>2 DEF Answered, Remember
  <2>2. /\ gate' \in Seq(Socket)
        /\ lookup' \in [step : {"none", "sent", "read"}, attempts : 0 .. 1,
                      age : 0 .. TIMEOUT, answer : SUBSET Domain]
    BY <1>1 DEF Answered, LeaveGate, NoLookup
  <2>3. room' \subseteq Socket
    BY <1>1, <1>2, JoinTyped DEF Answered, IInv
  <2> QED
    BY <2>1, <2>2, <2>3 DEF Answered, IInv, TypeOK, twinVars, connVars
<1>6. CacheYoung'
  BY <1>2 DEF Answered, CacheYoung, Remember, twinVars
<1>7. AnswerYoung' /\ LookupHeld' /\ NobodyOld'
  BY DEF Answered, IInv, AnswerYoung, LookupHeld, NobodyOld, LeaveGate, NoLookup, connVars
<1> QED BY <1>4, <1>5, <1>6, <1>7 DEF IInv

LEMMA RetryKeeps ==
  ASSUME IInv, Retry
  PROVE  IInv'
<1> USE SocketsAssumption
<1>1. TypeOK'
  <2>1. lookup' \in Lookups
    BY SentShape DEF Retry
  <2> QED BY <2>1 DEF Retry, IInv, TypeOK, Lookups, twinVars, connVars
<1>2. AnswerYoung' /\ LookupHeld'
  BY SentShape DEF Retry, IInv, AnswerYoung, LookupHeld
<1>3. CacheYoung' /\ NobodyOld' /\ RoomYoung'
  BY DEF Retry, IInv, CacheYoung, Fresh, NobodyOld, RoomYoung, twinVars, connVars
<1> QED BY <1>1, <1>2, <1>3 DEF IInv

LEMMA UnavailableKeeps ==
  ASSUME IInv, Unavailable
  PROVE  IInv'
<1> USE SocketsAssumption
<1>1. Tail(gate) \in Seq(Socket)
  BY DEF Unavailable, IInv, TypeOK, LookupHeld
<1>2. TypeOK'
  BY <1>1 DEF Unavailable, IInv, TypeOK, LeaveGate, NoLookup, twinVars, connVars
<1>3. AnswerYoung' /\ LookupHeld'
  BY DEF Unavailable, AnswerYoung, LookupHeld, LeaveGate, NoLookup
<1>4. CacheYoung' /\ NobodyOld' /\ RoomYoung'
  BY DEF Unavailable, IInv, CacheYoung, Fresh, NobodyOld, RoomYoung, twinVars, connVars
<1> QED BY <1>2, <1>3, <1>4 DEF IInv

-----------------------------------------------------------------------------
(* A sweep drops every connection that is past its lifetime.               *)
LEMMA ExpireKeeps ==
  ASSUME IInv, ExpireStaleSockets
  PROVE  IInv'
<1> USE SocketsAssumption
<1>1. PICK spared \in SUBSET up : Drop({s \in up : Expired(s, spared)})
  BY DEF ExpireStaleSockets
<1> DEFINE dropped == {s \in up : Expired(s, spared)}
<1>2. dropped \in SUBSET Socket /\ twinVars' = twinVars
  BY DEF ExpireStaleSockets, IInv, TypeOK
<1>3. /\ up' \subseteq Socket /\ claims' \in [Socket -> SUBSET Domain]
      /\ age' \in [Socket -> 0 .. LIFETIME + SWEEP] /\ room' \subseteq Socket
      /\ RoomYoung'
      /\ \A s \in up' : s \in up /\ s \notin dropped /\ age'[s] = age[s]
  BY <1>1, <1>2, DropKeeps
<1>4. TypeOK'
  BY <1>3 DEF ExpireStaleSockets, IInv, TypeOK, twinVars
<1>5. NobodyOld'
  <2> SUFFICES ASSUME NEW s \in up' PROVE age'[s] < LIFETIME + sweep'
    BY DEF NobodyOld
  <2>1. s \in up /\ ~Expired(s, spared) /\ age'[s] = age[s]
    BY <1>3
  <2>2. age[s] \in Nat /\ sweep' = 0
    BY <2>1 DEF ExpireStaleSockets, IInv, TypeOK
  <2> QED BY <2>1, <2>2 DEF Expired
<1>6. AnswerYoung' /\ CacheYoung' /\ LookupHeld'
  BY DEF ExpireStaleSockets, IInv, AnswerYoung, CacheYoung, Fresh, LookupHeld, twinVars
<1> QED BY <1>3, <1>4, <1>5, <1>6 DEF IInv

LEMMA PodRestartsKeeps ==
  ASSUME IInv, PodRestarts
  PROVE  IInv'
<1> USE SocketsAssumption
<1>1. up \in SUBSET Socket /\ Drop(up) /\ twinVars' = twinVars
  BY DEF PodRestarts, IInv, TypeOK
<1>2. /\ up' \subseteq Socket /\ claims' \in [Socket -> SUBSET Domain]
      /\ age' \in [Socket -> 0 .. LIFETIME + SWEEP] /\ room' \subseteq Socket
      /\ RoomYoung'
  BY <1>1, DropKeeps
<1>3. TypeOK'
  BY <1>2 DEF PodRestarts, IInv, TypeOK, NoLookup, twinVars
<1>4. AnswerYoung' /\ CacheYoung' /\ NobodyOld' /\ LookupHeld'
  BY DEF PodRestarts, AnswerYoung, CacheYoung, Fresh, NobodyOld, LookupHeld, NoLookup, Drop
<1> QED BY <1>2, <1>3, <1>4 DEF IInv

(* A tick makes all of them older by the same.                             *)
LEMMA TickKeeps ==
  ASSUME IInv, Tick
  PROVE  IInv'
<1> USE SocketsAssumption
<1>0. Bound \in Nat
  BY DEF SocketsAssumption, Bound
<1>1. \A d \in Domain : gone[d] \in 0 .. Bound /\ gone'[d] \in 0 .. Bound /\ gone'[d] <= gone[d] + 1
  <2> SUFFICES ASSUME NEW d \in Domain
               PROVE  gone[d] \in 0 .. Bound /\ gone'[d] \in 0 .. Bound /\ gone'[d] <= gone[d] + 1
    OBVIOUS
  <2>1. gone[d] \in 0 .. Bound
    BY DEF IInv, TypeOK
  <2>2. gone'[d] = 0 \/ gone'[d] = Capped(gone[d], Bound)
    BY DEF Tick
  <2> QED BY <1>0, <2>1, <2>2 DEF Capped
<1>2. \A s \in up : s \in Socket /\ age'[s] = age[s] + 1 /\ age[s] \in Nat
  BY DEF Tick, IInv, TypeOK
<1>3. sweep' = sweep + 1 /\ sweep \in Nat /\ sweep < SWEEP
  BY DEF Tick, IInv, TypeOK
<1>4. NobodyOld'
  <2> SUFFICES ASSUME NEW s \in up PROVE age'[s] < LIFETIME + sweep'
    BY DEF Tick, NobodyOld
  <2>1. age[s] < LIFETIME + sweep
    BY DEF IInv, NobodyOld
  <2> QED BY <1>2, <1>3, <2>1
<1>5. TypeOK'
  <2>1. age' \in [Socket -> 0 .. LIFETIME + SWEEP]
    <3>1. \A s \in up : age[s] + 1 <= LIFETIME + SWEEP
      BY <1>2, <1>3 DEF IInv, NobodyOld
    <3> QED BY <1>2, <3>1 DEF Tick
  <2>2. gone' \in [Domain -> 0 .. Bound]
    BY <1>1 DEF Tick
  <2>3. cache' \in Caches
    <3>1. Capped(cache.age, TTL) \in 0 .. TTL
      BY Shapes DEF Capped
    <3> QED BY <3>1, Shapes DEF Tick, Caches
  <2>4. lookup' \in Lookups
    <3>1. CASE lookup.step = "none"
      BY <3>1, Shapes DEF Tick
    <3>2. CASE lookup.step # "none"
      <4>1. lookup.age + 1 \in 0 .. TIMEOUT
        BY <3>2, Shapes DEF Tick
      <4> QED BY <3>2, <4>1, Shapes DEF Tick, Lookups
    <3> QED BY <3>1, <3>2
  <2>5. sweep' \in 0 .. SWEEP
    BY <1>3
  <2>6. UNCHANGED <<domains, gate, up, claims, room>>
    BY DEF Tick
  <2> QED BY <2>1, <2>2, <2>3, <2>4, <2>5, <2>6 DEF IInv, TypeOK, Caches, Lookups
<1>6. AnswerYoung'
  <2> SUFFICES ASSUME lookup'.step = "read", NEW d \in lookup'.answer
               PROVE  gone'[d] <= lookup'.age
    BY DEF AnswerYoung
  <2>1. /\ lookup.step = "read" /\ d \in lookup.answer
        /\ lookup'.age = lookup.age + 1 /\ lookup.age \in Nat
    <3>1. lookup.step # "none"
      BY DEF Tick
    <3>2. lookup' = [lookup EXCEPT !.age = @ + 1] /\ lookup \in Lookups
      BY <3>1, Shapes DEF Tick
    <3> QED BY <3>2 DEF Lookups
  <2>2. d \in Domain /\ gone[d] <= lookup.age
    BY <2>1 DEF IInv, TypeOK, AnswerYoung
  <2> QED BY <1>1, <2>1, <2>2
<1>7. CacheYoung'
  <2> SUFFICES ASSUME Fresh', NEW d \in cache'.domains
               PROVE  gone'[d] <= TIMEOUT + cache'.age
    BY DEF CacheYoung
  <2>1. Fresh /\ d \in cache.domains /\ cache'.age = cache.age + 1 /\ cache.age \in Nat
    BY DEF Tick, IInv, TypeOK, Fresh, Capped
  <2>2. d \in Domain /\ gone[d] <= TIMEOUT + cache.age
    BY <2>1 DEF IInv, TypeOK, CacheYoung
  <2> QED BY <1>1, <2>1, <2>2
<1>8. RoomYoung'
  <2> SUFFICES ASSUME NEW s \in room
               PROVE  s \in up /\ \E d \in claims[s] : gone'[d] < TIMEOUT + TTL + age'[s]
    BY DEF Tick, RoomYoung
  <2>1. PICK d \in claims[s] : gone[d] < TIMEOUT + TTL + age[s]
    BY DEF IInv, RoomYoung
  <2>2. s \in up /\ d \in Domain
    BY DEF IInv, TypeOK, RoomYoung
  <2>3. gone'[d] < TIMEOUT + TTL + age'[s]
    BY <1>1, <1>2, <2>1, <2>2
  <2> QED BY <2>2, <2>3
<1>9. LookupHeld'
  BY DEF Tick, IInv, LookupHeld
<1> QED BY <1>4, <1>5, <1>6, <1>7, <1>8, <1>9 DEF IInv

-----------------------------------------------------------------------------
(* The domains of this moment have not been gone for any time.             *)
Present == \A d \in domains : gone[d] = 0

LEMMA InitPresent == Init => Present
BY DEF Init, Present

LEMMA NextPresent ==
  ASSUME IInv, Present, [Next]_vars
  PROVE  Present'
<1>1. CASE \E new \in SUBSET Domain : EditDomains(new)
  BY <1>1 DEF EditDomains, Present
<1>2. CASE Tick
  BY <1>2 DEF Tick, Present, IInv, TypeOK
<1>3. CASE UNCHANGED twinVars
  BY <1>3 DEF Present, twinVars
<1>4. (\E new \in SUBSET Domain : EditDomains(new)) \/ Tick \/ UNCHANGED twinVars
  BY DEF Next, vars, Connect, Disconnect, Subscribe, Unsubscribe, EnterGate, TwinReads,
         Answered, Retry, Unavailable, ExpireStaleSockets, PodRestarts
<1> QED BY <1>1, <1>2, <1>3, <1>4

(* Every step keeps the invariant.                                         *)
THEOREM NextIInv ==
  ASSUME IInv, Present, [Next]_vars
  PROVE  IInv'
<1>1. CASE UNCHANGED vars
  BY <1>1 DEF IInv, TypeOK, AnswerYoung, CacheYoung, Fresh, NobodyOld, RoomYoung, LookupHeld,
              vars, twinVars, connVars
<1>2. CASE \E new \in SUBSET Domain : EditDomains(new)
  BY <1>2, EditKeeps
<1>3. CASE \E s \in Socket :
             (\E has \in SUBSET Domain : Connect(s, has)) \/ Disconnect(s)
  BY <1>3, ConnectKeeps, DisconnectKeeps
<1>4. CASE \E s \in Socket : Subscribe(s) \/ Unsubscribe(s)
  BY <1>4, SubscribeKeeps, UnsubscribeKeeps
<1>5. CASE EnterGate \/ TwinReads \/ Answered \/ Retry \/ Unavailable
  BY <1>5, EnterGateKeeps, TwinReadsKeeps, AnsweredKeeps, RetryKeeps, UnavailableKeeps DEF Present
<1>6. CASE ExpireStaleSockets \/ PodRestarts \/ Tick
  BY <1>6, ExpireKeeps, PodRestartsKeeps, TickKeeps
<1> QED BY <1>1, <1>2, <1>3, <1>4, <1>5, <1>6 DEF Next

(* Whoever is in the room had read access within the bound.                *)
LEMMA RoomBound == IInv => RoomFollowsDomains
<1> USE SocketsAssumption
<1> SUFFICES ASSUME IInv, NEW s \in room
             PROVE  \E d \in claims[s] : gone[d] < Bound
  BY DEF RoomFollowsDomains
<1>1. PICK d \in claims[s] : gone[d] < TIMEOUT + TTL + age[s]
  BY DEF IInv, RoomYoung
<1>2. s \in up /\ d \in Domain /\ gone[d] \in Nat /\ age[s] \in Nat /\ sweep \in 0 .. SWEEP
  BY DEF IInv, TypeOK, RoomYoung, Bound
<1>3. age[s] < LIFETIME + sweep
  BY <1>2 DEF IInv, NobodyOld
<1>4. gone[d] < TIMEOUT + TTL + LIFETIME + SWEEP
  BY <1>1, <1>2, <1>3
<1> QED BY <1>1, <1>4 DEF Bound

LEMMA Inductive == Spec => [](IInv /\ Present)
<1>1. Init => IInv /\ Present
  BY InitIInv, InitPresent
<1>2. (IInv /\ Present) /\ [Next]_vars => (IInv /\ Present)'
  BY NextIInv, NextPresent
<1> QED BY <1>1, <1>2, PTL DEF Spec

(* Types, for any constants.                                               *)
THEOREM TypeCorrect == Spec => []TypeOK
<1>1. IInv => TypeOK
  BY DEF IInv
<1> QED BY <1>1, Inductive, PTL

(* Nobody hears of a building longer than the bound after it stopped being *)
(* theirs to read, however many connections, domains and edits there are.  *)
THEOREM RoomIsRecent == Spec => []RoomFollowsDomains
BY RoomBound, Inductive, PTL

-----------------------------------------------------------------------------
(* chat.  A text is made of what the agent's turns said.                   *)
Texts == SUBSET (Chat!Delta \cup Chat!IDK)
Runs == [step : {"none", "thinking", "answered", "cut"}, hop : Nat, said : SUBSET Chat!Delta,
         answer : Texts]
Exchanges == [step : {"none", "admitted", "streaming", "persisting", "ended"}, text : Texts,
              newTitle : BOOLEAN]
PagesOf == [state : {"empty", "streaming", "complete", "discarded"}, text : Texts]

ChatType ==
  /\ run \in [Ask -> Runs]
  /\ there \in BOOLEAN /\ title \in Ask \cup {Untitled, Chosen}
  /\ kept \in Seq([by : Ask, text : Texts])
  /\ exchange \in [Ask -> Exchanges] /\ page \in [Ask -> PagesOf]
  /\ busiest \in Nat

(* What waits to be appended is what the agent settled on.                 *)
PersistingInv ==
  \A a \in Ask : exchange[a].step = "persisting" =>
    run[a].step = "answered" /\ exchange[a].text = run[a].answer

(* What is kept is that answer, of a question that has ended, once.        *)
KeptInv ==
  \A i \in DOMAIN kept :
    /\ exchange[kept[i].by].step = "ended"
    /\ run[kept[i].by].step = "answered" /\ kept[i].text = run[kept[i].by].answer
    /\ \A j \in DOMAIN kept : kept[j].by = kept[i].by => j = i

CompleteInv ==
  \A a \in Ask : page[a].state = "complete" =>
    /\ exchange[a].step = "ended"
    /\ \E i \in DOMAIN kept : kept[i].by = a /\ kept[i].text = page[a].text

TitleInv == title \in Ask => \E i \in DOMAIN kept : kept[i].by = title

(* Whoever is being answered has been counted as one of the busiest, and   *)
(* takes up room already.                                                  *)
RoomInv ==
  /\ IsFiniteSet(Chat!UnderWay)
  /\ 2 * (Len(kept) + Cardinality(Chat!UnderWay)) <=
       MAX_MESSAGES + 2 * Chat!Max2(0, busiest - 1)

ChatInv == ChatType /\ PersistingInv /\ KeptInv /\ CompleteInv /\ TitleInv /\ RoomInv

(* Conversations counts as this module does.                               *)
LEMMA ChatCounts == \A S : Chat!Cardinality(S) = Cardinality(S)
BY DEF Chat!Cardinality, Cardinality

(* What is in the conversation is who asked, and a text.                   *)
LEMMA KeptTyped ==
  ASSUME ChatType
  PROVE  /\ Len(kept) \in Nat /\ DOMAIN kept = 1 .. Len(kept)
         /\ \A i \in DOMAIN kept : /\ kept[i] \in [by : Ask, text : Texts]
                                   /\ kept[i].by \in Ask
<1> DEFINE Kept == [by : Ask, text : Texts]
<1>1. kept \in Seq(Kept)
  BY DEF ChatType
<1>2. \A k \in Kept : k.by \in Ask
  OBVIOUS
<1> HIDE DEF Kept
<1>3. /\ Len(kept) \in Nat /\ DOMAIN kept = 1 .. Len(kept)
      /\ \A i \in 1 .. Len(kept) : kept[i] \in Kept
  BY <1>1
<1>4. \A i \in DOMAIN kept : kept[i] \in Kept /\ kept[i].by \in Ask
  BY <1>2, <1>3
<1> QED
  BY <1>3, <1>4 DEF Kept

LEMMA ChatInit ==
  ASSUME Chat!ConversationsAssumption, Chat!Init
  PROVE  ChatInv
<1>1. /\ Chat!NotAsked \in Runs /\ Chat!NotSent \in Exchanges
      /\ Chat!NotSent.step = "none"
      /\ [state |-> "empty", text |-> {}] \in PagesOf
  BY DEF Chat!NotAsked, Chat!NotSent, Runs, Exchanges, PagesOf, Texts
<1>2. ChatType
  BY <1>1 DEF Chat!Init, Chat!AgentInit, ChatType
<1>3. Chat!UnderWay = {}
  BY <1>1 DEF Chat!Init, Chat!UnderWay
<1>4. IsFiniteSet(Chat!UnderWay) /\ Cardinality(Chat!UnderWay) = 0
  BY <1>3, FS_EmptySet
<1>5. RoomInv
  BY <1>4 DEF Chat!Init, RoomInv, Chat!Max2, Chat!ConversationsAssumption
<1>6. PersistingInv /\ KeptInv /\ CompleteInv
  BY <1>1 DEF Chat!Init, PersistingInv, KeptInv, CompleteInv
<1>7. TitleInv
  BY DEF Chat!Init, TitleInv, Chat!ConversationsAssumption
<1> QED
  BY <1>2, <1>5, <1>6, <1>7 DEF ChatInv

LEMMA StoreInv ==
  ASSUME Chat!ConversationsAssumption, ChatInv,
         Chat!Delete \/ \E new \in {Untitled, Chosen} : Chat!Rename(new)
  PROVE  ChatInv'
<1>1. /\ UNCHANGED <<run, kept, exchange, page, busiest>> /\ there' \in BOOLEAN
      /\ title' \in {title, Untitled, Chosen}
  BY DEF Chat!Delete, Chat!Rename, ChatInv, ChatType
<1>2. ChatType'
  BY <1>1 DEF ChatInv, ChatType
<1>3. PersistingInv' /\ KeptInv' /\ CompleteInv'
  BY <1>1 DEF ChatInv, PersistingInv, KeptInv, CompleteInv
<1>4. TitleInv'
  BY <1>1 DEF ChatInv, TitleInv, Chat!ConversationsAssumption
<1>5. RoomInv'
  BY <1>1 DEF ChatInv, RoomInv, Chat!UnderWay
<1> QED
  BY <1>2, <1>3, <1>4, <1>5 DEF ChatInv

(* A question is admitted or refused, and nothing of it is kept yet.       *)
LEMMA AdmitInv ==
  ASSUME Chat!ConversationsAssumption, ChatInv, NEW a \in Ask, Chat!Admit(a) \/ Chat!Refuse(a)
  PROVE  ChatInv'
<1> DEFINE next == exchange'[a]
<1>1. /\ exchange[a].step = "none"
      /\ next \in Exchanges /\ next.step \in {"admitted", "ended"}
      /\ exchange' = [exchange EXCEPT ![a] = next]
      /\ page' \in [Ask -> PagesOf] /\ page'[a].state # "complete"
      /\ \A b \in Ask \ {a} : page'[b] = page[b]
      /\ UNCHANGED <<run, there, title, kept>>
      /\ next.step = "admitted" =>
            /\ Chat!HasRoomForExchange
            /\ busiest' = Chat!Max2(busiest, Cardinality(Chat!UnderWay) + 1)
      /\ next.step = "ended" => busiest' = busiest
  <2>1. CASE Chat!Admit(a)
    <3>1. PICK named \in BOOLEAN :
            exchange' = [exchange EXCEPT ![a] = [Chat!NotSent EXCEPT !.step = "admitted",
                                                                    !.newTitle = named]]
      <4>1. Chat!NamesIt \in BOOLEAN
        BY DEF Chat!NamesIt
      <4> QED
        BY <2>1, <4>1 DEF Chat!Admit
    <3>2. next \in Exchanges /\ next.step = "admitted" /\ exchange' = [exchange EXCEPT ![a] = next]
      BY <3>1 DEF ChatInv, ChatType, Chat!NotSent, Exchanges, Texts
    <3>3. /\ exchange[a].step = "none" /\ page' = [page EXCEPT ![a].state = "streaming"]
          /\ Chat!HasRoomForExchange /\ UNCHANGED <<run, there, title, kept>>
          /\ busiest' = Chat!Max2(busiest, Cardinality(Chat!UnderWay) + 1)
      BY <2>1, ChatCounts DEF Chat!Admit, Chat!storeVars
    <3>4. /\ page' \in [Ask -> PagesOf] /\ page'[a].state # "complete"
          /\ \A b \in Ask \ {a} : page'[b] = page[b]
      BY <3>3 DEF ChatInv, ChatType, PagesOf
    <3> HIDE DEF next
    <3> QED
      BY <3>2, <3>3, <3>4
  <2>2. CASE Chat!Refuse(a)
    <3>1. exchange' = [exchange EXCEPT ![a].step = "ended"]
      BY <2>2 DEF Chat!Refuse
    <3>2. next \in Exchanges /\ next.step = "ended" /\ exchange' = [exchange EXCEPT ![a] = next]
      BY <3>1 DEF ChatInv, ChatType, Exchanges
    <3>3. /\ exchange[a].step = "none" /\ page' = [page EXCEPT ![a].state = "discarded"]
          /\ UNCHANGED <<run, there, title, kept, busiest>>
      BY <2>2 DEF Chat!Refuse, Chat!storeVars
    <3>4. /\ page' \in [Ask -> PagesOf] /\ page'[a].state # "complete"
          /\ \A b \in Ask \ {a} : page'[b] = page[b]
      BY <3>3 DEF ChatInv, ChatType, PagesOf
    <3> HIDE DEF next
    <3> QED
      BY <3>2, <3>3, <3>4
  <2> QED
    BY <2>1, <2>2
<1>2. \A b \in Ask \ {a} : exchange'[b] = exchange[b]
  BY <1>1 DEF ChatInv, ChatType
<1> HIDE DEF next
<1>3. next = exchange'[a]
  BY DEF next
<1>4. IsFiniteSet(Chat!UnderWay) /\ Cardinality(Chat!UnderWay) \in Nat
  BY FS_CardinalityType DEF ChatInv, RoomInv
<1>5. Len(kept) \in Nat /\ busiest \in Nat /\ MAX_MESSAGES \in Nat
  BY DEF ChatInv, ChatType, Chat!ConversationsAssumption
<1>6. ChatType'
  <2>1. exchange' \in [Ask -> Exchanges]
    BY <1>1 DEF ChatInv, ChatType
  <2>2. busiest' \in Nat
    BY <1>1, <1>4, <1>5 DEF Chat!Max2
  <2> QED
    BY <1>1, <2>1, <2>2 DEF ChatInv, ChatType
<1>7. PersistingInv'
  BY <1>1, <1>2, <1>3 DEF ChatInv, PersistingInv
<1>8. KeptInv'
  <2>1. \A i \in DOMAIN kept : kept[i].by \in Ask /\ exchange[kept[i].by].step = "ended"
    BY KeptTyped DEF ChatInv, KeptInv
  <2>2. \A i \in DOMAIN kept : exchange'[kept[i].by].step = "ended"
    BY <1>1, <1>2, <1>3, <2>1
  <2> QED
    <3>1. kept' = kept /\ run' = run
      BY <1>1
    <3> QED
      BY <2>2, <3>1 DEF ChatInv, KeptInv
<1>9. CompleteInv'
  BY <1>1, <1>2, <1>3 DEF ChatInv, CompleteInv
<1>10. TitleInv'
  BY <1>1 DEF ChatInv, TitleInv
<1>11. RoomInv'
  <2>1. CASE next.step = "ended"
    <3>1. Chat!UnderWay' = Chat!UnderWay
      BY <1>1, <1>2, <1>3, <2>1 DEF Chat!UnderWay
    <3> QED
      BY <1>1, <2>1, <3>1 DEF ChatInv, RoomInv
  <2>2. CASE next.step = "admitted"
    <3>1. Chat!UnderWay' = Chat!UnderWay \cup {a} /\ a \notin Chat!UnderWay
      BY <1>1, <1>2, <1>3, <2>2 DEF Chat!UnderWay
    <3>2. /\ IsFiniteSet(Chat!UnderWay')
          /\ Cardinality(Chat!UnderWay') = Cardinality(Chat!UnderWay) + 1
      BY <1>4, <3>1, FS_AddElement
    <3>3. 2 * Len(kept) + 2 <= MAX_MESSAGES
      BY <1>1, <2>2 DEF Chat!HasRoomForExchange
    <3>4. busiest' = Chat!Max2(busiest, Cardinality(Chat!UnderWay) + 1)
      BY <1>1, <2>2
    <3>5. 2 * (Len(kept) + (Cardinality(Chat!UnderWay) + 1)) <=
            MAX_MESSAGES + 2 * Chat!Max2(0, busiest' - 1)
      BY <1>4, <1>5, <3>3, <3>4 DEF Chat!Max2
    <3> QED
      BY <1>1, <3>2, <3>5 DEF RoomInv
  <2> QED
    BY <1>1, <2>1, <2>2
<1> QED
  BY <1>6, <1>7, <1>8, <1>9, <1>10, <1>11 DEF ChatInv

(* The exchange goes on: what it had is not kept yet.                      *)
LEMMA GoingOn ==
  ASSUME ChatInv, NEW a \in Ask,
         run' \in [Ask -> Runs], exchange' \in [Ask -> Exchanges], page' \in [Ask -> PagesOf],
         \A b \in Ask \ {a} : run'[b] = run[b] /\ exchange'[b] = exchange[b] /\ page'[b] = page[b],
         UNCHANGED <<there, title, kept, busiest>>,
         exchange[a].step # "ended", exchange'[a].step # "ended", page'[a].state = page[a].state,
         a \in Chat!UnderWay <=> (a \in Chat!UnderWay)',
         exchange'[a].step = "persisting" =>
            run'[a].step = "answered" /\ exchange'[a].text = run'[a].answer
  PROVE  ChatInv'
<1>1. ChatType'
  BY DEF ChatInv, ChatType
<1>2. PersistingInv'
  BY DEF ChatInv, PersistingInv
<1>3. KeptInv'
  <2>1. \A i \in DOMAIN kept : kept[i].by \in Ask /\ exchange[kept[i].by].step = "ended"
    BY KeptTyped DEF ChatInv, KeptInv
  <2>2. \A i \in DOMAIN kept : /\ exchange'[kept[i].by] = exchange[kept[i].by]
                               /\ run'[kept[i].by] = run[kept[i].by]
    BY <2>1
  <2> QED
    BY <2>2 DEF ChatInv, KeptInv
<1>4. CompleteInv'
  <2>1. page[a].state # "complete"
    BY DEF ChatInv, CompleteInv
  <2> QED
    BY <2>1 DEF ChatInv, CompleteInv
<1>5. TitleInv'
  BY DEF ChatInv, TitleInv
<1>6. RoomInv'
  <2>1. Chat!UnderWay' = Chat!UnderWay
    BY DEF Chat!UnderWay
  <2> QED
    BY <2>1 DEF ChatInv, RoomInv
<1> QED
  BY <1>1, <1>2, <1>3, <1>4, <1>5, <1>6 DEF ChatInv

(* The agent's turns, which the model takes one after the other.           *)
LEMMA ToolHopInv ==
  ASSUME ChatInv, NEW a \in Ask, Chat!ToolHop(a)
  PROVE  ChatInv'
<1>1. /\ run' = [run EXCEPT ![a].hop = @ + 1, ![a].said = {}]
      /\ run[a].step = "thinking"
      /\ UNCHANGED <<there, title, kept, exchange, page, busiest>>
  BY DEF Chat!ToolHop, Chat!RunToolCalls, Chat!Thinking, Chat!storeVars
<1>2. /\ run' \in [Ask -> Runs]
      /\ \A b \in Ask : run[b].step = "answered" => run'[b] = run[b]
  <2>1. run \in [Ask -> Runs] /\ run[a] \in Runs /\ run[a].hop + 1 \in Nat
    BY DEF ChatInv, ChatType, Runs
  <2>2. [run[a] EXCEPT !.hop = @ + 1, !.said = {}] \in Runs
    BY <2>1 DEF Runs
  <2>3. run' = [run EXCEPT ![a] = [run[a] EXCEPT !.hop = @ + 1, !.said = {}]]
    BY <1>1, <2>1
  <2> QED
    BY <1>1, <2>1, <2>2, <2>3
<1>3. ChatType'
  BY <1>1, <1>2 DEF ChatInv, ChatType
<1>4. PersistingInv' /\ CompleteInv' /\ TitleInv'
  BY <1>1, <1>2 DEF ChatInv, PersistingInv, CompleteInv, TitleInv
<1>5. KeptInv'
  <2>1. \A i \in DOMAIN kept : kept[i].by \in Ask /\ run[kept[i].by].step = "answered"
    BY KeptTyped DEF ChatInv, KeptInv
  <2>2. \A i \in DOMAIN kept : run'[kept[i].by] = run[kept[i].by]
    BY <1>2, <2>1
  <2>3. kept' = kept /\ exchange' = exchange
    BY <1>1
  <2> QED
    BY <2>2, <2>3 DEF ChatInv, KeptInv
<1>6. RoomInv'
  BY <1>1 DEF ChatInv, RoomInv, Chat!UnderWay
<1> QED
  BY <1>3, <1>4, <1>5, <1>6 DEF ChatInv

LEMMA AskAgentInv ==
  ASSUME ChatInv, NEW a \in Ask, Chat!AskAgent(a)
  PROVE  ChatInv'
<1>1. /\ exchange[a].step = "admitted"
      /\ run' = [run EXCEPT ![a] = [Chat!NotAsked EXCEPT !.step = "thinking"]]
      /\ exchange' = [exchange EXCEPT ![a].step = "streaming"]
      /\ UNCHANGED <<there, title, kept, page, busiest>>
  BY DEF Chat!AskAgent, Chat!StartRun, Chat!storeVars
<1>2. [Chat!NotAsked EXCEPT !.step = "thinking"] \in Runs
  BY DEF Chat!NotAsked, Runs, Texts
<1>3. run' \in [Ask -> Runs] /\ \A b \in Ask \ {a} : run'[b] = run[b]
  BY <1>1, <1>2 DEF ChatInv, ChatType
<1>4. /\ exchange' \in [Ask -> Exchanges] /\ exchange'[a].step = "streaming"
      /\ \A b \in Ask \ {a} : exchange'[b] = exchange[b]
  BY <1>1 DEF ChatInv, ChatType, Exchanges
<1>5. page' \in [Ask -> PagesOf] /\ page' = page
  BY <1>1 DEF ChatInv, ChatType
<1>6. a \in Chat!UnderWay /\ (a \in Chat!UnderWay)'
  BY <1>1, <1>4 DEF Chat!UnderWay
<1> QED
  BY <1>1, <1>3, <1>4, <1>5, <1>6, GoingOn

LEMMA ReceiveTokenInv ==
  ASSUME ChatInv, NEW a \in Ask, NEW delta \in Chat!Delta, Chat!ReceiveToken(a, delta)
  PROVE  ChatInv'
<1>1. /\ exchange[a].step = "streaming"
      /\ run' = [run EXCEPT ![a].said = @ \cup {delta}]
      /\ exchange' = [exchange EXCEPT ![a].text = @ \cup {delta}]
      /\ page' = [page EXCEPT ![a].text = @ \cup {delta}]
      /\ UNCHANGED <<there, title, kept, busiest>>
  BY DEF Chat!ReceiveToken, Chat!Says, Chat!storeVars
<1>2. run' \in [Ask -> Runs] /\ \A b \in Ask \ {a} : run'[b] = run[b]
  BY <1>1 DEF ChatInv, ChatType, Runs
<1>3. /\ exchange' \in [Ask -> Exchanges] /\ exchange'[a].step = "streaming"
      /\ \A b \in Ask \ {a} : exchange'[b] = exchange[b]
  BY <1>1 DEF ChatInv, ChatType, Exchanges, Texts
<1>4. /\ page' \in [Ask -> PagesOf] /\ page'[a].state = page[a].state
      /\ \A b \in Ask \ {a} : page'[b] = page[b]
  BY <1>1 DEF ChatInv, ChatType, PagesOf, Texts
<1>5. a \in Chat!UnderWay /\ (a \in Chat!UnderWay)'
  BY <1>1, <1>3 DEF Chat!UnderWay
<1> QED
  BY <1>1, <1>2, <1>3, <1>4, <1>5, GoingOn

LEMMA ReceiveDoneInv ==
  ASSUME ChatInv, NEW a \in Ask, Chat!ReceiveDone(a)
  PROVE  ChatInv'
<1>1. PICK answer \in Chat!Text :
        /\ exchange[a].step = "streaming"
        /\ run' = [run EXCEPT ![a] = [Chat!NotAsked EXCEPT !.step = "answered",
                                                           !.answer = answer]]
        /\ exchange' = [exchange EXCEPT ![a].step = "persisting", ![a].text = answer]
        /\ UNCHANGED <<there, title, kept, page, busiest>>
  BY DEF Chat!ReceiveDone, Chat!Answers, Chat!FinalText, Chat!storeVars
<1>2. answer \in Texts
  BY DEF Chat!Text, Texts
<1>3. /\ [Chat!NotAsked EXCEPT !.step = "answered", !.answer = answer] \in Runs
      /\ [Chat!NotAsked EXCEPT !.step = "answered", !.answer = answer].step = "answered"
      /\ [Chat!NotAsked EXCEPT !.step = "answered", !.answer = answer].answer = answer
  BY <1>2 DEF Chat!NotAsked, Runs
<1>4. /\ run' \in [Ask -> Runs] /\ \A b \in Ask \ {a} : run'[b] = run[b]
      /\ run'[a].step = "answered" /\ run'[a].answer = answer
  BY <1>1, <1>3 DEF ChatInv, ChatType
<1>5. /\ exchange' \in [Ask -> Exchanges]
      /\ exchange'[a].step = "persisting" /\ exchange'[a].text = answer
      /\ \A b \in Ask \ {a} : exchange'[b] = exchange[b]
  BY <1>1, <1>2 DEF ChatInv, ChatType, Exchanges
<1>6. page' \in [Ask -> PagesOf] /\ page' = page
  BY <1>1 DEF ChatInv, ChatType
<1>7. a \in Chat!UnderWay /\ (a \in Chat!UnderWay)'
  BY <1>1, <1>5 DEF Chat!UnderWay
<1> QED
  BY <1>1, <1>4, <1>5, <1>6, <1>7, GoingOn

-----------------------------------------------------------------------------
(* The exchange ends; it takes no more room than it took under way.        *)
LEMMA RoomLeft ==
  ASSUME Chat!ConversationsAssumption, ChatInv, NEW a \in Chat!UnderWay,
         exchange'[a].step = "ended", \A b \in Ask \ {a} : exchange'[b] = exchange[b],
         Len(kept') \in {Len(kept), Len(kept) + 1}, busiest' = busiest
  PROVE  RoomInv'
<1>1. Chat!UnderWay' = Chat!UnderWay \ {a}
  BY DEF Chat!UnderWay
<1>2. /\ IsFiniteSet(Chat!UnderWay') /\ Cardinality(Chat!UnderWay) \in Nat
      /\ Cardinality(Chat!UnderWay') = Cardinality(Chat!UnderWay) - 1
  BY <1>1, FS_RemoveElement, FS_CardinalityType DEF ChatInv, RoomInv
<1>3. Len(kept) \in Nat /\ busiest \in Nat /\ MAX_MESSAGES \in Nat
  BY DEF ChatInv, ChatType, Chat!ConversationsAssumption
<1>4. /\ Chat!Max2(0, busiest - 1) \in Nat
      /\ 2 * (Len(kept) + Cardinality(Chat!UnderWay)) <=
           MAX_MESSAGES + 2 * Chat!Max2(0, busiest - 1)
  BY <1>3 DEF ChatInv, RoomInv, Chat!Max2
<1>5. 2 * (Len(kept') + (Cardinality(Chat!UnderWay) - 1)) <=
        MAX_MESSAGES + 2 * Chat!Max2(0, busiest - 1)
  BY <1>2, <1>3, <1>4
<1> QED
  BY <1>2, <1>5 DEF RoomInv

(* It ends and nothing of it is kept.                                      *)
LEMMA EndsWithout ==
  ASSUME Chat!ConversationsAssumption, ChatInv, NEW a \in Chat!UnderWay,
         run' \in [Ask -> Runs], exchange' \in [Ask -> Exchanges], page' \in [Ask -> PagesOf],
         \A b \in Ask \ {a} : run'[b] = run[b] /\ exchange'[b] = exchange[b] /\ page'[b] = page[b],
         UNCHANGED <<there, title, kept, busiest>>,
         exchange'[a].step = "ended", page'[a].state = "discarded"
  PROVE  ChatInv'
<1>1. a \in Ask /\ exchange[a].step # "ended"
  BY DEF Chat!UnderWay
<1>2. ChatType'
  BY DEF ChatInv, ChatType
<1>3. PersistingInv'
  BY DEF ChatInv, PersistingInv
<1>4. KeptInv'
  <2>1. \A i \in DOMAIN kept : kept[i].by \in Ask /\ exchange[kept[i].by].step = "ended"
    BY KeptTyped DEF ChatInv, KeptInv
  <2>2. \A i \in DOMAIN kept : /\ exchange'[kept[i].by] = exchange[kept[i].by]
                               /\ run'[kept[i].by] = run[kept[i].by]
    BY <1>1, <2>1
  <2> QED
    BY <2>2 DEF ChatInv, KeptInv
<1>5. CompleteInv' /\ TitleInv'
  BY DEF ChatInv, CompleteInv, TitleInv
<1>6. RoomInv'
  BY RoomLeft
<1> QED
  BY <1>2, <1>3, <1>4, <1>5, <1>6 DEF ChatInv

(* It ends and its answer is appended, whether the page is told or not.    *)
LEMMA EndsKept ==
  ASSUME Chat!ConversationsAssumption, ChatInv, NEW a \in Ask,
         exchange[a].step = "persisting", Chat!Append2(a),
         exchange' \in [Ask -> Exchanges], page' \in [Ask -> PagesOf],
         \A b \in Ask \ {a} : exchange'[b] = exchange[b] /\ page'[b] = page[b],
         UNCHANGED <<run, busiest>>, exchange'[a].step = "ended",
         page'[a].state = "discarded" \/ page'[a].text = exchange[a].text
  PROVE  ChatInv'
<1> DEFINE new == [by |-> a, text |-> exchange[a].text]
<1>1. /\ kept' = Append(kept, new) /\ title' \in {title, a} /\ there' = there
  BY DEF Chat!Append2
<1>2. new \in [by : Ask, text : Texts] /\ new.by = a /\ new.text = exchange[a].text
  BY DEF ChatInv, ChatType, Exchanges
<1> HIDE DEF new
<1>3. Len(kept) \in Nat /\ DOMAIN kept = 1 .. Len(kept)
  BY KeptTyped DEF ChatInv
<1>4. /\ kept' \in Seq([by : Ask, text : Texts])
      /\ Len(kept') = Len(kept) + 1 /\ DOMAIN kept' = 1 .. Len(kept) + 1
      /\ \A i \in DOMAIN kept : i \in DOMAIN kept' /\ kept'[i] = kept[i]
      /\ kept'[Len(kept) + 1] = new
  BY <1>1, <1>2, <1>3 DEF ChatInv, ChatType
<1>5. \A i \in DOMAIN kept' : i \in DOMAIN kept \/ (kept'[i] = new /\ i = Len(kept) + 1)
  BY <1>3, <1>4
<1>6. /\ run[a].step = "answered" /\ exchange[a].text = run[a].answer
  BY DEF ChatInv, PersistingInv
<1>7. \A i \in DOMAIN kept : /\ kept[i].by \in Ask /\ kept[i].by # a
                             /\ exchange'[kept[i].by].step = "ended"
  <2>1. \A i \in DOMAIN kept : kept[i].by \in Ask /\ exchange[kept[i].by].step = "ended"
    BY KeptTyped DEF ChatInv, KeptInv
  <2> QED
    BY <2>1
<1>8. ChatType'
  BY <1>1, <1>4 DEF ChatInv, ChatType
<1>9. PersistingInv'
  BY DEF ChatInv, PersistingInv
<1>10. KeptInv'
  <2> SUFFICES ASSUME NEW i \in DOMAIN kept'
               PROVE  /\ exchange'[kept'[i].by].step = "ended"
                      /\ run'[kept'[i].by].step = "answered"
                      /\ kept'[i].text = run'[kept'[i].by].answer
                      /\ \A j \in DOMAIN kept' : kept'[j].by = kept'[i].by => j = i
    BY DEF KeptInv
  <2>1. CASE i \in DOMAIN kept
    <3>1. /\ kept'[i] = kept[i] /\ exchange'[kept[i].by].step = "ended" /\ kept[i].by # a
          /\ run[kept[i].by].step = "answered" /\ kept[i].text = run[kept[i].by].answer
      BY <1>4, <1>7, <2>1 DEF ChatInv, KeptInv
    <3>2. \A j \in DOMAIN kept' : kept'[j].by = kept'[i].by => j = i
      BY <1>2, <1>4, <1>5, <2>1, <3>1 DEF ChatInv, KeptInv
    <3> QED
      BY <3>1, <3>2
  <2>2. CASE i \notin DOMAIN kept
    <3>1. kept'[i] = new /\ i = Len(kept) + 1
      BY <1>5, <2>2
    <3>2. \A j \in DOMAIN kept' : kept'[j].by = a => j = i
      BY <1>4, <1>5, <1>7, <3>1
    <3> QED
      BY <1>2, <1>6, <3>1, <3>2
  <2> QED
    BY <2>1, <2>2
<1>11. CompleteInv'
  <2>1. \A b \in Ask \ {a} : page'[b].state = "complete" =>
          /\ exchange'[b].step = "ended"
          /\ \E i \in DOMAIN kept' : kept'[i].by = b /\ kept'[i].text = page'[b].text
    BY <1>4 DEF ChatInv, CompleteInv
  <2>2. page'[a].state = "complete" =>
          \E i \in DOMAIN kept' : kept'[i].by = a /\ kept'[i].text = page'[a].text
    <3>1. Len(kept) + 1 \in DOMAIN kept'
      BY <1>3, <1>4
    <3> QED
      BY <1>2, <1>4, <3>1
  <2> QED
    BY <2>1, <2>2 DEF CompleteInv
<1>12. TitleInv'
  <2>1. Len(kept) + 1 \in DOMAIN kept' /\ kept'[Len(kept) + 1].by = a
    BY <1>2, <1>3, <1>4
  <2>2. (title' = title /\ title \in Ask) => \E i \in DOMAIN kept' : kept'[i].by = title
    BY <1>4 DEF ChatInv, TitleInv
  <2> QED
    BY <1>1, <2>1, <2>2 DEF TitleInv
<1>13. RoomInv'
  <2>1. a \in Chat!UnderWay
    BY DEF Chat!UnderWay
  <2> QED
    BY <1>4, <2>1, RoomLeft
<1> QED
  BY <1>8, <1>9, <1>10, <1>11, <1>12, <1>13 DEF ChatInv

(* What End, Discard and ShowDone leave of a question.                     *)
LEMMA EndTyped ==
  ASSUME ChatInv, NEW a \in Ask, Chat!End(a), Chat!Discard(a) \/ Chat!ShowDone(a)
  PROVE  /\ exchange' \in [Ask -> Exchanges] /\ exchange'[a].step = "ended"
         /\ page' \in [Ask -> PagesOf]
         /\ \A b \in Ask \ {a} : exchange'[b] = exchange[b] /\ page'[b] = page[b]
         /\ Chat!Discard(a) => page'[a].state = "discarded"
         /\ Chat!ShowDone(a) => page'[a].text = exchange[a].text
<1>1. /\ [Chat!NotSent EXCEPT !.step = "ended"] \in Exchanges
      /\ [Chat!NotSent EXCEPT !.step = "ended"].step = "ended"
  BY DEF Chat!NotSent, Exchanges, Texts
<1>2. /\ exchange' \in [Ask -> Exchanges] /\ exchange'[a].step = "ended"
      /\ \A b \in Ask \ {a} : exchange'[b] = exchange[b]
  BY <1>1 DEF ChatInv, ChatType, Chat!End
<1>3. exchange[a].text \in Texts
  BY DEF ChatInv, ChatType, Exchanges
<1>4. CASE Chat!Discard(a)
  <2>2. /\ page' \in [Ask -> PagesOf] /\ page'[a].state = "discarded"
        /\ \A b \in Ask \ {a} : page'[b] = page[b]
    BY <1>4 DEF ChatInv, ChatType, PagesOf, Texts, Chat!Discard
  <2>3. ~Chat!ShowDone(a)
    <3>1. Chat!ShowDone(a) => page'[a].state = "complete"
      BY DEF Chat!ShowDone, ChatInv, ChatType, PagesOf
    <3> QED
      BY <2>2, <3>1
  <2> QED
    BY <1>2, <2>2, <2>3
<1>5. CASE Chat!ShowDone(a)
  <2>1. /\ page' \in [Ask -> PagesOf]
        /\ page'[a].state = "complete" /\ page'[a].text = exchange[a].text
        /\ \A b \in Ask \ {a} : page'[b] = page[b]
    BY <1>3, <1>5 DEF ChatInv, ChatType, PagesOf, Chat!ShowDone
  <2>2. ~Chat!Discard(a)
    <3>1. Chat!Discard(a) => page'[a].state = "discarded"
      BY DEF Chat!Discard, ChatInv, ChatType, PagesOf
    <3> QED
      BY <2>1, <3>1
  <2> QED
    BY <1>2, <2>1, <2>2
<1> QED
  BY <1>4, <1>5

LEMMA PersistInv ==
  ASSUME Chat!ConversationsAssumption, ChatInv, NEW a \in Ask, Chat!Persist(a)
  PROVE  ChatInv'
<1>1. exchange[a].step = "persisting" /\ a \in Chat!UnderWay
  BY DEF Chat!Persist, Chat!UnderWay
<1>2. CASE there
  BY <1>1, <1>2, EndTyped, EndsKept DEF Chat!Persist
<1>3. CASE ~there
  <2>1. UNCHANGED <<there, title, kept, busiest, run>> /\ Chat!End(a) /\ Chat!Discard(a)
    BY <1>3 DEF Chat!Persist, Chat!storeVars
  <2>2. run' \in [Ask -> Runs]
    BY <2>1 DEF ChatInv, ChatType
  <2> QED
    BY <1>1, <2>1, <2>2, EndTyped, EndsWithout
<1> QED
  BY <1>2, <1>3

LEMMA BreakOffInv ==
  ASSUME Chat!ConversationsAssumption, ChatInv, NEW a \in Ask, Chat!BreakOff(a)
  PROVE  ChatInv'
<1>1. /\ a \in Chat!UnderWay /\ Chat!CutOff(a) /\ Chat!End(a) /\ Chat!Discard(a)
      /\ busiest' = busiest
  BY DEF Chat!BreakOff
<1>2. CASE Chat!Applied(a)
  <2>1. exchange[a].step = "persisting" /\ Chat!Append2(a)
    BY <1>2 DEF Chat!Applied
  <2>2. run' = run
    BY <1>1, <2>1 DEF Chat!CutOff, Chat!Thinking, ChatInv, PersistingInv
  <2> QED
    BY <1>1, <2>1, <2>2, EndTyped, EndsKept
<1>3. CASE UNCHANGED Chat!storeVars
  <2>1. [Chat!NotAsked EXCEPT !.step = "cut"] \in Runs
    BY DEF Chat!NotAsked, Runs, Texts
  <2>2. run' \in [Ask -> Runs] /\ \A b \in Ask \ {a} : run'[b] = run[b]
    BY <1>1, <2>1 DEF Chat!CutOff, ChatInv, ChatType
  <2>3. UNCHANGED <<there, title, kept>>
    BY <1>3 DEF Chat!storeVars
  <2> QED
    BY <1>1, <2>2, <2>3, EndTyped, EndsWithout
<1> QED
  BY <1>2, <1>3 DEF Chat!BreakOff

LEMMA ChatInvAlways == Chat!Spec => []ChatInv
<1> USE PagesHold
<1>1. Chat!Init => ChatInv
  BY ChatInit
<1>2. ChatInv /\ [Chat!Next]_(Chat!vars) => ChatInv'
  <2> SUFFICES ASSUME ChatInv, [Chat!Next]_(Chat!vars)
               PROVE  ChatInv'
    OBVIOUS
  <2>1. CASE UNCHANGED Chat!vars
    <3>1. UNCHANGED <<run, there, title, kept, exchange, page, busiest>>
      BY <2>1 DEF Chat!vars, Chat!storeVars
    <3>2. ChatType' /\ PersistingInv' /\ KeptInv' /\ CompleteInv' /\ TitleInv'
      BY <3>1 DEF ChatInv, ChatType, PersistingInv, KeptInv, CompleteInv, TitleInv
    <3>3. RoomInv'
      BY <3>1 DEF ChatInv, RoomInv, Chat!UnderWay
    <3> QED
      BY <3>2, <3>3 DEF ChatInv
  <2>2. CASE Chat!Delete \/ \E new \in {Untitled, Chosen} : Chat!Rename(new)
    BY <2>2, StoreInv
  <2>3. ASSUME NEW a \in Ask, Chat!Admit(a) \/ Chat!Refuse(a)
        PROVE  ChatInv'
    BY <2>3, AdmitInv
  <2>4. ASSUME NEW a \in Ask, NEW delta \in Chat!Delta, Chat!ReceiveToken(a, delta)
        PROVE  ChatInv'
    BY <2>4, ReceiveTokenInv
  <2>5. ASSUME NEW a \in Ask,
               Chat!AskAgent(a) \/ Chat!ToolHop(a) \/ Chat!ReceiveDone(a)
                 \/ Chat!Persist(a) \/ Chat!BreakOff(a)
        PROVE  ChatInv'
    BY <2>5, AskAgentInv, ToolHopInv, ReceiveDoneInv, PersistInv, BreakOffInv
  <2> QED
    BY <2>1, <2>2, <2>3, <2>4, <2>5 DEF Chat!Next
<1> QED
  BY <1>1, <1>2, PTL DEF Chat!Spec

(* A conversation outgrows its cap only by the questions that were being   *)
(* answered along with the last one that still found room: chat counts     *)
(* messages when a question is asked and appends when it is answered.      *)
THEOREM OverrunIsBounded == Chat!Spec => []BoundedOverrun
<1>1. ChatInv => BoundedOverrun
  <2> SUFFICES ASSUME ChatInv
               PROVE  2 * Len(kept) <= MAX_MESSAGES + 2 * Chat!Max2(0, busiest - 1)
    BY DEF BoundedOverrun, Chat!BoundedOverrun
  <2>1. Cardinality(Chat!UnderWay) \in Nat /\ Len(kept) \in Nat /\ busiest \in Nat
    BY FS_CardinalityType DEF ChatInv, ChatType, RoomInv
  <2>2. Chat!Max2(0, busiest - 1) \in Nat /\ MAX_MESSAGES \in Nat
    BY <2>1, PagesHold DEF Chat!Max2, Chat!ConversationsAssumption
  <2> QED
    BY <2>1, <2>2 DEF ChatInv, RoomInv
<1> QED
  BY <1>1, ChatInvAlways, PTL

(* What chat keeps of a question is the answer that the agent settled on,  *)
(* once; a page that says it has the answer shows what is kept; and a      *)
(* title taken from a question comes with its exchange.                    *)
THEOREM WholeIsKept == Chat!Spec => []KeptIsWhole
<1>1. ChatInv => KeptIsWhole
  <2> SUFFICES ASSUME ChatInv
               PROVE  Chat!KeptIsWhole
    BY DEF KeptIsWhole
  <2>1. ASSUME NEW a \in Ask, page[a].state = "complete"
        PROVE  [by |-> a, text |-> page[a].text] \in Chat!Range(kept)
    <3>1. PICK i \in DOMAIN kept : kept[i].by = a /\ kept[i].text = page[a].text
      BY <2>1 DEF ChatInv, CompleteInv
    <3>2. kept[i] \in [by : Ask, text : Texts]
      BY KeptTyped DEF ChatInv
    <3>3. kept[i] = [by |-> a, text |-> page[a].text]
      BY <3>1, <3>2
    <3> QED
      BY <3>3 DEF Chat!Range
  <2> QED
    BY <2>1 DEF ChatInv, KeptInv, TitleInv, Chat!KeptIsWhole
<1> QED
  BY <1>1, ChatInvAlways, PTL

-----------------------------------------------------------------------------
(* The readings of a page.  The newest of some readings is one of them.    *)
LEMMA NewestIsThere ==
  ASSUME NEW readings \in SUBSET Readings!Readings
  PROVE  /\ Readings!Newest(readings) \in readings \cup {0}
         /\ \A r \in readings : r <= Readings!Newest(readings)
<1> DEFINE Bounds == {n \in Nat : \A r \in readings : r <= n}
<1>1. MAX_READINGS \in Nat /\ readings \subseteq 1 .. MAX_READINGS
  BY PagesHold DEF Readings!LiveAssumption, Readings!Readings
<1>2. MAX_READINGS \in Bounds
  BY <1>1
<1>3. PICK n \in Bounds : \A m \in Bounds : ~(<<m, n>> \in OpToRel(<, Nat))
  <2>1. Bounds \subseteq Nat /\ Bounds # {}
    BY <1>2
  <2> HIDE DEF Bounds
  <2> QED
    BY <2>1, NatLessThanWellFounded, WFMin
<1>4. \A m \in Bounds : n <= m
  <2> SUFFICES ASSUME NEW m \in Bounds
               PROVE  ~(m < n)
    OBVIOUS
  <2>1. ~(<<m, n>> \in OpToRel(<, Nat))
    BY <1>3
  <2>2. <<m, n>> \in Nat \X Nat
    OBVIOUS
  <2> QED
    BY <2>1, <2>2 DEF OpToRel
<1>5. n \in readings \cup {0}
  <2>1. CASE n = 0
    BY <2>1
  <2>2. CASE n # 0
    <3>1. n - 1 \in Nat /\ n - 1 \notin Bounds
      BY <1>4, <2>2
    <3>2. PICK r \in readings : ~(r <= n - 1)
      BY <3>1
    <3>3. r <= n /\ r \in Nat
      BY <1>1
    <3> QED
      BY <3>2, <3>3
  <2> QED
    BY <2>1, <2>2
<1>6. \E r \in readings \cup {Readings!Nothing} : \A other \in readings : other <= r
  BY <1>5 DEF Readings!Nothing
<1> QED
  BY <1>6 DEF Readings!Newest, Readings!Nothing

LiveType ==
  /\ stored \subseteq Readings!Readings /\ tasks \subseteq Readings!Readings
  /\ wire \in Seq(Readings!Readings)
  /\ open \in BOOLEAN /\ error \in BOOLEAN /\ overtaken \in BOOLEAN
  /\ shown \in Nat /\ since \in stored \cup {0}

(* A snapshot that was read since is no older than what was stored then.   *)
FetchedInv ==
  \A read \in fetches \ {Readings!Unread} : read \in Nat /\ read >= since

(* So the page shows that or a later one, unless it fell back since.       *)
ShownInv == open /\ fetches = {} /\ ~error /\ ~overtaken => shown >= since

LiveInv == LiveType /\ FetchedInv /\ ShownInv

LEMMA LiveInit ==
  ASSUME Readings!Init
  PROVE  LiveInv
<1>1. LiveType
  <2>1. /\ stored = {} /\ tasks = {} /\ wire = <<>> /\ shown = 0 /\ since = 0
        /\ open = TRUE /\ error = FALSE /\ overtaken = FALSE
    BY DEF Readings!Init, Readings!Nothing
  <2>2. <<>> \in Seq(Readings!Readings)
    OBVIOUS
  <2> QED
    BY <2>1, <2>2 DEF LiveType
<1>2. FetchedInv /\ ShownInv
  BY DEF Readings!Init, Readings!Nothing, FetchedInv, ShownInv
<1> QED
  BY <1>1, <1>2 DEF LiveInv

LEMMA ReadingsAreNumbers == Readings!Readings \subseteq Nat /\ Readings!Unread \in Nat
BY PagesHold DEF Readings!LiveAssumption, Readings!Readings, Readings!Unread

(* What is stored stays stored, and the page is not touched.               *)
LEMMA StoredInv ==
  ASSUME LiveInv, NEW r \in Readings!Readings, Readings!Insert(r) \/ Readings!Fail(r)
  PROVE  LiveInv'
<1>1. /\ stored' \in {stored, stored \cup {r}}
      /\ UNCHANGED <<tasks, wire, open, error, overtaken, shown, since, fetches>>
  BY DEF Readings!Insert, Readings!Fail, Readings!dashboardVars, Readings!bucketVars,
         Readings!historyVars
<1>2. LiveType'
  BY <1>1 DEF LiveInv, LiveType
<1>3. FetchedInv' /\ ShownInv'
  BY <1>1 DEF LiveInv, FetchedInv, ShownInv
<1> QED
  BY <1>2, <1>3 DEF LiveInv

(* Whatever happens to ticks that have not arrived.                        *)
LEMMA OnTheirWay ==
  ASSUME LiveInv, UNCHANGED <<stored, open, error, overtaken, shown, since, fetches>>,
         tasks' \subseteq Readings!Readings, wire' \in Seq(Readings!Readings)
  PROVE  LiveInv'
<1>1. LiveType'
  BY DEF LiveInv, LiveType
<1>2. FetchedInv' /\ ShownInv'
  BY DEF LiveInv, FetchedInv, ShownInv
<1> QED
  BY <1>1, <1>2 DEF LiveInv

LEMMA ServicesInv ==
  ASSUME LiveInv,
         \/ \E r \in Readings!Readings :
              Readings!Send(r) \/ Readings!Publish(r) \/ Readings!Forward(r)
         \/ \E chosen \in {"shows", "hides"} : Readings!SetPreferences(chosen)
         \/ Readings!DashboardRestarts \/ Readings!RedisBreaks \/ Readings!RelayReconnects
         \/ Readings!Disconnect \/ Readings!Joined \/ Readings!NotJoined
  PROVE  LiveInv'
<1> USE DEF Readings!telemetryVars, Readings!dashboardVars, Readings!socketVars,
            Readings!bucketVars, Readings!historyVars
<1>1. tasks \subseteq Readings!Readings /\ wire \in Seq(Readings!Readings)
  BY DEF LiveInv, LiveType
<1>2. UNCHANGED <<stored, open, error, overtaken, shown, since, fetches>>
  BY DEF Readings!Send, Readings!Publish, Readings!Forward, Readings!SetPreferences,
         Readings!DashboardRestarts, Readings!RedisBreaks, Readings!RelayReconnects,
         Readings!Disconnect, Readings!Joined, Readings!NotJoined
<1>3. tasks' \subseteq Readings!Readings
  BY <1>1 DEF Readings!Send, Readings!Publish, Readings!Forward, Readings!SetPreferences,
         Readings!DashboardRestarts, Readings!RedisBreaks, Readings!RelayReconnects,
         Readings!Disconnect, Readings!Joined, Readings!NotJoined
<1>4. wire' \in Seq(Readings!Readings)
  <2>1. CASE \E r \in Readings!Readings : Readings!Forward(r)
    BY <1>1, <2>1 DEF Readings!Forward
  <2>2. CASE Readings!Disconnect
    BY <2>2 DEF Readings!Disconnect
  <2>3. CASE UNCHANGED wire
    BY <1>1, <2>3
  <2> QED
    BY <2>1, <2>2, <2>3 DEF Readings!Send, Readings!Publish, Readings!SetPreferences,
         Readings!DashboardRestarts, Readings!RedisBreaks, Readings!RelayReconnects,
         Readings!Joined, Readings!NotJoined
<1> QED
  BY <1>2, <1>3, <1>4, OnTheirWay

(* The page asks for a snapshot, which is not read yet.                    *)
LEMMA AsksInv ==
  ASSUME LiveInv, Readings!FetchBucket, Readings!Marked,
         UNCHANGED <<stored, tasks, wire>>, open' \in BOOLEAN, shown' \in Nat
  PROVE  LiveInv'
<1>1. fetches' = {Readings!Unread} /\ error' = FALSE
  BY DEF Readings!FetchBucket, Readings!Refetched, Readings!Aborted
<1>2. since' \in stored \cup {0} /\ overtaken' = FALSE
  <2>1. stored \in SUBSET Readings!Readings
    BY DEF LiveInv, LiveType
  <2> QED
    BY <2>1, NewestIsThere DEF Readings!Marked
<1>3. LiveType'
  BY <1>1, <1>2 DEF LiveInv, LiveType
<1>4. FetchedInv' /\ ShownInv'
  BY <1>1 DEF FetchedInv, ShownInv
<1> QED
  BY <1>3, <1>4 DEF LiveInv

LEMMA PageInv ==
  ASSUME LiveInv, Readings!Acquire \/ Readings!Release \/ Readings!Connect
  PROVE  LiveInv'
<1> USE DEF Readings!telemetryVars, Readings!dashboardVars, Readings!bucketVars,
            Readings!historyVars
<1>1. CASE Readings!Acquire
  <2>1. /\ Readings!FetchBucket /\ Readings!Marked /\ UNCHANGED <<stored, tasks, wire>>
        /\ open' \in BOOLEAN /\ shown' \in Nat
    BY <1>1 DEF Readings!Acquire, Readings!Nothing
  <2> QED
    BY <2>1, AsksInv
<1>2. CASE Readings!Release
  <2>1. /\ open' = FALSE /\ shown' = 0 /\ error' = FALSE /\ fetches' = {}
        /\ UNCHANGED <<stored, tasks, wire, since, overtaken>>
    BY <1>2 DEF Readings!Release, Readings!Nothing
  <2>2. LiveType'
    BY <2>1 DEF LiveInv, LiveType
  <2> QED
    BY <2>1, <2>2 DEF LiveInv, FetchedInv, ShownInv
<1>3. CASE Readings!Connect /\ open
  <2>1. /\ Readings!FetchBucket /\ Readings!Marked /\ UNCHANGED <<stored, tasks, wire>>
        /\ open' \in BOOLEAN /\ shown' \in Nat
    BY <1>3 DEF Readings!Connect, Readings!Recovers, LiveInv, LiveType
  <2> QED
    BY <2>1, AsksInv
<1>4. CASE Readings!Connect /\ ~open
  <2>1. /\ UNCHANGED <<stored, open, error, overtaken, shown, since, fetches>>
        /\ UNCHANGED <<tasks, wire>>
    BY <1>4 DEF Readings!Connect
  <2>2. tasks' \subseteq Readings!Readings /\ wire' \in Seq(Readings!Readings)
    BY <2>1 DEF LiveInv, LiveType
  <2> QED
    BY <2>1, <2>2, OnTheirWay
<1> QED
  BY <1>1, <1>2, <1>3, <1>4

LEMMA SnapshotInv ==
  ASSUME LiveInv, Readings!Snapshot
  PROVE  LiveInv'
<1>1. /\ fetches' = (fetches \ {Readings!Unread}) \cup {Readings!Newest(stored)}
      /\ UNCHANGED <<stored, tasks, wire, open, error, overtaken, shown, since>>
  BY DEF Readings!Snapshot, Readings!telemetryVars, Readings!dashboardVars,
         Readings!historyVars
<1>2. stored \in SUBSET Readings!Readings /\ since \in stored \cup {0}
  BY DEF LiveInv, LiveType
<1>3. Readings!Newest(stored) \in Nat /\ Readings!Newest(stored) >= since
  <2>1. /\ Readings!Newest(stored) \in stored \cup {0}
        /\ \A r \in stored : r <= Readings!Newest(stored)
    BY <1>2, NewestIsThere
  <2>2. \A r \in stored \cup {0} : r \in Nat
    BY <1>2, ReadingsAreNumbers
  <2>3. Readings!Newest(stored) \in Nat /\ since \in Nat
    BY <1>2, <2>1, <2>2
  <2> QED
    BY <1>2, <2>1, <2>3
<1>4. LiveType'
  BY <1>1 DEF LiveInv, LiveType
<1>5. FetchedInv'
  BY <1>1, <1>3 DEF LiveInv, FetchedInv
<1>6. ShownInv'
  BY <1>1 DEF ShownInv
<1> QED
  BY <1>4, <1>5, <1>6 DEF LiveInv

LEMMA AnswerInv ==
  ASSUME LiveInv, NEW read \in 0 .. Readings!Unread,
         Readings!Fetched(read) \/ Readings!FetchFails(read)
  PROVE  LiveInv'
<1>1. /\ fetches' = fetches \ {read}
      /\ UNCHANGED <<stored, tasks, wire, open, overtaken, since>>
  BY DEF Readings!Fetched, Readings!FetchFails, Readings!telemetryVars,
         Readings!dashboardVars, Readings!historyVars
<1>2. \/ error' = TRUE /\ shown' = shown
      \/ error' = error /\ shown' = read /\ read \in Nat /\ read >= since
  BY DEF Readings!Fetched, Readings!FetchFails, LiveInv, FetchedInv
<1>3. LiveType'
  BY <1>1, <1>2 DEF LiveInv, LiveType
<1>4. FetchedInv' /\ ShownInv'
  BY <1>1, <1>2 DEF LiveInv, FetchedInv, ShownInv
<1> QED
  BY <1>3, <1>4 DEF LiveInv

LEMMA TickInv ==
  ASSUME LiveInv, Readings!OnTelemetry
  PROVE  LiveInv'
<1>1. /\ wire # <<>> /\ wire' = Tail(wire)
      /\ UNCHANGED <<stored, tasks, open, error, fetches, since>>
      /\ \/ open /\ shown' = Head(wire) /\ overtaken' = (overtaken \/ Head(wire) < since)
         \/ ~open /\ UNCHANGED <<shown, overtaken>>
  BY DEF Readings!OnTelemetry, Readings!telemetryVars, Readings!dashboardVars
<1>2. wire' \in Seq(Readings!Readings) /\ Head(wire) \in Readings!Readings
  BY <1>1 DEF LiveInv, LiveType
<1>3. Head(wire) \in Nat /\ since \in Nat
  <2>1. since \in stored \cup {0} /\ \A r \in stored \cup {0} : r \in Nat
    BY ReadingsAreNumbers DEF LiveInv, LiveType
  <2>2. since \in Nat
    BY <2>1
  <2>3. Head(wire) \in Nat
    BY <1>2, ReadingsAreNumbers
  <2> QED
    BY <2>2, <2>3
<1>4. (overtaken \/ Head(wire) < since) \in BOOLEAN
  BY Zenon DEF LiveInv, LiveType
<1>5. LiveType'
  BY <1>1, <1>2, <1>3, <1>4 DEF LiveInv, LiveType
<1>6. FetchedInv'
  BY <1>1 DEF LiveInv, FetchedInv
<1>7. ShownInv'
  <2>1. CASE open /\ shown' = Head(wire) /\ overtaken' = (overtaken \/ Head(wire) < since)
    <3>1. ~overtaken' => ~(Head(wire) < since)
      BY <2>1, Zenon
    <3>2. ~overtaken' => Head(wire) >= since
      BY <1>3, <3>1
    <3> QED
      BY <1>1, <2>1, <3>2 DEF ShownInv
  <2>2. CASE ~open /\ UNCHANGED <<shown, overtaken>>
    BY <1>1, <2>2 DEF ShownInv
  <2> QED
    BY <1>1, <2>1, <2>2
<1> QED
  BY <1>5, <1>6, <1>7 DEF LiveInv

LEMMA LiveInvAlways == Readings!Spec => []LiveInv
<1>1. Readings!Init => LiveInv
  BY LiveInit
<1>2. LiveInv /\ [Readings!Next]_(Readings!vars) => LiveInv'
  <2> SUFFICES ASSUME LiveInv, [Readings!Next]_(Readings!vars)
               PROVE  LiveInv'
    OBVIOUS
  <2>1. CASE UNCHANGED Readings!vars
    <3>1. /\ UNCHANGED <<stored, open, error, overtaken, shown, since, fetches>>
          /\ UNCHANGED <<tasks, wire>>
      BY <2>1 DEF Readings!vars, Readings!telemetryVars, Readings!dashboardVars,
                  Readings!bucketVars, Readings!historyVars
    <3>2. tasks' \subseteq Readings!Readings /\ wire' \in Seq(Readings!Readings)
      BY <3>1 DEF LiveInv, LiveType
    <3> QED
      BY <3>1, <3>2, OnTheirWay
  <2>2. ASSUME NEW r \in Readings!Readings, Readings!Insert(r) \/ Readings!Fail(r)
        PROVE  LiveInv'
    BY <2>2, StoredInv
  <2>3. ASSUME NEW read \in 0 .. Readings!Unread,
               Readings!Fetched(read) \/ Readings!FetchFails(read)
        PROVE  LiveInv'
    BY <2>3, AnswerInv
  <2> QED
    BY <2>1, <2>2, <2>3, ServicesInv, PageInv, SnapshotInv, TickInv DEF Readings!Next
<1> QED
  BY <1>1, <1>2, PTL DEF Readings!Spec

(* LD-4: once a page that was opened, or connected again, has its snapshot *)
(* it shows what was stored by then or something later, unless it says     *)
(* that it could not be fetched or a tick from before came in late.        *)
THEOREM OutagesRecover == Readings!Spec => []OutageRecovered
<1>1. LiveInv => OutageRecovered
  BY DEF LiveInv, ShownInv, OutageRecovered, Readings!OutageRecovered
<1> QED
  BY <1>1, LiveInvAlways, PTL
=============================================================================
