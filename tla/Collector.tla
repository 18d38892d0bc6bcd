----------------------------- MODULE Collector -----------------------------
(***************************************************************************)
(* ap-collector in one building.  Every poll interval it asks each router  *)
(* which stations it lists, swaps their addresses for tokens and posts the *)
(* result to telemetry (module Wireless).  Now and then it reads the list  *)
(* of routers again.                                                       *)
(*                                                                         *)
(* An address is the phone itself; its token is <<p, minted[p]>>, since    *)
(* tokens are random and never come back.  Times are in poll intervals.    *)
(* Which routers list a phone, and how long it was idle there, is open:    *)
(* after a roam the router it left goes on listing it for minutes.         *)
(***************************************************************************)
EXTENDS Site

CONSTANT MaxTicks   \* bound: poll intervals

ASSUME CollectorAssumption == MaxTicks \in Nat

VARIABLES
  now,       \* ticks so far
  routers,   \* the routers to poll; without one the building is not polled
  table,     \* whether the building has a token table
  minted,    \* tokens minted for the phone
  unseen     \* ticks since it was last listed; forgotten at FORGET

tokenVars == <<table, minted, unseen>>
collectorVars == <<now, routers, tokenVars>>

CollectorInit ==
  /\ now = 0 /\ routers = Router
  /\ table = FALSE /\ minted = [p \in Phone |-> 0] /\ unseen = [p \in Phone |-> FORGET]

(* Of the routers that list a phone, those where it is least idle, or as   *)
(* good as: some of them.                                                  *)
LeastIdle(listing) == {K \in SUBSET listing : K = {} <=> listing = {}}

(* What one poll may read: which routers answered, and each phone's rows.  *)
Readings ==
  {[answered |-> A, rows |-> R] : A \in SUBSET routers,
                                  R \in [Phone -> UNION {LeastIdle(L) : L \in SUBSET routers}]}

MintAlways(p) == TRUE  \* mutant: the table is not looked up
Unknown(p) == unseen[p] = FORGET
Longer(p) == IF unseen[p] = FORGET THEN FORGET ELSE unseen[p] + 1

(* A phone that is listed keeps its token, or gets one if it was forgotten. *)
Observe(rows) ==
  LET listed == {p \in Phone : rows[p] # {}}
  IN /\ table' = TRUE
     /\ minted' = [p \in Phone |-> IF p \in listed /\ Unknown(p) THEN minted[p] + 1 ELSE minted[p]]
     /\ unseen' = [p \in Phone |-> IF p \in listed THEN 0 ELSE Longer(p)]

(* Each phone's rows, under its token of this tick. *)
Connected(rows) ==
  {[token |-> <<p, minted'[p]>>, routers |-> rows[p]] : p \in {q \in Phone : rows[q] # {}}}

NoTable == table' = FALSE /\ unseen' = [p \in Phone |-> FORGET] /\ UNCHANGED minted

(* After some ticks the list is read again: the building's routers may be  *)
(* gone, or back.                                                          *)
Refresh == routers' \in {Router, {}}

NextTick == now < MaxTicks /\ now' = now + 1

Poll(reading) ==
  /\ routers # {}
  /\ \A p \in Phone : reading.rows[p] \subseteq reading.answered
  /\ NextTick
  /\ Observe(reading.rows)
  /\ Refresh

(* A tick without the building drops its table. *)
PollWithout == routers = {} /\ NextTick /\ NoTable /\ Refresh

CollectorRestarts ==
  /\ NoTable
  /\ routers' \in {Router, {}}
  /\ UNCHANGED now
=============================================================================
