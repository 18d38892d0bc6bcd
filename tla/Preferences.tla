----------------------------- MODULE Preferences ----------------------------
(***************************************************************************)
(* notification: which metrics of a domain an account is alerted of, and   *)
(* on which devices.  A choice is written in two updates; at its start a   *)
(* replica switches new metrics on for those who were there before them; a *)
(* push reads who is subscribed, then their devices, then sends to all.    *)
(*                                                                         *)
(* One domain.  Each account has one record of preferences, which is a set *)
(* here: an entry that is there twice is found and pulled as one.  Only    *)
(* the accounts of Chooser ever state a preference (a bound).              *)
(***************************************************************************)
EXTENDS Naturals, Sequences, FiniteSets

CONSTANTS Account, Chooser, Device, Request, Replica, Push,
          Temperature, NewMetric,  \* NOTIFICATION_TYPES
          Unknown, Nobody

ASSUME PreferencesAssumption ==
  /\ Temperature # NewMetric
  /\ Unknown \notin BOOLEAN /\ Nobody \notin Account
  /\ Chooser \subseteq Account

Metric == {Temperature, NewMetric}

VARIABLES
  entries,     \* per account: set of <<metric, isSubscribed>>
  request,     \* per request: the choices it still has to write
  migration,   \* per replica: what it is doing about the new metric
  marked,      \* the migration's marker is stored
  owner,       \* per device: the account that its subscription is stored under
  push,        \* per push: what it has read and has yet to do
  chosen,      \* per account and metric: the choice in force, if it is beyond dispute (history)
  browser,     \* per device: the account that registered it, while it lives (history)
  dead,        \* devices whose endpoint is gone for good
  owed         \* per push: devices that it must reach (history)

preferenceVars == <<entries, request, migration, marked, chosen>>
deviceVars == <<owner, browser, dead>>
vars == <<preferenceVars, deviceVars, push, owed>>

NoRequest == [account |-> Nobody, left |-> <<>>, pulled |-> FALSE, alone |-> FALSE]
NoPush == [step |-> "idle", metric |-> Temperature, accounts |-> {}, devices |-> {}, gone |-> {}]

(* An account may have come before the new metric, with or without alerts, *)
(* and a browser may have been registered before.                          *)
Init ==
  /\ entries \in [Account -> {{}, {<<Temperature, TRUE>>}, {<<Temperature, FALSE>>}}]
  /\ \A a \in Account \ Chooser : entries[a] = {}
  /\ request = [r \in Request |-> NoRequest]
  /\ migration = [n \in Replica |-> "looking"] /\ marked = FALSE
  /\ owner \in [Device -> Account \cup {Nobody}] /\ browser = owner /\ dead = {}
  /\ push = [p \in Push |-> NoPush] /\ owed = [p \in Push |-> {}]
  /\ chosen = [a \in Account |-> [m \in Metric |->
       IF <<m, TRUE>> \in entries[a] THEN TRUE ELSE Unknown]]

-----------------------------------------------------------------------------
(* apply and set, one choice after the other: a single one, as the page    *)
(* sends, or all metrics on, when a browser subscribes and names none.     *)
(* (Longer lists are cut to these: a bound.)                               *)
Choice == Metric \X BOOLEAN
Updates == {<<c>> : c \in Choice} \cup {<< <<Temperature, TRUE>>, <<NewMetric, TRUE>> >>}

Next1(r) == Head(request[r].left)
Writes(r, a, m) == request[r].account = a /\ request[r].left # <<>> /\ Next1(r)[1] = m
Midway(r, a, m) == Writes(r, a, m) /\ request[r].pulled

Accept(r, a, updates) ==
  /\ request[r].left = <<>>
  /\ request' = [request EXCEPT ![r] = [NoRequest EXCEPT !.account = a, !.left = updates]]
  /\ UNCHANGED <<entries, migration, marked, chosen, deviceVars, push, owed>>

KeepEntries(es, m) == es  \* mutant
PullEntries(es, m) == {e \in es : e[1] # m}

(* From now on the choice is open, until one is pushed that met no other.  *)
Pull(r) ==
  /\ request[r].left # <<>> /\ ~request[r].pulled
  /\ LET a == request[r].account  m == Next1(r)[1]
         others == {q \in Request \ {r} : Midway(q, a, m)}
     IN /\ entries' = [entries EXCEPT ![a] = PullEntries(@, m)]
        /\ chosen' = [chosen EXCEPT ![a][m] = Unknown]
        /\ request' = [q \in Request |->
             IF q = r THEN [request[r] EXCEPT !.pulled = TRUE, !.alone = others = {}]
             ELSE IF q \in others THEN [request[q] EXCEPT !.alone = FALSE]
             ELSE request[q]]
        /\ owed' = [p \in Push |->
             IF push[p].metric = m THEN {d \in owed[p] : browser[d] # a} ELSE owed[p]]
  /\ UNCHANGED <<migration, marked, deviceVars, push>>

Written(asked) ==
  IF Len(asked.left) = 1 THEN NoRequest
  ELSE [asked EXCEPT !.left = Tail(@), !.pulled = FALSE, !.alone = FALSE]

PushEntry(r) ==
  /\ request[r].left # <<>> /\ request[r].pulled
  /\ LET a == request[r].account  m == Next1(r)[1]
     IN /\ entries' = [entries EXCEPT ![a] = @ \cup {Next1(r)}]
        /\ chosen' = [chosen EXCEPT ![a][m] = IF request[r].alone THEN Next1(r)[2] ELSE Unknown]
        /\ request' = [request EXCEPT ![r] = Written(@)]
  /\ UNCHANGED <<migration, marked, deviceVars, push, owed>>

(* The database fails, or notification stops: the rest is not written.     *)
Abandon(r) ==
  /\ request[r].left # <<>>
  /\ request' = [request EXCEPT ![r] = NoRequest]
  /\ UNCHANGED <<entries, migration, marked, chosen, deviceVars, push, owed>>

-----------------------------------------------------------------------------
(* switch_on_new_metrics_once, while other replicas serve.                 *)
Look(n) ==
  /\ migration[n] = "looking"
  /\ migration' = [migration EXCEPT ![n] = IF marked THEN "serving" ELSE "switching"]
  /\ UNCHANGED <<entries, request, marked, chosen, deviceVars, push, owed>>

WasBefore(a) ==
  <<Temperature, TRUE>> \in entries[a] /\ \A e \in entries[a] : e[1] # NewMetric

SwitchOn(n) ==
  /\ migration[n] = "switching"
  /\ entries' = [a \in Account |->
       IF WasBefore(a) THEN entries[a] \cup {<<NewMetric, TRUE>>} ELSE entries[a]]
  /\ request' = [r \in Request |->
       [request[r] EXCEPT !.alone = @ /\ \A a \in Account : ~(WasBefore(a) /\ Midway(r, a, NewMetric))]]
  /\ migration' = [migration EXCEPT ![n] = "marking"]
  /\ UNCHANGED <<marked, chosen, deviceVars, push, owed>>

Mark(n) ==
  /\ migration[n] = "marking"
  /\ marked' = TRUE
  /\ migration' = [migration EXCEPT ![n] = "serving"]
  /\ UNCHANGED <<entries, request, chosen, deviceVars, push, owed>>

(* A step that fails is logged, and the replica serves all the same.       *)
GiveUp(n) ==
  /\ migration[n] # "serving"
  /\ migration' = [migration EXCEPT ![n] = "serving"]
  /\ UNCHANGED <<entries, request, marked, chosen, deviceVars, push, owed>>

StartAgain(n) ==
  /\ migration[n] # "looking"
  /\ migration' = [migration EXCEPT ![n] = "looking"]
  /\ UNCHANGED <<entries, request, marked, chosen, deviceVars, push, owed>>

-----------------------------------------------------------------------------
(* register_device: the endpoint is the browser's, and goes to whoever is  *)
(* logged in to it.                                                        *)
Register(d, a) ==
  /\ d \notin dead
  /\ owner' = [owner EXCEPT ![d] = a]
  /\ browser' = [browser EXCEPT ![d] = a]
  /\ owed' = [p \in Push |-> IF browser[d] = a THEN owed[p] ELSE owed[p] \ {d}]
  /\ UNCHANGED <<preferenceVars, dead, push>>

EndpointDies(d) ==
  /\ d \notin dead /\ dead' = dead \cup {d}
  /\ browser' = [browser EXCEPT ![d] = Nobody]
  /\ owed' = [p \in Push |-> owed[p] \ {d}]
  /\ UNCHANGED <<preferenceVars, owner, push>>

-----------------------------------------------------------------------------
(* to_domain for one metric's alert.                                       *)
ToDomain(p, m) ==
  /\ push[p].step = "idle"
  /\ push' = [push EXCEPT ![p] = [NoPush EXCEPT !.step = "accounts", !.metric = m]]
  /\ owed' = [owed EXCEPT ![p] =
       {d \in Device : browser[d] # Nobody /\ chosen[browser[d]][m] = TRUE}]
  /\ UNCHANGED <<preferenceVars, deviceVars>>

AccountsSubscribedTo(p) ==
  /\ push[p].step = "accounts"
  /\ push' = [push EXCEPT ![p].step = "devices",
       ![p].accounts = {a \in Account : <<push[p].metric, TRUE>> \in entries[a]}]
  /\ UNCHANGED <<preferenceVars, deviceVars, owed>>

FindByAccounts(p) ==
  /\ push[p].step = "devices"
  /\ push' = [push EXCEPT ![p].step = "sending", ![p].accounts = {},
       ![p].devices = {d \in Device : owner[d] \in push[p].accounts}]
  /\ UNCHANGED <<preferenceVars, deviceVars, owed>>

(* What cannot be read is logged, and nobody is told.                      *)
FailToRead(p) ==
  /\ push[p].step \in {"accounts", "devices"}
  /\ push' = [push EXCEPT ![p] = NoPush]
  /\ owed' = [owed EXCEPT ![p] = {}]
  /\ UNCHANGED <<preferenceVars, deviceVars>>

(* deliver: 404 and 410 say that the endpoint is gone, all else is logged. *)
Send(p, d) ==
  /\ push[p].step = "sending" /\ d \in push[p].devices
  /\ push' = [push EXCEPT ![p].devices = @ \ {d},
                          ![p].gone = IF d \in dead THEN @ \cup {d} ELSE @]
  /\ owed' = [owed EXCEPT ![p] = @ \ {d}]
  /\ UNCHANGED <<preferenceVars, deviceVars>>

OfAccount(d) == {e \in Device : owner[e] = owner[d]}  \* mutant: delete_by_account
ByEndpoint(d) == {d}

DeleteByEndpoint(p, d) ==
  /\ d \in push[p].gone
  /\ owner' = [e \in Device |-> IF e \in ByEndpoint(d) THEN Nobody ELSE owner[e]]
  /\ push' = [push EXCEPT ![p].gone = @ \ {d}]
  /\ UNCHANGED <<preferenceVars, browser, dead, owed>>

FailToDelete(p, d) ==
  /\ d \in push[p].gone
  /\ push' = [push EXCEPT ![p].gone = @ \ {d}]
  /\ UNCHANGED <<preferenceVars, deviceVars, owed>>

Delivered(p) ==
  /\ push[p].step = "sending" /\ push[p].devices = {} /\ push[p].gone = {}
  /\ push' = [push EXCEPT ![p] = NoPush]
  /\ UNCHANGED <<preferenceVars, deviceVars, owed>>

Next ==
  \/ \E r \in Request :
       \/ \E a \in Chooser, updates \in Updates : Accept(r, a, updates)
       \/ Pull(r) \/ PushEntry(r) \/ Abandon(r)
  \/ \E n \in Replica : Look(n) \/ SwitchOn(n) \/ Mark(n) \/ GiveUp(n) \/ StartAgain(n)
  \/ \E d \in Device : EndpointDies(d) \/ \E a \in Account : Register(d, a)
  \/ \E p \in Push :
       \/ \E m \in Metric : ToDomain(p, m)
       \/ AccountsSubscribedTo(p) \/ FindByAccounts(p) \/ FailToRead(p) \/ Delivered(p)
       \/ \E d \in Device : Send(p, d) \/ DeleteByEndpoint(p, d) \/ FailToDelete(p, d)

Spec == Init /\ [][Next]_vars

-----------------------------------------------------------------------------
(* preferences.rs: "an explicit choice already stored wins".  A choice     *)
(* that met no other while it was written is the only one there, through   *)
(* migrations that are repeated, until the next choice begins.             *)
ChoiceHolds ==
  \A a \in Account, m \in Metric :
    chosen[a][m] # Unknown => {e \in entries[a] : e[1] = m} = {<<m, chosen[a][m]>>}

(* A push misses no live device of an account that wants it throughout:    *)
(* not for a dead one beside it, nor for what an earlier push deleted.     *)
ReachesEveryDevice ==
  \A p \in Push :
    /\ push[p].step = "idle" => owed[p] = {}
    /\ push[p].step = "sending" => owed[p] \subseteq push[p].devices
=============================================================================
