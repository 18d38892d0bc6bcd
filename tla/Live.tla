-------------------------------- MODULE Live --------------------------------
(***************************************************************************)
(* The way of a room's readings to a page that shows them: telemetry       *)
(* stores and publishes them, dashboard forwards what is published, socket *)
(* relays it to whoever joined the building, and the page's store takes    *)
(* snapshots of what is stored beside it.                                  *)
(*                                                                         *)
(* A reading is its time stamp, which it keeps when it is sent again.      *)
(* Redis and the page's connection keep the order of what they carry and   *)
(* lose all of it when they break; Redis hands over at once.               *)
(***************************************************************************)
EXTENDS Naturals, Sequences, FiniteSets

CONSTANTS
  MAX_READINGS, MAX_TRIES,   \* readings, and how often one is sent
  MAX_CONNECTIONS,           \* of the page after the first one
  MAX_VISITS,                \* times the page is opened again
  MAX_REDIS_BREAKS,
  MAX_RESTARTS               \* of dashboard

LiveAssumption ==
  {MAX_READINGS, MAX_TRIES, MAX_CONNECTIONS, MAX_VISITS, MAX_REDIS_BREAKS, MAX_RESTARTS} \subseteq Nat

Readings == 1 .. MAX_READINGS
Nothing == 0

VARIABLES
  ingest,       \* per reading: telemetry's request
  tries,        \* per reading: times it was sent
  stored,       \* the readings in telemetry's store
  listening,    \* dashboard's tunnel is subscribed
  prefs,        \* dashboard's entry for the building
  tasks,        \* ticks that the tunnel received and has not forwarded
  relaying,     \* socket's relay is subscribed
  up,           \* the page's connection
  join,         \* the page's subscription in socket: "no", "asked", "joined"
  wire,         \* ticks on their way to the page
  open,         \* the page has a bucket for the metric
  shown, error, \* what the bucket holds, whether it says that a fetch failed
  fetches,      \* requests for a snapshot, and what each has read
  since,        \* newest stored when the page was last connected or opened (history)
  overtaken,    \* a tick older than `since` was shown after it (history)
  connections, visits, breaks, restarts

telemetryVars == <<ingest, tries, stored>>
dashboardVars == <<listening, prefs, tasks, restarts>>
socketVars == <<relaying, join>>
bucketVars == <<open, shown, error, fetches, visits>>
historyVars == <<since, overtaken>>
vars == <<telemetryVars, dashboardVars, socketVars, up, wire, bucketVars, historyVars,
          connections, breaks>>

Newest(readings) == CHOOSE r \in readings \cup {Nothing} : \A other \in readings : other <= r
Unread == MAX_READINGS + 1

Init ==
  /\ ingest = [r \in Readings |-> "none"] /\ tries = [r \in Readings |-> 0] /\ stored = {}
  /\ listening = TRUE /\ prefs \in {"shows", "hides"} /\ tasks = {}
  /\ relaying = TRUE /\ up = TRUE /\ join = "joined" /\ wire = <<>>
  /\ open = TRUE /\ shown = Nothing /\ error = FALSE /\ fetches = {}
  /\ since = Nothing /\ overtaken = FALSE
  /\ connections = 0 /\ visits = 0 /\ breaks = 0 /\ restarts = 0

-----------------------------------------------------------------------------
(* telemetry.  Time stamps grow, but requests are served side by side.     *)
Send(r) ==
  /\ tries[r] < MAX_TRIES /\ tries' = [tries EXCEPT ![r] = @ + 1]
  /\ ingest[r] \in {"none", "failed"} /\ \A older \in 1 .. r - 1 : ingest[older] # "none"
  /\ ingest' = [ingest EXCEPT ![r] = "storing"]
  /\ UNCHANGED <<stored, dashboardVars, socketVars, up, wire, bucketVars, historyVars, connections, breaks>>

(* What is stored already is left as it is.                                *)
Insert(r) ==
  /\ ingest[r] = "storing"
  /\ stored' = stored \cup {r}
  /\ ingest' = [ingest EXCEPT ![r] = "stored"]
  /\ UNCHANGED <<tries, dashboardVars, socketVars, up, wire, bucketVars, historyVars, connections, breaks>>

(* The store fails, after it stored or before; or telemetry stops.         *)
GivesUp(r) == ingest' = [ingest EXCEPT ![r] = "failed"]

Fail(r) ==
  /\ ingest[r] \in {"storing", "stored"}
  /\ stored' \in {stored} \cup IF ingest[r] = "storing" THEN {stored \cup {r}} ELSE {}
  /\ GivesUp(r)
  /\ UNCHANGED <<tries, dashboardVars, socketVars, up, wire, bucketVars, historyVars, connections, breaks>>

(* Who does not listen misses it, and a connection to Redis that broke is  *)
(* not made again; the request is accepted all the same.                   *)
Publish(r) ==
  /\ ingest[r] = "stored"
  /\ ingest' = [ingest EXCEPT ![r] = "accepted"]
  /\ \/ listening /\ tasks' = tasks \cup {r}
     \/ (~listening \/ breaks > 0) /\ UNCHANGED tasks
  /\ UNCHANGED <<tries, stored, listening, prefs, restarts, socketVars, up, wire, bucketVars, historyVars,
                 connections, breaks>>

-----------------------------------------------------------------------------
(* dashboard.  A building is known once it was given its columns, as it is *)
(* when it is made; which columns is for the page to care about.           *)
SetPreferences(chosen) ==
  /\ chosen # prefs /\ prefs' = chosen
  /\ UNCHANGED <<telemetryVars, listening, tasks, restarts, socketVars, up, wire, bucketVars,
                 historyVars, connections, breaks>>

Resolved == prefs # "unknown"

(* Each tick has a task of its own, and they end in any order.             *)
Forward(r) ==
  /\ r \in tasks /\ tasks' = tasks \ {r}
  /\ \/ wire' = IF Resolved /\ relaying /\ join = "joined" THEN Append(wire, r) ELSE wire
     \/ ~listening /\ UNCHANGED wire
  /\ UNCHANGED <<telemetryVars, listening, prefs, restarts, socketVars, up, bucketVars, historyVars,
                 connections, breaks>>

(* A write of the preferences may not have been made.                      *)
DashboardRestarts ==
  /\ restarts < MAX_RESTARTS /\ restarts' = restarts + 1
  /\ listening' = TRUE /\ tasks' = {}
  /\ prefs' \in {"unknown", prefs}
  /\ UNCHANGED <<telemetryVars, socketVars, up, wire, bucketVars, historyVars, connections, breaks>>

(* Both subscriptions end; the tunnel's is not made again.                 *)
RedisBreaks ==
  /\ breaks < MAX_REDIS_BREAKS /\ breaks' = breaks + 1
  /\ listening' = FALSE /\ relaying' = FALSE
  /\ UNCHANGED <<telemetryVars, prefs, tasks, restarts, join, up, wire, bucketVars, historyVars, connections>>

RelayReconnects ==
  /\ ~relaying /\ relaying' = TRUE
  /\ UNCHANGED <<telemetryVars, dashboardVars, join, up, wire, bucketVars, historyVars, connections, breaks>>

-----------------------------------------------------------------------------
(* The page.  A snapshot begun before is given up.                         *)
NotAborted == fetches  \* mutant: the request before goes on
Aborted == {}
Refetched == Aborted \cup {Unread}
FetchBucket == fetches' = Refetched /\ error' = FALSE

Marked == since' = Newest(stored) /\ overtaken' = FALSE

(* Subscriptions wait for a connection.                                    *)
Acquire ==
  /\ ~open /\ visits < MAX_VISITS /\ visits' = visits + 1
  /\ open' = TRUE /\ shown' = Nothing
  /\ FetchBucket /\ Marked
  /\ join' = IF up /\ join = "no" THEN "asked" ELSE join
  /\ UNCHANGED <<telemetryVars, dashboardVars, relaying, up, wire, connections, breaks>>

(* A subscription still looked up by socket is not taken back.             *)
Release ==
  /\ open /\ visits < MAX_VISITS
  /\ open' = FALSE /\ shown' = Nothing /\ error' = FALSE /\ fetches' = {}
  /\ join' = IF join = "joined" THEN "no" ELSE join
  /\ UNCHANGED <<telemetryVars, dashboardVars, relaying, up, wire, visits, historyVars, connections, breaks>>

Disconnect ==
  /\ up /\ connections < MAX_CONNECTIONS /\ up' = FALSE
  /\ join' = "no" /\ wire' = <<>>
  /\ UNCHANGED <<telemetryVars, dashboardVars, relaying, bucketVars, historyVars, connections, breaks>>

(* onReconnect: joins again what the page shows, and fetches it.           *)
Recovers == FetchBucket

Connect ==
  /\ ~up /\ up' = TRUE /\ connections' = connections + 1
  /\ IF open THEN join' = "asked" /\ Recovers /\ Marked
     ELSE UNCHANGED <<join, fetches, error, historyVars>>
  /\ UNCHANGED <<telemetryVars, dashboardVars, relaying, wire, open, shown, visits, breaks>>

Joined ==
  /\ join = "asked" /\ join' = "joined"
  /\ UNCHANGED <<telemetryVars, dashboardVars, relaying, up, wire, bucketVars, historyVars, connections, breaks>>

(* Refused, or digital-twin did not say: the page does not look at that.   *)
NotJoined ==
  /\ join = "asked" /\ join' = "no"
  /\ UNCHANGED <<telemetryVars, dashboardVars, relaying, up, wire, bucketVars, historyVars, connections, breaks>>

Snapshot ==
  /\ Unread \in fetches
  /\ fetches' = (fetches \ {Unread}) \cup {Newest(stored)}
  /\ UNCHANGED <<telemetryVars, dashboardVars, socketVars, up, wire, open, shown, error, visits, historyVars,
                 connections, breaks>>

(* The snapshot replaces what came in meanwhile.                           *)
Fetched(read) ==
  /\ read \in fetches \ {Unread} /\ fetches' = fetches \ {read}
  /\ shown' = read
  /\ UNCHANGED <<telemetryVars, dashboardVars, socketVars, up, wire, open, error, visits, historyVars,
                 connections, breaks>>

FetchFails(read) ==
  /\ read \in fetches /\ fetches' = fetches \ {read}
  /\ error' = TRUE
  /\ UNCHANGED <<telemetryVars, dashboardVars, socketVars, up, wire, open, shown, visits, historyVars,
                 connections, breaks>>

(* A tick of a building that the page does not show is thrown away.        *)
OnTelemetry ==
  /\ wire # <<>> /\ wire' = Tail(wire)
  /\ IF open
     THEN shown' = Head(wire) /\ overtaken' = (overtaken \/ Head(wire) < since)
     ELSE UNCHANGED <<shown, overtaken>>
  /\ UNCHANGED <<telemetryVars, dashboardVars, socketVars, up, open, error, fetches, visits, since,
                 connections, breaks>>

-----------------------------------------------------------------------------
Next ==
  \/ \E r \in Readings : Send(r) \/ Insert(r) \/ Fail(r) \/ Publish(r) \/ Forward(r)
  \/ \E chosen \in {"shows", "hides"} : SetPreferences(chosen)
  \/ DashboardRestarts \/ RedisBreaks \/ RelayReconnects
  \/ Acquire \/ Release \/ Disconnect \/ Connect \/ Joined \/ NotJoined \/ OnTelemetry
  \/ Snapshot \/ \E read \in 0 .. Unread : Fetched(read) \/ FetchFails(read)

(* Requests end and tasks run; a connection that is there delivers, and    *)
(* socket's relay and the page connect again.                              *)
Spec ==
  /\ Init /\ [][Next]_vars
  /\ \A r \in Readings : WF_vars(Insert(r) \/ Fail(r) \/ Publish(r)) /\ WF_vars(Forward(r))
  /\ WF_vars(OnTelemetry) /\ WF_vars(RelayReconnects) /\ WF_vars(Connect)
  /\ WF_vars(Joined \/ NotJoined) /\ WF_vars(Snapshot)
  /\ WF_vars(\E read \in 0 .. Unread : Fetched(read) \/ FetchFails(read))

-----------------------------------------------------------------------------
(* acceptance-criteria.qd, LD-4: a reading ingested while the connection   *)
(* was lost is shown once it is restored, or the page says that it could   *)
(* not be fetched.  A tick that had been on its way since before may still *)
(* arrive late and take its place.                                         *)
OutageRecovered ==
  open /\ up /\ fetches = {} /\ ~error /\ ~overtaken => shown >= since

(* quality-attributes.qd, QA-P-01: "every ingested reading is eventually   *)
(* rendered", or a later one, on a page that shows the building.           *)
EveryReadingRendered ==
  \A r \in Readings :
    ingest[r] = "storing" /\ prefs # "unknown" /\ open ~> shown >= r \/ ingest[r] = "failed" \/ ~open

(* user-stories.qd, LD-4: "the dashboard always shows *now*": once nothing *)
(* is under way, a connected page shows the newest reading. This does not  *)
(* hold: a page that connects again reads its snapshot before it is joined, *)
(* and two ticks may be forwarded in the other order.                       *)
QuietShowsNewest ==
  /\ open /\ up /\ join = "joined" /\ fetches = {} /\ ~error /\ wire = <<>> /\ tasks = {}
  /\ \A r \in Readings : ingest[r] \in {"none", "accepted"}
  => shown = Newest(stored)
=============================================================================
