# Formal models of crowd-vision

crowd-vision shows the live occupancy and climate of buildings to the
organizations that own them. Its backend is a set of services in Rust, Go and
Python around Kafka, Redis, MongoDB, PostgreSQL and Keycloak. This directory
holds TLA+ models of the parts whose correctness depends on the order in which
things happen, the TLC configurations that check them on small instances, and
TLAPS proofs of the properties that matter most, for every instance.

Paths below are relative to the repository's `src/`; `dt`, `te`, `no`, `so`, `ch`
stand for `backend/digital-twin/src`, `backend/telemetry/src`,
`backend/notification/src`, `backend/socket/src`, `backend/chat/src`, `co`
for `devices/ap-collector/app`, and `fe` for `frontend/src`.

    tlc -workers 2 -config <run>.cfg <MC module>     # a run, see "Runs"
    tlapm <proofs module>                            # proofs

## 1. The system

### 1.1 Components

| component | state it keeps | operations | modelled in |
|---|---|---|---|
| digital-twin, provisioning (`dt/service/provisioning.rs`, `persistence/jobs.rs`, `worker.rs`, `kafka_consumer.rs`) | upload queue in MongoDB with status, lease and TTL; twin documents; consumer offset | accept, claim, provision, resolve, fail, resync | `Provisioning` |
| digital-twin, buildings (`dt/service/buildings.rs`) | twin documents | edit (read-modify-write), rename on read, queries | the writes, in `Provisioning` |
| telemetry, registration (`te/kernel/registration.rs`, `kafka_consumer.rs`) | registered buildings and rooms; consumer offset | register, answer, commit | `Provisioning` |
| telemetry, thresholds (`te/kernel/thresholds.rs`, `threshold_cache.rs`) | table of limits; one cache per replica | patch a building's or rooms' limits, resolve | `Thresholds` |
| telemetry, ingestion (`te/kernel/ingest.rs`) | readings | accept a batch, judge it, publish | `Live`; the lookup of limits, in `Thresholds` |
| telemetry, sensors and names (`te/kernel/sensors.rs`, `building_cache.rs`) | table of sensors, names of buildings with a cache | batch of changes, registration | `Sensors` |
| telemetry, simulations (`te/kernel/simulation.rs`) and the simulators | what each simulator runs, a timer | start, stop | `Simulations` |
| notification, alerts (`no/adapters/driving/alert_listener.rs`, `service/alerts.rs`) | watermarks in memory, committed offset, cooldown keys in Redis | fetch, handle, park, commit | `Alerts` |
| tenancy (`backend/tenancy`) | domains, memberships, invite codes in PostgreSQL | nine operations that write | `Memberships` |
| claims-gateway (`backend/claims-gateway`) | none: it signs tokens | log in, register, exchange, refresh, edit a profile, log out | `Session`; what a token grants, in `Memberships` |
| session of a browser (`fe/stores/authentication/authentication.ts`, `stores/domains/domain.ts`, `useSessionKeepAlive.ts`) | cookie, account, memberships, requests under way, a timer | hydrate, log in and out, change domains, keep alive | `Session` |
| registry (`backend/registry`) | organizations, status, license | sign up, list pending, report, suspend | `Organizations` |
| provisioner (`backend/provisioner`) | the list of a tick | list, create a domain, report | `Organizations` |
| collector of access points (`co/collector.py`, `tokens.py`, `__main__.py`) | list of routers, token table, ticks | poll, replace addresses by tokens, post, refresh the list | `Collector`, `Wireless` |
| telemetry, observations and occupancy (`te/kernel/observations.rs`, `occupancy_consumer.rs`) | readings; consumer offset | store room totals, publish the tick; store counts | `Wireless` |
| digital-twin, people tracking (`dt/service/tracking.rs`, `tracks.rs`, `wifi_consumer.rs`) | held tick, tracks, floor plan and its age | observe a tick, reload the plan, publish counts | `Tracking`, `Wireless` |
| digital-twin, placements (`dt/service/placements.rs`) | one document per building | apply a batch | `Placing`; as `EditPlan` in `Wireless` |
| editor of sensors (`fe/composables/digital-twin/useSensorDraft.ts`) | draft, unsent placements | draft, save, discard | `Placing` |
| notification, preferences and devices (`no/service/preferences.rs`, `push.rs`, `persistence/`) | preferences and subscriptions in MongoDB, a marker per migration | set, migrate, register a device, push to a domain | `Preferences` |
| chat (`ch/service/conversations.rs`) | conversations | ask, rename, delete | `Conversations` |
| agent, question answering (`backend/agent/app/agent/loop.py`) | the run of a question | turns, tool calls, answer | `Agent` |
| socket (`so/shell`, `so/core`) | sockets, rooms, cache of a building's domains | connect, subscribe, look up, expire | building rooms, in `Sockets` |
| telemetry, other: device keys, actions, queries | catalogues | reads | not modelled, see section 7 |
| notification, domain directory | a cache | look up | its outcomes, in `Alerts` |
| dashboard (`backend/dashboard`) | columns per building, in memory and in MongoDB | choose, initialise, forward ticks | `Dashboard`; the tunnel, in `Live` |
| store of live data (`fe/stores/commons/sensorData.ts`) | buckets, the page's connection | acquire, release, reconnect, fetch | `Live` |
| agent's document ingestion, rest of the frontend, schemas, policy libraries, deployment | - | - | not modelled, see section 7 |

### 1.2 How they interact

* **Registration**: client -> digital-twin queue -> worker -> topic
  `building-registration-requested` -> telemetry -> topic
  `building-registration-completed` -> digital-twin consumer. Telemetry's
  rejection, or the worker's own failure, notifies the uploader and deletes the
  twin. Clients edit the same documents over HTTP and synchronise telemetry
  directly.
* **Readings**: collector or simulator -> telemetry (table, limits) -> Redis ->
  dashboard -> Redis -> socket -> browser; a breach goes to the topic `alerts`.
* **Alerts**: topic `alerts` -> notification -> digital-twin (which domains?) ->
  push and Redis -> socket; what cannot be handled goes to a dead-letter topic.
* **Sensors**: editor -> telemetry (which gives ids) -> editor -> digital-twin
  (which keeps the places); dashboard's toggle -> telemetry -> simulators.
* **People**: collector -> telemetry -> topic `observations` -> digital-twin ->
  topic `occupancies` -> telemetry. The collector learns its routers from
  telemetry, digital-twin its floor plan from the documents that clients edit.
* **Rooms**: browser -> socket -> digital-twin (which domains has the building?).
* **Chat**: browser -> chat -> agent -> model and tools; one stream all the way.
* **Sessions**: browser -> claims-gateway -> Keycloak, tenancy; the cookie comes back
  with any answer.
* **Tenancy**: Keycloak -> claims-gateway -> tenancy at a first login; users ->
  tenancy; registry -> provisioner -> tenancy -> registry for organizations.

### 1.3 What is hard

No operation of the backend spans two stores in a transaction, and most do not
span two statements in one. What makes the system hard is therefore what may
happen between two awaits: another replica or request, a stop, an error whose
effect took place nonetheless, a redelivery, a lease or an entry that expires.
`PROJECT.json` lists each such place under `hazards`, with its line and the
properties that guard it. In short:

| kind | where |
|---|---|
| lease expires under a live worker | `dt/.../jobs.rs:198` |
| status read, then acted on | `provisioning.rs:123`, `tenancy.go:341`, `alerts.rs:79`, `reconciler.go:41`, `conversations.rs:94` |
| document read, edited, written back | `dt/service/buildings.rs:97` |
| answer fetched, then cached | `te/.../threshold_cache.rs:94`, `so/shell/twin.rs:78` |
| offset committed for others' work | `alert_listener.rs:67`, both registration consumers |
| one statement of two fails | `no/.../preferences.rs:118`, `tenancy.go:108,205`, `registry.go:67`, `kernel/thresholds.rs:93` |
| two sides forget on their own | `co/tokens.py:63`, `dt/service/tracks.rs:86` |
| a message read twice, or late | `dt/service/tracking.rs:82,93`, `occupancy_consumer.rs:57` |
| a lost answer to a call that succeeded | publish, CreateDomain, upsert, `fe/.../useSensors.ts:67` |
| tasks that nobody waits for | `backend/dashboard/src/api/data.rs:65`, `tunnel.rs:76` |
| a snapshot beside a stream | `fe/stores/commons/sensorData.ts:82,104` |
| a request of one session answered in the next | `fe/stores/authentication/authentication.ts:45` |
| a token as old as its signature | `backend/claims-gateway/internal/service/exchange.go:100` |
| a connection or a timer that is not made, or stopped, again | `tunnel.rs:55`, the simulator's `tick` |
| input that changes while a save waits | `fe/.../useSensorDraft.ts:92` |

### 1.4 What makes each part correct

* Provisioning: ready means stored and known to telemetry; decided once; no
  message is lost by a commit; one notification; every upload is decided.
* Thresholds: a reading is judged by what was in force for its room; patches
  take effect.
* Alerts: the committed offset is never ahead of the work; no alert is silenced
  without another having been sent; one bad record holds up no other.
* Memberships: rank and joins are what policies say; a code admits one account;
  a domain has one founder; nothing that looks for other managers takes the last.
* Session: what a page shows and sends is of the account it is logged in as; a
  page that stays logged in learns of changed memberships.
* Wireless: nobody is counted twice, whatever token or router they are listed
  under; tracks do not outlive the floor plan they were located on; a count that
  is committed is stored.
* Sockets: who is in a building's room could read it not long before they
  joined, and leaves in bounded time; every subscribe is answered.
* Conversations: the cap is overrun by no more than what was under way; what is
  kept is the whole answer.
* Preferences: a choice that met no other is the one in force; a push reaches
  every device of whoever wants it.
* Sensors: a batch is judged by rooms that were in force while it ran.
* Simulations: an answer says what the simulators do; a simulator ticks exactly
  while it runs a building.
* Live: a lost connection is made up for; every reading is rendered.
* Dashboard: the last change that met no other is the one that is read again.
* Placing: what one service accepted is not forgotten for the other; what is kept
  can be accepted; a retry creates nothing twice.
* Organizations: ready means that the domain exists; a conflict is no failure
  (proved); no organization stays pending.

## 2. Plan

Order: the pipeline that every building passes first, then the state that
decides who may see it, then alerts and limits, then the rest.

| # | module | status |
|---|---|---|
| 1 | `UploadPromise` (abstract), `Provisioning` (detailed, refines it) | done, proved |
| 2 | `Memberships` | done, proved |
| 3 | `Organizations` | done, proved |
| 4 | `Alerts` | done, proved |
| 5 | `Thresholds` | done, proved |
| 6 | `Collector`, `Tracking`, composed in `Wireless` (over `Site`) | done, proved |
| 7 | `Sockets` | done, proved |
| 8 | `Agent`, composed with chat in `Conversations` | done, proved |
| 9 | `Preferences` | done, proved |
| 10 | `Sensors`, `Simulations` | done, proved |
| 11 | `Live` (telemetry, dashboard, socket and page composed), `Dashboard` | done, proved |
| 12 | `Placing` (editor, telemetry and digital-twin composed) | done, proved |
| 13 | `Session` (browser, claims-gateway, Keycloak and tenancy composed) | done, proved |

"Proved" is about safety: section 5 says what, section 6 what is left to TLC.

Runs that check several models together: `MCMemberships` (`Memberships`, `Session`),
`MCOrganizations` (`Organizations`, `Session`), `MCChoices` (`Preferences`,
`Dashboard`, `Simulations`), `MCPages` (`Conversations`, `Live`) and `MCFurnishing`
(`Sensors`, `Placing`). These share nothing, so a variable `moves` says which of
them a behaviour is about. The assumptions of a module that is only instanced are
a definition, which the `ASSUME` of the MC module asserts.

Compositions: `Wireless` joins three services and two topics, `Provisioning` two
services, three actors and two topics, `Conversations` chat, the agent and the
page; `Organizations` contains what tenancy does of `Memberships`' `create`.
`Live` joins four services and the page, `Placing` two services and the editor.
`Thresholds` and `Alerts` meet at the topic `alerts`, which is not composed.

Abstract specifications: `UploadPromise` (done). Worth stating: an at-least-once
delivery promise that `Alerts` and the consumer of counts both implement.

Theorems still worth proving: a bound on the threshold cache (`Capacity` plus the
number of concurrent lookups less one); that a cookie never carries memberships
newer than tenancy's; what `Memberships` and `Session` say of each other's claims.

## 3. Modules and the code

`map` in `PROJECT.json` gives the source lines of every definition. The
conventions are the same everywhere: an action is what the code does between
two awaits; an error of a call is an action of its own (`...Errs`, `...Fails`),
and where the call may have taken effect before its answer was lost, both
outcomes are allowed; histories are named so in `VARIABLES`.

**`Provisioning`.** `upload`, `outcome`, `leased`, `attempts`, `purged` are the
queue of `jobs.rs` (a lease is in the set or it has expired; `purged` is the
TTL index); `twin` is the collection of buildings by content, `registered` is
telemetry's table; `requests` and `answers` are the topics, `next` and
`committed` a consumer's position and offset; `task[p]` is the await process
`p` is at. Workers claim (`Claim`), store (`Upsert`), announce (`Publish`); a
failure goes through `MarkFailed`, `Check` or `Notify`, and `Delete`, which the
consumer runs too (`ResolveFailed`). `Read`, `EditWrite` and `EditSync` are a
client's edit, `Resync` is the re-announcement. `Crash` stops a process at any
await: its task is lost, its offset is what it committed, its lease stays. A
content is `valid` or `invalid`: whether telemetry's validation accepts it is
all that the pipeline tells apart. What `PurgeRaces` switches is whether the
hour of the TTL may pass while a record is being worked on.

**`UploadPromise`.** What the uploader may rely on, in five actions over
`outcome` and `live`. `Provisioning` implements it with
`live[b] == twin[b] # None`.

**`Memberships`.** One domain: no statement touches two. A request reads and
checks (`Create`, `JoinOpen`, `Invite`, `Leave`, ...), leaving a planned write
in `task[q]`, and the write is one SQL statement (`InsertDomain`,
`UpsertMembership`, `DeleteMembership`, `RedeemInviteCode`) or is `Lost`. The
role a caller acts with is the one in `claims`, minted earlier. `issued` may
start with a code of a release that had no role ceilings.
`MCMemberships` adds a history, `overtaken`: the requests between check and write
whose account's row has changed, or whose domain has lost a manager, since they checked.

**`Organizations`.** `todo[p]` is the list of a provisioner's tick, `step[p]`
and `org[p]` the call it makes next; `Look` and `Insert` are the two
statements of tenancy's CreateDomain; `SuspendLicense` and `SuspendStatus` the
two of registry's suspend; `Found` is a user who creates a domain of that name.

**`Alerts`.** `stage[i]` is the await of record `i`'s handler: cooldown lookup,
digital-twin lookup, delivery, start of the cooldown, or parking. `in_flight`,
`completed` and `committed` are `Watermarks`, action by action. `Stop` drops
everything in memory. A delivery to all domains and devices is one step.

**`Thresholds`.** `rows` is the table for one building and one metric; a limit
is the number of the patch that set it, so two patches never look alike;
`cache[r][x]` is an entry of replica `r`. A lookup takes hits (`Start`), asks
the database for the rest (`Ask`), and remembers one room at a time in two
steps, the check of the capacity (`MakeRoom`) and the insert (`Remember`),
because other threads run between them. A patch commits (`Commit`), is refused
(`Refuse`, possibly after it was committed), and drops the rooms from its own
replica's cache (`Invalidate`), unless the caller hangs up (`HangUp`) and the
handler with its invalidation is dropped.

**`Site`, `Collector`, `Tracking`, `Wireless`.** `Collector` is one tick of
`collector.py` per `Poll`: which routers answer and who lists a phone is open,
but among those that list it only the least idle ones are kept. `minted[p]` and
`unseen[p]` are the entry of `tokens.py` for an address, which is the phone
itself; `table` is whether the building has a table. `Tracking` is `Tracking`
and `Tracks` of digital-twin: `held`, `snapshot` and `tracks`, a track being a
token, an age in ticks and the plan that located it. `Wireless` adds what lies
between: `posts` are the requests telemetry is handling, `observations` and
`taken` the topic as digital-twin's reader sees it (a reader that reconnects may
read the last tick again), `occupancies` and `handled` the topic of counts with
telemetry's asynchronous commits, and `estimated` the table of counts. Each
router has a room of its own, so a room's total is a router's. Posts may
overlap, since one that timed out at the collector may still be handled.

**`Sockets`.** Sockets that may be `up`, the claims and the age of each, and the
`room` of one building. `gate` is the queue of subscriptions in `twin.rs`, whose
first one does the `lookup`: cached, asked, retried once, or given up. Time is in
ticks (`Tick`): `age` of sockets and cache, and `gone`, for each domain, how long
the building has been without it. `sweep` is the sweeper of `server.rs`.

**`Agent`, `Conversations`.** A run is in a turn (`hop`) and has `said` some
deltas of it; `RunToolCalls` ends a turn, `Answers` the run, with the turn's own
text less what was made up, or with the marker when hops run out. Every delta is
streamed, so `exchange[a].text` is more than the answer until the terminal event.
`Admit` is the decision of `send_message`, `Persist` the one update at the end,
`BreakOff` any cut in the stream, also with the update applied; `page` is what
`useChatSessions.ts` shows.

**`Preferences`.** `entries[a]` is an account's record for one domain, written by
`Pull` and `PushEntry`, the two updates of `set`, and by `SwitchOn`, one replica's
migration of a new metric between `Look` and `Mark`. `owner[d]` is the
subscription stored for a browser's endpoint; `push[p]` is one push between its
awaits: accounts, devices, sending, deletion of what is gone.

**`Sensors`.** `rooms` is the row of a building, `cache` what `building_cache.rs`
holds of it, with `late` where it was read before a registration and outlived the
drop. A registration is `Register`, the upsert, and `DropEntry`; a batch is asked,
looks up the rooms (`NamesFromCache`, or `NamesFromStore` and `CacheNames`), reads
the sensors it may change (`ReadKnown`), is rejected or committed whole.
`inForce[q]` is the history of rooms since batch `q` began.

**`Simulations`.** `request[r]` is telemetry's handler, `call[r][s]` its call to
simulator `s`, which may be answered, fail, or be given up and arrive late;
`holds[s][b]` is what the simulator runs. `chain[r]` is the chain of timers that
request `r` began at sensor-simulator, and `batch` the buildings that a tick is
posting for. `settled[b]` remembers what the last answer said that met no other
call.

**`Live`.** A reading is its time stamp. `ingest[r]` is telemetry's request,
`tasks` the forwarding tasks of the tunnel, `wire` what socket has sent to the
page. Three connections break apart from each other's business: dashboard's
and socket's to Redis (`RedisBreaks`), the page's to socket (`Disconnect`).
`fetches` are the requests for a snapshot with what each has read, `join` the
page's subscription. `since` is the newest reading that was stored when the page
was last connected: what it must show once its snapshot is there.

**`Dashboard`.** `memory` and `saved` for one building; `writes` are the spawned
upserts. `alone` and `lost` say what may excuse a difference between the two.

**`Session`.** One page of one browser. `users` is Keycloak's, `held[a]` how often an
account's memberships changed, which is all that a token's copy of them (`seen`) is
compared by. `task[r]` is one request, of the page or of its timer: the cookie it
was sent with, what follows it, its answer. `Serve...` and `ServeMe` are the
gateway's handlers, the actions after them what the stores do with an answer, its
cookie first. `hydrating` and `fetching` are the promises that the stores share.
`mixed` marks what the code does not keep apart: a login or logout beside another
request, a request that was lost, a session that ended by itself.

**`Placing`.** `draft` and `unsent` are the refs of `useSensorDraft.ts`; `step` and
`call` the save under way, `late` calls that were given up. `sensors` and
`placements` are the two services', `refOf` tells for which drafted sensor an id
was given, `accepted` where telemetry last accepted a sensor to be. `disturbed`
marks what the editor does not watch for: input while a save is under way,
another editor at that moment, an answer that was lost.

## 4. Runs

`N` is the number of distinct states.

| run | instance | what it shows |
|---|---|---|
| `ProvisioningSafety` | 1 building, 2 workers, 1 client, 2 faults of any kind, 2 claims, 1 call; N = 743 k | `ReadyIsServed`, `CommittedAnswersResolved`, `CommittedRequestsAnswered`, `NotifiedAtMostOnce`, `NoOrphanedTwin`, `KeepsThePromise`. One building with two overlapping workers, an editing or resyncing client and up to two faults of any kind (stop, store error, refused publish, each with or without effect): readiness, commits, single notification and the upload's promise hold. |
| `ProvisioningDecides` | 2 workers, 2 faults of any kind, 3 claims; N = 309 k | `EveryUploadIsDecided`, `FailedTwinGoesAway`. While attempts outnumber faults, every accepted upload is eventually ready or failed, and the twin of a failed one goes away for good unless an edit or a takeover stored it again. |
| `MembershipsSafety` | 3 accounts, 1 code, writes may be lost; 4 requests, 2 in flight; or 2 accounts of a browser, 3 calls, 2 at once; N = 545 k | `AdminComesFromTheIdP`, `PageIsOnesOwn`, `LastManagerGuarded`, `RankRespected`. Requests of any of the nine kinds, two at once, with lost writes, stale tokens and codes of an older release: the role admin comes from the IdP alone; a manager's request that was not overtaken between its check and its write respects rank; and a domain loses its last manager only to an overtaken request, or when that manager joins again or redeems a code for a lower role, which nothing guards. Or a page that two accounts use, with its calls, keep-alive and reloads: unless requests met a login or a logout, it is one account's. |
| `OrganizationsSafety` | 2 organizations, 2 provisioners, 2 faults; or 1 account, 2 calls, 1 change, 1 lost call; N = 254 k | `ReadyHasDomain`, `EveryOrgIsDecided`, `ClaimsCatchUp`. Two organizations, two provisioners, users who found domains of the same names, an operator who suspends and two lost calls or ticks: ready means that the domain exists, and no organization stays pending. Or a page that stays logged in, beside changes of its account's memberships: its token learns of them. |
| `AlertsSafety` | 1 condition, 3 records, 2 in flight, 2 faults; N = 361 k | `CommittedIsHandled`, `SuppressedAfterTold`, `DuplicatesAbsorbed`, `NothingHeldBack`, `EveryBreachIsHandled`. Three records of any kind, two in flight, finishing in any order, with two stops or errors of redis, digital-twin and Kafka: no commit passes an unhandled alert, no suppression is unearned, no watermark sticks, and one record that cannot be parked holds up no other. |
| `ThresholdsSafety` | 1 replica, 2 rooms, capacity 1, 2 requests, 1 administrator, 2 patches; N = 1009 k | `JudgedInForce`, `PatchesTakeEffect`. Two requests and one administrator (one building patch or several rooms', twice) share a cache that is too small, with refused statements, hang-ups, expiries and restarts: readings are judged by what was in force for their room, and patches take effect once entries expire. |
| `WirelessSafety` | 1 phone, 2 routers, 4 ticks, 1 edit, 1 fault, forgotten after 2 ticks; N = 3471 k | `NoGhosts`, `CountedOnce`, `PlanNotMixed`, `CountsSettled`. A phone that comes, roams and goes, polls that fail, ticks in the wrong order or ahead of time, routers that move, and one fault anywhere between collector, telemetry and digital-twin: nobody is counted twice, no track outlives its floor plan, and what is committed is stored. |
| `SocketsSafety` | 2 sockets, 1 domain, cache 2, timeout 1, lifetime 3, spread 1, sweep 2 ticks; N = 266 k | `RoomFollowsDomains`, `EverySubscribeIsAnswered`. Two sockets and one domain: subscriptions that race for one lookup, answers that come late, time out or fail, a building that changes domains, sessions that expire and a restart. Whoever is in the room could read the building within the sum of the time limits, and no subscription waits for ever. |
| `PagesSafety` | 3 questions, 2 hops, room for 2 exchanges; or 2 readings sent twice, 2 reconnects, 1 visit, 1 loss of Redis, 1 restart; N = 1433 k | `BoundedOverrun`, `KeptIsWhole`, `OutageRecovered`. Three questions to one conversation, each with the agent's tool loop behind it, streams that break off anywhere, renames and a deletion: the cap of messages is overrun by at most what was under way, and the whole answer is kept. Or readings that may fail and be sent again, to a page that connects again and is opened again, beside a loss of Redis and a restart of dashboard: a lost connection is made up for. |
| `ChoicesSafety` | 2 accounts of which 1 chooses, 2 devices or 2 requests, 1 replica, 1 push; or 3 sets of columns, 5 changes; or 1 building, 2 sensors, 3 requests; N = 788 k | `ChoiceHolds`, `ReachesEveryDevice`, `SavedWhenAlone`, `AnsweredIsHeld`, `RunningTicks`. Devices that pass between two accounts, requests that overlap and may stop half way, a migration that is repeated and a push: a choice that met no other is in force, and a push reaches every live device of whoever wants it. Or changes of a building's columns with restarts and failing writes: what was written alone is found again. Or starts and stops of its simulation with calls that fail or arrive late: the simulators hold what was answered, and tick exactly while they hold something. |
| `FurnishingSafety` | 1 room, 1 sensor, 2 batches, 2 registrations; or 1 sensor from before, 1 added, 2 ids, 1 position, 1 other removal or 1 lost answer; N = 1297 k | `JudgedByItsRooms`, `NothingForgotten`, `UnsentIsAcceptable`, `CreatedOnceIfAnswered`. Two batches of sensor changes beside two registrations of the building and the cache of its rooms: a batch is judged by rooms that were in force while it ran. Or an editor that adds, moves, removes, saves and discards beside another that removes, with services that refuse, fail or answer too late: nothing that telemetry accepted is forgotten, what is kept can be accepted, and no sensor is created twice while answers arrive. |
| `LiveBroker` | 2 readings, 1 loss of Redis | violated: `EveryReadingRendered`. After Redis went away once the tunnel listens to nothing, and nothing that is ingested is rendered. |

One run expects a violation, a disagreement between the code and what the
repository says: **dashboard's tunnel does not come back** (`EveryReadingRendered`,
against `quality-attributes.qd:20`). It subscribes once, its loop ends with the
connection, and its health check does not tell.

More were met while modelling. They are recorded as hazards, and the properties
are stated for what the code does. Where the refuted statement has a name, the
module still defines it, and a run with it as a property finds the behaviour:

* a domain may be left without a manager (`StaysManaged` of `MCMemberships`,
  against `tenancy.qd:155`, which says that the service guards against it). One
  request suffices: the only manager joins the open domain again (`tenancy.go:255`)
  or redeems a code for a lower role (`tenancy.go:204`), and the upsert takes the
  better role away, as neither looks for other managers. And two managers who leave
  at once both pass the check (`tenancy.go:341`). `LastManagerGuarded` says that there
  is no third way: the checks of leaves, removals and invitations hold when what
  they read still does;
* a start soon after a stop leaves two timers, and every building is posted for
  twice per period (`TicksOnce` of `Simulations`, against `sensor-simulator.qd:48`);
* a lookup brings replaced rooms back into the cache (`CacheFollowsUpserts` of
  `Sensors`, against the comment at `building_cache.rs:12`);
* a quiet page may show an old value (`QuietShowsNewest` of `Live`, against
  `user-stories.qd:102` and the comment at `sensorData.ts:76`): the snapshot is read
  before the page is joined, and what is published in between is in neither;
* two changes of the columns are saved in the other order (`SavedUnlessLost` of
  `Dashboard`, against `dashboard.qd:113`, which admits a loss by a crash only);
* a retry creates a sensor twice when telemetry's answer is lost (`CreatedOnce` of
  `Placing`, against `frontend-architecture.qd:107` and `useSensorDraft.ts:38`);
* what is drafted during a save is thrown away (`AddedIsKept` of `Placing`, against
  the same line): the draft that is emptied is not the one that was sent;
* who logs in to a page whose session ended by itself is shown what the former
  account had fetched (`AlwaysOnesOwn` of `Session`): only a logout resets the stores;
* an edit of the profile signs the memberships of the old token for another fifteen
  minutes (`profile.go`), so that `ClaimsCatchUp` says "again and again", not "from
  then on";
* an edit that overlaps the delete of a failed upload, or a second worker past
  an expired lease, puts the twin back (`buildings.rs:97`, `jobs.rs:198`, against
  `provisioning.rs:116`): `NoOrphanedTwin` and `FailedTwinGoesAway` speak of
  uploads that neither touched;
* `fail` may delete a twin while the other process that fails the upload has
  yet to notify (`provisioning.rs:123`, against the comment at line 118);
* a suspended organization becomes ready again when it was listed before
  (`reconciler.go:41`, against `registry.qd:170`);
* the cooldown does not absorb duplicates that are handled at once
  (`alerts.rs:79`, against `notification.qd:176`): `DuplicatesAbsorbed` allows
  one per slot;
* an upsert does not keep its own replica's threshold cache fresh
  (`threshold_cache.rs:94`, against the comment at line 16);
* an unsubscribe overtakes a subscribe that waits for its lookup, and the
  client stays in the room (`handlers.rs:88`, against `socket.qd:137`);
* a setting that overlaps another, or the migration, may leave two entries
  (`preferences.rs:118`): `ChoiceHolds` speaks of choices that met no other.

### Bounds, and why they are enough

* *Provisioning*: uploads do not share state but the readers of the topics, so
  one building with two workers, a client and both consumers has every race on
  a twin. Two claims and two faults allow one attempt to overtake another and a
  fault in the recovery from a fault. For liveness, claims outnumber faults
  (three and two), else the bound itself would stop recovery.
* *Memberships*: three accounts and two requests in flight have every race
  between a check and a write; four requests let a domain be founded, a code be
  minted and two requests race for it. The third account is for rank, which needs
  a manager, another and a member.
* *Session*: two accounts, so that one can be shown the other's; three calls, two at
  once, let a logout or a login meet another request, and the timer refreshes beside
  them. A token lives three ticks and the timer has two, as in the code (fifteen
  minutes, ten). Where memberships change, one account, two calls and a lost one.
* *Organizations*: two organizations so that one is handled while the other
  waits in a list, two provisioners, two lost calls or ticks.
* *Alerts*: two in flight of three records: the third is fetched after one has
  finished and before the other; two faults stop a redelivery as well.
* *Thresholds*: one replica suffices for the races, as replicas share only the
  table; two rooms with a capacity of one use the sweep, the overflow and the
  overrun; two patches let the second overtake a lookup that saw the first.

* *Wireless*: one phone is enough for every confusion of a person with another
  self; two routers for a roam; `FORGET` and the age limits are two ticks instead
  of minutes, and four ticks forget the phone, meet it again and forget its track;
  posts may lag by one tick; one edit, to one router or to no building (`Placings`);
  one fault, as each is recovered from on its own.
* *Sockets*: one building, as rooms, gates and cache entries are apart; two
  sockets so that one waits behind the other's lookup; one domain that comes and
  goes. Times keep the order of the real ones where it matters (a lookup is
  shorter than the cache's life, that is shorter than a session).
* *Conversations*: room for two exchanges and three questions, two of them at
  once, so that one can overrun; two hops, so that a preamble is told from the answer.
* *Preferences*: one account states its preferences, as records do not share
  anything but the migration; a second one takes over devices. Either two requests
  overlap and there are no devices, or two devices, one dead beside a live one, and
  one request.
* *Simulations*: one building with a sensor of each kind; three requests, so that
  one is late, one stops and one starts again. They begin in order and overlap in
  twos, one call is late at a time, and one edit or restart gets between.
* *Dashboard*: five changes among three sets of columns; rows are independent.
* *Live*: two readings, one overtaking the other, each sent twice; two connections,
  so that the snapshot of the first ends after the second; one visit, one loss of
  Redis, one restart, three of all these together.
* *Sensors*: two batches about one sensor and two registrations, so that a batch
  may span both; a room and outdoors.
* *Placing*: a sensor from before, one that is added and two ids for it. Either there
  is another editor and every answer arrives, or one answer is lost and the sensor
  from before, which is not placed yet, is left alone. Sensors do not interact but
  within a batch.

Deadlock is checked where the system cannot stop (`ThresholdsSafety`: there is
always another batch). In the other runs the bounds on requests, faults and
records end the behaviour.

### Fairness

* *Provisioning*: workers and consumers are spawned loops that reconnect for
  ever (`worker.rs:10`, both `kafka_consumer.rs`), and a lease is a point in
  time, so it expires. No fairness for clients, faults, or the TTL.
* *Organizations*: the ticker never stops, a tick has a deadline, and each call
  answers or errs. None for users and operators.
* *Alerts*: the stream is polled for ever and each call to Redis, digital-twin
  or Kafka has a deadline. None for producers, stops, or the end of a cooldown.
* *Session*: time passes, the gateway and the services it asks answer, and the page
  goes on when its request was answered (`fetch` of a browser ends). None for the
  user, for other administrators, or for what gets lost.
* *Sockets*: time passes, the sweeper runs when due, and a handler that can go
  on does so before the next tick; a lookup is over at its timeout. None for
  clients and restarts. That a socket is dropped when swept is assumed: with a
  client that does not read, `server.rs:111` leaves it to a later sweep.
* *Thresholds*: only time: an entry expires. Requests may stall for ever.
* *Live*: a request ends, stored or failed, and a spawned task runs; an open
  connection delivers; socket's relay reconnects for ever (`server.rs:119`), and so
  does the page (`socket.ts`); a fetch and a subscription are answered or fail. None
  for whoever sends, for the choice of columns, disconnects and restarts.

## 5. Proofs

All theorems hold for any values of the constants that satisfy the module's
named assumption, without the bounds of the MC modules on what overlaps. The
assumptions are distinct names and bounds that are numbers, and besides:
`IN_FLIGHT` of `Alerts` and `FORGET` of `Site` are positive, phones are finitely
many, `INTERVAL` of `Session` is shorter than `TTL`, and the editor's "none" and
"nowhere" are no positions. None is about fairness. Where a run checks several
models together, a theorem is about the specification of the one that it
concerns (`Chat!Spec`, `Page!Spec`, ...): in the run's behaviours the others
stand still. Every invariant and every action property of a passing run is
stated by a theorem. Type correctness, `CodeAdmitsOne`, `OneFounder`,
`InviteOnlyIsInviteOnly` and `ConflictIsNoFailure` are proved and in no run: TLC
found them to hold before.

| module | theorems | statement |
|---|---|---|
| `ProvisioningProofs` | `TypeCorrect`, `ReadyServed` | types; `ReadyIsServed` |
| | `PromiseKept` | `Spec => Promise!Spec`: `Provisioning` implements `UploadPromise` |
| | `NotifiedOnce`, `AnswersResolved`, `RequestsAnswered` | notifications, commits of both consumers |
| | `NoneOrphaned` | `NoOrphanedTwin` |
| `MembershipsProofs` | `TypeCorrect`, `AdminOnlyFromTheIdP`, `InviteOnlyKept`, `OneAccountPerCode`, `OneFounderOnly` | for overlapping requests |
| | `RankIsRespected`, `LastManagerIsGuarded` | for overlapping requests: `RankRespected`, `LastManagerGuarded` |
| | `OnesOwnPage` | `PageIsOnesOwn`, of `Session` |
| `OrganizationsProofs` | `TypeCorrect`, `ReadyOrgsHaveDomains`, `ConflictsAreNoFailures` | types; `ReadyHasDomain`; `ConflictIsNoFailure` |
| `AlertsProofs` | `TypeCorrect`, `CommitsLoseNothing`, `SuppressionIsEarned`, `WatermarkCatchesUp`, `DuplicatesBounded` | types; every invariant of `AlertsSafety` |
| `ThresholdsProofs` | `TypeCorrect`, `JudgementsAreEarned` | types; `JudgedInForce` |
| | `RoomsAreItsOwn` | `JudgedByItsRooms`, of `Sensors` |
| | `KeptCanBeSent`, `NothingIsForgotten`, `MadeOnceIfAnswered` | `UnsentIsAcceptable`, `NothingForgotten`, `CreatedOnceIfAnswered`, of `Placing` |
| `WirelessProofs` | `OnePersonEach`, `OneRoomEach`, `PlanStaysWhole`, `CommittedIsStored` | `NoGhosts`, `CountedOnce`, `PlanNotMixed`, `CountsSettled` |
| `SocketsProofs` | `TypeCorrect`, `RoomIsRecent` | types; `RoomFollowsDomains` |
| | `OverrunIsBounded`, `WholeIsKept` | `BoundedOverrun`, `KeptIsWhole`, of `Conversations` |
| | `OutagesRecover` | `OutageRecovered`, of `Live` |
| `ChoicesProofs` | `ChoicesAreKept`, `NobodyIsMissed` | `ChoiceHolds`, `ReachesEveryDevice`, of `Preferences` |
| | `SavedIsFound` | `SavedWhenAlone`, of `Dashboard` |
| | `SharesAreHeld`, `RunningIsTicking` | `AnsweredIsHeld`, `RunningTicks`, of `Simulations` |

The argument is the same each time: an inductive invariant that says what a
process in the middle of something may rely on, one lemma per action or actor,
and a last temporal step. What is strengthened, and why it has to be:

* *Provisioning*. `ReadyIsServed` alone is not inductive: `ready` is set by an
  answer, so the invariant must reach back to whoever wrote the answer.
  `TasksInv` says what each process knows at its await, `TopicsInv` that every
  message on either topic is about an upload whose twin is stored or which has
  failed, and that a positive answer is about a registered building,
  `UploadsInv` that what was never accepted has no twin. Once `ready`, an upload
  cannot fail, and only failed uploads lose their twin: that is also why every
  step maps to a step of `UploadPromise`. `NotifiersInv` says that the step that
  marks an upload failed makes its process the only notifier; `ConsumerInv` and
  `TelemetryInv` relate a reader's position, its offset and its task.
  For `NoOrphanedTwin`, "no twin of a failed upload is left" is false most of the
  time: `CleanupInv` says that while it is there, something that ends in its
  delete is on its way, a process that is failing it, or a request or an answer
  that a reader has still before it. This needs `HandsInv` (a first claim is one
  worker's alone) and `FlowInv` (the topics say what was uploaded).
* *Memberships*. `PlansOK` carries what a check established to the write that
  relies on it; `AbsentInv` says that nothing refers to a domain that does not
  exist yet, `MembersInv` what rows and admissions imply. `ChecksInv` says that a
  planned write which was not overtaken is still justified: its rank test, and the
  other managers that its check counted, are as they were.
* *Session*. Whose page it is changes in several steps (cookie, hydration, account),
  so `PageInv` has a part for either side of it: `LoggedInInv`, that every request
  under way carries the account's token and can bring back no other's, and
  `VisitorInv`, that a visitor's page has fetched nothing, and that a cookie which
  would be accepted is about to be asked about. `HydrationInv` makes that question
  one at a time, as the shared promise does.
* *Organizations*. `StepsInv`: past the insert, or past a conflict, the domain
  exists; a failure is reported for a pooled organization only after a fault.
* *Alerts*. `FetchedInv`: what was fetched on this connection is in flight or
  handled; `ToldInv`: a cooldown has been earned by a delivery. `SlotsInv`
  counts for `DuplicatesAbsorbed`: until a condition cools down, each alert that
  was delivered has its handler still in a slot of its own, and there are
  `IN_FLIGHT` slots.
* *Thresholds*. `TruthInv`: what is cached or known was in force for that room;
  `LookupsInv`: past the database, no room is unknown.
* *Sensors*. The same, of a building's rooms: `SinceInv`, that the rooms in force
  are among those since a batch began, and `NamesInv`, that a cached entry is right
  unless it was late or a registration is between its upsert and its drop.
* *Placing*. `WatchedInv` says at each step of a save where what telemetry accepted
  is: already at digital-twin, in `unsent`, or in the draft and the answer that are
  about to be merged into it (`Tells`); and that what is deleted has gone for good,
  since ids are not given twice (`Gone`, `ListedInv`). `MadeInv` says of each draft
  of a new sensor that it is in the draft, under way, or made, never two of these
  but between telemetry's commit and its answer.
* *Wireless*. That nobody is counted twice depends on which tokens past ticks
  listed, which no variable holds once they were observed. `HistoryInv` says that
  *some* history of listings fits the token table, the ticks on their way and the
  tracks; each poll adds an entry to the one that is given. `TracksInv` has one
  track per token, of the plan held; `Ledger` relates the offset, the counts
  that were handled and the table.
* *Sockets*. Ages pass from stage to stage (lookup, cache, connection, room), so
  the bound of the last one needs the bounds of all before it.
* *Conversations*. `RoomInv`: a question under way takes up the room that its
  answer will, so the cap is overrun when questions are admitted, not when they
  are kept; `PersistingInv` and `KeptInv` carry what the agent settled on through
  the update to what is kept.
* *Live*. `FetchedInv`: a snapshot that has been read is no older than what had
  been stored when the page was last connected.
* *Preferences*. `MidwayInv`: a request that is alone has pulled every entry of its
  metric, and nobody is about to push one; `ChosenInv` the same of a choice in
  force. `OwnersInv` and `OwedInv` say where, at each await of a push, a device
  that it owes is still to be found.
* *Dashboard*. `ColumnsInv`: a change that is alone is the only write under way.
* *Simulations*. `AloneInv`: the simulators that handled a request which met no
  other hold their shares of its plan; `SettledInv`: nothing is under way that could
  change what was settled.

Most of these invariants were checked by TLC, on the instances of section 4 or
smaller ones, before they were proved; `HistoryInv`, which quantifies over all
histories, is beyond it.

## 6. Only model-checked

* Liveness: `EveryUploadIsDecided`, `FailedTwinGoesAway`, `EveryOrgIsDecided`,
  `ClaimsCatchUp`, `EveryBreachIsHandled`, `PatchesTakeEffect` and
  `EverySubscribeIsAnswered`. Each needs fairness and so `ENABLED`, which the
  prover does not reason about. `PromiseKept` is about safety for the same reason:
  `UploadPromise` states no fairness.
* `EveryReadingRendered`, which is violated.

Nothing is proved about the refuted statements of section 4 but that TLC refutes
them.

## 7. Not modelled

* Of ingestion: the detection of a breach and its publication, which stand
  between `Thresholds` and `Alerts`; what makes a batch invalid.
* Of the wireless pipeline: probe requests with their bursts and one-time
  tokens, router logins, dots on the live feed, and where people are.
* Of the simulators and the dashboard: liveness, beyond that a simulator which
  holds a building has a timer (`RunningTicks`).
* Of the socket service: rooms of domains, which are joined on connection from
  the claims alone, and the relay of messages into rooms.
* The estimator of positions and the values the simulators make up:
  floating-point arithmetic.
* Of the agent: what the model says and retrieval finds, and the replacement of
  a document's chunks.
* Authorization policies: pure decisions over claims; the rank test that
  tenancy uses is in `Memberships`.
* Rate limits, queries, catalogues built at start:
  no state whose order matters, or a library's.
* The frontend but for the session, the live data and the editor of sensors: views,
  and reads that are made again. Of the session, lists of other domains and the
  change of a password. Deployment files and documentation. Deployments run one
  replica of each service today; rollouts overlap two, so the models do not
  assume one, except for a topic's consumer, of which Kafka allows one per
  partition and group.
