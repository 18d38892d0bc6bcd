---------------------------- MODULE Provisioning ----------------------------
(***************************************************************************)
(* Registering a building.  digital-twin accepts an upload into a durable  *)
(* queue; a worker stores the twin and announces it on the `requests`      *)
(* topic; telemetry registers the building and answers on the `answers`    *)
(* topic; digital-twin's consumer resolves the upload.  Three kinds of     *)
(* actor share the twin store - workers, the answer consumer and HTTP      *)
(* clients - and every step between two of their awaits is an action, so   *)
(* they interleave there and may stop there.                               *)
(***************************************************************************)
EXTENDS Naturals, Sequences

CONSTANTS
  Building,       \* the ids digital-twin hands out; one upload each
  Worker,         \* provisioning loops (one per digital-twin process)
  Client,         \* HTTP requests that edit or re-announce a building
  Consumer,       \* digital-twin's consumer of `answers`
  Telemetry,      \* telemetry's consumer of `requests`
  NoBuilding,
  Faults,         \* the kinds of fault that may happen
  MaxFaults,      \* bound: faults of any kind
  MaxAttempts,    \* bound: claims of one upload
  MaxCalls,       \* bound: edits and resyncs
  PurgeRaces      \* TRUE: the TTL may remove a record still being worked on

Reader == {Consumer, Telemetry}
Proc == Worker \cup Client \cup Reader

ASSUME ConstantsAssumption ==
  /\ NoBuilding \notin Building
  /\ Consumer # Telemetry
  /\ Worker \cap Client = {}
  /\ Reader \cap (Worker \cup Client) = {}
  /\ Faults \subseteq {"crash", "store", "publish"}
  /\ MaxFaults \in Nat /\ MaxAttempts \in Nat /\ MaxCalls \in Nat
  /\ PurgeRaces \in BOOLEAN

VARIABLES
  upload,     \* upload[b]: the content accepted for b
  outcome,    \* outcome[b]: the status the upload last had
  purged,     \* finished uploads whose record the TTL index removed
  leased,     \* uploads under an unexpired lease
  attempts,   \* attempts[b]: times b was claimed
  twin,       \* twin[b]: the twin document's content
  registered, \* buildings telemetry knows
  requests,   \* the topic building-registration-requested
  answers,    \* the topic building-registration-completed
  next,       \* next[r]: messages reader r has handled since it connected
  committed,  \* committed[r]: r's committed offset
  task,       \* task[p]: what p is in the middle of
  notified,   \* notified[b]: failure notifications sent for b
  faults,     \* faults so far
  disturbed,  \* history: one of them was more than a refused publish
  calls       \* client calls so far

queueVars == <<upload, outcome, purged, leased, attempts>>
topicVars == <<requests, answers>>
offsetVars == <<next, committed>>
counters == <<faults, disturbed, calls>>
vars == <<queueVars, twin, registered, topicVars, offsetVars, task, notified, counters>>

(* What tells two contents apart: whether telemetry's validation takes them. *)
Content == {"valid", "invalid"}
None == "none"

Step == {"idle", "upserting", "publishing", "failing", "checking", "notifying",
         "deleting", "editing", "syncing", "resyncing", "answering"}
Task == [step : Step, building : Building \cup {NoBuilding}, content : Content \cup {None}]
Idle == [step |-> "idle", building |-> NoBuilding, content |-> None]
Doing(step, b) == [step |-> step, building |-> b, content |-> None]

Request == [building : Building, content : Content]
Answer == [building : Building, ready : BOOLEAN]

TypeOK ==
  /\ upload \in [Building -> Content \cup {None}]
  /\ outcome \in [Building -> {"new", "pending", "ready", "failed"}]
  /\ purged \subseteq Building
  /\ leased \subseteq Building
  /\ attempts \in [Building -> Nat]
  /\ twin \in [Building -> Content \cup {None}]
  /\ registered \subseteq Building
  /\ requests \in Seq(Request)
  /\ answers \in Seq(Answer)
  /\ next \in [Reader -> Nat]
  /\ committed \in [Reader -> Nat]
  /\ task \in [Proc -> Task]
  /\ notified \in [Building -> Nat]
  /\ faults \in Nat
  /\ disturbed \in BOOLEAN
  /\ calls \in Nat

Init ==
  /\ upload = [b \in Building |-> None]
  /\ outcome = [b \in Building |-> "new"]
  /\ purged = {} /\ leased = {} /\ registered = {}
  /\ attempts = [b \in Building |-> 0]
  /\ twin = [b \in Building |-> None]
  /\ requests = <<>> /\ answers = <<>>
  /\ next = [r \in Reader |-> 0]
  /\ committed = [r \in Reader |-> 0]
  /\ task = [p \in Proc |-> Idle]
  /\ notified = [b \in Building |-> 0]
  /\ faults = 0 /\ disturbed = FALSE /\ calls = 0

At(p, step) == task[p].step = step
Job(p) == task[p].building
GoTo(p, t) == task' = [task EXCEPT ![p] = t]

(* A reader's record handled: the next one is due, and the asynchronous    *)
(* commit may land now or not at all.                                      *)
Settle(p) ==
  /\ GoTo(p, Idle)
  /\ IF p \in Reader
     THEN /\ next' = [next EXCEPT ![p] = @ + 1]
          /\ committed' \in {committed, [committed EXCEPT ![p] = next[p] + 1]}
     ELSE UNCHANGED offsetVars

(* The work of p is dropped; a reader reconnects at its committed offset.  *)
Abandon(p) ==
  /\ GoTo(p, Idle)
  /\ next' = IF p \in Reader THEN [next EXCEPT ![p] = committed[p]] ELSE next
  /\ UNCHANGED committed

Fault(kind) ==
  /\ kind \in Faults
  /\ faults < MaxFaults
  /\ faults' = faults + 1
  /\ disturbed' = (disturbed \/ kind # "publish")
  /\ UNCHANGED calls

-----------------------------------------------------------------------------
(* The upload queue *)

Accept(b) ==
  /\ outcome[b] = "new"
  /\ outcome' = [outcome EXCEPT ![b] = "pending"]
  /\ \E c \in Content : upload' = [upload EXCEPT ![b] = c]
  /\ UNCHANGED <<purged, leased, attempts, twin, registered, topicVars, offsetVars,
                 task, notified, counters>>

(* Pending and not under a live lease.  The lease outlives the work it     *)
(* covers: an upload still unanswered when it expires is provisioned again.*)
Claim(w, b) ==
  /\ At(w, "idle")
  /\ outcome[b] = "pending" /\ b \notin leased
  /\ attempts[b] < MaxAttempts
  /\ leased' = leased \cup {b}
  /\ attempts' = [attempts EXCEPT ![b] = @ + 1]
  /\ GoTo(w, Doing("upserting", b))
  /\ UNCHANGED <<upload, outcome, purged, twin, registered, topicVars, offsetVars,
                 notified, counters>>

LeaseNeverExpires(b) == FALSE /\ UNCHANGED vars  \* mutant: only unleased uploads are claimable
LeaseExpires(b) ==
  /\ b \in leased
  /\ leased' = leased \ {b}
  /\ UNCHANGED <<upload, outcome, purged, attempts, twin, registered, topicVars,
                 offsetVars, task, notified, counters>>

(* An upload is resolved once: the update matches on `pending`. *)
ResolvableAlways(b) == outcome[b] # "new"  \* mutant: the filter matches on the id alone
Resolvable(b) == outcome[b] = "pending"
ResolveKeepsStatus(b, o) ==  \* mutant: the lease is cleared, the status stays
  outcome' = outcome /\ leased' = leased \ {b}
Resolve(b, o) ==
  /\ outcome' = [outcome EXCEPT ![b] = o]
  /\ leased' = leased \ {b}

(* No process and no unread message concerns b. *)
Quiet(b) ==
  /\ \A p \in Proc : Job(p) # b
  /\ \A i \in next[Telemetry] + 1 .. Len(requests) : requests[i].building # b
  /\ \A i \in committed[Consumer] + 1 .. Len(answers) : answers[i].building # b

Purge(b) ==
  /\ outcome[b] \in {"ready", "failed"} /\ b \notin purged
  /\ PurgeRaces \/ Quiet(b)
  /\ purged' = purged \cup {b}
  /\ UNCHANGED <<upload, outcome, leased, attempts, twin, registered, topicVars,
                 offsetVars, task, notified, counters>>

-----------------------------------------------------------------------------
(* provision: store the twin, then announce it *)

Upsert(w) ==
  /\ At(w, "upserting")
  /\ twin' = [twin EXCEPT ![Job(w)] = upload[Job(w)]]
  /\ GoTo(w, Doing("publishing", Job(w)))
  /\ UNCHANGED <<queueVars, registered, topicVars, offsetVars, notified, counters>>

Announce(b, c) ==
  requests' = Append(requests, [building |-> b, content |-> c])

(* Seeding dashboard's preferences, which follows, is best effort. *)
Publish(w) ==
  /\ At(w, "publishing")
  /\ Announce(Job(w), upload[Job(w)])
  /\ Settle(w)
  /\ UNCHANGED <<queueVars, twin, registered, answers, notified, counters>>

(* The call reports an error; the write may have landed all the same. *)
UpsertFails(w) ==
  /\ At(w, "upserting")
  /\ Fault("store")
  /\ twin' \in {twin, [twin EXCEPT ![Job(w)] = upload[Job(w)]]}
  /\ GoTo(w, Doing("failing", Job(w)))
  /\ UNCHANGED <<queueVars, registered, topicVars, offsetVars, notified>>

PublishFails(w) ==
  /\ At(w, "publishing")
  /\ Fault("publish")
  /\ requests' = requests \/ Announce(Job(w), upload[Job(w)])
  /\ GoTo(w, Doing("failing", Job(w)))
  /\ UNCHANGED <<queueVars, twin, registered, answers, offsetVars, notified>>

-----------------------------------------------------------------------------
(* fail: shared by the worker and the answer consumer *)

MarkFailed(p) ==
  /\ At(p, "failing")
  /\ IF Resolvable(Job(p))
     THEN /\ Resolve(Job(p), "failed")
          /\ GoTo(p, Doing("notifying", Job(p)))
     ELSE /\ GoTo(p, Doing("checking", Job(p)))
          /\ UNCHANGED <<outcome, leased>>
  /\ UNCHANGED <<upload, purged, attempts, twin, registered, topicVars, offsetVars,
                 notified, counters>>

(* Nothing pending matched: only an upload already failed has its delete   *)
(* run again.                                                              *)
DeleteUnlessPending(b) == TRUE  \* mutant: any late failure deletes
DeleteNever(b) == FALSE         \* mutant: a failure that matches nothing is dropped
DeleteAgain(b) == outcome[b] = "failed" /\ b \notin purged
Check(p) ==
  /\ At(p, "checking")
  /\ IF DeleteAgain(Job(p))
     THEN GoTo(p, Doing("deleting", Job(p))) /\ UNCHANGED offsetVars
     ELSE Settle(p)
  /\ UNCHANGED <<queueVars, twin, registered, topicVars, notified, counters>>

Notify(p) ==
  /\ At(p, "notifying")
  /\ notified' = [notified EXCEPT ![Job(p)] = @ + 1]
  /\ GoTo(p, Doing("deleting", Job(p)))
  /\ UNCHANGED <<queueVars, twin, registered, topicVars, offsetVars, counters>>

Delete(p) ==
  /\ At(p, "deleting")
  /\ twin' = [twin EXCEPT ![Job(p)] = None]
  /\ Settle(p)
  /\ UNCHANGED <<queueVars, registered, topicVars, notified, counters>>

(* A store call of `fail` errs, with or without having taken effect.  The  *)
(* worker goes on to its next claim; the consumer reconnects and rereads.  *)
FailErrs(p) ==
  /\ Fault("store")
  /\ \/ /\ At(p, "failing")
        /\ \/ UNCHANGED <<outcome, leased>>
           \/ Resolvable(Job(p)) /\ Resolve(Job(p), "failed")
        /\ UNCHANGED twin
     \/ At(p, "checking") /\ UNCHANGED <<outcome, leased, twin>>
     \/ /\ At(p, "deleting")
        /\ twin' \in {twin, [twin EXCEPT ![Job(p)] = None]}
        /\ UNCHANGED <<outcome, leased>>
  /\ Abandon(p)
  /\ UNCHANGED <<upload, purged, attempts, registered, topicVars, notified>>

-----------------------------------------------------------------------------
(* digital-twin's consumer of `answers` *)

Unread(r, log) == At(r, "idle") /\ next[r] < Len(log)

ResolveReady ==
  /\ Unread(Consumer, answers)
  /\ LET a == answers[next[Consumer] + 1] IN
     /\ a.ready
     /\ IF Resolvable(a.building)
        THEN Resolve(a.building, "ready")
        ELSE UNCHANGED <<outcome, leased>>
  /\ Settle(Consumer)
  /\ UNCHANGED <<upload, purged, attempts, twin, registered, topicVars, notified, counters>>

ResolveReadyErrs ==
  /\ Unread(Consumer, answers)
  /\ Fault("store")
  /\ LET a == answers[next[Consumer] + 1] IN
     /\ a.ready
     /\ \/ UNCHANGED <<outcome, leased>>
        \/ Resolvable(a.building) /\ Resolve(a.building, "ready")
  /\ Abandon(Consumer)
  /\ UNCHANGED <<upload, purged, attempts, twin, registered, topicVars, notified>>

ResolveFailed ==
  /\ Unread(Consumer, answers)
  /\ LET a == answers[next[Consumer] + 1] IN
     /\ ~a.ready
     /\ GoTo(Consumer, Doing("failing", a.building))
  /\ UNCHANGED <<queueVars, twin, registered, topicVars, offsetVars, notified, counters>>

-----------------------------------------------------------------------------
(* telemetry's consumer of `requests` *)

(* An invalid request stores nothing; both kinds are answered next. *)
Register ==
  /\ Unread(Telemetry, requests)
  /\ LET r == requests[next[Telemetry] + 1] IN
     /\ registered' = registered \cup (IF r.content = "valid" THEN {r.building} ELSE {})
     /\ GoTo(Telemetry, [step |-> "answering", building |-> r.building,
                         content |-> r.content])
  /\ UNCHANGED <<queueVars, twin, topicVars, offsetVars, notified, counters>>

Reply ==
  answers' = Append(answers, [building |-> Job(Telemetry),
                              ready |-> task[Telemetry].content = "valid"])

PublishAnswer ==
  /\ At(Telemetry, "answering")
  /\ Reply
  /\ Settle(Telemetry)
  /\ UNCHANGED <<queueVars, twin, registered, requests, notified, counters>>

(* A store outage answers nothing; a refused answer may still have landed. *)
RegisterErrs ==
  /\ Unread(Telemetry, requests)
  /\ Fault("store")
  /\ LET r == requests[next[Telemetry] + 1] IN
     /\ r.content = "valid"
     /\ registered' \in {registered, registered \cup {r.building}}
  /\ Abandon(Telemetry)
  /\ UNCHANGED <<queueVars, twin, topicVars, notified>>

PublishAnswerFails ==
  /\ At(Telemetry, "answering")
  /\ Fault("publish")
  /\ answers' = answers \/ Reply
  /\ Abandon(Telemetry)
  /\ UNCHANGED <<queueVars, twin, registered, requests, notified>>

-----------------------------------------------------------------------------
(* Clients: PATCH (and the rename-on-read of GET) reads the whole document *)
(* and writes it back; POST sync announces a building that exists.         *)

Call == calls < MaxCalls /\ calls' = calls + 1 /\ UNCHANGED <<faults, disturbed>>

Read(c, b, step) ==
  /\ At(c, "idle")
  /\ twin[b] # None
  /\ Call
  /\ GoTo(c, [step |-> step, building |-> b, content |-> twin[b]])
  /\ UNCHANGED <<queueVars, twin, registered, topicVars, offsetVars, notified>>

(* A PATCH that changed the name goes on to telemetry, which validates it  *)
(* too; a rename-on-read stops here.                                       *)
EditWrite(c) ==
  /\ At(c, "editing")
  /\ \E new \in Content :
       /\ twin' = [twin EXCEPT ![Job(c)] = new]
       /\ \/ new = "valid" /\ GoTo(c, Doing("syncing", Job(c)))
          \/ GoTo(c, Idle)
  /\ UNCHANGED <<queueVars, registered, topicVars, offsetVars, notified, counters>>

EditSync(c) ==
  /\ At(c, "syncing")
  /\ registered' = registered \cup {Job(c)}
  /\ Settle(c)
  /\ UNCHANGED <<queueVars, twin, topicVars, notified, counters>>

Resync(c) ==
  /\ At(c, "resyncing")
  /\ Announce(Job(c), task[c].content)
  /\ Settle(c)
  /\ UNCHANGED <<queueVars, twin, registered, answers, notified, counters>>

-----------------------------------------------------------------------------
(* A process stops, or a request is dropped, between two of its awaits. *)
Crash(p) ==
  /\ Fault("crash")
  /\ ~At(p, "idle") \/ (p \in Reader /\ next[p] # committed[p])
  /\ Abandon(p)
  /\ UNCHANGED <<queueVars, twin, registered, topicVars, notified>>

FailStep(p) == MarkFailed(p) \/ Check(p) \/ Notify(p) \/ Delete(p)
WorkerStep(w) == (\E b \in Building : Claim(w, b)) \/ Upsert(w) \/ Publish(w) \/ FailStep(w)
ConsumerStep == ResolveReady \/ ResolveFailed \/ FailStep(Consumer)
TelemetryStep == Register \/ PublishAnswer
ClientStep(c) ==
  \/ \E b \in Building : Read(c, b, "editing") \/ Read(c, b, "resyncing")
  \/ EditWrite(c) \/ EditSync(c) \/ Resync(c)

Next ==
  \/ \E b \in Building : Accept(b) \/ LeaseExpires(b) \/ Purge(b)
  \/ \E w \in Worker : WorkerStep(w) \/ UpsertFails(w) \/ PublishFails(w) \/ FailErrs(w)
  \/ ConsumerStep \/ ResolveReadyErrs \/ FailErrs(Consumer)
  \/ TelemetryStep \/ RegisterErrs \/ PublishAnswerFails
  \/ \E c \in Client : ClientStep(c)
  \/ \E p \in Proc : Crash(p)

Spec == Init /\ [][Next]_vars

(* The loops are spawned tasks that never return, and time passes. *)
Fairness ==
  /\ \A w \in Worker : WF_vars(WorkerStep(w))
  /\ WF_vars(ConsumerStep)
  /\ WF_vars(TelemetryStep)
  /\ \A b \in Building : WF_vars(LeaseExpires(b))

FairSpec == Spec /\ Fairness

-----------------------------------------------------------------------------
(* What is needed, beyond the properties below, to prove them: see module  *)
(* ProvisioningProofs.                                                     *)

(* b was accepted, and its twin is stored unless the upload failed. *)
Served(b) == outcome[b] # "new" /\ (outcome[b] # "failed" => twin[b] # None)

UploadsInv ==
  \A b \in Building :
    /\ outcome[b] # "new" => upload[b] \in Content
    /\ outcome[b] = "new" => twin[b] = None

TaskOK(p) ==
  task[p] # Idle =>
    /\ Job(p) \in Building
    /\ outcome[Job(p)] # "new"
    /\ task[p].step \in {"publishing", "resyncing", "answering"} => Served(Job(p))
    /\ task[p].step \in {"resyncing", "answering"} => task[p].content \in Content
    /\ At(p, "answering") /\ task[p].content = "valid" => Job(p) \in registered
    /\ task[p].step \in {"notifying", "deleting"} => outcome[Job(p)] = "failed"
    /\ At(p, "checking") => outcome[Job(p)] # "pending"

TasksInv == \A p \in Proc : TaskOK(p)

TopicsInv ==
  /\ \A i \in 1 .. Len(requests) : Served(requests[i].building)
  /\ \A i \in 1 .. Len(answers) :
       /\ Served(answers[i].building)
       /\ answers[i].ready => answers[i].building \in registered

(* An upload has one notifier, and none once it was notified. *)
NotifiersInv ==
  /\ \A b \in Building : notified[b] = 0 \/ (notified[b] = 1 /\ outcome[b] = "failed")
  /\ \A p \in Proc : At(p, "notifying") =>
       /\ notified[Job(p)] = 0
       /\ \A q \in Proc : At(q, "notifying") /\ Job(q) = Job(p) => q = p

(* A busy reader is at the first message it has not handled, and all it    *)
(* has handled is settled.                                                 *)
ConsumerInv ==
  /\ committed[Consumer] <= next[Consumer]
  /\ next[Consumer] <= Len(answers)
  /\ task[Consumer].step \in {"idle", "failing", "checking", "notifying", "deleting"}
  /\ ~At(Consumer, "idle") =>
       next[Consumer] < Len(answers) /\ Job(Consumer) = answers[next[Consumer] + 1].building
  /\ \A i \in 1 .. next[Consumer] : outcome[answers[i].building] # "pending"

Answered(b) == \E j \in 1 .. Len(answers) : answers[j].building = b

TelemetryInv ==
  /\ committed[Telemetry] <= next[Telemetry]
  /\ next[Telemetry] <= Len(requests)
  /\ task[Telemetry].step \in {"idle", "answering"}
  /\ At(Telemetry, "answering") =>
       next[Telemetry] < Len(requests) /\ Job(Telemetry) = requests[next[Telemetry] + 1].building
  /\ \A i \in 1 .. next[Telemetry] : Answered(requests[i].building)

-----------------------------------------------------------------------------
(* A building declared ready can be read in both services: its twin is     *)
(* stored and telemetry knows it - through re-provisioning, refused        *)
(* publishes, late failures of a resync, the TTL and every crash.          *)
ReadyIsServed ==
  \A b \in Building : outcome[b] = "ready" => twin[b] # None /\ b \in registered

(* "A crash between reading an answer and resolving it must leave the      *)
(* answer unread": an offset is committed only past answers whose upload   *)
(* is decided.                                                             *)
CommittedAnswersResolved ==
  \A i \in 1 .. committed[Consumer] : outcome[answers[i].building] # "pending"

(* The same on the other side: telemetry commits past a request only when  *)
(* an answer for its building is on the topic.                             *)
CommittedRequestsAnswered ==
  \A i \in 1 .. committed[Telemetry] : Answered(requests[i].building)

(* A failed upload is notified at most once, although workers and the      *)
(* consumer may all run `fail` for it, and rerun it.                       *)
NotifiedAtMostOnce == \A b \in Building : notified[b] <= 1

(* The pipeline keeps what an upload is promised. *)
Promise == INSTANCE UploadPromise WITH live <- [b \in Building |-> twin[b] # None]
KeepsThePromise == Promise!Spec

(* Every accepted upload is decided, as long as attempts outnumber faults. *)
EveryUploadIsDecided ==
  \A b \in Building : outcome[b] = "pending" ~> outcome[b] \in {"ready", "failed"}

(* Nothing but refused publishes struck, and then only one worker had the  *)
(* upload: a second one, past a lease that expired, stores and announces   *)
(* what the first has failed.                                              *)
Undisturbed(b) ==
  /\ faults = 0 \/ (~disturbed /\ attempts[b] <= 1)
  /\ calls = 0 /\ b \notin purged

(* Undisturbed, the twin of a failed upload goes away for good, also when  *)
(* a re-provisioning stores it again after the first delete.               *)
FailedTwinGoesAway ==
  \A b \in Building : []Undisturbed(b) => (outcome[b] = "failed" ~> [](twin[b] = None))

(* provisioning.rs: "A failed upload must not leave an orphaned twin       *)
(* behind": with nothing left running or unread for it, it has no twin -   *)
(* again when undisturbed: an edit that overlaps the delete, too, writes   *)
(* the document back.                                                      *)
NoOrphanedTwin ==
  \A b \in Building : Undisturbed(b) /\ outcome[b] = "failed" /\ Quiet(b) => twin[b] = None
=============================================================================
