------------------------- MODULE ProvisioningProofs -------------------------
(***************************************************************************)
(* Proofs about Provisioning, for any number of buildings, workers and     *)
(* clients and any bound on faults, attempts and calls.                    *)
(*                                                                         *)
(* The argument: a twin is removed only by `fail`, and only for an upload  *)
(* already failed (TasksInv).  So once an upload's twin has been stored it *)
(* stays `Served` while the upload is pending or ready, and every request  *)
(* and answer on the topics speaks of a served building (TopicsInv) -      *)
(* which is what ReadyIsServed needs at the moment an answer is resolved.  *)
(*                                                                         *)
(* On it rest, in this order: the refinement of UploadPromise, step by     *)
(* step; what at-least-once delivery is built for, from the places of the  *)
(* two readers (ConsumerInv, TelemetryInv) and of the notifiers; and that  *)
(* a failed upload leaves no twin behind, for which something is always    *)
(* on its way to delete what is still stored (CleanupInv).                 *)
(***************************************************************************)
EXTENDS Provisioning, SequenceTheorems, TLAPS

TypeInv == TypeOK /\ UploadsInv /\ TasksInv /\ TopicsInv

LEMMA InitInv == Init => TypeInv
<1> SUFFICES ASSUME Init PROVE TypeInv
  OBVIOUS
<1>0. disturbed \in BOOLEAN
  BY DEF Init
<1>1. TypeOK
  BY <1>0, ConstantsAssumption DEF Init, TypeOK, Task, Idle, Step, Content, None, Reader, Proc
<1>2. UploadsInv /\ TasksInv /\ TopicsInv
  BY ConstantsAssumption DEF Init, UploadsInv, TasksInv, TaskOK, TopicsInv, Proc, Reader, Idle
<1> QED BY <1>1, <1>2 DEF TypeInv

-----------------------------------------------------------------------------
(* What a process may be given to do, and what ending its work leaves.     *)

LEMMA TaskTypes ==
  /\ Idle \in Task
  /\ \A s \in Step, b \in Building : Doing(s, b) \in Task
  /\ \A s \in Step, b \in Building, c \in Content :
       [step |-> s, building |-> b, content |-> c] \in Task
  /\ \A t \in Task : t.step \in Step /\ t.content \in Content \cup {None}
BY DEF Task, Idle, Doing, Step

LEMMA AtWork ==
  ASSUME TasksInv, NEW p \in Proc, task[p].step # "idle"
  PROVE  Job(p) \in Building /\ outcome[Job(p)] # "new"
BY DEF TasksInv, TaskOK, Idle

LEMMA DoingTypes ==
  ASSUME TypeOK, NEW p \in Proc, NEW s \in Step, NEW b \in Building, GoTo(p, Doing(s, b))
  PROVE  task' \in [Proc -> Task]
BY TaskTypes DEF GoTo, TypeOK

LEMMA SettleTypes ==
  ASSUME TypeOK, NEW p \in Proc, Settle(p)
  PROVE  /\ task' \in [Proc -> Task]
         /\ next' \in [Reader -> Nat]
         /\ committed' \in [Reader -> Nat]
<1>1. task' \in [Proc -> Task]
  BY TaskTypes DEF Settle, GoTo, TypeOK
<1>2. CASE p \in Reader
  BY <1>1, <1>2 DEF Settle, TypeOK
<1>3. CASE p \notin Reader
  BY <1>1, <1>3 DEF Settle, TypeOK, offsetVars
<1> QED BY <1>2, <1>3

LEMMA AbandonTypes ==
  ASSUME TypeOK, NEW p \in Proc, Abandon(p)
  PROVE  /\ task' \in [Proc -> Task]
         /\ next' \in [Reader -> Nat]
         /\ committed' \in [Reader -> Nat]
<1>1. task' \in [Proc -> Task] /\ committed' = committed
  BY TaskTypes DEF Abandon, GoTo, TypeOK
<1>2. CASE p \in Reader
  BY <1>1, <1>2 DEF Abandon, TypeOK
<1>3. CASE p \notin Reader
  BY <1>1, <1>3 DEF Abandon, TypeOK
<1> QED BY <1>2, <1>3

-----------------------------------------------------------------------------
(* Every step, whichever actor takes it, preserves the types. *)

LEMMA FaultTypes ==
  ASSUME TypeOK, NEW kind, Fault(kind)
  PROVE  faults' \in Nat /\ disturbed' \in BOOLEAN /\ calls' \in Nat
BY DEF Fault, TypeOK

LEMMA NextTypeOK ==
  ASSUME TypeInv, [Next]_vars
  PROVE  TypeOK'
<1> USE ConstantsAssumption DEF TypeInv
<1>1. ASSUME NEW b \in Building, Accept(b) PROVE TypeOK'
  BY <1>1 DEF Accept, TypeOK, queueVars, topicVars, offsetVars, counters, Content
<1>2. ASSUME NEW b \in Building, LeaseExpires(b) PROVE TypeOK'
  BY <1>2 DEF LeaseExpires, TypeOK, queueVars, topicVars, offsetVars, counters
<1>3. ASSUME NEW b \in Building, Purge(b) PROVE TypeOK'
  BY <1>3 DEF Purge, TypeOK, queueVars, topicVars, offsetVars, counters
<1>4. ASSUME NEW w \in Worker, Upsert(w) PROVE TypeOK'
  <2>1. w \in Proc
    BY DEF Proc, Reader
  <2>2. Job(w) \in Building /\ outcome[Job(w)] # "new"
    BY <1>4, <2>1, AtWork DEF Upsert, At
  <2>3. upload[Job(w)] \in Content
    BY <2>2 DEF UploadsInv
  <2>4. task' \in [Proc -> Task]
    BY <1>4, <2>1, <2>2, DoingTypes DEF Upsert, Step
  <2> QED BY <1>4, <2>1, <2>2, <2>3, <2>4 DEF Upsert, TypeOK, queueVars, topicVars, offsetVars, counters, Content
<1>5. ASSUME NEW w \in Worker, Publish(w) PROVE TypeOK'
  <2>1. w \in Proc
    BY DEF Proc, Reader
  <2>2. Job(w) \in Building /\ outcome[Job(w)] # "new"
    BY <1>5, <2>1, AtWork DEF Publish, At
  <2>3. upload[Job(w)] \in Content
    BY <2>2 DEF UploadsInv
  <2>4. task' \in [Proc -> Task] /\ next' \in [Reader -> Nat] /\ committed' \in [Reader -> Nat]
    BY <1>5, <2>1, SettleTypes DEF Publish
  <2> QED BY <1>5, <2>1, <2>2, <2>3, <2>4 DEF Publish, TypeOK, queueVars, topicVars, offsetVars, counters, Announce, Request
<1>6. ASSUME NEW w \in Worker, UpsertFails(w) PROVE TypeOK'
  <2>1. w \in Proc
    BY DEF Proc, Reader
  <2>2. Job(w) \in Building /\ outcome[Job(w)] # "new"
    BY <1>6, <2>1, AtWork DEF UpsertFails, At
  <2>3. upload[Job(w)] \in Content
    BY <2>2 DEF UploadsInv
  <2>4. task' \in [Proc -> Task]
    BY <1>6, <2>1, <2>2, DoingTypes DEF UpsertFails, Step
  <2> QED BY <1>6, <2>1, <2>2, <2>3, <2>4 DEF UpsertFails, TypeOK, queueVars, topicVars, offsetVars, counters, Content, Fault
<1>7. ASSUME NEW w \in Worker, PublishFails(w) PROVE TypeOK'
  <2>1. w \in Proc
    BY DEF Proc, Reader
  <2>2. Job(w) \in Building /\ outcome[Job(w)] # "new"
    BY <1>7, <2>1, AtWork DEF PublishFails, At
  <2>3. upload[Job(w)] \in Content
    BY <2>2 DEF UploadsInv
  <2>4. task' \in [Proc -> Task]
    BY <1>7, <2>1, <2>2, DoingTypes DEF PublishFails, Step
  <2>5. requests' \in Seq(Request)
    <3>1. [building |-> Job(w), content |-> upload[Job(w)]] \in Request
      BY <2>2, <2>3 DEF Request
    <3>2. requests' = requests \/ requests' = Append(requests, [building |-> Job(w), content |-> upload[Job(w)]])
      BY <1>7 DEF PublishFails, Announce
    <3>3. requests \in Seq(Request)
      BY DEF TypeOK
    <3> QED BY <3>1, <3>2, <3>3, AppendProperties
  <2>6. faults' \in Nat /\ disturbed' \in BOOLEAN /\ calls' \in Nat
    BY <1>7, FaultTypes DEF PublishFails
  <2> QED BY <1>7, <2>4, <2>5, <2>6 DEF PublishFails, TypeOK, queueVars, topicVars, offsetVars, counters
<1>8. ASSUME NEW p \in Proc, Notify(p) PROVE TypeOK'
  <2>1. p \in Proc
    BY DEF Proc, Reader
  <2>2. Job(p) \in Building /\ outcome[Job(p)] # "new"
    BY <1>8, <2>1, AtWork DEF Notify, At
  <2>3. task' \in [Proc -> Task]
    BY <1>8, <2>1, <2>2, DoingTypes DEF Notify, Step
  <2> QED BY <1>8, <2>1, <2>2, <2>3 DEF Notify, TypeOK, queueVars, topicVars, offsetVars, counters
<1>9. ASSUME NEW p \in Proc, Delete(p) PROVE TypeOK'
  <2>1. p \in Proc
    BY DEF Proc, Reader
  <2>2. Job(p) \in Building /\ outcome[Job(p)] # "new"
    BY <1>9, <2>1, AtWork DEF Delete, At
  <2>3. task' \in [Proc -> Task] /\ next' \in [Reader -> Nat] /\ committed' \in [Reader -> Nat]
    BY <1>9, <2>1, SettleTypes DEF Delete
  <2> QED BY <1>9, <2>1, <2>2, <2>3 DEF Delete, TypeOK, queueVars, topicVars, offsetVars, counters
<1>10. ASSUME NEW p \in Proc, FailErrs(p) PROVE TypeOK'
  <2>1. p \in Proc
    BY DEF Proc, Reader
  <2>2. Job(p) \in Building /\ outcome[Job(p)] # "new"
    BY <1>10, <2>1, AtWork DEF FailErrs, At
  <2>3. task' \in [Proc -> Task] /\ next' \in [Reader -> Nat] /\ committed' \in [Reader -> Nat]
    BY <1>10, <2>1, AbandonTypes DEF FailErrs
  <2>4. faults' \in Nat /\ disturbed' \in BOOLEAN /\ calls' \in Nat
    BY <1>10, FaultTypes DEF FailErrs
  <2>5. outcome' \in [Building -> {"new", "pending", "ready", "failed"}] /\ leased' \subseteq Building
    BY <1>10, <2>2 DEF FailErrs, Resolve, TypeOK
  <2>6. twin' \in [Building -> Content \cup {None}]
    BY <1>10, <2>2 DEF FailErrs, TypeOK
  <2> QED BY <1>10, <2>3, <2>4, <2>5, <2>6 DEF FailErrs, TypeOK, queueVars, topicVars, offsetVars, counters
<1>11. ASSUME NEW p \in Proc, Crash(p) PROVE TypeOK'
  <2>1. p \in Proc
    BY DEF Proc, Reader
  <2>2. task' \in [Proc -> Task] /\ next' \in [Reader -> Nat] /\ committed' \in [Reader -> Nat]
    BY <1>11, <2>1, AbandonTypes DEF Crash
  <2> QED BY <1>11, <2>1, <2>2 DEF Crash, TypeOK, queueVars, topicVars, offsetVars, counters, Fault
<1>12. ASSUME NEW c \in Client, EditSync(c) PROVE TypeOK'
  <2>1. c \in Proc
    BY DEF Proc, Reader
  <2>2. Job(c) \in Building /\ outcome[Job(c)] # "new"
    BY <1>12, <2>1, AtWork DEF EditSync, At
  <2>3. task' \in [Proc -> Task] /\ next' \in [Reader -> Nat] /\ committed' \in [Reader -> Nat]
    BY <1>12, <2>1, SettleTypes DEF EditSync
  <2> QED BY <1>12, <2>1, <2>2, <2>3 DEF EditSync, TypeOK, queueVars, topicVars, offsetVars, counters
<1>20. ASSUME NEW w \in Worker, NEW b \in Building, Claim(w, b) PROVE TypeOK'
  <2>1. task' \in [Proc -> Task]
    BY <1>20, DoingTypes DEF Claim, Proc, Step
  <2> QED BY <1>20, <2>1 DEF Claim, TypeOK, queueVars, topicVars, offsetVars, counters
<1>21. ASSUME NEW p \in Proc, MarkFailed(p) PROVE TypeOK'
  <2>1. Job(p) \in Building
    BY <1>21, AtWork DEF MarkFailed, At
  <2>2. task' \in [Proc -> Task]
    BY <1>21, <2>1, DoingTypes DEF MarkFailed, Step
  <2> QED BY <1>21, <2>1, <2>2 DEF MarkFailed, Resolvable, Resolve, TypeOK, queueVars, topicVars, offsetVars, counters
<1>22. ASSUME NEW p \in Proc, Check(p) PROVE TypeOK'
  <2>1. Job(p) \in Building
    BY <1>22, AtWork DEF Check, At
  <2>2. CASE DeleteAgain(Job(p))
    <3>1. task' \in [Proc -> Task]
      BY <1>22, <2>1, <2>2, DoingTypes DEF Check, Step
    <3> QED BY <1>22, <2>2, <3>1 DEF Check, TypeOK, queueVars, topicVars, offsetVars, counters
  <2>3. CASE ~DeleteAgain(Job(p))
    <3>1. task' \in [Proc -> Task] /\ next' \in [Reader -> Nat] /\ committed' \in [Reader -> Nat]
      BY <1>22, <2>3, SettleTypes DEF Check
    <3> QED BY <1>22, <3>1 DEF Check, TypeOK, queueVars, topicVars, offsetVars, counters
  <2> QED BY <2>2, <2>3
<1>23. CASE ResolveReady
  <2>1. task' \in [Proc -> Task] /\ next' \in [Reader -> Nat] /\ committed' \in [Reader -> Nat]
    BY <1>23, SettleTypes DEF ResolveReady, Proc, Reader
  <2> QED BY <1>23, <2>1 DEF ResolveReady, Resolvable, Resolve, TypeOK, queueVars, topicVars, offsetVars, counters
<1>24. CASE ResolveReadyErrs
  <2>1. task' \in [Proc -> Task] /\ next' \in [Reader -> Nat] /\ committed' \in [Reader -> Nat]
    BY <1>24, AbandonTypes DEF ResolveReadyErrs, Proc, Reader
  <2>2. faults' \in Nat /\ disturbed' \in BOOLEAN /\ calls' \in Nat
    BY <1>24, FaultTypes DEF ResolveReadyErrs
  <2>3. outcome' \in [Building -> {"new", "pending", "ready", "failed"}] /\ leased' \subseteq Building
    BY <1>24 DEF ResolveReadyErrs, Resolve, TypeOK
  <2> QED BY <1>24, <2>1, <2>2, <2>3 DEF ResolveReadyErrs, TypeOK, queueVars, topicVars, offsetVars, counters
<1>25. CASE ResolveFailed
  <2>1. answers[next[Consumer] + 1] \in Answer
    BY <1>25 DEF ResolveFailed, Unread, TypeOK, Reader
  <2>2. answers[next[Consumer] + 1].building \in Building
    BY <2>1 DEF Answer
  <2>3. task' \in [Proc -> Task]
    BY <1>25, <2>2, DoingTypes DEF ResolveFailed, Proc, Reader, Step
  <2> QED BY <1>25, <2>3 DEF ResolveFailed, TypeOK, queueVars, topicVars, offsetVars, counters
<1>26. CASE Register
  <2>1. requests[next[Telemetry] + 1] \in Request
    BY <1>26 DEF Register, Unread, TypeOK, Reader
  <2>2. /\ requests[next[Telemetry] + 1].building \in Building
        /\ requests[next[Telemetry] + 1].content \in Content
    BY <2>1 DEF Request
  <2>3. task' \in [Proc -> Task]
    BY <1>26, <2>2, TaskTypes DEF Register, GoTo, Proc, Reader, Step, TypeOK
  <2> QED BY <1>26, <2>2, <2>3 DEF Register, TypeOK, queueVars, topicVars, offsetVars, counters
<1>27. CASE PublishAnswer
  <2>1. task' \in [Proc -> Task] /\ next' \in [Reader -> Nat] /\ committed' \in [Reader -> Nat]
    BY <1>27, SettleTypes DEF PublishAnswer, Proc, Reader
  <2>2. Job(Telemetry) \in Building
    BY <1>27, AtWork DEF PublishAnswer, At, Proc, Reader
  <2> QED BY <1>27, <2>1, <2>2 DEF PublishAnswer, Reply, Answer, TypeOK, queueVars, topicVars, offsetVars, counters
<1>28. CASE RegisterErrs
  <2>1. requests[next[Telemetry] + 1] \in Request
    BY <1>28 DEF RegisterErrs, Unread, TypeOK, Reader
  <2>2. requests[next[Telemetry] + 1].building \in Building
    BY <2>1 DEF Request
  <2>3. task' \in [Proc -> Task] /\ next' \in [Reader -> Nat] /\ committed' \in [Reader -> Nat]
    BY <1>28, AbandonTypes DEF RegisterErrs, Proc, Reader
  <2>4. faults' \in Nat /\ disturbed' \in BOOLEAN /\ calls' \in Nat
    BY <1>28, FaultTypes DEF RegisterErrs
  <2>5. registered' \subseteq Building
    BY <1>28, <2>2 DEF RegisterErrs, TypeOK
  <2> QED BY <1>28, <2>3, <2>4, <2>5 DEF RegisterErrs, TypeOK, queueVars, topicVars, offsetVars, counters
<1>29. CASE PublishAnswerFails
  <2>1. task' \in [Proc -> Task] /\ next' \in [Reader -> Nat] /\ committed' \in [Reader -> Nat]
    BY <1>29, AbandonTypes DEF PublishAnswerFails, Proc, Reader
  <2>2. Job(Telemetry) \in Building
    BY <1>29, AtWork DEF PublishAnswerFails, At, Proc, Reader
  <2>3. faults' \in Nat /\ disturbed' \in BOOLEAN /\ calls' \in Nat
    BY <1>29, FaultTypes DEF PublishAnswerFails
  <2>4. answers' \in Seq(Answer)
    <3>1. [building |-> Job(Telemetry), ready |-> task[Telemetry].content = "valid"] \in Answer
      BY <2>2 DEF Answer
    <3>2. \/ answers' = answers
          \/ answers' = Append(answers, [building |-> Job(Telemetry),
                                         ready |-> task[Telemetry].content = "valid"])
      BY <1>29 DEF PublishAnswerFails, Reply
    <3>3. answers \in Seq(Answer)
      BY DEF TypeOK
    <3> QED BY <3>1, <3>2, <3>3, AppendProperties
  <2> QED BY <1>29, <2>1, <2>3, <2>4 DEF PublishAnswerFails, TypeOK, queueVars, topicVars, offsetVars, counters
<1>30. ASSUME NEW c \in Client, NEW b \in Building, NEW s \in {"editing", "resyncing"}, Read(c, b, s)
       PROVE TypeOK'
  <2>1. twin[b] \in Content
    BY <1>30 DEF Read, TypeOK
  <2>2. task' \in [Proc -> Task]
    BY <1>30, <2>1, TaskTypes DEF Read, GoTo, Proc, Step, TypeOK
  <2> QED BY <1>30, <2>2 DEF Read, Call, TypeOK, queueVars, topicVars, offsetVars, counters
<1>31. ASSUME NEW c \in Client, EditWrite(c) PROVE TypeOK'
  <2>1. Job(c) \in Building
    BY <1>31, AtWork DEF EditWrite, At, Proc
  <2>2. task' \in [Proc -> Task]
    <3>1. c \in Proc
      BY DEF Proc
    <3>2. CASE GoTo(c, Doing("syncing", Job(c)))
      BY <2>1, <3>1, <3>2, DoingTypes DEF Step
    <3>3. CASE GoTo(c, Idle)
      BY <3>1, <3>3, TaskTypes DEF GoTo, TypeOK
    <3> QED BY <1>31, <3>2, <3>3 DEF EditWrite
  <2> QED BY <1>31, <2>1, <2>2 DEF EditWrite, TypeOK, queueVars, topicVars, offsetVars, counters
<1>32. ASSUME NEW c \in Client, Resync(c) PROVE TypeOK'
  <2>1. task' \in [Proc -> Task] /\ next' \in [Reader -> Nat] /\ committed' \in [Reader -> Nat]
    BY <1>32, SettleTypes DEF Resync, Proc
  <2>2. Job(c) \in Building
    BY <1>32, AtWork DEF Resync, At, Proc
  <2>3. task[c].content \in Content
    BY <1>32 DEF Resync, At, TasksInv, TaskOK, Idle, Proc
  <2> QED BY <1>32, <2>1, <2>2, <2>3 DEF Resync, Announce, Request, TypeOK, queueVars, topicVars, offsetVars, counters
<1>33. CASE UNCHANGED vars
  BY <1>33 DEF vars, TypeOK, queueVars, topicVars, offsetVars, counters
<1> QED
  BY <1>1, <1>2, <1>3, <1>4, <1>5, <1>6, <1>7, <1>8, <1>9, <1>10, <1>11, <1>12, <1>20, <1>21, <1>22, <1>23, <1>24, <1>25, <1>26, <1>27, <1>28, <1>29, <1>30, <1>31, <1>32, <1>33
     DEF Next, WorkerStep, FailStep, ConsumerStep, TelemetryStep, ClientStep, Proc, Reader

-----------------------------------------------------------------------------
(* How one step can change what is known of a building: an upload is       *)
(* decided once, and a served building stays served.                       *)

Evolves(b) ==
  /\ outcome[b] # "new" => outcome'[b] # "new"
  /\ outcome[b] \in {"ready", "failed"} => outcome'[b] = outcome[b]
  /\ outcome[b] # "new" => upload'[b] = upload[b]
  /\ b \in registered => b \in registered'
  /\ Served(b) => Served(b)'

Still == outcome' = outcome /\ twin' = twin /\ upload' = upload /\ registered \subseteq registered'

LEMMA StillEvolves ==
  ASSUME Still, NEW b \in Building
  PROVE  Evolves(b)
BY DEF Still, Evolves, Served

LEMMA StillSteps ==
  /\ \A b \in Building : LeaseExpires(b) \/ Purge(b) => Still
  /\ \A w \in Worker : (\E b \in Building : Claim(w, b)) \/ Publish(w) \/ PublishFails(w) => Still
  /\ \A p \in Proc : Check(p) \/ Notify(p) \/ Crash(p) => Still
  /\ ResolveFailed \/ TelemetryStep \/ RegisterErrs \/ PublishAnswerFails => Still
  /\ \A c \in Client : (\E b \in Building, s \in Step : Read(c, b, s)) => Still
  /\ \A c \in Client : EditSync(c) \/ Resync(c) => Still
  /\ UNCHANGED vars => Still
<1> USE DEF Still, queueVars
<1>1. \A b \in Building : LeaseExpires(b) \/ Purge(b) => Still
  BY DEF LeaseExpires, Purge
<1>2. \A w \in Worker : (\E b \in Building : Claim(w, b)) \/ Publish(w) \/ PublishFails(w) => Still
  BY DEF Claim, Publish, PublishFails
<1>3. \A p \in Proc : Check(p) \/ Notify(p) \/ Crash(p) => Still
  BY DEF Check, Notify, Crash
<1>4. ResolveFailed \/ TelemetryStep \/ RegisterErrs \/ PublishAnswerFails => Still
  BY DEF ResolveFailed, TelemetryStep, Register, PublishAnswer, RegisterErrs, PublishAnswerFails
<1>5. \A c \in Client : (\E b \in Building, s \in Step : Read(c, b, s)) => Still
  BY DEF Read
<1>6. \A c \in Client : EditSync(c) \/ Resync(c) => Still
  BY DEF EditSync, Resync
<1>7. UNCHANGED vars => Still
  BY DEF vars
<1> QED BY <1>1, <1>2, <1>3, <1>4, <1>5, <1>6, <1>7

LEMMA NextEvolves ==
  ASSUME TypeInv, [Next]_vars, NEW b \in Building
  PROVE  Evolves(b)
<1> USE DEF TypeInv
<1>1. ASSUME NEW x \in Building, Accept(x) PROVE Evolves(b)
  BY <1>1 DEF Accept, Evolves, Served, UploadsInv, TypeOK
<1>2. ASSUME NEW w \in Worker, Upsert(w) \/ UpsertFails(w) PROVE Evolves(b)
  <2>1. Job(w) \in Building /\ outcome[Job(w)] # "new"
    BY <1>2, AtWork DEF Upsert, UpsertFails, At, Proc
  <2>2. upload[Job(w)] # None
    BY <2>1 DEF UploadsInv, Content, None
  <2>3. twin' = twin \/ twin' = [twin EXCEPT ![Job(w)] = upload[Job(w)]]
    BY <1>2 DEF Upsert, UpsertFails
  <2>4. outcome' = outcome /\ upload' = upload /\ registered' = registered
    BY <1>2 DEF Upsert, UpsertFails, queueVars
  <2> QED BY <2>1, <2>2, <2>3, <2>4 DEF Evolves, Served, TypeOK
<1>3. ASSUME NEW p \in Proc, Delete(p) \/ FailErrs(p) \/ MarkFailed(p) PROVE Evolves(b)
  <2>1. Job(p) \in Building
    BY <1>3, AtWork DEF Delete, FailErrs, MarkFailed, At
  <2>2. twin' = twin \/ (At(p, "deleting") /\ twin' = [twin EXCEPT ![Job(p)] = None])
    BY <1>3 DEF Delete, FailErrs, MarkFailed
  <2>3. At(p, "deleting") => outcome[Job(p)] = "failed"
    BY DEF TasksInv, TaskOK, At, Idle
  <2>4. \/ outcome' = outcome
        \/ outcome[Job(p)] = "pending" /\ outcome' = [outcome EXCEPT ![Job(p)] = "failed"]
    BY <1>3 DEF Delete, FailErrs, MarkFailed, Resolvable, Resolve, queueVars
  <2>5. upload' = upload /\ registered' = registered
    BY <1>3 DEF Delete, FailErrs, MarkFailed, queueVars
  <2> QED BY <2>1, <2>2, <2>3, <2>4, <2>5 DEF Evolves, Served, TypeOK
<1>4. CASE ResolveReady \/ ResolveReadyErrs
  <2> DEFINE x == answers[next[Consumer] + 1].building
  <2>1. \/ outcome' = outcome
        \/ outcome[x] = "pending" /\ outcome' = [outcome EXCEPT ![x] = "ready"]
    BY <1>4 DEF ResolveReady, ResolveReadyErrs, Resolvable, Resolve
  <2>2. upload' = upload /\ registered' = registered /\ twin' = twin
    BY <1>4 DEF ResolveReady, ResolveReadyErrs
  <2> QED BY <2>1, <2>2 DEF Evolves, Served, TypeOK
<1>5. ASSUME NEW c \in Client, EditWrite(c) PROVE Evolves(b)
  <2>1. Job(c) \in Building /\ outcome[Job(c)] # "new"
    BY <1>5, AtWork DEF EditWrite, At, Proc
  <2>2. PICK new \in Content : twin' = [twin EXCEPT ![Job(c)] = new]
    BY <1>5 DEF EditWrite
  <2>3. outcome' = outcome /\ upload' = upload /\ registered' = registered
    BY <1>5 DEF EditWrite, queueVars
  <2>4. new # None
    BY DEF Content, None
  <2> QED BY <2>1, <2>2, <2>3, <2>4 DEF Evolves, Served, TypeOK
<1> QED
  BY <1>1, <1>2, <1>3, <1>4, <1>5, StillSteps, StillEvolves
     DEF Next, WorkerStep, FailStep, ConsumerStep, ClientStep, Proc, Reader, Step

-----------------------------------------------------------------------------
(* The invariant is preserved, part by part. *)

LEMMA NextUploadsInv ==
  ASSUME TypeInv, [Next]_vars
  PROVE  UploadsInv'
<1> USE DEF TypeInv
<1> SUFFICES ASSUME NEW b \in Building
    PROVE  /\ outcome'[b] # "new" => upload'[b] \in Content
           /\ outcome'[b] = "new" => twin'[b] = None
  BY DEF UploadsInv
<1> DEFINE Goal == /\ outcome'[b] # "new" => upload'[b] \in Content
                   /\ outcome'[b] = "new" => twin'[b] = None
<1>2. CASE outcome[b] # "new"
  BY <1>2, NextEvolves DEF Evolves, UploadsInv
<1>3. CASE outcome[b] = "new"
  <2> USE <1>3
  <2>1. twin[b] = None
    BY DEF UploadsInv
  <2>2. ASSUME NEW x \in Building, Accept(x) PROVE Goal
    BY <2>1, <2>2 DEF Accept, TypeOK
  <2>3. ASSUME Still PROVE Goal
    BY <2>1, <2>3 DEF Still
  <2>4. ASSUME NEW p \in Proc,
               Upsert(p) \/ UpsertFails(p) \/ Delete(p) \/ FailErrs(p) \/ MarkFailed(p) \/ EditWrite(p)
        PROVE  Goal
    <3>1. Job(p) \in Building /\ Job(p) # b
      BY <2>4, AtWork DEF Upsert, UpsertFails, Delete, FailErrs, MarkFailed, EditWrite, At
    <3>2. outcome' = outcome \/ outcome' = [outcome EXCEPT ![Job(p)] = "failed"]
      BY <2>4 DEF Upsert, UpsertFails, Delete, FailErrs, MarkFailed, EditWrite, Resolve, queueVars
    <3>3. twin' = twin \/ \E c \in Content \cup {None, upload[Job(p)]} : twin' = [twin EXCEPT ![Job(p)] = c]
      BY <2>4 DEF Upsert, UpsertFails, Delete, FailErrs, MarkFailed, EditWrite
    <3> QED BY <2>1, <3>1, <3>2, <3>3 DEF TypeOK
  <2>5. CASE ResolveReady \/ ResolveReadyErrs
    <3> DEFINE x == answers[next[Consumer] + 1].building
    <3>1. twin' = twin
      BY <2>5 DEF ResolveReady, ResolveReadyErrs
    <3>2. outcome' = outcome \/ (outcome[x] = "pending" /\ outcome' = [outcome EXCEPT ![x] = "ready"])
      BY <2>5 DEF ResolveReady, ResolveReadyErrs, Resolvable, Resolve
    <3> QED BY <2>1, <3>1, <3>2 DEF TypeOK
  <2> QED
    BY <2>2, <2>3, <2>4, <2>5, StillSteps
       DEF Next, WorkerStep, FailStep, ConsumerStep, ClientStep, Proc, Reader, Step
<1> QED BY <1>2, <1>3

(* What is announced, and answered, speaks of a building already served.   *)

LEMMA RequestsStep ==
  ASSUME TypeInv, [Next]_vars
  PROVE  \/ requests' = requests
         \/ \E b \in Building, c \in Content :
              Served(b) /\ requests' = Append(requests, [building |-> b, content |-> c])
<1> USE DEF TypeInv
<1> DEFINE Goal == \E b \in Building, c \in Content :
                     Served(b) /\ requests' = Append(requests, [building |-> b, content |-> c])
<1>1. ASSUME NEW w \in Worker, Publish(w) \/ PublishFails(w) PROVE requests' = requests \/ Goal
  <2>1. w \in Proc /\ At(w, "publishing")
    BY <1>1 DEF Publish, PublishFails, Proc
  <2>2. Job(w) \in Building /\ Served(Job(w)) /\ upload[Job(w)] \in Content
    BY <2>1, AtWork DEF TasksInv, TaskOK, UploadsInv, At, Idle
  <2>3. requests' = requests \/ requests' = Append(requests, [building |-> Job(w), content |-> upload[Job(w)]])
    BY <1>1 DEF Publish, PublishFails, Announce
  <2> QED BY <2>2, <2>3
<1>2. ASSUME NEW c \in Client, Resync(c) PROVE requests' = requests \/ Goal
  <2>1. c \in Proc /\ At(c, "resyncing")
    BY <1>2 DEF Resync, Proc
  <2>2. Job(c) \in Building /\ Served(Job(c)) /\ task[c].content \in Content
    BY <2>1 DEF TasksInv, TaskOK, At, Idle
  <2>3. requests' = Append(requests, [building |-> Job(c), content |-> task[c].content])
    BY <1>2 DEF Resync, Announce
  <2> QED BY <2>2, <2>3
<1>3. CASE requests' = requests
  BY <1>3
<1>4. \/ \E w \in Worker : Publish(w) \/ PublishFails(w)
      \/ \E c \in Client : Resync(c)
      \/ requests' = requests
  BY DEF Next, WorkerStep, FailStep, ConsumerStep, TelemetryStep, ClientStep, Accept, LeaseExpires,
         Purge, Claim, Upsert, UpsertFails, MarkFailed, Check, Notify, Delete, FailErrs, ResolveReady,
         ResolveReadyErrs, ResolveFailed, Register, PublishAnswer, RegisterErrs, PublishAnswerFails,
         Read, EditWrite, EditSync, Crash, topicVars, vars
<1> QED BY <1>1, <1>2, <1>3, <1>4

LEMMA AnswersStep ==
  ASSUME TypeInv, [Next]_vars
  PROVE  \/ answers' = answers
         \/ \E b \in Building, r \in BOOLEAN :
              /\ Served(b) /\ (r => b \in registered)
              /\ answers' = Append(answers, [building |-> b, ready |-> r])
<1> USE DEF TypeInv
<1>1. CASE PublishAnswer \/ PublishAnswerFails
  <2>1. Telemetry \in Proc /\ At(Telemetry, "answering")
    BY <1>1 DEF PublishAnswer, PublishAnswerFails, Proc, Reader
  <2>2. /\ Job(Telemetry) \in Building /\ Served(Job(Telemetry))
        /\ task[Telemetry].content = "valid" => Job(Telemetry) \in registered
    BY <2>1 DEF TasksInv, TaskOK, At, Idle
  <2>3. \/ answers' = answers
        \/ answers' = Append(answers, [building |-> Job(Telemetry),
                                       ready |-> task[Telemetry].content = "valid"])
    BY <1>1 DEF PublishAnswer, PublishAnswerFails, Reply
  <2>4. (task[Telemetry].content = "valid") \in BOOLEAN
    OBVIOUS
  <2> QED BY <2>2, <2>3, <2>4
<1>2. PublishAnswer \/ PublishAnswerFails \/ answers' = answers
  BY DEF Next, WorkerStep, FailStep, ConsumerStep, TelemetryStep, ClientStep, Accept, LeaseExpires,
         Purge, Claim, Upsert, UpsertFails, Publish, PublishFails, MarkFailed, Check, Notify, Delete,
         FailErrs, ResolveReady, ResolveReadyErrs, ResolveFailed, Register, RegisterErrs, Read,
         EditWrite, EditSync, Resync, Crash, topicVars, vars
<1> QED BY <1>1, <1>2

LEMMA NextTopicsInv ==
  ASSUME TypeInv, [Next]_vars
  PROVE  TopicsInv'
<1> USE DEF TypeInv
<1>0. \A b \in Building : (Served(b) => Served(b)') /\ (b \in registered => b \in registered')
  BY NextEvolves DEF Evolves
<1>1. \/ requests' = requests
      \/ \E b \in Building, c \in Content :
           Served(b) /\ requests' = Append(requests, [building |-> b, content |-> c])
  BY RequestsStep
<1>2. \/ answers' = answers
      \/ \E b \in Building, r \in BOOLEAN :
           /\ Served(b) /\ (r => b \in registered)
           /\ answers' = Append(answers, [building |-> b, ready |-> r])
  BY AnswersStep
<1>3. ASSUME NEW i \in 1 .. Len(requests') PROVE Served(requests[i].building)'
  <2>1. requests \in Seq(Request)
    BY DEF TypeOK
  <2>2. CASE i \in 1 .. Len(requests) /\ requests'[i] = requests[i]
    <3>1. requests[i] \in Request /\ Served(requests[i].building)
      BY <2>1, <2>2 DEF TopicsInv
    <3>2. requests[i].building \in Building
      BY <3>1 DEF Request
    <3> QED BY <1>0, <2>2, <3>1, <3>2 DEF Served
  <2>3. CASE requests' = requests
    BY <1>3, <2>2, <2>3
  <2>4. ASSUME NEW b \in Building, NEW c \in Content, Served(b),
               requests' = Append(requests, [building |-> b, content |-> c])
        PROVE  Served(requests[i].building)'
    <3>1. [building |-> b, content |-> c] \in Request
      BY DEF Request
    <3>2. /\ Len(requests') = Len(requests) + 1
          /\ \A j \in 1 .. Len(requests) : requests'[j] = requests[j]
          /\ requests'[Len(requests) + 1] = [building |-> b, content |-> c]
      BY <2>1, <2>4, <3>1, AppendProperties
    <3>3. CASE i \in 1 .. Len(requests)
      BY <2>2, <3>2, <3>3
    <3>4. CASE i = Len(requests) + 1
      <4>1. requests'[i].building = b
        BY <3>2, <3>4
      <4> QED BY <1>0, <2>4, <4>1 DEF Served
    <3>5. Len(requests) \in Nat
      BY <2>1, LenProperties
    <3> QED BY <1>3, <3>2, <3>3, <3>4, <3>5
  <2> QED BY <1>1, <2>3, <2>4
<1>4. ASSUME NEW i \in 1 .. Len(answers')
      PROVE  /\ Served(answers[i].building)'
             /\ answers'[i].ready => answers'[i].building \in registered'
  <2> DEFINE Goal == /\ Served(answers[i].building)'
                     /\ answers'[i].ready => answers'[i].building \in registered'
  <2>1. answers \in Seq(Answer)
    BY DEF TypeOK
  <2>2. CASE i \in 1 .. Len(answers) /\ answers'[i] = answers[i]
    <3>1. /\ answers[i] \in Answer /\ Served(answers[i].building)
          /\ answers[i].ready => answers[i].building \in registered
      BY <2>1, <2>2 DEF TopicsInv
    <3>2. answers[i].building \in Building
      BY <3>1 DEF Answer
    <3> QED BY <1>0, <2>2, <3>1, <3>2 DEF Served
  <2>3. CASE answers' = answers
    BY <1>4, <2>2, <2>3
  <2>4. ASSUME NEW b \in Building, NEW r \in BOOLEAN, Served(b), r => b \in registered,
               answers' = Append(answers, [building |-> b, ready |-> r])
        PROVE  Goal
    <3>1. [building |-> b, ready |-> r] \in Answer
      BY DEF Answer
    <3>2. /\ Len(answers') = Len(answers) + 1
          /\ \A j \in 1 .. Len(answers) : answers'[j] = answers[j]
          /\ answers'[Len(answers) + 1] = [building |-> b, ready |-> r]
      BY <2>1, <2>4, <3>1, AppendProperties
    <3>3. CASE i \in 1 .. Len(answers)
      BY <2>2, <3>2, <3>3
    <3>4. CASE i = Len(answers) + 1
      <4>1. answers'[i].building = b /\ (answers'[i].ready = r)
        BY <3>2, <3>4
      <4> QED BY <1>0, <2>4, <4>1 DEF Served
    <3>5. Len(answers) \in Nat
      BY <2>1, LenProperties
    <3> QED BY <1>4, <3>2, <3>3, <3>4, <3>5
  <2> QED BY <1>2, <2>3, <2>4
<1> QED BY <1>3, <1>4 DEF TopicsInv

(* What a process is in the middle of stays true while others move. *)

LEMMA TaskStays ==
  ASSUME TypeInv, [Next]_vars, NEW p \in Proc, task'[p] = task[p]
  PROVE  TaskOK(p)'
<1> USE DEF TypeInv
<1>1. CASE task[p] = Idle
  BY <1>1 DEF TaskOK
<1>2. CASE task[p] # Idle
  <2>1. TaskOK(p) /\ Job(p) \in Building /\ Job(p)' = Job(p)
    BY <1>2 DEF TasksInv, TaskOK, Job
  <2>2. Evolves(Job(p))
    BY <2>1, NextEvolves
  <2>3. outcome[Job(p)] \in {"new", "pending", "ready", "failed"}
    BY <2>1 DEF TypeOK
  <2> DEFINE b == Job(p)
  <2>4. /\ outcome'[b] # "new"
        /\ outcome[b] = "failed" => outcome'[b] = "failed"
        /\ outcome[b] \in {"ready", "failed"} => outcome'[b] # "pending"
        /\ Served(b) => Served(b)'
        /\ b \in registered => b \in registered'
    BY <1>2, <2>1, <2>2 DEF Evolves, TaskOK
  <2>5. Served(Job(p)) => Served(Job(p))'
    BY <2>1, <2>4 DEF Served
  <2> QED BY <1>2, <2>1, <2>3, <2>4, <2>5 DEF TaskOK, At
<1> QED BY <1>1, <1>2

LEMMA OnlyActorMoves ==
  ASSUME TypeInv, [Next]_vars, NEW p \in Proc, NEW t, GoTo(p, t),
         task'[p] = t => TaskOK(p)'
  PROVE  TasksInv'
<1>1. task'[p] = t /\ \A q \in Proc \ {p} : task'[q] = task[q]
  BY DEF GoTo, TypeInv, TypeOK
<1> QED BY <1>1, TaskStays DEF TasksInv

LEMMA ActorRests ==
  ASSUME TypeInv, [Next]_vars, NEW p \in Proc, Settle(p) \/ Abandon(p) \/ GoTo(p, Idle)
  PROVE  TasksInv'
<1>1. GoTo(p, Idle)
  BY DEF Settle, Abandon
<1>2. task'[p] = Idle => TaskOK(p)'
  BY DEF TaskOK
<1> QED BY <1>1, <1>2, OnlyActorMoves

LEMMA ActorBegins ==
  ASSUME TypeInv, [Next]_vars, NEW p \in Proc, NEW b \in Building,
         NEW s \in {"upserting", "failing", "editing", "syncing"},
         NEW c, GoTo(p, [step |-> s, building |-> b, content |-> c]), outcome[b] # "new"
  PROVE  TasksInv'
<1>1. outcome'[b] # "new"
  BY NextEvolves DEF Evolves
<1> DEFINE t == [step |-> s, building |-> b, content |-> c]
<1>2. task'[p] = t => TaskOK(p)'
  BY <1>1 DEF TaskOK, Job, At
<1> HIDE DEF t
<1>3. GoTo(p, t)
  BY DEF t
<1> QED BY <1>2, <1>3, OnlyActorMoves

LEMMA NextTasksInv ==
  ASSUME TypeInv, [Next]_vars
  PROVE  TasksInv'
<1> USE DEF TypeInv
<1>1. ASSUME NEW w \in Worker, NEW b \in Building, Claim(w, b) PROVE TasksInv'
  BY <1>1, ActorBegins DEF Claim, Doing, Proc
<1>2. ASSUME NEW w \in Worker, Upsert(w) PROVE TasksInv'
  <2>1. w \in Proc /\ Job(w) \in Building /\ outcome[Job(w)] # "new"
    BY <1>2, AtWork DEF Upsert, At, Proc
  <2>2. upload[Job(w)] # None
    BY <2>1 DEF UploadsInv, Content, None
  <2>3. outcome'[Job(w)] # "new" /\ twin'[Job(w)] # None
    BY <1>2, <2>1, <2>2 DEF Upsert, TypeOK, queueVars
  <2>4. task'[w] = Doing("publishing", Job(w)) => TaskOK(w)'
    BY <2>1, <2>3 DEF TaskOK, Job, At, Doing, Served
  <2>5. GoTo(w, Doing("publishing", Job(w)))
    BY <1>2 DEF Upsert
  <2> QED BY <2>1, <2>4, <2>5, OnlyActorMoves
<1>3. ASSUME NEW w \in Worker, UpsertFails(w) \/ PublishFails(w) PROVE TasksInv'
  <2>1. w \in Proc /\ Job(w) \in Building /\ outcome[Job(w)] # "new"
    BY <1>3, AtWork DEF UpsertFails, PublishFails, At, Proc
  <2>2. GoTo(w, Doing("failing", Job(w)))
    BY <1>3 DEF UpsertFails, PublishFails
  <2> QED BY <2>1, <2>2, ActorBegins DEF Doing
<1>4. ASSUME NEW p \in Proc, MarkFailed(p) PROVE TasksInv'
  <2>1. Job(p) \in Building /\ outcome[Job(p)] # "new"
    BY <1>4, AtWork DEF MarkFailed, At
  <2>2. CASE Resolvable(Job(p))
    <3>1. outcome'[Job(p)] = "failed" /\ GoTo(p, Doing("notifying", Job(p)))
      BY <1>4, <2>1, <2>2 DEF MarkFailed, Resolve, TypeOK
    <3>2. task'[p] = Doing("notifying", Job(p)) => TaskOK(p)'
      BY <2>1, <3>1 DEF TaskOK, Job, At, Doing
    <3> QED BY <3>1, <3>2, OnlyActorMoves
  <2>3. CASE ~Resolvable(Job(p))
    <3>1. outcome'[Job(p)] # "pending" /\ outcome'[Job(p)] # "new" /\ GoTo(p, Doing("checking", Job(p)))
      BY <1>4, <2>1, <2>3 DEF MarkFailed, Resolvable
    <3>2. task'[p] = Doing("checking", Job(p)) => TaskOK(p)'
      BY <2>1, <3>1 DEF TaskOK, Job, At, Doing
    <3> QED BY <3>1, <3>2, OnlyActorMoves
  <2> QED BY <2>2, <2>3
<1>5. ASSUME NEW p \in Proc, Check(p) \/ Notify(p) PROVE TasksInv'
  <2>1. Job(p) \in Building
    BY <1>5, AtWork DEF Check, Notify, At
  <2>2. CASE Settle(p)
    BY <2>2, ActorRests
  <2>3. CASE ~Settle(p)
    <3>1. outcome[Job(p)] = "failed"
      BY <1>5, <2>3 DEF Check, Notify, DeleteAgain, TasksInv, TaskOK, At, Idle
    <3>2. outcome' = outcome /\ GoTo(p, Doing("deleting", Job(p)))
      BY <1>5, <2>3 DEF Check, Notify, queueVars
    <3>3. task'[p] = Doing("deleting", Job(p)) => TaskOK(p)'
      BY <2>1, <3>1, <3>2 DEF TaskOK, Job, At, Doing
    <3> QED BY <3>2, <3>3, OnlyActorMoves
  <2> QED BY <2>2, <2>3
<1>6. CASE ResolveFailed
  <2> DEFINE b == answers[next[Consumer] + 1].building
  <2>1. next[Consumer] + 1 \in 1 .. Len(answers)
    BY <1>6 DEF ResolveFailed, Unread, TypeOK, Reader
  <2>2. answers \in Seq(Answer)
    BY DEF TypeOK
  <2>3. answers[next[Consumer] + 1] \in Answer /\ Served(b)
    BY <2>1, <2>2 DEF TopicsInv
  <2>4. b \in Building /\ outcome[b] # "new"
    BY <2>3 DEF Answer, Served
  <2>5. Consumer \in Proc /\ GoTo(Consumer, Doing("failing", b))
    BY <1>6 DEF ResolveFailed, Proc, Reader
  <2> QED BY <2>4, <2>5, ActorBegins DEF Doing
<1>7. CASE Register
  <2> DEFINE r == requests[next[Telemetry] + 1]
             t == [step |-> "answering", building |-> r.building, content |-> r.content]
  <2>1. next[Telemetry] + 1 \in 1 .. Len(requests)
    BY <1>7 DEF Register, Unread, TypeOK, Reader
  <2>2. requests \in Seq(Request)
    BY DEF TypeOK
  <2>3. r \in Request /\ Served(r.building)
    BY <2>1, <2>2 DEF TopicsInv
  <2>4. r.building \in Building /\ r.content \in Content
    BY <2>3 DEF Request
  <2>5. /\ Telemetry \in Proc /\ GoTo(Telemetry, t)
        /\ outcome' = outcome /\ twin' = twin
        /\ r.content = "valid" => r.building \in registered'
    BY <1>7 DEF Register, Proc, Reader, queueVars
  <2>6. task'[Telemetry] = t => TaskOK(Telemetry)'
    BY <2>3, <2>4, <2>5 DEF TaskOK, Job, At, Served
  <2> QED BY <2>5, <2>6, OnlyActorMoves
<1>8. ASSUME NEW c \in Client, NEW b \in Building, NEW s \in {"editing", "resyncing"}, Read(c, b, s)
      PROVE  TasksInv'
  <2> DEFINE t == [step |-> s, building |-> b, content |-> twin[b]]
  <2>1. c \in Proc /\ GoTo(c, t) /\ twin[b] # None /\ outcome' = outcome /\ twin' = twin
    BY <1>8 DEF Read, Proc, queueVars
  <2>2. outcome[b] # "new" /\ twin[b] \in Content
    BY <2>1 DEF UploadsInv, TypeOK
  <2>3. task'[c] = t => TaskOK(c)'
    BY <2>1, <2>2 DEF TaskOK, Job, At, Served
  <2> HIDE DEF t
  <2> QED BY <2>1, <2>3, OnlyActorMoves
<1>9. ASSUME NEW c \in Client, EditWrite(c) PROVE TasksInv'
  <2>1. c \in Proc /\ Job(c) \in Building /\ outcome[Job(c)] # "new"
    BY <1>9, AtWork DEF EditWrite, At, Proc
  <2>2. GoTo(c, Doing("syncing", Job(c))) \/ GoTo(c, Idle)
    BY <1>9 DEF EditWrite
  <2>3. CASE GoTo(c, Doing("syncing", Job(c)))
    BY <2>1, <2>3, ActorBegins DEF Doing
  <2> QED BY <2>1, <2>2, <2>3, ActorRests
<1>10. ASSUME NEW p \in Proc, Settle(p) \/ Abandon(p) PROVE TasksInv'
  BY <1>10, ActorRests
<1>11. ASSUME task' = task PROVE TasksInv'
  BY <1>11, TaskStays DEF TasksInv
<1>12. /\ \A w \in Worker : Publish(w) => Settle(w)
       /\ \A p \in Proc : Delete(p) => Settle(p)
       /\ \A p \in Proc : FailErrs(p) \/ Crash(p) => Abandon(p)
       /\ \A c \in Client : EditSync(c) \/ Resync(c) => Settle(c)
       /\ ResolveReady => Settle(Consumer)
       /\ ResolveReadyErrs => Abandon(Consumer)
       /\ PublishAnswer => Settle(Telemetry)
       /\ RegisterErrs \/ PublishAnswerFails => Abandon(Telemetry)
       /\ \A b \in Building : Accept(b) \/ LeaseExpires(b) \/ Purge(b) => task' = task
       /\ UNCHANGED vars => task' = task
  BY DEF Publish, Delete, FailErrs, Crash, EditSync, Resync, ResolveReady, ResolveReadyErrs,
         PublishAnswer, RegisterErrs, PublishAnswerFails, Accept, LeaseExpires, Purge, vars
<1> QED
  BY <1>1, <1>2, <1>3, <1>4, <1>5, <1>6, <1>7, <1>8, <1>9, <1>10, <1>11, <1>12
     DEF Next, WorkerStep, FailStep, ConsumerStep, TelemetryStep, ClientStep, Proc, Reader

LEMMA NextInv ==
  ASSUME TypeInv, [Next]_vars
  PROVE  TypeInv'
BY NextTypeOK, NextUploadsInv, NextTasksInv, NextTopicsInv DEF TypeInv

-----------------------------------------------------------------------------
(* At the moment an answer is resolved its building is served and known to *)
(* telemetry; afterwards neither can be lost.                              *)

LEMMA NextReadyIsServed ==
  ASSUME TypeInv, [Next]_vars, ReadyIsServed
  PROVE  ReadyIsServed'
<1> USE DEF TypeInv
<1> SUFFICES ASSUME NEW b \in Building, outcome'[b] = "ready"
             PROVE  twin'[b] # None /\ b \in registered'
  BY DEF ReadyIsServed
<1>1. Evolves(b)
  BY NextEvolves
<1>2. CASE outcome[b] = "ready"
  BY <1>1, <1>2 DEF ReadyIsServed, Evolves, Served
<1>3. CASE outcome[b] # "ready"
  <2>1. ResolveReady \/ ResolveReadyErrs
    <3>1. ASSUME NEW x \in Building, Accept(x) PROVE FALSE
      BY <1>3, <3>1 DEF Accept, TypeOK
    <3>2. ASSUME Still PROVE FALSE
      BY <1>3, <3>2 DEF Still
    <3>3. ASSUME NEW p \in Proc,
                 Upsert(p) \/ UpsertFails(p) \/ Delete(p) \/ FailErrs(p) \/ MarkFailed(p) \/ EditWrite(p)
          PROVE  FALSE
      <4>1. outcome' = outcome \/ outcome' = [outcome EXCEPT ![Job(p)] = "failed"]
        BY <3>3 DEF Upsert, UpsertFails, Delete, FailErrs, MarkFailed, EditWrite, Resolve, queueVars
      <4> QED BY <1>3, <4>1 DEF TypeOK
    <3> QED
      BY <3>1, <3>2, <3>3, StillSteps
         DEF Next, WorkerStep, FailStep, ConsumerStep, ClientStep, Proc, Reader, Step
  <2> DEFINE a == answers[next[Consumer] + 1]
  <2>2. next[Consumer] + 1 \in 1 .. Len(answers) /\ a.ready
    BY <2>1 DEF ResolveReady, ResolveReadyErrs, Unread, TypeOK, Reader
  <2>3. Served(a.building) /\ a.building \in registered
    BY <2>2 DEF TopicsInv
  <2>4. /\ outcome' = outcome \/ (outcome[a.building] = "pending" /\ outcome' = [outcome EXCEPT ![a.building] = "ready"])
        /\ twin' = twin /\ registered' = registered
    BY <2>1 DEF ResolveReady, ResolveReadyErrs, Resolvable, Resolve
  <2>5. b = a.building
    BY <1>3, <2>4 DEF TypeOK
  <2>6. outcome[b] = "pending"
    BY <1>3, <2>4, <2>5
  <2> QED BY <2>3, <2>4, <2>5, <2>6 DEF Served
<1> QED BY <1>2, <1>3

-----------------------------------------------------------------------------

(* Every variable keeps its type, and what a process holds or a topic      *)
(* carries stays consistent with the store, in every execution.            *)
THEOREM TypeCorrect == Spec => []TypeInv /\ []TypeOK
<1>1. Init => TypeInv
  BY InitInv
<1>2. TypeInv /\ [Next]_vars => TypeInv'
  BY NextInv
<1>3. TypeInv => TypeOK
  BY DEF TypeInv
<1> QED BY <1>1, <1>2, <1>3, PTL DEF Spec

(* A building declared ready is stored by digital-twin and known to        *)
(* telemetry, whatever fails, stops or is repeated.                        *)
THEOREM ReadyServed == Spec => []ReadyIsServed
<1>1. Init => ReadyIsServed
  BY DEF Init, ReadyIsServed
<1>2. TypeInv /\ ReadyIsServed /\ [Next]_vars => ReadyIsServed'
  BY NextReadyIsServed
<1> QED BY <1>1, <1>2, TypeCorrect, PTL DEF Spec

-----------------------------------------------------------------------------
(* The pipeline implements UploadPromise: every step is, with live[b]      *)
(* standing for "b has a twin document", one step of the abstract          *)
(* specification or none at all.                                           *)

Live == [b \in Building |-> twin[b] # None]

LEMMA PromiseInit == Init => Promise!Init
BY DEF Init, Promise!Init, None

(* Storing b's twin, by whoever does it, is the abstract Store. *)
LEMMA StoreStep ==
  ASSUME TypeOK, NEW b \in Building, NEW c \in Content, outcome[b] # "new",
         twin' = [twin EXCEPT ![b] = c], outcome' = outcome
  PROVE  Promise!Next
<1>1. c # None
  BY DEF Content, None
<1>2. Live' = [Live EXCEPT ![b] = TRUE]
  BY <1>1 DEF Live, TypeOK
<1> QED BY <1>2 DEF Promise!Next, Promise!Store, Live

LEMMA RemoveStep ==
  ASSUME TypeOK, NEW b \in Building, outcome[b] = "failed",
         twin' = [twin EXCEPT ![b] = None], outcome' = outcome
  PROVE  Promise!Next
<1>1. Live' = [Live EXCEPT ![b] = FALSE]
  BY DEF Live, TypeOK
<1> QED BY <1>1 DEF Promise!Next, Promise!Remove, Live

LEMMA StutterStep ==
  ASSUME outcome' = outcome, twin' = twin
  PROVE  UNCHANGED Promise!vars
BY DEF Promise!vars

LEMMA PromiseNext ==
  ASSUME TypeInv, [Next]_vars
  PROVE  [Promise!Next]_Promise!vars
<1> USE DEF TypeInv
<1>1. ASSUME NEW b \in Building, Accept(b) PROVE Promise!Next
  BY <1>1 DEF Accept, Promise!Next, Promise!Accept
<1>2. ASSUME Still PROVE UNCHANGED Promise!vars
  BY <1>2, StutterStep DEF Still
<1>3. ASSUME NEW w \in Worker, Upsert(w) \/ UpsertFails(w) PROVE [Promise!Next]_Promise!vars
  <2>1. Job(w) \in Building /\ outcome[Job(w)] # "new"
    BY <1>3, AtWork DEF Upsert, UpsertFails, At, Proc
  <2>2. upload[Job(w)] \in Content
    BY <2>1 DEF UploadsInv
  <2>3. outcome' = outcome
    BY <1>3 DEF Upsert, UpsertFails, queueVars
  <2>4. twin' = twin \/ twin' = [twin EXCEPT ![Job(w)] = upload[Job(w)]]
    BY <1>3 DEF Upsert, UpsertFails
  <2> QED BY <2>1, <2>2, <2>3, <2>4, StoreStep, StutterStep
<1>4. ASSUME NEW p \in Proc, Delete(p) \/ FailErrs(p) \/ MarkFailed(p)
      PROVE  [Promise!Next]_Promise!vars
  <2>1. Job(p) \in Building
    BY <1>4, AtWork DEF Delete, FailErrs, MarkFailed, At
  <2>2. \/ outcome' = outcome /\ twin' = twin
        \/ /\ At(p, "deleting") /\ outcome' = outcome
           /\ twin' = [twin EXCEPT ![Job(p)] = None]
        \/ /\ outcome[Job(p)] = "pending" /\ twin' = twin
           /\ outcome' = [outcome EXCEPT ![Job(p)] = "failed"]
    BY <1>4 DEF Delete, FailErrs, MarkFailed, Resolvable, Resolve, queueVars
  <2>3. At(p, "deleting") => outcome[Job(p)] = "failed"
    BY DEF TasksInv, TaskOK, At, Idle
  <2>4. CASE /\ outcome[Job(p)] = "pending" /\ twin' = twin
             /\ outcome' = [outcome EXCEPT ![Job(p)] = "failed"]
    BY <2>1, <2>4 DEF Promise!Next, Promise!Fail
  <2> QED BY <2>1, <2>2, <2>3, <2>4, RemoveStep, StutterStep
<1>5. CASE ResolveReady \/ ResolveReadyErrs
  <2> DEFINE a == answers[next[Consumer] + 1]
  <2>1. next[Consumer] + 1 \in 1 .. Len(answers)
    BY <1>5 DEF ResolveReady, ResolveReadyErrs, Unread, TypeOK, Reader
  <2>2. answers \in Seq(Answer)
    BY DEF TypeOK
  <2>3. a \in Answer /\ Served(a.building)
    BY <2>1, <2>2 DEF TopicsInv
  <2>4. a.building \in Building
    BY <2>3 DEF Answer
  <2>5. /\ twin' = twin
        /\ \/ outcome' = outcome
           \/ /\ outcome[a.building] = "pending"
              /\ outcome' = [outcome EXCEPT ![a.building] = "ready"]
    BY <1>5 DEF ResolveReady, ResolveReadyErrs, Resolvable, Resolve
  <2>6. CASE /\ outcome[a.building] = "pending"
             /\ outcome' = [outcome EXCEPT ![a.building] = "ready"]
    <3>1. twin[a.building] # None
      BY <2>3, <2>6 DEF Served
    <3> QED BY <2>4, <2>5, <2>6, <3>1 DEF Promise!Next, Promise!Succeed
  <2> QED BY <2>5, <2>6, StutterStep
<1>6. ASSUME NEW c \in Client, EditWrite(c) PROVE Promise!Next
  <2>1. Job(c) \in Building /\ outcome[Job(c)] # "new"
    BY <1>6, AtWork DEF EditWrite, At, Proc
  <2>2. PICK new \in Content : twin' = [twin EXCEPT ![Job(c)] = new]
    BY <1>6 DEF EditWrite
  <2>3. outcome' = outcome
    BY <1>6 DEF EditWrite, queueVars
  <2> QED BY <2>1, <2>2, <2>3, StoreStep
<1> QED
  BY <1>1, <1>2, <1>3, <1>4, <1>5, <1>6, StillSteps
     DEF Next, WorkerStep, FailStep, ConsumerStep, ClientStep, Proc, Reader, Step

(* The pipeline keeps UploadPromise: an upload is decided once, is ready   *)
(* only while its twin is stored, and loses a twin only after failing.     *)
THEOREM PromiseKept == Spec => KeepsThePromise
<1>1. Init => Promise!Init
  BY PromiseInit
<1>2. TypeInv /\ [Next]_vars => [Promise!Next]_Promise!vars
  BY PromiseNext
<1> QED BY <1>1, <1>2, TypeCorrect, PTL DEF Spec, KeepsThePromise, Promise!Spec

-----------------------------------------------------------------------------
(* At-least-once delivery: an upload is notified at most once, and a       *)
(* reader's committed offset never passes a message it has not settled.    *)

(* Only the step that finds the upload pending creates a notifier, and     *)
(* only a notifier notifies.                                               *)

LEMMA NotifySteps ==
  ASSUME TypeInv, [Next]_vars
  PROVE  \/ \E p \in Proc : MarkFailed(p) /\ Resolvable(Job(p))
         \/ \E p \in Proc : Notify(p)
         \/ /\ notified' = notified
            /\ \A q \in Proc : At(q, "notifying")' => task'[q] = task[q]
<1> USE DEF TypeInv
<1> DEFINE Calm == /\ notified' = notified
                   /\ \A q \in Proc : At(q, "notifying")' => task'[q] = task[q]
<1>1. ASSUME NEW p \in Proc, NEW t, GoTo(p, t), t.step # "notifying", notified' = notified
      PROVE  Calm
  BY <1>1 DEF GoTo, At, TypeOK
<1>2. ASSUME NEW p \in Proc, Settle(p) \/ Abandon(p) \/ GoTo(p, Idle), notified' = notified PROVE Calm
  BY <1>1, <1>2 DEF Settle, Abandon, Idle
<1>3. ASSUME NEW w \in Worker, NEW b \in Building, Claim(w, b) PROVE Calm
  BY <1>1, <1>3 DEF Claim, Doing, Proc
<1>4. ASSUME NEW w \in Worker, Upsert(w) \/ UpsertFails(w) \/ PublishFails(w) PROVE Calm
  BY <1>1, <1>4 DEF Upsert, UpsertFails, PublishFails, Doing, Proc
<1>5. ASSUME NEW p \in Proc, MarkFailed(p), ~Resolvable(Job(p)) PROVE Calm
  BY <1>1, <1>5 DEF MarkFailed, Doing
<1>6. ASSUME NEW p \in Proc, Check(p) PROVE Calm
  BY <1>1, <1>2, <1>6 DEF Check, Doing
<1>7. CASE ResolveFailed
  BY <1>1, <1>7 DEF ResolveFailed, Doing, Proc, Reader
<1>8. CASE Register
  BY <1>1, <1>8 DEF Register, Proc, Reader
<1>9. ASSUME NEW c \in Client, NEW b \in Building, NEW s \in {"editing", "resyncing"}, Read(c, b, s)
      PROVE  Calm
  BY <1>1, <1>9 DEF Read, Proc
<1>10. ASSUME NEW c \in Client, EditWrite(c) PROVE Calm
  BY <1>1, <1>2, <1>10 DEF EditWrite, Doing, Proc
<1>11. /\ \A w \in Worker : Publish(w) => Settle(w) /\ notified' = notified
       /\ \A p \in Proc : Delete(p) => Settle(p) /\ notified' = notified
       /\ \A p \in Proc : FailErrs(p) \/ Crash(p) => Abandon(p) /\ notified' = notified
       /\ \A c \in Client : EditSync(c) \/ Resync(c) => Settle(c) /\ notified' = notified
       /\ ResolveReady => Settle(Consumer) /\ notified' = notified
       /\ ResolveReadyErrs => Abandon(Consumer) /\ notified' = notified
       /\ PublishAnswer => Settle(Telemetry) /\ notified' = notified
       /\ RegisterErrs \/ PublishAnswerFails => Abandon(Telemetry) /\ notified' = notified
       /\ \A b \in Building :
            Accept(b) \/ LeaseExpires(b) \/ Purge(b) => task' = task /\ notified' = notified
       /\ UNCHANGED vars => task' = task /\ notified' = notified
  BY DEF Publish, Delete, FailErrs, Crash, EditSync, Resync, ResolveReady, ResolveReadyErrs,
         PublishAnswer, RegisterErrs, PublishAnswerFails, Accept, LeaseExpires, Purge, vars
<1> QED
  BY <1>2, <1>3, <1>4, <1>5, <1>6, <1>7, <1>8, <1>9, <1>10, <1>11
     DEF Next, WorkerStep, FailStep, ConsumerStep, TelemetryStep, ClientStep, Proc, Reader

LEMMA NextNotifiersInv ==
  ASSUME TypeInv, NotifiersInv, [Next]_vars
  PROVE  NotifiersInv'
<1> USE DEF TypeInv
<1>1. \A b \in Building : outcome[b] = "failed" => outcome'[b] = "failed"
  BY NextEvolves DEF Evolves
<1>2. CASE /\ notified' = notified
           /\ \A q \in Proc : At(q, "notifying")' => task'[q] = task[q]
  BY <1>1, <1>2 DEF NotifiersInv, At, Job
<1>3. ASSUME NEW p \in Proc, Notify(p) PROVE NotifiersInv'
  <2>1. Job(p) \in Building /\ outcome[Job(p)] = "failed" /\ notified[Job(p)] = 0
    BY <1>3, AtWork DEF Notify, NotifiersInv, TasksInv, TaskOK, At, Idle
  <2>2. notified' = [notified EXCEPT ![Job(p)] = 1]
    BY <1>3, <2>1 DEF Notify
  <2>3. task'[p].step = "deleting" /\ \A q \in Proc \ {p} : task'[q] = task[q]
    BY <1>3 DEF Notify, GoTo, Doing, TypeOK
  <2>4. \A q \in Proc \ {p} : At(q, "notifying") => Job(q) # Job(p)
    BY <1>3 DEF NotifiersInv, Notify
  <2>5. \A b \in Building : notified'[b] = 0 \/ (notified'[b] = 1 /\ outcome'[b] = "failed")
    BY <1>1, <2>1, <2>2 DEF NotifiersInv, TypeOK
  <2>6. ASSUME NEW q \in Proc, At(q, "notifying")'
        PROVE  /\ notified'[Job(q)'] = 0
               /\ \A r \in Proc : At(r, "notifying")' /\ Job(r)' = Job(q)' => r = q
    <3>1. q # p /\ At(q, "notifying") /\ Job(q)' = Job(q) /\ notified[Job(q)] = 0
      BY <2>3, <2>6 DEF At, Job, NotifiersInv
    <3>2. Job(q) \in Building
      BY <3>1, AtWork DEF At
    <3>3. notified'[Job(q)'] = 0
      BY <2>1, <2>2, <2>4, <3>1, <3>2 DEF TypeOK
    <3>4. \A r \in Proc : At(r, "notifying")' => r # p /\ At(r, "notifying") /\ Job(r)' = Job(r)
      BY <2>3 DEF At, Job
    <3> QED BY <3>1, <3>3, <3>4 DEF NotifiersInv
  <2> QED BY <2>5, <2>6 DEF NotifiersInv
<1>4. ASSUME NEW p \in Proc, MarkFailed(p), Resolvable(Job(p)) PROVE NotifiersInv'
  <2>1. Job(p) \in Building /\ outcome[Job(p)] = "pending"
    BY <1>4, AtWork DEF MarkFailed, Resolvable, At
  <2>2. notified[Job(p)] = 0
    BY <2>1 DEF NotifiersInv
  <2>3. notified' = notified
    BY <1>4 DEF MarkFailed
  <2>4. task'[p] = Doing("notifying", Job(p)) /\ \A q \in Proc \ {p} : task'[q] = task[q]
    BY <1>4 DEF MarkFailed, GoTo, TypeOK
  <2>5. \A q \in Proc : At(q, "notifying") => outcome[Job(q)] = "failed"
    BY DEF TasksInv, TaskOK, At, Idle
  <2>6. \A b \in Building : notified'[b] = 0 \/ (notified'[b] = 1 /\ outcome'[b] = "failed")
    BY <1>1, <2>3 DEF NotifiersInv
  <2>7. Job(p)' = Job(p)
    BY <2>4 DEF Job, Doing
  <2>8. \A q \in Proc \ {p} :
          At(q, "notifying")' => At(q, "notifying") /\ Job(q)' = Job(q) /\ Job(q) # Job(p)
    BY <2>1, <2>4, <2>5 DEF At, Job
  <2>9. ASSUME NEW q \in Proc, At(q, "notifying")'
        PROVE  /\ notified'[Job(q)'] = 0
               /\ \A r \in Proc : At(r, "notifying")' /\ Job(r)' = Job(q)' => r = q
    BY <2>2, <2>3, <2>7, <2>8, <2>9 DEF NotifiersInv
  <2> QED BY <2>6, <2>9 DEF NotifiersInv
<1> QED BY <1>2, <1>3, <1>4, NotifySteps

-----------------------------------------------------------------------------
(* The two readers. *)

(* The logs only grow. *)
LEMMA AnswersGrow ==
  ASSUME TypeInv, [Next]_vars
  PROVE  /\ Len(answers) \in Nat /\ Len(answers') \in Nat
         /\ Len(answers) <= Len(answers')
         /\ \A i \in 1 .. Len(answers) :
              answers'[i] = answers[i] /\ answers[i].building \in Building
<1>1. answers \in Seq(Answer)
  BY DEF TypeInv, TypeOK
<1>5. answers' \in Seq(Answer)
  BY NextTypeOK DEF TypeOK
<1>2. ASSUME NEW i \in 1 .. Len(answers) PROVE answers[i].building \in Building
  <2>1. answers[i] \in Answer
    BY <1>1
  <2> QED BY <2>1 DEF Answer
<1>3. Len(answers) \in Nat /\ Len(answers') \in Nat
  BY <1>1, <1>5, LenProperties
<1> DEFINE Kept == \A i \in 1 .. Len(answers) : answers'[i] = answers[i]
<1>4. ASSUME NEW b \in Building, NEW r \in BOOLEAN,
             answers' = Append(answers, [building |-> b, ready |-> r])
      PROVE  Len(answers') = Len(answers) + 1 /\ Kept
  <2>1. [building |-> b, ready |-> r] \in Answer
    BY DEF Answer
  <2> QED BY <1>1, <1>4, <2>1, AppendProperties
<1>6. CASE answers' = answers
  BY <1>2, <1>3, <1>6
<1>7. CASE answers' # answers
  <2>1. Len(answers') = Len(answers) + 1 /\ Kept
    BY <1>4, <1>7, AnswersStep
  <2>2. Len(answers) <= Len(answers')
    BY <1>3, <2>1
  <2> QED BY <1>2, <1>3, <2>1, <2>2
<1> QED BY <1>6, <1>7

LEMMA RequestsGrow ==
  ASSUME TypeInv, [Next]_vars
  PROVE  /\ Len(requests) \in Nat /\ Len(requests') \in Nat
         /\ Len(requests) <= Len(requests')
         /\ \A i \in 1 .. Len(requests) :
              requests'[i] = requests[i] /\ requests[i].building \in Building
<1>1. requests \in Seq(Request)
  BY DEF TypeInv, TypeOK
<1>5. requests' \in Seq(Request)
  BY NextTypeOK DEF TypeOK
<1>2. ASSUME NEW i \in 1 .. Len(requests) PROVE requests[i].building \in Building
  <2>1. requests[i] \in Request
    BY <1>1
  <2> QED BY <2>1 DEF Request
<1>3. Len(requests) \in Nat /\ Len(requests') \in Nat
  BY <1>1, <1>5, LenProperties
<1> DEFINE Kept == \A i \in 1 .. Len(requests) : requests'[i] = requests[i]
<1>4. ASSUME NEW b \in Building, NEW c \in Content,
             requests' = Append(requests, [building |-> b, content |-> c])
      PROVE  Len(requests') = Len(requests) + 1 /\ Kept
  <2>1. [building |-> b, content |-> c] \in Request
    BY DEF Request
  <2> QED BY <1>1, <1>4, <2>1, AppendProperties
<1>6. CASE requests' = requests
  BY <1>2, <1>3, <1>6
<1>7. CASE requests' # requests
  <2>1. Len(requests') = Len(requests) + 1 /\ Kept
    BY <1>4, <1>7, RequestsStep
  <2>2. Len(requests) <= Len(requests')
    BY <1>3, <2>1
  <2> QED BY <1>2, <1>3, <2>1, <2>2
<1> QED BY <1>6, <1>7

(* A reader's place moves by its own steps only. *)
Unmoved(r) == task'[r] = task[r] /\ next'[r] = next[r] /\ committed'[r] = committed[r]

LEMMA OthersMove ==
  ASSUME TypeInv, NEW r \in Reader, NEW p \in Proc, p # r,
         \/ Settle(p) \/ Abandon(p)
         \/ \E t : GoTo(p, t) /\ UNCHANGED offsetVars
  PROVE  Unmoved(r)
<1>1. r \in Proc
  BY DEF Proc
<1>2. task'[r] = task[r]
  BY <1>1 DEF Settle, Abandon, GoTo, TypeInv, TypeOK
<1>3. next'[r] = next[r] /\ committed'[r] = committed[r]
  BY DEF Settle, Abandon, offsetVars, TypeInv, TypeOK
<1> QED BY <1>2, <1>3 DEF Unmoved

ConsumerMoves ==
  ResolveReady \/ ResolveFailed \/ FailStep(Consumer) \/ ResolveReadyErrs \/ FailErrs(Consumer) \/ Crash(Consumer)
TelemetryMoves == TelemetryStep \/ RegisterErrs \/ PublishAnswerFails \/ Crash(Telemetry)

LEMMA ProcessStep ==
  ASSUME NEW p \in Proc,
         \/ \E b \in Building : Claim(p, b)
         \/ Upsert(p) \/ Publish(p) \/ UpsertFails(p) \/ PublishFails(p)
         \/ FailStep(p) \/ FailErrs(p) \/ Crash(p)
         \/ \E b \in Building, s \in Step : Read(p, b, s)
         \/ EditWrite(p) \/ EditSync(p) \/ Resync(p)
  PROVE  \/ Settle(p) \/ Abandon(p)
         \/ \E t : GoTo(p, t) /\ UNCHANGED offsetVars
<1> DEFINE Goes == \E t : GoTo(p, t) /\ UNCHANGED offsetVars
<1>1. ASSUME NEW b \in Building, Claim(p, b) PROVE Goes
  BY <1>1 DEF Claim
<1>2. ASSUME NEW b \in Building, NEW s \in Step, Read(p, b, s) PROVE Goes
  BY <1>2 DEF Read
<1>3. CASE Upsert(p) \/ UpsertFails(p) \/ PublishFails(p)
  BY <1>3 DEF Upsert, UpsertFails, PublishFails
<1>4. CASE EditWrite(p)
  BY <1>4 DEF EditWrite
<1>5. CASE MarkFailed(p) \/ Notify(p)
  BY <1>5 DEF MarkFailed, Notify
<1>6. CASE Check(p)
  BY <1>6 DEF Check
<1>7. CASE Publish(p) \/ Delete(p) \/ EditSync(p) \/ Resync(p)
  BY <1>7 DEF Publish, Delete, EditSync, Resync
<1>8. CASE FailErrs(p) \/ Crash(p)
  BY <1>8 DEF FailErrs, Crash
<1> QED BY <1>1, <1>2, <1>3, <1>4, <1>5, <1>6, <1>7, <1>8 DEF FailStep

LEMMA WhoMoves ==
  ASSUME TypeInv, [Next]_vars
  PROVE  /\ Unmoved(Consumer) \/ ConsumerMoves
         /\ Unmoved(Telemetry) \/ TelemetryMoves
<1> DEFINE Both == Unmoved(Consumer) /\ Unmoved(Telemetry)
<1>1. ASSUME NEW p \in Worker \cup Client,
             \/ \E b \in Building : Claim(p, b)
             \/ Upsert(p) \/ Publish(p) \/ UpsertFails(p) \/ PublishFails(p)
             \/ FailStep(p) \/ FailErrs(p) \/ Crash(p)
             \/ \E b \in Building, s \in Step : Read(p, b, s)
             \/ EditWrite(p) \/ EditSync(p) \/ Resync(p)
      PROVE  Both
  <2>1. p \in Proc /\ p # Consumer /\ p # Telemetry
    BY ConstantsAssumption DEF Proc, Reader
  <2>2. \/ Settle(p) \/ Abandon(p)
        \/ \E t : GoTo(p, t) /\ UNCHANGED offsetVars
    BY <1>1, <2>1, ProcessStep
  <2> QED BY <2>1, <2>2, OthersMove DEF Reader
<1>2. ASSUME ConsumerMoves PROVE Unmoved(Telemetry)
  <2>1. Consumer \in Proc /\ Consumer # Telemetry
    BY ConstantsAssumption DEF Proc, Reader
  <2>2. CASE FailStep(Consumer) \/ FailErrs(Consumer) \/ Crash(Consumer)
    BY <2>1, <2>2, ProcessStep, OthersMove DEF Reader
  <2>3. CASE ResolveReady \/ ResolveFailed \/ ResolveReadyErrs
    <3>1. \/ Settle(Consumer) \/ Abandon(Consumer)
          \/ \E t : GoTo(Consumer, t) /\ UNCHANGED offsetVars
      BY <2>3 DEF ResolveReady, ResolveFailed, ResolveReadyErrs
    <3> QED BY <2>1, <3>1, OthersMove DEF Reader
  <2> QED BY <1>2, <2>2, <2>3 DEF ConsumerMoves
<1>3. ASSUME TelemetryMoves PROVE Unmoved(Consumer)
  <2>1. Telemetry \in Proc /\ Consumer # Telemetry
    BY ConstantsAssumption DEF Proc, Reader
  <2>2. \/ Settle(Telemetry) \/ Abandon(Telemetry)
        \/ \E t : GoTo(Telemetry, t) /\ UNCHANGED offsetVars
    BY <1>3 DEF TelemetryMoves, TelemetryStep, Register, PublishAnswer, RegisterErrs, PublishAnswerFails, Crash
  <2> QED BY <2>1, <2>2, OthersMove DEF Reader
<1>4. ASSUME task' = task, UNCHANGED offsetVars PROVE Both
  BY <1>4 DEF Unmoved, offsetVars
<1>5. /\ \A b \in Building :
           Accept(b) \/ LeaseExpires(b) \/ Purge(b) => task' = task /\ UNCHANGED offsetVars
      /\ UNCHANGED vars => task' = task /\ UNCHANGED offsetVars
  BY DEF Accept, LeaseExpires, Purge, vars
<1> QED
  BY <1>1, <1>2, <1>3, <1>4, <1>5
     DEF Next, WorkerStep, ConsumerStep, ClientStep, ConsumerMoves, TelemetryMoves, Proc, Reader, Step

(* A decided upload stays decided, so what the consumer handled stays      *)
(* settled while others move.                                              *)
LEMMA HandledStays ==
  ASSUME TypeInv, ConsumerInv, [Next]_vars
  PROVE  /\ next[Consumer] \in Nat /\ committed[Consumer] \in Nat
         /\ \A i \in 1 .. next[Consumer] :
              i \in 1 .. Len(answers) /\ outcome'[answers'[i].building] # "pending"
<1>1. next[Consumer] \in Nat /\ committed[Consumer] \in Nat
  BY DEF TypeInv, TypeOK, Reader
<1>2. ASSUME NEW i \in 1 .. next[Consumer]
      PROVE  i \in 1 .. Len(answers) /\ outcome'[answers'[i].building] # "pending"
  <2>1. i \in 1 .. Len(answers)
    BY <1>1, AnswersGrow DEF ConsumerInv
  <2>2. answers'[i] = answers[i] /\ answers[i].building \in Building
    BY <2>1, AnswersGrow
  <2> DEFINE b == answers[i].building
  <2>3. outcome[b] # "pending" /\ outcome[b] # "new"
    BY <2>1 DEF ConsumerInv, TypeInv, TopicsInv, Served
  <2>4. outcome[b] \in {"ready", "failed"}
    BY <2>2, <2>3 DEF TypeInv, TypeOK
  <2>5. Evolves(b)
    BY <2>2, NextEvolves
  <2> QED BY <2>1, <2>2, <2>3, <2>4, <2>5 DEF Evolves
<1> QED BY <1>1, <1>2

LEMMA NextConsumerInv ==
  ASSUME TypeInv, ConsumerInv, [Next]_vars
  PROVE  ConsumerInv'
<1> USE DEF TypeInv
<1> DEFINE n == next[Consumer]
           b == answers[n + 1].building
<1>1. /\ n \in Nat /\ committed[Consumer] \in Nat /\ committed[Consumer] <= n
      /\ Len(answers) \in Nat /\ Len(answers') \in Nat /\ Len(answers) <= Len(answers')
      /\ n <= Len(answers)
  BY HandledStays, AnswersGrow DEF ConsumerInv
<1>2. \A i \in 1 .. n : outcome'[answers'[i].building] # "pending"
  BY HandledStays
<1>3. n < Len(answers) => answers'[n + 1] = answers[n + 1] /\ b \in Building
  BY <1>1, AnswersGrow
<1>4. Consumer \in Proc
  BY DEF Proc, Reader
<1>5. CASE Unmoved(Consumer)
  <2>1. next'[Consumer] = n /\ committed'[Consumer] = committed[Consumer] /\ task'[Consumer] = task[Consumer]
    BY <1>5 DEF Unmoved
  <2>2. task[Consumer].step \in {"idle", "failing", "checking", "notifying", "deleting"}
    BY DEF ConsumerInv
  <2>3. ~At(Consumer, "idle") => n < Len(answers) /\ Job(Consumer) = b
    BY DEF ConsumerInv
  <2>4. ~At(Consumer, "idle")' => n < Len(answers') /\ Job(Consumer)' = answers'[n + 1].building
    BY <1>1, <1>3, <2>1, <2>3 DEF At, Job
  <2>5. committed'[Consumer] <= n /\ n <= Len(answers')
    BY <1>1, <2>1
  <2> QED BY <1>2, <2>1, <2>2, <2>4, <2>5 DEF ConsumerInv
<1>6. ASSUME Settle(Consumer), n < Len(answers), outcome'[b] # "pending"
      PROVE  ConsumerInv'
  <2>1. task'[Consumer] = Idle /\ next'[Consumer] = n + 1
    BY <1>4, <1>6 DEF Settle, GoTo, TypeOK, Reader
  <2>2. committed'[Consumer] = committed[Consumer] \/ committed'[Consumer] = n + 1
    BY <1>4, <1>6 DEF Settle, TypeOK, Reader
  <2>3. committed'[Consumer] <= n + 1 /\ n + 1 <= Len(answers')
    BY <1>1, <1>6, <2>2
  <2>4. \A i \in 1 .. n + 1 : outcome'[answers'[i].building] # "pending"
    BY <1>1, <1>2, <1>3, <1>6
  <2> QED BY <2>1, <2>3, <2>4 DEF ConsumerInv, At, Idle
<1>7. ASSUME Abandon(Consumer) PROVE ConsumerInv'
  <2>1. task'[Consumer] = Idle /\ next'[Consumer] = committed[Consumer]
    BY <1>4, <1>7 DEF Abandon, GoTo, TypeOK, Reader
  <2>2. committed'[Consumer] = committed[Consumer]
    BY <1>7 DEF Abandon
  <2>3. committed[Consumer] <= Len(answers') /\ committed[Consumer] <= committed[Consumer]
    BY <1>1
  <2>4. \A i \in 1 .. committed[Consumer] : outcome'[answers'[i].building] # "pending"
    BY <1>1, <1>2
  <2> QED BY <2>1, <2>2, <2>3, <2>4 DEF ConsumerInv, At, Idle
<1>8. ASSUME NEW s \in {"failing", "checking", "notifying", "deleting"},
             GoTo(Consumer, Doing(s, b)), UNCHANGED offsetVars, n < Len(answers)
      PROVE  ConsumerInv'
  <2>1. task'[Consumer] = Doing(s, b)
    BY <1>4, <1>8 DEF GoTo, TypeOK
  <2>2. next'[Consumer] = n /\ committed'[Consumer] = committed[Consumer]
    BY <1>8 DEF offsetVars
  <2>3. committed'[Consumer] <= n /\ n <= Len(answers') /\ n < Len(answers')
    BY <1>1, <1>8, <2>2
  <2>4. task'[Consumer].step \in {"idle", "failing", "checking", "notifying", "deleting"}
    BY <2>1 DEF Doing
  <2>5. Job(Consumer)' = answers'[n + 1].building
    BY <1>3, <1>8, <2>1 DEF Doing, Job
  <2> QED BY <1>2, <2>2, <2>3, <2>4, <2>5 DEF ConsumerInv
<1>9. ASSUME ~At(Consumer, "idle") PROVE n < Len(answers) /\ Job(Consumer) = b
  BY <1>9 DEF ConsumerInv
<1>10. CASE ResolveReady
  <2>1. n < Len(answers) /\ Settle(Consumer)
    BY <1>10 DEF ResolveReady, Unread
  <2>2. outcome'[b] # "pending"
    BY <1>3, <1>10, <2>1 DEF ResolveReady, Resolvable, Resolve, TypeOK
  <2> QED BY <1>6, <2>1, <2>2
<1>11. CASE ResolveFailed
  BY <1>8, <1>11 DEF ResolveFailed, Unread
<1>12. CASE ResolveReadyErrs \/ FailErrs(Consumer) \/ Crash(Consumer)
  BY <1>7, <1>12 DEF ResolveReadyErrs, FailErrs, Crash
<1>13. CASE MarkFailed(Consumer) \/ Notify(Consumer)
  <2>1. ~At(Consumer, "idle")
    BY <1>13 DEF MarkFailed, Notify, At
  <2>2. UNCHANGED offsetVars
    BY <1>13 DEF MarkFailed, Notify
  <2>3. \E s \in {"checking", "notifying", "deleting"} : GoTo(Consumer, Doing(s, Job(Consumer)))
    BY <1>13 DEF MarkFailed, Notify
  <2> QED BY <1>8, <1>9, <2>1, <2>2, <2>3
<1>14. CASE Check(Consumer) \/ Delete(Consumer)
  <2>1. ~At(Consumer, "idle")
    BY <1>14 DEF Check, Delete, At
  <2>2. outcome' = outcome /\ outcome[Job(Consumer)] # "pending"
    BY <1>4, <1>14 DEF Check, Delete, queueVars, TasksInv, TaskOK, At, Idle
  <2>3. \/ Settle(Consumer)
        \/ GoTo(Consumer, Doing("deleting", Job(Consumer))) /\ UNCHANGED offsetVars
    BY <1>14 DEF Check, Delete
  <2> QED BY <1>6, <1>8, <1>9, <2>1, <2>2, <2>3
<1> QED
  BY <1>5, <1>10, <1>11, <1>12, <1>13, <1>14, WhoMoves DEF ConsumerMoves, FailStep

LEMMA NextTelemetryInv ==
  ASSUME TypeInv, TelemetryInv, [Next]_vars
  PROVE  TelemetryInv'
<1> USE DEF TypeInv
<1> DEFINE n == next[Telemetry]
           b == requests[n + 1].building
<1>1. /\ n \in Nat /\ committed[Telemetry] \in Nat /\ committed[Telemetry] <= n
      /\ Len(requests) \in Nat /\ Len(requests') \in Nat /\ Len(requests) <= Len(requests')
      /\ n <= Len(requests)
  BY RequestsGrow DEF TelemetryInv, TypeOK, Reader
<1>2. \A i \in 1 .. Len(requests) : requests'[i] = requests[i]
  BY RequestsGrow
<1>4. ASSUME NEW i \in 1 .. n PROVE Answered(requests[i].building)'
  <2>1. i \in 1 .. Len(requests) /\ Answered(requests[i].building)
    BY <1>1 DEF TelemetryInv
  <2>2. requests'[i] = requests[i]
    BY <1>2, <2>1
  <2>3. PICK j \in 1 .. Len(answers) : answers[j].building = requests[i].building
    BY <2>1 DEF Answered
  <2>4. j \in 1 .. Len(answers') /\ answers'[j] = answers[j]
    BY AnswersGrow
  <2> QED BY <2>2, <2>3, <2>4 DEF Answered
<1>5. Telemetry \in Proc
  BY DEF Proc, Reader
<1>6. CASE Unmoved(Telemetry)
  <2>1. next'[Telemetry] = n /\ committed'[Telemetry] = committed[Telemetry] /\ task'[Telemetry] = task[Telemetry]
    BY <1>6 DEF Unmoved
  <2>2. task[Telemetry].step \in {"idle", "answering"}
    BY DEF TelemetryInv
  <2>3. At(Telemetry, "answering") => n < Len(requests) /\ Job(Telemetry) = b
    BY DEF TelemetryInv
  <2>4. At(Telemetry, "answering")' => n < Len(requests') /\ Job(Telemetry)' = requests'[n + 1].building
    BY <1>1, <1>2, <2>1, <2>3 DEF At, Job
  <2>5. committed'[Telemetry] <= n /\ n <= Len(requests')
    BY <1>1, <2>1
  <2> QED BY <1>4, <2>1, <2>2, <2>4, <2>5 DEF TelemetryInv
<1>7. ASSUME Abandon(Telemetry) PROVE TelemetryInv'
  <2>1. task'[Telemetry] = Idle /\ next'[Telemetry] = committed[Telemetry]
    BY <1>5, <1>7 DEF Abandon, GoTo, TypeOK, Reader
  <2>2. committed'[Telemetry] = committed[Telemetry]
    BY <1>7 DEF Abandon
  <2>3. committed[Telemetry] <= Len(requests') /\ committed[Telemetry] <= committed[Telemetry]
    BY <1>1
  <2>4. \A i \in 1 .. committed[Telemetry] : Answered(requests[i].building)'
    BY <1>1, <1>4
  <2> QED BY <2>1, <2>2, <2>3, <2>4 DEF TelemetryInv, At, Idle
<1>8. CASE Register
  <2>1. n < Len(requests) /\ requests' = requests /\ UNCHANGED offsetVars
    BY <1>8 DEF Register, Unread, topicVars
  <2>2. task'[Telemetry].step = "answering" /\ Job(Telemetry)' = b
    BY <1>5, <1>8 DEF Register, GoTo, TypeOK, Job
  <2>3. next'[Telemetry] = n /\ committed'[Telemetry] = committed[Telemetry]
    BY <2>1 DEF offsetVars
  <2> QED BY <1>1, <1>4, <2>1, <2>2, <2>3 DEF TelemetryInv, At
<1>9. CASE PublishAnswer
  <2>1. n < Len(requests) /\ Job(Telemetry) = b
    BY <1>9 DEF PublishAnswer, TelemetryInv
  <2>2. task'[Telemetry] = Idle /\ next'[Telemetry] = n + 1
    BY <1>5, <1>9 DEF PublishAnswer, Settle, GoTo, TypeOK, Reader
  <2>3. committed'[Telemetry] = committed[Telemetry] \/ committed'[Telemetry] = n + 1
    BY <1>9 DEF PublishAnswer, Settle, TypeOK, Reader
  <2>4. committed'[Telemetry] <= n + 1 /\ n + 1 <= Len(requests')
    BY <1>1, <2>1, <2>3
  <2>5. \E j \in 1 .. Len(answers') : answers'[j].building = requests'[n + 1].building
    <3> DEFINE a == [building |-> Job(Telemetry), ready |-> task[Telemetry].content = "valid"]
    <3>1. answers' = Append(answers, a)
      BY <1>9 DEF PublishAnswer, Reply
    <3>2. answers \in Seq(Answer)
      BY DEF TypeOK
    <3>3. a \in Answer
      <4>1. Job(Telemetry) \in Building
        BY <1>5, <1>9, AtWork DEF PublishAnswer, At
      <4> QED BY <4>1 DEF Answer
    <3>4. Len(answers') = Len(answers) + 1 /\ answers'[Len(answers) + 1] = a
      BY <3>1, <3>2, <3>3, AppendProperties
    <3>5. Len(answers) + 1 \in 1 .. Len(answers')
      BY <3>4, AnswersGrow
    <3>6. requests'[n + 1] = requests[n + 1]
      BY <1>1, <1>2, <2>1
    <3> QED BY <2>1, <3>4, <3>5, <3>6
  <2>6. ASSUME NEW i \in 1 .. n + 1 PROVE Answered(requests[i].building)'
    <3>1. CASE i = n + 1
      BY <2>5, <3>1 DEF Answered
    <3>2. CASE i # n + 1
      BY <1>1, <1>4, <3>2
    <3> QED BY <3>1, <3>2
  <2> QED BY <2>2, <2>4, <2>6 DEF TelemetryInv, At, Idle
<1>10. CASE RegisterErrs \/ PublishAnswerFails \/ Crash(Telemetry)
  BY <1>7, <1>10 DEF RegisterErrs, PublishAnswerFails, Crash
<1> QED
  BY <1>6, <1>8, <1>9, <1>10, WhoMoves DEF TelemetryMoves, TelemetryStep

(* However many processes run `fail` for an upload, and rerun it, its      *)
(* uploader is told once.                                                  *)
THEOREM NotifiedOnce == Spec => []NotifiedAtMostOnce
<1>1. Init => NotifiersInv
  BY DEF Init, NotifiersInv, At, Idle
<1>2. TypeInv /\ NotifiersInv /\ [Next]_vars => NotifiersInv'
  BY NextNotifiersInv
<1>3. ASSUME NotifiersInv PROVE NotifiedAtMostOnce
  <2> SUFFICES ASSUME NEW b \in Building PROVE notified[b] <= 1
    BY DEF NotifiedAtMostOnce
  <2>1. notified[b] = 0 \/ notified[b] = 1
    BY <1>3 DEF NotifiersInv
  <2>2. 0 <= 1 /\ 1 <= 1
    OBVIOUS
  <2> QED BY ONLY <2>1, <2>2
<1> QED BY <1>1, <1>2, <1>3, TypeCorrect, PTL DEF Spec

LEMMA ReadersAlways == Spec => [](ConsumerInv /\ TelemetryInv)
<1>1. Init => ConsumerInv /\ TelemetryInv
  <2> SUFFICES ASSUME Init PROVE ConsumerInv /\ TelemetryInv
    OBVIOUS
  <2>1. /\ \A r \in Reader : next[r] = 0 /\ committed[r] = 0 /\ task[r].step = "idle"
        /\ Len(answers) = 0 /\ Len(requests) = 0
    BY DEF Init, Idle, Reader, Proc
  <2> QED BY <2>1 DEF ConsumerInv, TelemetryInv, At, Reader
<1>2. TypeInv /\ ConsumerInv /\ TelemetryInv /\ [Next]_vars => ConsumerInv' /\ TelemetryInv'
  BY NextConsumerInv, NextTelemetryInv
<1> QED BY <1>1, <1>2, TypeCorrect, PTL DEF Spec

(* digital-twin's consumer commits past an answer only once its upload is  *)
(* decided: a stop in between leaves the answer unread.                    *)
THEOREM AnswersResolved == Spec => []CommittedAnswersResolved
<1>1. TypeInv /\ ConsumerInv => CommittedAnswersResolved
  BY DEF TypeInv, TypeOK, Reader, ConsumerInv, CommittedAnswersResolved
<1> QED BY <1>1, TypeCorrect, ReadersAlways, PTL

(* telemetry commits past a request only once it answered it.              *)
THEOREM RequestsAnswered == Spec => []CommittedRequestsAnswered
<1>1. TypeInv /\ TelemetryInv => CommittedRequestsAnswered
  BY DEF TypeInv, TypeOK, Reader, TelemetryInv, CommittedRequestsAnswered
<1> QED BY <1>1, TypeCorrect, ReadersAlways, PTL

-----------------------------------------------------------------------------
(* Undisturbed, a failed upload leaves no twin: as long as one is stored,  *)
(* a worker, a request or an answer is there that ends in its delete.      *)

Failing == {"failing", "checking", "notifying", "deleting"}

(* A first claim is one worker's alone, and no worker fails an upload      *)
(* before something failed it.                                             *)
HandsInv ==
  /\ \A b \in Building : attempts[b] = 0 => \A w \in Worker : Job(w) # b
  /\ \A b \in Building : attempts[b] <= 1 =>
       \A v, w \in Worker : Job(v) = b /\ Job(w) = b => v = w
  /\ faults = 0 => ~disturbed /\ \A w \in Worker : task[w].step \notin Failing

(* A reader works on what its topic says; and while no client has called,  *)
(* the topics say what was uploaded.                                       *)
FlowInv ==
  /\ At(Telemetry, "answering") => task[Telemetry].content = requests[next[Telemetry] + 1].content
  /\ ~At(Consumer, "idle") => ~answers[next[Consumer] + 1].ready
  /\ calls = 0 =>
       /\ \A c \in Client : At(c, "idle")
       /\ \A i \in 1 .. Len(requests) : requests[i].content = upload[requests[i].building]
       /\ \A i \in 1 .. Len(answers) : ~answers[i].ready => upload[answers[i].building] = "invalid"

WillDelete(b) ==
  \/ \E w \in Worker :
       /\ Job(w) = b
       /\ \/ task[w].step \in Failing
          \/ task[w].step \in {"upserting", "publishing"} /\ upload[b] = "invalid"
  \/ \E i \in next[Telemetry] + 1 .. Len(requests) : requests[i] = [building |-> b, content |-> "invalid"]
  \/ \E i \in next[Consumer] + 1 .. Len(answers) : answers[i] = [building |-> b, ready |-> FALSE]

CleanupInv ==
  \A b \in Building : Undisturbed(b) /\ outcome[b] = "failed" =>
    /\ upload[b] = "valid" =>
         \A w \in Worker : Job(w) = b => task[w].step \notin {"upserting", "publishing"}
    /\ twin[b] # None => WillDelete(b)

-----------------------------------------------------------------------------
(* A process's task changes by its own steps only. *)

LEMMA OthersKeep ==
  ASSUME TypeInv, NEW q \in Proc, NEW p \in Proc, p # q,
         Settle(p) \/ Abandon(p) \/ \E t : GoTo(p, t)
  PROVE  task'[q] = task[q]
BY DEF Settle, Abandon, GoTo, TypeInv, TypeOK

WorkerMoves(w) ==
  \/ \E b \in Building : Claim(w, b)
  \/ Upsert(w) \/ UpsertFails(w) \/ Publish(w) \/ PublishFails(w)
  \/ FailStep(w) \/ FailErrs(w) \/ Crash(w)

LEMMA WorkersMove ==
  ASSUME TypeInv, [Next]_vars, NEW w \in Worker
  PROVE  task'[w] = task[w] \/ WorkerMoves(w)
<1>0. w \in Proc
  BY DEF Proc
<1>1. ASSUME NEW p \in Proc \ {w},
             \/ WorkerMoves(p)
             \/ \E b \in Building, s \in Step : Read(p, b, s)
             \/ EditWrite(p) \/ EditSync(p) \/ Resync(p)
      PROVE  task'[w] = task[w]
  <2>1. \/ Settle(p) \/ Abandon(p)
        \/ \E t : GoTo(p, t) /\ UNCHANGED offsetVars
    BY <1>1, ProcessStep DEF WorkerMoves
  <2> QED BY <1>0, <2>1, OthersKeep
<1>2. CASE ResolveReady \/ ResolveFailed \/ ResolveReadyErrs
  <2>1. Settle(Consumer) \/ Abandon(Consumer) \/ \E t : GoTo(Consumer, t)
    BY <1>2 DEF ResolveReady, ResolveFailed, ResolveReadyErrs
  <2> QED BY <1>0, <2>1, OthersKeep, ConstantsAssumption DEF Proc, Reader
<1>3. CASE TelemetryStep \/ RegisterErrs \/ PublishAnswerFails
  <2>1. Settle(Telemetry) \/ Abandon(Telemetry) \/ \E t : GoTo(Telemetry, t)
    BY <1>3 DEF TelemetryStep, Register, PublishAnswer, RegisterErrs, PublishAnswerFails
  <2> QED BY <1>0, <2>1, OthersKeep, ConstantsAssumption DEF Proc, Reader
<1>4. /\ \A b \in Building : Accept(b) \/ LeaseExpires(b) \/ Purge(b) => task' = task
      /\ UNCHANGED vars => task' = task
  BY DEF Accept, LeaseExpires, Purge, vars
<1>5. \A c \in Client : c \in Proc \ {w}
  BY ConstantsAssumption DEF Proc
<1>6. Consumer \in Proc \ {w} /\ Telemetry \in Proc \ {w}
  BY ConstantsAssumption DEF Proc, Reader
<1>7. ASSUME NEW v \in Worker, WorkerStep(v) \/ UpsertFails(v) \/ PublishFails(v) \/ FailErrs(v)
      PROVE  task'[w] = task[w] \/ WorkerMoves(w)
  <2>1. WorkerMoves(v) /\ v \in Proc
    BY <1>7 DEF WorkerStep, WorkerMoves, Proc
  <2> QED BY <1>1, <2>1
<1>8. ASSUME NEW p \in Proc, FailStep(p) \/ FailErrs(p) \/ Crash(p)
      PROVE  task'[w] = task[w] \/ WorkerMoves(w)
  <2>1. WorkerMoves(p)
    BY <1>8 DEF WorkerMoves
  <2> QED BY <1>1, <2>1
<1>9. ASSUME NEW c \in Client, ClientStep(c) PROVE task'[w] = task[w]
  BY <1>1, <1>5, <1>9 DEF ClientStep, Step
<1> QED
  BY <1>2, <1>3, <1>4, <1>6, <1>7, <1>8, <1>9 DEF Next, ConsumerStep

(* A step that leaves b undisturbed is no fault but a refused publish, and *)
(* no client's.                                                            *)
LEMMA CountersStep ==
  ASSUME TypeInv, [Next]_vars
  PROVE  /\ (faults' = faults /\ disturbed' = disturbed) \/ \E kind : Fault(kind)
         /\ calls' = calls \/ calls' = calls + 1
         /\ purged \subseteq purged'
         /\ \/ attempts' = attempts
            \/ \E w \in Worker, b \in Building : Claim(w, b)
<1> USE DEF counters, queueVars
<1>1. CASE \E b \in Building : Accept(b) \/ LeaseExpires(b) \/ Purge(b)
  BY <1>1 DEF Accept, LeaseExpires, Purge
<1>2. ASSUME NEW w \in Worker, WorkerMoves(w)
      PROVE  /\ (faults' = faults /\ disturbed' = disturbed) \/ \E kind : Fault(kind)
             /\ calls' = calls /\ purged' = purged
             /\ \/ attempts' = attempts
                \/ \E v \in Worker, b \in Building : Claim(v, b)
  <2>1. CASE \E b \in Building : Claim(w, b)
    BY <2>1 DEF Claim
  <2>2. CASE Upsert(w) \/ Publish(w) \/ FailStep(w)
    BY <2>2 DEF Upsert, Publish, FailStep, MarkFailed, Check, Notify, Delete
  <2>3. CASE UpsertFails(w) \/ PublishFails(w) \/ FailErrs(w) \/ Crash(w)
    BY <2>3 DEF UpsertFails, PublishFails, FailErrs, Crash, Fault
  <2> QED BY <1>2, <2>1, <2>2, <2>3 DEF WorkerMoves
<1>3. CASE ConsumerStep \/ TelemetryStep
  BY <1>3 DEF ConsumerStep, ResolveReady, ResolveFailed, FailStep, MarkFailed, Check, Notify, Delete,
              TelemetryStep, Register, PublishAnswer
<1>4. CASE \/ ResolveReadyErrs \/ RegisterErrs \/ PublishAnswerFails
           \/ FailErrs(Consumer) \/ \E p \in Proc : Crash(p)
  BY <1>4 DEF ResolveReadyErrs, RegisterErrs, PublishAnswerFails, FailErrs, Crash, Fault
<1>5. ASSUME NEW c \in Client, ClientStep(c)
      PROVE  /\ faults' = faults /\ disturbed' = disturbed /\ attempts' = attempts
             /\ calls' = calls \/ calls' = calls + 1
             /\ purged' = purged
  BY <1>5 DEF ClientStep, Read, Call, EditWrite, EditSync, Resync
<1>6. CASE UNCHANGED vars
  BY <1>6 DEF vars
<1>7. \A w \in Worker : WorkerStep(w) \/ UpsertFails(w) \/ PublishFails(w) \/ FailErrs(w) => WorkerMoves(w)
  BY DEF WorkerStep, WorkerMoves
<1> QED BY <1>1, <1>2, <1>3, <1>4, <1>5, <1>6, <1>7 DEF Next

LEMMA CalmStep ==
  ASSUME TypeInv, FlowInv, [Next]_vars, NEW b \in Building, Undisturbed(b)'
  PROVE  /\ Undisturbed(b)
         /\ \A p \in Proc : ~UpsertFails(p) /\ ~FailErrs(p) /\ ~Crash(p)
         /\ ~ResolveReadyErrs /\ ~RegisterErrs
         /\ \A c \in Client : ~ClientStep(c)
<1> USE DEF TypeInv
<1>0. faults \in Nat /\ calls \in Nat /\ attempts[b] \in Nat
  BY DEF TypeOK
<1>1. ASSUME NEW kind, Fault(kind) PROVE kind = "publish" /\ ~disturbed /\ attempts'[b] <= 1
  <2>1. faults' # 0
    BY <1>0, <1>1 DEF Fault
  <2>2. ~disturbed' /\ attempts'[b] <= 1
    BY <2>1 DEF Undisturbed
  <2> QED BY <1>1, <2>2 DEF Fault
<1>2. calls' = 0 /\ calls = 0
  BY <1>0, CountersStep DEF Undisturbed
<1>3. attempts'[b] = attempts[b] \/ attempts'[b] = attempts[b] + 1
  <2>1. CASE attempts' = attempts
    BY <2>1
  <2>2. ASSUME NEW w \in Worker, NEW x \in Building, Claim(w, x)
        PROVE  attempts'[b] = attempts[b] \/ attempts'[b] = attempts[b] + 1
    BY <2>2 DEF Claim, TypeOK
  <2> QED BY <2>1, <2>2, CountersStep
<1>4. attempts'[b] <= 1 => attempts[b] <= 1
  BY <1>0, <1>3
<1>5. faults = 0 \/ (~disturbed /\ attempts[b] <= 1)
  <2>1. CASE \E kind : Fault(kind)
    BY <1>1, <1>4, <2>1
  <2>2. CASE faults' = faults /\ disturbed' = disturbed
    BY <1>4, <2>2 DEF Undisturbed
  <2> QED BY <2>1, <2>2, CountersStep
<1>6. Undisturbed(b)
  BY <1>2, <1>5, CountersStep DEF Undisturbed
<1>7. ~Fault("store") /\ ~Fault("crash")
  BY <1>1
<1>8. /\ \A p \in Proc : ~UpsertFails(p) /\ ~FailErrs(p) /\ ~Crash(p)
      /\ ~ResolveReadyErrs /\ ~RegisterErrs
  BY <1>7 DEF UpsertFails, FailErrs, Crash, ResolveReadyErrs, RegisterErrs
<1>9. ASSUME NEW c \in Client, ClientStep(c) PROVE FALSE
  <2>1. CASE \E x \in Building : Read(c, x, "editing") \/ Read(c, x, "resyncing")
    BY <1>2, <2>1 DEF Read, Call
  <2>2. CASE EditWrite(c) \/ EditSync(c) \/ Resync(c)
    BY <1>2, <2>2 DEF EditWrite, EditSync, Resync, FlowInv, At
  <2> QED BY <1>9, <2>1, <2>2 DEF ClientStep
<1> QED BY <1>6, <1>8, <1>9

LEMMA NextHandsInv ==
  ASSUME TypeInv, HandsInv, [Next]_vars
  PROVE  HandsInv'
<1> USE DEF TypeInv
<1>0. \A b \in Building : b # NoBuilding /\ attempts[b] \in Nat
  BY ConstantsAssumption DEF TypeOK
<1>1. Worker \subseteq Proc
  BY DEF Proc
<1>2. ASSUME NEW v \in Worker, NEW x \in Building, Claim(v, x) PROVE HandsInv'
  <2>1. /\ task' = [task EXCEPT ![v] = Doing("upserting", x)]
        /\ attempts' = [attempts EXCEPT ![x] = @ + 1]
        /\ faults' = faults /\ disturbed' = disturbed
    BY <1>2 DEF Claim, GoTo, counters
  <2>2. /\ task'[v] = Doing("upserting", x) /\ \A w \in Worker \ {v} : task'[w] = task[w]
        /\ attempts'[x] = attempts[x] + 1 /\ \A b \in Building \ {x} : attempts'[b] = attempts[b]
    BY <1>1, <2>1 DEF TypeOK
  <2>3. Job(v)' = x /\ (\A w \in Worker \ {v} : Job(w)' = Job(w)) /\ task'[v].step = "upserting"
    BY <2>2 DEF Job, Doing
  <2>4. attempts'[x] # 0 /\ (attempts'[x] <= 1 => attempts[x] = 0)
    BY <1>0, <2>2
  <2>5. \A b \in Building : attempts'[b] = 0 => \A w \in Worker : Job(w)' # b
    BY <2>2, <2>3, <2>4 DEF HandsInv
  <2>6. \A b \in Building : attempts'[b] <= 1 =>
          \A u, w \in Worker : Job(u)' = b /\ Job(w)' = b => u = w
    BY <2>2, <2>3, <2>4 DEF HandsInv
  <2>7. faults' = 0 => ~disturbed' /\ \A w \in Worker : task'[w].step \notin Failing
    BY <2>1, <2>2, <2>3 DEF HandsInv, Failing
  <2> QED BY <2>5, <2>6, <2>7 DEF HandsInv
<1>3. CASE \A w \in Worker, b \in Building : ~Claim(w, b)
  <2>1. attempts' = attempts
    BY <1>3, CountersStep
  <2>2. ASSUME NEW w \in Worker PROVE Job(w)' = Job(w) \/ Job(w)' = NoBuilding
    <3>1. CASE task'[w] = task[w]
      BY <3>1 DEF Job
    <3>2. CASE WorkerMoves(w)
      <4>1. \/ GoTo(w, Idle)
            \/ \E s \in Step : GoTo(w, Doing(s, Job(w)))
        BY <1>3, <3>2 DEF WorkerMoves, Upsert, UpsertFails, Publish, PublishFails, FailStep, MarkFailed,
                          Check, Notify, Delete, FailErrs, Crash, Settle, Abandon, Step
      <4> QED BY <1>1, <4>1 DEF GoTo, Idle, Doing, Job, TypeOK
    <3> QED BY <3>1, <3>2, WorkersMove
  <2>3. \A b \in Building : attempts'[b] = 0 => \A w \in Worker : Job(w)' # b
    BY <1>0, <2>1, <2>2 DEF HandsInv
  <2>4. \A b \in Building : attempts'[b] <= 1 =>
          \A u, w \in Worker : Job(u)' = b /\ Job(w)' = b => u = w
    BY <1>0, <2>1, <2>2 DEF HandsInv
  <2>5. ASSUME faults' = 0 PROVE ~disturbed' /\ \A w \in Worker : task'[w].step \notin Failing
    <3>1. ASSUME NEW kind, Fault(kind) PROVE FALSE
      BY <2>5, <3>1 DEF Fault, TypeOK
    <3>2. faults = 0 /\ disturbed' = disturbed
      BY <2>5, <3>1, CountersStep
    <3>3. ~disturbed' /\ \A w \in Worker : task[w].step \notin Failing
      BY <3>2 DEF HandsInv
    <3>4. ASSUME NEW w \in Worker PROVE task'[w].step \notin Failing
      <4>1. CASE task'[w] = task[w]
        BY <3>3, <4>1
      <4>2. CASE WorkerMoves(w)
        <5>1. ~FailStep(w)
          BY <3>3 DEF FailStep, MarkFailed, Check, Notify, Delete, At, Failing
        <5>2. GoTo(w, Idle) \/ GoTo(w, Doing("publishing", Job(w)))
          BY <1>3, <3>1, <4>2, <5>1
             DEF WorkerMoves, Upsert, UpsertFails, Publish, PublishFails, FailErrs, Crash, Settle, Abandon
        <5>3. task'[w].step \in {"idle", "publishing"}
          BY <1>1, <5>2 DEF GoTo, Idle, Doing, TypeOK
        <5> QED BY <5>3 DEF Failing
      <4> QED BY <4>1, <4>2, WorkersMove
    <3> QED BY <3>3, <3>4
  <2> QED BY <2>3, <2>4, <2>5 DEF HandsInv
<1> QED BY <1>2, <1>3

(* What is announced is the worker's upload or what a client read, and     *)
(* what is answered is what telemetry validated.                           *)
LEMMA TopicContents ==
  ASSUME TypeInv, [Next]_vars
  PROVE  /\ \/ requests' = requests
            \/ \E c \in Client : ClientStep(c)
            \/ \E w \in Worker :
                 /\ At(w, "publishing")
                 /\ requests' = Append(requests, [building |-> Job(w), content |-> upload[Job(w)]])
         /\ \/ answers' = answers
            \/ /\ At(Telemetry, "answering")
               /\ answers' = Append(answers, [building |-> Job(Telemetry),
                                              ready |-> task[Telemetry].content = "valid"])
<1>1. \/ requests' = requests
      \/ \E c \in Client : ClientStep(c)
      \/ \E w \in Worker : Publish(w) \/ PublishFails(w)
  BY DEF Next, WorkerStep, FailStep, ConsumerStep, TelemetryStep, Accept, LeaseExpires,
         Purge, Claim, Upsert, UpsertFails, MarkFailed, Check, Notify, Delete, FailErrs, ResolveReady,
         ResolveReadyErrs, ResolveFailed, Register, PublishAnswer, RegisterErrs, PublishAnswerFails,
         Crash, topicVars, vars
<1>2. \A w \in Worker : Publish(w) \/ PublishFails(w) =>
        /\ At(w, "publishing")
        /\ \/ requests' = requests
           \/ requests' = Append(requests, [building |-> Job(w), content |-> upload[Job(w)]])
  BY DEF Publish, PublishFails, Announce
<1>3. PublishAnswer \/ PublishAnswerFails \/ answers' = answers
  BY DEF Next, WorkerStep, FailStep, ConsumerStep, TelemetryStep, ClientStep, Accept, LeaseExpires,
         Purge, Claim, Upsert, UpsertFails, Publish, PublishFails, MarkFailed, Check, Notify, Delete,
         FailErrs, ResolveReady, ResolveReadyErrs, ResolveFailed, Register, RegisterErrs, Read,
         EditWrite, EditSync, Resync, Crash, topicVars, vars
<1> QED BY <1>1, <1>2, <1>3 DEF PublishAnswer, PublishAnswerFails, Reply

LEMMA ClientsIdle ==
  ASSUME TypeInv, FlowInv, [Next]_vars, calls' = 0
  PROVE  /\ calls = 0
         /\ \A c \in Client : ~ClientStep(c) /\ At(c, "idle")'
<1>0. calls = 0
  BY CountersStep DEF TypeInv, TypeOK
<1>1. ASSUME NEW c \in Client PROVE ~ClientStep(c)
  <2>1. ~\E x \in Building : Read(c, x, "editing") \/ Read(c, x, "resyncing")
    BY <1>0 DEF Read, Call
  <2>2. ~EditWrite(c) /\ ~EditSync(c) /\ ~Resync(c)
    BY <1>0 DEF EditWrite, EditSync, Resync, FlowInv, At
  <2> QED BY <2>1, <2>2 DEF ClientStep
<1>2. ASSUME NEW c \in Client PROVE At(c, "idle")'
  <2>1. c \in Proc /\ At(c, "idle") /\ c # Consumer /\ c # Telemetry /\ c \notin Worker
    BY <1>0, ConstantsAssumption DEF FlowInv, Proc, Reader
  <2>2. CASE task'[c] = task[c]
    BY <2>1, <2>2 DEF At
  <2>3. ASSUME NEW p \in Proc, p # c, Settle(p) \/ Abandon(p) \/ \E t : GoTo(p, t)
        PROVE  At(c, "idle")'
    BY <2>1, <2>2, <2>3, OthersKeep
  <2>4. ASSUME NEW w \in Worker, WorkerStep(w) \/ UpsertFails(w) \/ PublishFails(w) \/ FailErrs(w)
        PROVE  At(c, "idle")'
    BY <2>1, <2>3, <2>4, ProcessStep DEF WorkerStep, Proc
  <2>5. CASE ConsumerStep \/ ResolveReadyErrs \/ FailErrs(Consumer)
    <3>1. Consumer \in Proc
      BY DEF Proc, Reader
    <3>2. CASE FailStep(Consumer) \/ FailErrs(Consumer)
      BY <2>1, <2>3, <3>1, <3>2, ProcessStep
    <3>3. CASE ResolveReady \/ ResolveFailed \/ ResolveReadyErrs
      BY <2>1, <2>3, <3>1, <3>3 DEF ResolveReady, ResolveFailed, ResolveReadyErrs
    <3> QED BY <2>5, <3>2, <3>3 DEF ConsumerStep
  <2>6. CASE TelemetryStep \/ RegisterErrs \/ PublishAnswerFails
    BY <2>1, <2>3, <2>6
       DEF TelemetryStep, Register, PublishAnswer, RegisterErrs, PublishAnswerFails, Proc, Reader
  <2>7. ASSUME NEW p \in Proc, Crash(p) PROVE At(c, "idle")'
    <3>1. p # c
      BY <2>1, <2>7 DEF Crash, Reader
    <3> QED BY <2>3, <2>7, <3>1 DEF Crash
  <2>8. CASE UNCHANGED vars \/ \E b \in Building : Accept(b) \/ LeaseExpires(b) \/ Purge(b)
    BY <2>2, <2>8 DEF vars, Accept, LeaseExpires, Purge
  <2> QED BY <1>1, <2>4, <2>5, <2>6, <2>7, <2>8 DEF Next
<1> QED BY <1>0, <1>1, <1>2

LEMMA NextFlowInv ==
  ASSUME TypeInv, ConsumerInv, TelemetryInv, FlowInv, [Next]_vars
  PROVE  FlowInv'
<1> USE DEF TypeInv
<1>0. Consumer \in Proc /\ Telemetry \in Proc /\ next[Consumer] \in Nat /\ next[Telemetry] \in Nat
  BY DEF Proc, Reader, TypeOK
<1>1. ASSUME At(Telemetry, "answering")'
      PROVE  task'[Telemetry].content = requests'[next'[Telemetry] + 1].content
  <2> DEFINE n == next[Telemetry]
  <2>1. CASE Unmoved(Telemetry)
    <3>1. At(Telemetry, "answering") /\ next'[Telemetry] = n /\ task'[Telemetry] = task[Telemetry]
      BY <1>1, <2>1 DEF Unmoved, At
    <3>2. n + 1 \in 1 .. Len(requests)
      BY <1>0, <3>1, RequestsGrow DEF TelemetryInv
    <3>3. requests'[n + 1] = requests[n + 1]
      BY <3>2, RequestsGrow
    <3> QED BY <3>1, <3>3 DEF FlowInv
  <2>2. CASE Register
    <3>1. /\ task'[Telemetry].content = requests[n + 1].content
          /\ requests' = requests /\ next' = next
      BY <1>0, <2>2 DEF Register, GoTo, TypeOK, topicVars, offsetVars
    <3> QED BY <3>1
  <2>3. CASE PublishAnswer \/ RegisterErrs \/ PublishAnswerFails \/ Crash(Telemetry)
    <3>1. GoTo(Telemetry, Idle)
      BY <2>3 DEF PublishAnswer, RegisterErrs, PublishAnswerFails, Crash, Settle, Abandon
    <3> QED BY <1>0, <1>1, <3>1 DEF GoTo, At, Idle, TypeOK
  <2> QED BY <2>1, <2>2, <2>3, WhoMoves DEF TelemetryMoves, TelemetryStep
<1>2. ASSUME ~At(Consumer, "idle")' PROVE ~answers'[next'[Consumer] + 1].ready
  <2> DEFINE n == next[Consumer]
  <2>1. ASSUME ~At(Consumer, "idle") PROVE answers'[n + 1] = answers[n + 1]
    <3>1. n + 1 \in 1 .. Len(answers)
      BY <1>0, <2>1, AnswersGrow DEF ConsumerInv
    <3> QED BY <3>1, AnswersGrow
  <2>2. CASE Unmoved(Consumer)
    BY <1>2, <2>1, <2>2 DEF Unmoved, At, FlowInv
  <2>3. CASE ResolveFailed
    <3>1. answers' = answers /\ next' = next /\ ~answers[n + 1].ready
      BY <2>3 DEF ResolveFailed, topicVars, offsetVars
    <3> QED BY <3>1
  <2>4. CASE ResolveReady \/ ResolveReadyErrs \/ FailErrs(Consumer) \/ Crash(Consumer) \/ Delete(Consumer)
    <3>1. GoTo(Consumer, Idle)
      BY <2>4 DEF ResolveReady, ResolveReadyErrs, FailErrs, Crash, Delete, Settle, Abandon
    <3> QED BY <1>0, <1>2, <3>1 DEF GoTo, At, Idle, TypeOK
  <2>5. CASE MarkFailed(Consumer) \/ Check(Consumer) \/ Notify(Consumer)
    <3>1. ~At(Consumer, "idle") /\ (next' = next \/ GoTo(Consumer, Idle))
      BY <2>5 DEF MarkFailed, Check, Notify, At, offsetVars, Settle
    <3>2. CASE next' = next
      BY <2>1, <3>1, <3>2 DEF FlowInv
    <3>3. CASE GoTo(Consumer, Idle)
      BY <1>0, <1>2, <3>3 DEF GoTo, At, Idle, TypeOK
    <3> QED BY <3>1, <3>2, <3>3
  <2> QED BY <2>2, <2>3, <2>4, <2>5, WhoMoves DEF ConsumerMoves, FailStep
<1>3. ASSUME calls' = 0
      PROVE  /\ \A c \in Client : At(c, "idle")'
             /\ \A i \in 1 .. Len(requests') : requests'[i].content = upload'[requests'[i].building]
             /\ \A i \in 1 .. Len(answers') :
                  ~answers'[i].ready => upload'[answers'[i].building] = "invalid"
  <2>1. calls = 0 /\ \A c \in Client : ~ClientStep(c) /\ At(c, "idle")'
    BY <1>3, ClientsIdle
  <2>2. \A b \in Building : outcome[b] # "new" => upload'[b] = upload[b]
    BY NextEvolves DEF Evolves
  <2>3. ASSUME NEW i \in 1 .. Len(requests') PROVE requests'[i].content = upload'[requests'[i].building]
    <3>1. requests \in Seq(Request) /\ Len(requests) \in Nat
      BY RequestsGrow DEF TypeOK
    <3>2. CASE i \in 1 .. Len(requests)
      <4>1. /\ requests'[i] = requests[i] /\ requests[i].building \in Building
            /\ Served(requests[i].building)
            /\ requests[i].content = upload[requests[i].building]
        BY <2>1, <3>2, RequestsGrow DEF TopicsInv, FlowInv
      <4> QED BY <2>2, <4>1 DEF Served
    <3>3. CASE i \notin 1 .. Len(requests)
      <4>1. requests' # requests
        BY <2>3, <3>3
      <4>2. PICK w \in Worker :
              /\ At(w, "publishing")
              /\ requests' = Append(requests, [building |-> Job(w), content |-> upload[Job(w)]])
        BY <2>1, <4>1, TopicContents
      <4>3. Job(w) \in Building /\ outcome[Job(w)] # "new"
        BY <4>2, AtWork DEF At, Proc
      <4>4. [building |-> Job(w), content |-> upload[Job(w)]] \in Request
        BY <4>3 DEF UploadsInv, Request
      <4>5. Len(requests') = Len(requests) + 1
        BY <3>1, <4>2, <4>4, AppendProperties
      <4>6. i = Len(requests) + 1
        BY <2>3, <3>1, <3>3, <4>5
      <4>7. requests'[i] = [building |-> Job(w), content |-> upload[Job(w)]]
        BY <3>1, <4>2, <4>4, <4>6, AppendProperties
      <4> QED BY <2>2, <4>3, <4>7
    <3> QED BY <3>2, <3>3
  <2>4. ASSUME NEW i \in 1 .. Len(answers'), ~answers'[i].ready
        PROVE  upload'[answers'[i].building] = "invalid"
    <3>1. answers \in Seq(Answer) /\ Len(answers) \in Nat
      BY AnswersGrow DEF TypeOK
    <3>2. CASE i \in 1 .. Len(answers)
      <4>1. /\ answers'[i] = answers[i] /\ answers[i].building \in Building
            /\ Served(answers[i].building)
            /\ upload[answers[i].building] = "invalid"
        BY <2>1, <2>4, <3>2, AnswersGrow DEF TopicsInv, FlowInv
      <4> QED BY <2>2, <4>1 DEF Served
    <3>3. CASE i \notin 1 .. Len(answers)
      <4> DEFINE a == [building |-> Job(Telemetry), ready |-> task[Telemetry].content = "valid"]
      <4>1. At(Telemetry, "answering") /\ answers' = Append(answers, a)
        BY <2>4, <3>3, TopicContents
      <4>2. /\ Job(Telemetry) \in Building /\ outcome[Job(Telemetry)] # "new"
            /\ task[Telemetry].content \in Content
        BY <1>0, <4>1 DEF TasksInv, TaskOK, At, Idle
      <4>3. a \in Answer
        BY <4>2 DEF Answer
      <4>4. Len(answers') = Len(answers) + 1
        BY <3>1, <4>1, <4>3, AppendProperties
      <4>5. i = Len(answers) + 1
        BY <2>4, <3>1, <3>3, <4>4
      <4>6. answers'[i] = a
        BY <3>1, <4>1, <4>3, <4>5, AppendProperties
      <4>7. task[Telemetry].content = "invalid"
        <5>1. answers'[i].ready = (task[Telemetry].content = "valid")
          BY <4>6
        <5>2. task[Telemetry].content # "valid"
          BY ONLY <2>4, <5>1
        <5> QED BY <4>2, <5>2 DEF Content
      <4> DEFINE n == next[Telemetry]
      <4>8. n + 1 \in 1 .. Len(requests) /\ Job(Telemetry) = requests[n + 1].building
        BY <1>0, <4>1, RequestsGrow DEF TelemetryInv
      <4>9. upload[Job(Telemetry)] = "invalid"
        BY <2>1, <4>1, <4>7, <4>8 DEF FlowInv
      <4> QED BY <2>2, <4>2, <4>6, <4>9
    <3> QED BY <3>2, <3>3
  <2> QED BY <2>1, <2>3, <2>4
<1> QED BY <1>1, <1>2, <1>3 DEF FlowInv

-----------------------------------------------------------------------------
(* Undisturbed, an upload turns failed in the hands of a process that      *)
(* deletes it next, and its twin comes back from a worker's store only.    *)

LEMMA FailedStep ==
  ASSUME TypeInv, FlowInv, [Next]_vars, NEW b \in Building,
         Undisturbed(b)', outcome'[b] = "failed", outcome[b] # "failed"
  PROVE  \E p \in Worker \cup {Consumer} :
           MarkFailed(p) /\ Resolvable(Job(p)) /\ Job(p) = b
<1> USE DEF TypeInv
<1>1. ASSUME NEW x \in Building, Accept(x) PROVE FALSE
  BY <1>1 DEF Accept, TypeOK
<1>2. ASSUME Still PROVE FALSE
  BY <1>2 DEF Still
<1>3. ASSUME NEW p \in Proc, Upsert(p) \/ Delete(p) PROVE FALSE
  BY <1>3 DEF Upsert, Delete, queueVars
<1>4. CASE ResolveReady
  BY <1>4 DEF ResolveReady, Resolve, TypeOK
<1>5. ASSUME NEW p \in Proc, MarkFailed(p) PROVE Resolvable(Job(p)) /\ Job(p) = b
  <2>1. Resolvable(Job(p)) /\ outcome' = [outcome EXCEPT ![Job(p)] = "failed"]
    BY <1>5 DEF MarkFailed, Resolve
  <2> QED BY <2>1 DEF TypeOK
<1>6. \A p \in Proc : ~UpsertFails(p) /\ ~FailErrs(p) /\ ~Crash(p)
  BY CalmStep
<1>7. ~ResolveReadyErrs /\ ~RegisterErrs /\ \A c \in Client : ~ClientStep(c)
  BY CalmStep
<1> QED
  BY <1>1, <1>2, <1>3, <1>4, <1>5, <1>6, <1>7, StillSteps
     DEF Next, WorkerStep, FailStep, ConsumerStep, Proc, Reader

LEMMA TwinStep ==
  ASSUME TypeInv, FlowInv, [Next]_vars, NEW b \in Building,
         Undisturbed(b)', twin'[b] # None, twin[b] = None
  PROVE  \E w \in Worker : Upsert(w) /\ Job(w) = b
<1> USE DEF TypeInv
<1>1. ASSUME NEW x \in Building, Accept(x) PROVE FALSE
  BY <1>1 DEF Accept
<1>2. ASSUME Still PROVE FALSE
  BY <1>2 DEF Still
<1>3. ASSUME NEW p \in Proc, MarkFailed(p) \/ Delete(p) PROVE FALSE
  BY <1>3 DEF MarkFailed, Delete, TypeOK
<1>4. CASE ResolveReady
  BY <1>4 DEF ResolveReady
<1>5. ASSUME NEW w \in Worker, Upsert(w) PROVE Job(w) = b
  BY <1>5 DEF Upsert, TypeOK
<1>6. \A p \in Proc : ~UpsertFails(p) /\ ~FailErrs(p) /\ ~Crash(p)
  BY CalmStep
<1>7. ~ResolveReadyErrs /\ ~RegisterErrs /\ \A c \in Client : ~ClientStep(c)
  BY CalmStep
<1> QED
  BY <1>1, <1>2, <1>3, <1>4, <1>5, <1>6, <1>7, StillSteps
     DEF Next, WorkerStep, FailStep, ConsumerStep, Proc, Reader

(* The upload of a failing process: a worker fails what it alone holds,    *)
(* the consumer what telemetry refused.                                    *)
LEMMA ValidIsUnhandled ==
  ASSUME TypeInv, ConsumerInv, HandsInv, FlowInv, CleanupInv, [Next]_vars, NEW b \in Building,
         Undisturbed(b)', outcome'[b] = "failed", upload'[b] = "valid",
         NEW w \in Worker, Job(w)' = b
  PROVE  task'[w].step \notin {"upserting", "publishing"}
<1> USE DEF TypeInv
<1> SUFFICES ASSUME task'[w].step \in {"upserting", "publishing"} PROVE FALSE
  OBVIOUS
<1>0. Undisturbed(b) /\ calls = 0 /\ w \in Proc
  BY CalmStep DEF Undisturbed, Proc
<1>1. upload[b] = "valid"
  <2>1. outcome[b] # "new"
    <3>1. CASE outcome[b] # "failed"
      BY <3>1, FailedStep DEF Resolvable
    <3> QED BY <3>1
  <2> QED BY <2>1, NextEvolves DEF Evolves
<1>2. ASSUME outcome[b] = "failed", Job(w) = b, task[w].step \in {"upserting", "publishing"} PROVE FALSE
  BY <1>0, <1>1, <1>2 DEF CleanupInv
<1>3. CASE task'[w] = task[w]
  <2>1. Job(w) = b /\ task[w].step \in {"upserting", "publishing"}
    BY <1>3 DEF Job
  <2>2. PICK p \in Worker \cup {Consumer} : MarkFailed(p) /\ Job(p) = b
    BY <1>2, <2>1, FailedStep
  <2>3. At(p, "failing")
    BY <2>2 DEF MarkFailed
  <2>4. CASE p = Consumer
    <3>1. ~answers[next[Consumer] + 1].ready /\ b = answers[next[Consumer] + 1].building
      BY <2>2, <2>3, <2>4 DEF FlowInv, ConsumerInv, At
    <3>2. next[Consumer] + 1 \in 1 .. Len(answers)
      BY <2>3, <2>4, AnswersGrow DEF ConsumerInv, At, TypeOK, Reader
    <3>3. upload[b] = "invalid"
      BY <1>0, <3>1, <3>2 DEF FlowInv
    <3> QED BY <1>1, <3>3
  <2>5. CASE p \in Worker
    <3>1. faults # 0
      BY <2>3, <2>5 DEF HandsInv, At, Failing
    <3>2. attempts[b] <= 1
      BY <1>0, <3>1 DEF Undisturbed
    <3>3. p = w
      BY <2>1, <2>2, <2>5, <3>2 DEF HandsInv
    <3> QED BY <2>1, <2>3, <3>3 DEF At
  <2> QED BY <2>4, <2>5
<1>4. CASE WorkerMoves(w)
  <2>1. ASSUME NEW x \in Building, Claim(w, x) PROVE FALSE
    <3>1. task'[w] = Doing("upserting", x) /\ outcome' = outcome /\ outcome[x] = "pending"
      BY <1>0, <2>1 DEF Claim, GoTo, TypeOK
    <3>2. x = b
      BY <3>1 DEF Doing, Job
    <3> QED BY <3>1, <3>2
  <2>2. CASE Upsert(w)
    <3>1. Job(w) = b /\ outcome[b] = "failed" /\ At(w, "upserting")
      BY <1>0, <2>2 DEF Upsert, GoTo, Doing, Job, TypeOK, queueVars
    <3> QED BY <1>2, <3>1 DEF At
  <2>3. CASE Publish(w) \/ FailErrs(w) \/ Crash(w) \/ Delete(w)
    BY <1>0, <2>3 DEF Publish, FailErrs, Crash, Delete, Settle, Abandon, GoTo, Idle, TypeOK
  <2>4. CASE UpsertFails(w) \/ PublishFails(w) \/ MarkFailed(w) \/ Notify(w)
    BY <1>0, <2>4 DEF UpsertFails, PublishFails, MarkFailed, Notify, GoTo, Doing, TypeOK
  <2>5. CASE Check(w)
    BY <1>0, <2>5 DEF Check, Settle, GoTo, Doing, Idle, TypeOK
  <2> QED BY <1>4, <2>1, <2>2, <2>3, <2>4, <2>5 DEF WorkerMoves, FailStep
<1> QED BY <1>3, <1>4, WorkersMove

(* Whatever is to delete the twin deletes it, or hands it on: the worker   *)
(* to the requests topic, telemetry to the answers, the consumer to none.  *)
LEMMA WorkerHandsOn ==
  ASSUME TypeInv, TelemetryInv, FlowInv, [Next]_vars, NEW b \in Building,
         Undisturbed(b)', outcome[b] = "failed", twin'[b] # None, NEW w \in Worker, Job(w) = b,
         \/ task[w].step \in Failing
         \/ task[w].step \in {"upserting", "publishing"} /\ upload[b] = "invalid"
  PROVE  WillDelete(b)'
<1> USE DEF TypeInv
<1>0. w \in Proc /\ w \notin Reader /\ Undisturbed(b) /\ upload'[b] = upload[b]
  BY CalmStep, NextEvolves, ConstantsAssumption DEF Proc, Evolves
<1>1. CASE task'[w] = task[w]
  BY <1>0, <1>1 DEF WillDelete, Job
<1>2. ASSUME NEW s \in Failing, GoTo(w, Doing(s, b)) PROVE WillDelete(b)'
  <2>1. Job(w)' = b /\ task'[w].step \in Failing
    BY <1>0, <1>2 DEF GoTo, Doing, Job, TypeOK
  <2> QED BY <2>1 DEF WillDelete
<1>3. CASE Upsert(w)
  <2>1. upload[b] = "invalid"
    BY <1>3 DEF Upsert, At, Failing
  <2>2. Job(w)' = b /\ task'[w].step = "publishing"
    BY <1>0, <1>3 DEF Upsert, GoTo, Doing, Job, TypeOK
  <2> QED BY <1>0, <2>1, <2>2 DEF WillDelete
<1>4. CASE Publish(w)
  <2> DEFINE r == [building |-> b, content |-> "invalid"]
  <2>1. upload[b] = "invalid"
    BY <1>4 DEF Publish, At, Failing
  <2>2. requests' = Append(requests, r) /\ next' = next
    BY <1>0, <1>4, <2>1 DEF Publish, Announce, Settle, offsetVars
  <2>3. requests \in Seq(Request) /\ r \in Request
    BY DEF TypeOK, Request, Content
  <2>4. Len(requests') = Len(requests) + 1 /\ requests'[Len(requests) + 1] = r
    BY <2>2, <2>3, AppendProperties
  <2>5. Len(requests) + 1 \in next'[Telemetry] + 1 .. Len(requests')
    BY <2>2, <2>4, RequestsGrow DEF TelemetryInv, TypeOK, Reader
  <2> QED BY <2>4, <2>5 DEF WillDelete
<1>5. CASE PublishFails(w) \/ MarkFailed(w) \/ Notify(w)
  BY <1>2, <1>5 DEF PublishFails, MarkFailed, Notify, Failing
<1>6. CASE Check(w)
  <2>1. DeleteAgain(Job(w))
    BY <1>0 DEF DeleteAgain, Undisturbed
  <2> QED BY <1>2, <1>6, <2>1 DEF Check, Failing
<1>7. ~Delete(w)
  <2>1. Delete(w) => twin'[b] = None
    BY DEF Delete, TypeOK
  <2> QED BY <2>1
<1>8. ~\E x \in Building : Claim(w, x)
  BY DEF Claim, At, Failing
<1>9. ~UpsertFails(w) /\ ~FailErrs(w) /\ ~Crash(w)
  BY <1>0, CalmStep
<1> QED
  BY <1>1, <1>3, <1>4, <1>5, <1>6, <1>7, <1>8, <1>9, WorkersMove DEF WorkerMoves, FailStep

LEMMA RequestHandsOn ==
  ASSUME TypeInv, ConsumerInv, TelemetryInv, FlowInv, [Next]_vars, NEW b \in Building,
         NEW i \in next[Telemetry] + 1 .. Len(requests),
         requests[i] = [building |-> b, content |-> "invalid"]
  PROVE  WillDelete(b)'
<1> USE DEF TypeInv
<1> DEFINE n == next[Telemetry]
<1>0. n \in Nat /\ committed[Telemetry] <= n /\ committed[Telemetry] \in Nat /\ Telemetry \in Proc
  BY DEF TypeOK, Reader, Proc, TelemetryInv
<1>1. requests'[i] = requests[i] /\ i \in n + 1 .. Len(requests')
  BY <1>0, RequestsGrow
<1>2. ASSUME next'[Telemetry] \in Nat, next'[Telemetry] < i PROVE WillDelete(b)'
  <2>1. i \in next'[Telemetry] + 1 .. Len(requests')
    BY <1>1, <1>2
  <2> QED BY <1>1, <2>1 DEF WillDelete
<1>3. CASE Unmoved(Telemetry) \/ Register
  BY <1>0, <1>2, <1>3 DEF Unmoved, Register, offsetVars
<1>4. CASE RegisterErrs \/ PublishAnswerFails \/ Crash(Telemetry)
  <2>1. next'[Telemetry] = committed[Telemetry]
    BY <1>4 DEF RegisterErrs, PublishAnswerFails, Crash, Abandon, TypeOK, Reader
  <2> QED BY <1>0, <1>2, <2>1
<1>5. CASE PublishAnswer
  <2>1. next'[Telemetry] = n + 1
    BY <1>5 DEF PublishAnswer, Settle, TypeOK, Reader
  <2>2. CASE i # n + 1
    BY <1>0, <1>2, <2>1, <2>2
  <2>3. CASE i = n + 1
    <3> DEFINE a == [building |-> b, ready |-> FALSE]
    <3>1. Job(Telemetry) = b /\ task[Telemetry].content = "invalid"
      BY <1>5, <2>3 DEF PublishAnswer, TelemetryInv, FlowInv
    <3>2. (task[Telemetry].content = "valid") = FALSE
      BY <3>1
    <3>3. answers' = Append(answers, a)
      BY <1>5, <3>1, <3>2 DEF PublishAnswer, Reply
    <3>4. answers \in Seq(Answer) /\ a \in Answer
      BY DEF TypeOK, Answer
    <3>5. Len(answers') = Len(answers) + 1 /\ answers'[Len(answers) + 1] = a
      BY <3>3, <3>4, AppendProperties
    <3>6. Unmoved(Consumer)
      BY <1>0, <1>5, OthersMove, ConstantsAssumption DEF PublishAnswer, Reader
    <3>7. Len(answers) + 1 \in next'[Consumer] + 1 .. Len(answers')
      BY <3>5, <3>6, AnswersGrow DEF Unmoved, ConsumerInv, TypeOK, Reader
    <3> QED BY <3>5, <3>7 DEF WillDelete
  <2> QED BY <2>2, <2>3
<1> QED BY <1>3, <1>4, <1>5, WhoMoves DEF TelemetryMoves, TelemetryStep

LEMMA AnswerIsKept ==
  ASSUME TypeInv, ConsumerInv, FlowInv, [Next]_vars, NEW b \in Building,
         Undisturbed(b)', outcome[b] = "failed", twin'[b] # None,
         NEW i \in next[Consumer] + 1 .. Len(answers),
         answers[i] = [building |-> b, ready |-> FALSE]
  PROVE  WillDelete(b)'
<1> USE DEF TypeInv
<1> DEFINE n == next[Consumer]
<1>0. n \in Nat /\ Consumer \in Proc /\ Consumer \in Reader
  BY DEF TypeOK, Reader, Proc
<1>1. answers'[i] = answers[i] /\ i \in n + 1 .. Len(answers')
  BY <1>0, AnswersGrow
<1>2. ASSUME next'[Consumer] \in Nat, next'[Consumer] < i PROVE WillDelete(b)'
  <2>1. i \in next'[Consumer] + 1 .. Len(answers')
    BY <1>1, <1>2
  <2> QED BY <1>1, <2>1 DEF WillDelete
<1>3. CASE Unmoved(Consumer) \/ next' = next
  BY <1>0, <1>2, <1>3 DEF Unmoved
<1>4. ASSUME i # n + 1, Settle(Consumer) PROVE WillDelete(b)'
  <2>1. next'[Consumer] = n + 1
    BY <1>0, <1>4 DEF Settle, TypeOK
  <2> QED BY <1>0, <1>2, <1>4, <2>1
<1>5. CASE ResolveReady
  <2>1. i # n + 1
    BY <1>5 DEF ResolveReady
  <2> QED BY <1>4, <1>5, <2>1 DEF ResolveReady
<1>6. CASE ResolveFailed \/ MarkFailed(Consumer) \/ Notify(Consumer)
  BY <1>3, <1>6 DEF ResolveFailed, MarkFailed, Notify, offsetVars
<1>7. CASE Check(Consumer)
  <2>1. CASE DeleteAgain(Job(Consumer))
    BY <1>3, <1>7, <2>1 DEF Check, offsetVars
  <2>2. CASE ~DeleteAgain(Job(Consumer))
    <3>1. Job(Consumer) # b
      BY <2>2, CalmStep DEF DeleteAgain, Undisturbed
    <3>2. i # n + 1
      BY <1>7, <3>1 DEF Check, At, ConsumerInv
    <3> QED BY <1>4, <1>7, <2>2, <3>2 DEF Check
  <2> QED BY <2>1, <2>2
<1>8. CASE Delete(Consumer)
  <2>1. Job(Consumer) # b
    BY <1>8 DEF Delete, TypeOK
  <2>2. i # n + 1
    BY <1>8, <2>1 DEF Delete, At, ConsumerInv
  <2> QED BY <1>4, <1>8, <2>2 DEF Delete
<1>9. ~ResolveReadyErrs /\ ~FailErrs(Consumer) /\ ~Crash(Consumer)
  BY <1>0, CalmStep
<1> QED
  BY <1>3, <1>5, <1>6, <1>7, <1>8, <1>9, WhoMoves DEF ConsumerMoves, FailStep

LEMMA NextCleanupInv ==
  ASSUME TypeInv, ConsumerInv, TelemetryInv, HandsInv, FlowInv, CleanupInv, [Next]_vars
  PROVE  CleanupInv'
<1> USE DEF TypeInv
<1> SUFFICES ASSUME NEW b \in Building, Undisturbed(b)', outcome'[b] = "failed"
    PROVE  /\ upload'[b] = "valid" =>
                \A w \in Worker : Job(w)' = b => task'[w].step \notin {"upserting", "publishing"}
           /\ twin'[b] # None => WillDelete(b)'
  BY DEF CleanupInv
<1>1. upload'[b] = "valid" =>
        \A w \in Worker : Job(w)' = b => task'[w].step \notin {"upserting", "publishing"}
  BY ValidIsUnhandled
<1>2. Undisturbed(b) /\ calls = 0
  BY CalmStep DEF Undisturbed
<1>3. ASSUME outcome[b] = "failed", twin'[b] # None PROVE WillDelete(b)'
  <2>1. CASE twin[b] = None
    <3>1. PICK w \in Worker : Upsert(w) /\ Job(w) = b
      BY <1>3, <2>1, TwinStep
    <3>2. upload[b] = "invalid"
      BY <1>2, <1>3, <3>1 DEF CleanupInv, UploadsInv, Content, Upsert, At
    <3>3. task[w].step = "upserting"
      BY <3>1 DEF Upsert, At
    <3> QED BY <1>3, <3>1, <3>2, <3>3, WorkerHandsOn
  <2>2. CASE twin[b] # None
    <3>1. WillDelete(b)
      BY <1>2, <1>3, <2>2 DEF CleanupInv
    <3> QED BY <1>3, <3>1, WorkerHandsOn, RequestHandsOn, AnswerIsKept DEF WillDelete
  <2> QED BY <2>1, <2>2
<1>4. ASSUME outcome[b] # "failed" PROVE WillDelete(b)'
  <2>1. PICK p \in Worker \cup {Consumer} : MarkFailed(p) /\ Resolvable(Job(p)) /\ Job(p) = b
    BY <1>4, FailedStep
  <2>2. p \in Proc /\ GoTo(p, Doing("notifying", b)) /\ next' = next /\ answers' = answers /\ ~At(p, "idle")
    BY <2>1 DEF MarkFailed, offsetVars, topicVars, Proc, Reader, At
  <2>3. CASE p \in Worker
    <3>1. Job(p)' = b /\ task'[p].step \in Failing
      BY <2>2 DEF GoTo, Doing, Job, Failing, TypeOK
    <3> QED BY <2>3, <3>1 DEF WillDelete
  <2>4. CASE p = Consumer
    <3> DEFINE i == next[Consumer] + 1
    <3>1. i \in 1 .. Len(answers) /\ i \in next[Consumer] + 1 .. Len(answers)
      BY <2>2, <2>4, AnswersGrow DEF ConsumerInv, TypeOK, Reader
    <3>2. answers[i] \in Answer /\ answers[i].building = b /\ ~answers[i].ready
      BY <2>1, <2>2, <2>4, <3>1 DEF ConsumerInv, FlowInv, TypeOK
    <3>3. answers[i] = [building |-> b, ready |-> FALSE]
      BY <3>2 DEF Answer
    <3> QED BY <2>2, <3>1, <3>3 DEF WillDelete
  <2> QED BY <2>1, <2>3, <2>4
<1> QED BY <1>1, <1>3, <1>4

(* What has failed and is not disturbed leaves no twin behind, once        *)
(* nothing runs or is unread for it.                                       *)
THEOREM NoneOrphaned == Spec => []NoOrphanedTwin
<1>1. Init => HandsInv /\ FlowInv /\ CleanupInv
  <2> SUFFICES ASSUME Init PROVE HandsInv /\ FlowInv /\ CleanupInv
    OBVIOUS
  <2>1. /\ \A p \in Proc : task[p] = Idle
        /\ faults = 0 /\ disturbed = FALSE /\ Len(requests) = 0 /\ Len(answers) = 0
        /\ \A b \in Building : outcome[b] = "new"
    BY DEF Init
  <2>2. \A p \in Proc : Job(p) = NoBuilding /\ task[p].step = "idle"
    BY <2>1 DEF Job, Idle
  <2>3. HandsInv
    BY <2>1, <2>2, ConstantsAssumption DEF HandsInv, Proc, Failing
  <2>4. FlowInv
    BY <2>1, <2>2 DEF FlowInv, At, Proc, Reader
  <2> QED BY <2>1, <2>3, <2>4 DEF CleanupInv
<1>2. TypeInv /\ ConsumerInv /\ TelemetryInv /\ HandsInv /\ FlowInv /\ CleanupInv /\ [Next]_vars
        => HandsInv' /\ FlowInv' /\ CleanupInv'
  BY NextHandsInv, NextFlowInv, NextCleanupInv
<1>3. TypeInv /\ ConsumerInv /\ CleanupInv => NoOrphanedTwin
  <2> SUFFICES ASSUME TypeInv, ConsumerInv, CleanupInv, NEW b \in Building,
                      Undisturbed(b), outcome[b] = "failed", Quiet(b), twin[b] # None
               PROVE  FALSE
    BY DEF NoOrphanedTwin
  <2>1. WillDelete(b)
    BY DEF CleanupInv
  <2>2. committed[Consumer] \in Nat /\ next[Consumer] \in Nat /\ committed[Consumer] <= next[Consumer]
    BY DEF ConsumerInv, TypeInv, TypeOK, Reader
  <2>3. \A w \in Worker : Job(w) # b
    BY DEF Quiet, Proc
  <2>4. \A i \in next[Telemetry] + 1 .. Len(requests) : requests[i].building # b
    BY DEF Quiet
  <2>5. \A i \in next[Consumer] + 1 .. Len(answers) : answers[i].building # b
    <3>1. answers \in Seq(Answer)
      BY DEF TypeInv, TypeOK
    <3>2. Len(answers) \in Nat
      BY <3>1, LenProperties
    <3> QED BY <2>2, <3>2 DEF Quiet
  <2> QED BY <2>1, <2>3, <2>4, <2>5 DEF WillDelete
<1> QED BY <1>1, <1>2, <1>3, TypeCorrect, ReadersAlways, PTL DEF Spec
=============================================================================
