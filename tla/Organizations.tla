--------------------------- MODULE Organizations ---------------------------
(***************************************************************************)
(* From a signup to a domain.  registry records organizations; every 15 s  *)
(* provisioner lists the pending ones, has tenancy create a domain of the  *)
(* organization's name, and reports the outcome to registry.  Every call   *)
(* between the three services is an action, since anything may happen in   *)
(* between: another provisioner (a rollout runs two), a user who founds a  *)
(* domain of that name, an operator who suspends the organization.         *)
(***************************************************************************)
EXTENDS Naturals

CONSTANTS
  Org,            \* organizations, and the names of their domains
  Provisioner,
  NoOrg,
  MaxFaults       \* bound: calls that err and ticks that end early

Tier == {"pooled", "dedicated", "on-prem"}
Status == {"none", "provisioning", "ready", "failed", "suspended"}

ASSUME OrganizationsAssumption ==
  NoOrg \notin Org /\ MaxFaults \in Nat

VARIABLES
  tier,        \* tier[o]: what o signed up for
  status,      \* status[o]: "none" before the signup
  license,     \* license[o]: "active" or "suspended"
  suspending,  \* organizations an operator is suspending
  domains,     \* the organizations whose domain exists, whoever created it
  todo,        \* todo[p]: the organizations p has listed and not handled
  step, org,   \* the call p makes next, and for whom
  faults

orgVars == <<tier, status, license, suspending>>
tickVars == <<todo, step, org>>
vars == <<orgVars, domains, tickVars, faults>>

Step == {"idle", "looking", "inserting", "readying", "failing"}

TypeOK ==
  /\ tier \in [Org -> Tier]
  /\ status \in [Org -> Status]
  /\ license \in [Org -> {"active", "suspended"}]
  /\ suspending \subseteq Org
  /\ domains \subseteq Org
  /\ todo \in [Provisioner -> SUBSET Org]
  /\ step \in [Provisioner -> Step]
  /\ org \in [Provisioner -> Org \cup {NoOrg}]
  /\ faults \in Nat

Init ==
  /\ tier \in [Org -> {"pooled", "dedicated"}]
  /\ status = [o \in Org |-> "none"]
  /\ license = [o \in Org |-> "active"]
  /\ suspending = {}
  /\ domains = {}
  /\ todo = [p \in Provisioner |-> {}]
  /\ step = [p \in Provisioner |-> "idle"]
  /\ org = [p \in Provisioner |-> NoOrg]
  /\ faults = 0

At(p, s) == step[p] = s
GoTo(p, s) == step' = [step EXCEPT ![p] = s] /\ UNCHANGED <<todo, org>>
Fault == faults < MaxFaults /\ faults' = faults + 1

-----------------------------------------------------------------------------
(* registry *)

Signup(o) ==
  /\ status[o] = "none"
  /\ status' = [status EXCEPT ![o] = "provisioning"]
  /\ UNCHANGED <<tier, license, suspending, domains, tickVars, faults>>

PendingLicensed(o) ==  \* mutant: only organizations with a license are listed
  status[o] = "provisioning" /\ license[o] = "active"
Pending(o) == status[o] = "provisioning"

(* The status is set whatever it was. *)
SetStatus(o, s) == status' = [status EXCEPT ![o] = s]

(* Two statements: the license, then the status. *)
SuspendLicense(o) ==
  /\ status[o] # "none" /\ license[o] = "active"
  /\ license' = [license EXCEPT ![o] = "suspended"]
  /\ suspending' = suspending \cup {o}
  /\ UNCHANGED <<tier, status, domains, tickVars, faults>>

SuspendStatus(o) ==
  /\ o \in suspending
  /\ suspending' = suspending \ {o}
  /\ SetStatus(o, "suspended")
  /\ UNCHANGED <<tier, license, domains, tickVars, faults>>

SuspendErrs(o) ==
  /\ o \in suspending /\ Fault
  /\ suspending' = suspending \ {o}
  /\ UNCHANGED <<tier, status, license, domains, tickVars>>

-----------------------------------------------------------------------------
(* provisioner *)

List(p) ==
  /\ At(p, "idle") /\ todo[p] = {}
  /\ {o \in Org : Pending(o)} # {}
  /\ todo' = [todo EXCEPT ![p] = {o \in Org : Pending(o)}]
  /\ UNCHANGED <<orgVars, domains, step, org, faults>>

(* A tier it does not support fails at once. *)
Take(p, o) ==
  /\ At(p, "idle") /\ o \in todo[p]
  /\ todo' = [todo EXCEPT ![p] = @ \ {o}]
  /\ org' = [org EXCEPT ![p] = o]
  /\ step' = [step EXCEPT ![p] = IF tier[o] = "pooled" THEN "looking" ELSE "failing"]
  /\ UNCHANGED <<orgVars, domains, faults>>

EndWork(p) == /\ step' = [step EXCEPT ![p] = "idle"]
            /\ org' = [org EXCEPT ![p] = NoOrg]

Report(p) ==
  /\ \/ At(p, "readying") /\ SetStatus(org[p], "ready")
     \/ At(p, "failing") /\ SetStatus(org[p], "failed")
  /\ EndWork(p)
  /\ UNCHANGED <<tier, license, suspending, domains, todo, faults>>

(* The outcome of the report is ignored: still pending, the organization   *)
(* is listed again by the next tick.                                       *)
ReportErrs(p) ==
  /\ step[p] \in {"readying", "failing"} /\ Fault
  /\ EndWork(p)
  /\ UNCHANGED <<orgVars, domains, todo>>

(* The tick's deadline passes, or the process stops. *)
TickEnds(p) ==
  /\ ~At(p, "idle") \/ todo[p] # {}
  /\ Fault
  /\ EndWork(p)
  /\ todo' = [todo EXCEPT ![p] = {}]
  /\ UNCHANGED <<orgVars, domains>>

-----------------------------------------------------------------------------
(* tenancy: a lookup and an insert *)

Look(p) ==
  /\ At(p, "looking")
  /\ GoTo(p, IF org[p] \in domains THEN "readying" ELSE "inserting")
  /\ UNCHANGED <<orgVars, domains, faults>>

OnConflict == "readying"
Insert(p) ==
  /\ At(p, "inserting")
  /\ GoTo(p, IF org[p] \in domains THEN OnConflict ELSE "readying")
  /\ domains' = domains \cup {org[p]}
  /\ UNCHANGED <<orgVars, faults>>

(* No answer within 5 s, or a 500; the insert may have happened. *)
OnErrorReady == "readying"  \* mutant: an error is not looked at
OnError == "failing"
CreateErrs(p) ==
  /\ step[p] \in {"looking", "inserting"} /\ Fault
  /\ domains' \in {domains, domains \cup {org[p]}}
  /\ GoTo(p, OnError)
  /\ UNCHANGED orgVars

(* A user's own domain takes the name. *)
Found(o) ==
  /\ o \notin domains
  /\ domains' = domains \cup {o}
  /\ UNCHANGED <<orgVars, tickVars, faults>>

-----------------------------------------------------------------------------
Work(p) == List(p) \/ (\E o \in Org : Take(p, o)) \/ Look(p) \/ Insert(p) \/ Report(p)

Next ==
  \/ \E o \in Org : \/ Signup(o) \/ Found(o)
                    \/ SuspendLicense(o) \/ SuspendStatus(o) \/ SuspendErrs(o)
  \/ \E p \in Provisioner : Work(p) \/ ReportErrs(p) \/ TickEnds(p) \/ CreateErrs(p)

Spec == Init /\ [][Next]_vars

(* The loop ticks for ever and calls have deadlines. *)
FairSpec == Spec /\ \A p \in Provisioner : WF_vars(Work(p))

-----------------------------------------------------------------------------
(* What is needed, beyond the properties below, to prove them.             *)
StepsInv ==
  \A p \in Provisioner :
    /\ ~At(p, "idle") => org[p] \in Org
    /\ step[p] \in {"looking", "inserting", "readying"} => tier[org[p]] = "pooled"
    /\ At(p, "readying") => org[p] \in domains
    /\ At(p, "failing") /\ faults = 0 => tier[org[p]] # "pooled"

(* An organization is only declared ready when it is of a tier that is     *)
(* provisioned and its domain exists - whichever call of whichever tick    *)
(* was lost.                                                               *)
ReadyHasDomain ==
  \A o \in Org : status[o] = "ready" => tier[o] = "pooled" /\ o \in domains

(* A conflict is not a failure: as long as no call is lost, two            *)
(* provisioners, or a user, creating one domain at once never "mark an     *)
(* organization failed over a domain that exists" (tenancy.go).            *)
ConflictIsNoFailure ==
  faults = 0 => \A o \in Org : status[o] = "failed" => tier[o] # "pooled"

(* No organization is left pending for ever.                               *)
EveryOrgIsDecided == \A o \in Org : status[o] = "provisioning" ~> status[o] # "provisioning"
=============================================================================
