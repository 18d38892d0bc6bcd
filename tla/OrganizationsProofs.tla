------------------------ MODULE OrganizationsProofs ------------------------
(***************************************************************************)
(* For any number of organizations, provisioners and lost calls: an        *)
(* organization declared ready has a domain, and while no call was lost no *)
(* pooled organization fails.  StepsInv makes both inductive:              *)
(* what a provisioner is about to report stays true, because domains are   *)
(* never removed and a tier never changes.                                 *)
(***************************************************************************)
EXTENDS Organizations, TLAPS

Inv == TypeOK /\ StepsInv /\ ReadyHasDomain /\ ConflictIsNoFailure

LEMMA InitInv == Init => Inv
BY OrganizationsAssumption
   DEF Init, Inv, TypeOK, StepsInv, ReadyHasDomain, ConflictIsNoFailure, At, Step, Status, Tier

(* Only the next call of p, its organization and its list change. *)
LEMMA MoveInv ==
  ASSUME Inv, NEW p \in Provisioner, NEW s \in Step, NEW o \in Org \cup {NoOrg},
         step' = [step EXCEPT ![p] = s], org' = [org EXCEPT ![p] = o],
         todo' \in [Provisioner -> SUBSET Org],
         UNCHANGED <<tier, license, suspending>>, faults' \in Nat,
         domains' \subseteq Org, domains \subseteq domains',
         faults' = 0 => faults = 0,
         status' \in [Org -> Status],
         \A x \in Org : status'[x] = "ready" /\ status[x] # "ready" =>
           tier[x] = "pooled" /\ x \in domains,
         \A x \in Org : status'[x] = "failed" /\ status[x] # "failed" /\ faults = 0 =>
           tier[x] # "pooled",
         s # "idle" => o \in Org,
         s \in {"looking", "inserting", "readying"} => tier[o] = "pooled",
         s = "readying" => o \in domains',
         s = "failing" /\ faults' = 0 => tier[o] # "pooled"
  PROVE  Inv'
<1>1. TypeOK /\ StepsInv /\ ReadyHasDomain /\ ConflictIsNoFailure
  BY DEF Inv
<1>2. TypeOK'
  BY <1>1 DEF TypeOK
<1>3. \A q \in Provisioner : /\ step'[q] = IF q = p THEN s ELSE step[q]
                             /\ org'[q] = IF q = p THEN o ELSE org[q]
  BY <1>1 DEF TypeOK
<1>4. StepsInv'
  BY <1>1, <1>3 DEF StepsInv, At
<1>5. ReadyHasDomain'
  BY <1>1 DEF ReadyHasDomain
<1>6. ConflictIsNoFailure'
  BY <1>1 DEF ConflictIsNoFailure
<1> QED
  BY <1>2, <1>4, <1>5, <1>6 DEF Inv

(* Calls of registry and of users move no provisioner. *)
LEMMA OutsideInv ==
  ASSUME Inv, NEW o \in Org,
         \/ Signup(o) \/ Found(o) \/ SuspendLicense(o) \/ SuspendStatus(o) \/ SuspendErrs(o)
  PROVE  Inv'
<1>1. TypeOK /\ StepsInv /\ ReadyHasDomain /\ ConflictIsNoFailure
  BY DEF Inv
<1>2. /\ UNCHANGED <<tier, todo, step, org>> /\ faults' \in Nat
      /\ \A x \in Org : status'[x] \notin {"ready", "failed"} \/ status'[x] = status[x]
      /\ domains \subseteq domains' /\ (faults' = 0 => faults = 0)
  BY <1>1 DEF Signup, Found, SuspendLicense, SuspendStatus, SuspendErrs, SetStatus, tickVars,
     orgVars, Fault, TypeOK
<1>3. /\ status' \in [Org -> Status] /\ license' \in [Org -> {"active", "suspended"}]
      /\ suspending' \subseteq Org
  BY <1>1 DEF Signup, Found, SuspendLicense, SuspendStatus, SuspendErrs, SetStatus, orgVars,
     TypeOK, Status
<1>4. domains' \subseteq Org
  BY <1>1 DEF Signup, Found, SuspendLicense, SuspendStatus, SuspendErrs, TypeOK
<1>5. TypeOK'
  BY <1>1, <1>2, <1>3, <1>4 DEF TypeOK
<1>6. StepsInv' /\ ReadyHasDomain' /\ ConflictIsNoFailure'
  BY <1>1, <1>2 DEF StepsInv, ReadyHasDomain, ConflictIsNoFailure, At
<1> QED
  BY <1>5, <1>6 DEF Inv

LEMMA ProvisionerInv ==
  ASSUME Inv, NEW p \in Provisioner, Work(p) \/ ReportErrs(p) \/ TickEnds(p) \/ CreateErrs(p)
  PROVE  Inv'
<1>1. TypeOK /\ StepsInv /\ ReadyHasDomain /\ ConflictIsNoFailure
  BY DEF Inv
<1>2. /\ step[p] \in Step /\ org[p] \in Org \cup {NoOrg} /\ todo \in [Provisioner -> SUBSET Org]
      /\ step = [step EXCEPT ![p] = step[p]] /\ org = [org EXCEPT ![p] = org[p]]
      /\ faults \in Nat /\ domains \subseteq Org
      /\ status \in [Org -> Status]
      /\ \A s : At(p, s) <=> step[p] = s
  BY <1>1 DEF TypeOK, At
<1>3. /\ step[p] # "idle" => org[p] \in Org
      /\ step[p] \in {"looking", "inserting", "readying"} => tier[org[p]] = "pooled"
      /\ step[p] = "readying" => org[p] \in domains
      /\ step[p] = "failing" /\ faults = 0 => tier[org[p]] # "pooled"
  BY <1>1 DEF StepsInv, At
<1>5. CASE List(p)
  <2>1. todo' \in [Provisioner -> SUBSET Org]
    BY <1>2, <1>5 DEF List
  <2> QED
    BY <1>2, <1>3, <1>5, <2>1, MoveInv DEF List, orgVars
<1>6. ASSUME NEW o \in Org, Take(p, o) PROVE Inv'
  <2>1. todo' \in [Provisioner -> SUBSET Org]
    BY <1>2, <1>6 DEF Take
  <2>2. CASE tier[o] = "pooled"
    BY <1>2, <1>6, <2>1, <2>2, MoveInv DEF Take, orgVars, Step
  <2>3. CASE tier[o] # "pooled"
    BY <1>2, <1>6, <2>1, <2>3, MoveInv DEF Take, orgVars, Step
  <2> QED
    BY <2>2, <2>3
<1>7. CASE Look(p)
  <2>1. step[p] = "looking" /\ org[p] \in Org /\ tier[org[p]] = "pooled"
    BY <1>2, <1>3, <1>7 DEF Look
  <2>2. CASE org[p] \notin domains
    BY <1>2, <1>7, <2>1, <2>2, MoveInv DEF Look, GoTo, orgVars, Step
  <2>3. CASE org[p] \in domains
    BY <1>2, <1>7, <2>1, <2>3, MoveInv DEF Look, GoTo, orgVars, Step
  <2> QED
    BY <2>2, <2>3
<1>9. CASE Insert(p)
  <2>1. step[p] = "inserting" /\ org[p] \in Org /\ tier[org[p]] = "pooled"
    BY <1>2, <1>3, <1>9 DEF Insert
  <2>2. domains' \subseteq Org /\ domains \subseteq domains' /\ org[p] \in domains'
    BY <1>2, <1>9, <2>1 DEF Insert
  <2>3. step' = [step EXCEPT ![p] = "readying"] /\ UNCHANGED <<todo, org, orgVars, faults>>
    BY <1>9 DEF Insert, GoTo, OnConflict
  <2> QED
    BY <1>2, <2>1, <2>2, <2>3, MoveInv DEF orgVars, Step
<1>10. CASE Report(p)
  <2>1. step[p] \in {"readying", "failing"} /\ org[p] \in Org
    BY <1>2, <1>3, <1>10 DEF Report
  <2>2. /\ status' \in [Org -> Status]
        /\ \A x \in Org : status'[x] = "ready" /\ status[x] # "ready" =>
             x = org[p] /\ step[p] = "readying"
    BY <1>2, <1>10, <2>1 DEF Report, SetStatus, Status
  <2>3. \A x \in Org : status'[x] = "ready" /\ status[x] # "ready" =>
          tier[x] = "pooled" /\ x \in domains
    BY <1>3, <2>2
  <2>4. \A x \in Org : status'[x] = "failed" /\ status[x] # "failed" /\ faults = 0 =>
          tier[x] # "pooled"
    BY <1>2, <1>3, <1>10, <2>1 DEF Report, SetStatus
  <2> QED
    BY <1>2, <1>10, <2>2, <2>3, <2>4, MoveInv DEF Report, EndWork, Step
<1>11. CASE ReportErrs(p)
  <2>1. /\ step' = [step EXCEPT ![p] = "idle"] /\ org' = [org EXCEPT ![p] = NoOrg]
        /\ UNCHANGED <<tier, status, license, suspending, domains, todo>>
        /\ faults' \in Nat /\ faults' # 0
    BY <1>2, <1>11 DEF ReportErrs, EndWork, Fault, orgVars
  <2> QED
    BY <1>2, <2>1, MoveInv DEF Step
<1>12. CASE TickEnds(p)
  <2>1. todo' \in [Provisioner -> SUBSET Org]
    BY <1>2, <1>12 DEF TickEnds
  <2>2. /\ step' = [step EXCEPT ![p] = "idle"] /\ org' = [org EXCEPT ![p] = NoOrg]
        /\ UNCHANGED <<tier, status, license, suspending, domains>>
        /\ faults' \in Nat /\ faults' # 0
    BY <1>2, <1>12 DEF TickEnds, EndWork, Fault, orgVars
  <2> QED
    BY <1>2, <2>1, <2>2, MoveInv DEF Step
<1>13. CASE CreateErrs(p)
  <2>1. step[p] \in {"looking", "inserting"} /\ org[p] \in Org
    BY <1>2, <1>3, <1>13 DEF CreateErrs
  <2>2. domains' \subseteq Org /\ domains \subseteq domains'
    BY <1>2, <1>13, <2>1 DEF CreateErrs
  <2>3. step' = [step EXCEPT ![p] = "failing"] /\ UNCHANGED <<todo, org, orgVars>>
        /\ faults' \in Nat /\ faults' # 0
    BY <1>2, <1>13 DEF CreateErrs, GoTo, OnError, Fault
  <2> QED
    BY <1>2, <2>1, <2>2, <2>3, MoveInv DEF orgVars, Step
<1> QED
  BY <1>5, <1>6, <1>7, <1>9, <1>10, <1>11, <1>12, <1>13 DEF Work

LEMMA InvAlways == Spec => []Inv
<1>1. Inv /\ UNCHANGED vars => Inv'
  BY DEF Inv, vars, orgVars, tickVars, TypeOK, StepsInv, ReadyHasDomain, ConflictIsNoFailure, At
<1>2. Inv /\ [Next]_vars => Inv'
  BY <1>1, OutsideInv, ProvisionerInv DEF Next
<1> QED
  BY InitInv, <1>2, PTL DEF Spec

(* Every variable keeps its type. *)
THEOREM TypeCorrect == Spec => []TypeOK
<1>1. Inv => TypeOK
  BY DEF Inv
<1> QED
  BY InvAlways, <1>1, PTL

(* registry never shows an organization ready whose domain does not exist, *)
(* whatever calls are lost and however many provisioners and users compete *)
(* for its name: the reconciler reports ready only after tenancy answered  *)
(* (reconciler.go, reconcileOne).                                          *)
THEOREM ReadyOrgsHaveDomains == Spec => []ReadyHasDomain
<1>1. Inv => ReadyHasDomain
  BY DEF Inv
<1> QED
  BY InvAlways, <1>1, PTL

(* A 409 is success: without a lost call or an ended tick, provisioners    *)
(* and users who create one domain at once fail no pooled organization     *)
(* (tenancyclient/client.go, CreateDomain).                                *)
THEOREM ConflictsAreNoFailures == Spec => []ConflictIsNoFailure
<1>1. Inv => ConflictIsNoFailure
  BY DEF Inv
<1> QED
  BY InvAlways, <1>1, PTL
=============================================================================
