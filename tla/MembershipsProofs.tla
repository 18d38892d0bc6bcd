------------------------- MODULE MembershipsProofs -------------------------
(***************************************************************************)
(* For any number of accounts, codes and overlapping requests: what an     *)
(* invite code, a self-service join and the founding of a domain can never *)
(* grant.  Inv is the inductive invariant.                                 *)
(*                                                                         *)
(* However requests overlap: what a manager may do to others, and how a    *)
(* domain can lose its last manager.  ChecksInv says that until it is      *)
(* overtaken, what a request has checked is so.                            *)
(*                                                                         *)
(* And for the session of a browser, Page: a page is its account's own.    *)
(* PageInv is the inductive invariant.                                     *)
(***************************************************************************)
EXTENDS MCMemberships, TLAPS

Inv ==
  /\ TypeOK /\ AbsentInv /\ PlansOK /\ MembersInv
  /\ AdminComesFromTheIdP /\ OneFounder

(* No role a manager or a code may grant is admin. *)
LEMMA GrantableIsNotAdmin ==
  ASSUME NEW r, Grantable(r)
  PROVE  r # "admin"
BY DEF Grantable, Weight

(* A caller whose token manages the domain holds a role in it. *)
LEMMA ManagerHasARole ==
  ASSUME NEW a \in Account, CanManage(a)
  PROVE  claims[a] # "none"
BY DEF CanManage, Weight

(* The accounts and the types of a planned write. *)
LEMMA PlanType ==
  ASSUME NEW a \in Account \cup {NoOne}, NEW r \in Role, NEW v \in Via,
         NEW b \in Role \cup {"none"}, NEW c \in Code
  PROVE  /\ Idle \in Write
         /\ Plan("create", a) \in Write
         /\ Plan("delete", a) \in Write
         /\ [Plan("delete", a) EXCEPT !.by = b] \in Write
         /\ PlanUpsert(a, r, v) \in Write
         /\ [PlanUpsert(a, r, v) EXCEPT !.by = b] \in Write
         /\ [PlanUpsert(a, r, v) EXCEPT !.code = c] \in Write
BY DEF Idle, Write, Plan, PlanUpsert

LEMMA InitInv == Init => Inv
<1> SUFFICES ASSUME Init PROVE Inv
  OBVIOUS
<1> USE MembershipsAssumption
<1>1. TypeOK
  BY DEF Init, TypeOK, Nobody, Policy, Role, Via, Write, Idle
<1>2. AbsentInv /\ PlansOK /\ MembersInv /\ AdminComesFromTheIdP /\ OneFounder
  BY DEF Init, AbsentInv, PlansOK, PlanOK, Upserts, MembersInv, AdminComesFromTheIdP,
         OneFounder, Nobody, Policy, Idle
<1> QED
  BY <1>1, <1>2 DEF Inv

-----------------------------------------------------------------------------
(* A decision keeps the invariant when its plan is one the invariant       *)
(* allows; only the founding of a domain plans a `local` membership.       *)
Allowed(t) ==
  /\ t \in Write
  /\ t.write \in {"upsert", "delete"} => t.account \in Account
  /\ t.write = "upsert" =>
       /\ domain # "absent"
       /\ t.role \in Role /\ t.via \in {"self-idp", "invite"}
       /\ t.role = "admin" => t.via = "self-idp"
       /\ t.via = "self-idp" => domain = "open-via-idp"

LEMMA DecideInv ==
  ASSUME Inv, NEW q \in Request, NEW t, Allowed(t), Decide(q, t), asked' \in Nat,
         UNCHANGED <<issued, expired>>,
         \/ redeemer' = redeemer /\ t.code = NoCode
         \/ \E c \in Code, a \in Account :
              /\ redeemer[c] = NoOne /\ redeemer' = [redeemer EXCEPT ![c] = a]
              /\ t.code = NoCode \/ (t.code = c /\ t.account = a)
  PROVE  Inv'
<1> USE MembershipsAssumption
<1>1. TypeOK /\ AbsentInv /\ PlansOK /\ MembersInv /\ AdminComesFromTheIdP /\ OneFounder
  BY DEF Inv
<1>2. /\ UNCHANGED <<domain, role, via, claims, admitted, issued, expired>>
      /\ task' = [task EXCEPT ![q] = t]
      /\ t \in Write
  BY DEF Decide, members, Allowed
<1>3. redeemer' \in [Code -> Account \cup {NoOne}]
  BY <1>1 DEF TypeOK
<1>4. TypeOK'
  BY <1>1, <1>2, <1>3 DEF TypeOK
<1>5. \A p \in Request : task'[p] = IF p = q THEN t ELSE task[p]
  BY <1>1, <1>2 DEF TypeOK
<1>6. AbsentInv'
  BY <1>1, <1>2, <1>5 DEF AbsentInv, Allowed
<1>7. (AdminComesFromTheIdP /\ OneFounder)'
  BY <1>1, <1>2 DEF AdminComesFromTheIdP, OneFounder
<1>8. \A c \in Code : redeemer[c] # NoOne => redeemer'[c] = redeemer[c]
  BY <1>1 DEF TypeOK
<1>9. MembersInv'
  <2>1. ASSUME NEW c \in Code, NEW a \in admitted[c]
        PROVE  a = redeemer[c] /\ redeemer[c] # NoOne
    BY <1>1, <2>1 DEF MembersInv, TypeOK
  <2> QED
    BY <1>1, <1>2, <1>8, <2>1 DEF MembersInv
<1>10. ASSUME NEW p \in Request PROVE PlanOK(p)'
  <2>1. PlanOK(p)
    BY <1>1 DEF PlansOK
  <2>2. \A r \in Request : Upserts(r, "local")' => Upserts(r, "local")
    BY <1>5 DEF Upserts, Allowed
  <2>3. CASE p # q
    <3>1. task'[p] = task[p] /\ task[p] \in Write
      BY <1>1, <1>5, <2>3 DEF TypeOK
    <3>2. task[p].write = "upsert" /\ task[p].code # NoCode =>
            redeemer'[task[p].code] = task[p].account
      BY <1>8, <2>1, <3>1 DEF PlanOK, Write
    <3> QED
      BY <1>2, <2>1, <2>2, <3>1, <3>2 DEF PlanOK, Upserts
  <2>4. CASE p = q
    <3>1. task'[p] = t
      BY <1>5, <2>4
    <3>2. t.code # NoCode => redeemer'[t.code] = t.account
      BY <1>1 DEF TypeOK
    <3>3. ~Upserts(p, "local")'
      BY <3>1 DEF Upserts, Allowed
    <3> QED
      BY <1>2, <3>1, <3>2, <3>3 DEF PlanOK, Allowed, Via
  <2> QED
    BY <2>3, <2>4
<1> QED
  BY <1>4, <1>6, <1>7, <1>9, <1>10 DEF Inv, PlansOK

LEMMA DecideStepInv ==
  ASSUME Inv, NEW q \in Request, DecideStep(q)
  PROVE  Inv'
<1> USE MembershipsAssumption
<1>1. TypeOK /\ AbsentInv
  BY DEF Inv
<1>2. Idle \in Write /\ Idle.write = "idle" /\ Idle.code = NoCode
  BY DEF Idle, Write
<1>3. ASSUME Ask(q)
      PROVE  asked' \in Nat /\ task[q] = Idle
  BY <1>1, <1>3 DEF Ask, TypeOK
<1>4. ASSUME NEW a \in Account, CanManage(a)
      PROVE  domain # "absent" /\ claims[a] \in Role
  BY <1>1, <1>4, ManagerHasARole DEF AbsentInv, TypeOK
<1>5. ASSUME NEW a \in Account \cup {NoOne}, Create(q, a) PROVE Inv'
  <2>1. Allowed(Plan("create", a)) /\ Plan("create", a).code = NoCode
    BY DEF Allowed, Plan, Idle, Write
  <2> QED
    BY <1>3, <1>5, <2>1, DecideInv DEF Create, codes
<1>7. ASSUME NEW a \in Account, NEW b \in Role \cup {"none"}
      PROVE  /\ Allowed(Plan("delete", a)) /\ Plan("delete", a).code = NoCode
             /\ Allowed([Plan("delete", a) EXCEPT !.by = b])
             /\ [Plan("delete", a) EXCEPT !.by = b].code = NoCode
  BY DEF Allowed, Plan, Idle, Write
<1>8. ASSUME NEW a \in Account, SelfJoin(q, a) PROVE Inv'
  <2>1. /\ Allowed(PlanUpsert(a, "standard_customer", "self-idp"))
        /\ PlanUpsert(a, "standard_customer", "self-idp").code = NoCode
    BY <1>8 DEF SelfJoin, JoinOpen, Allowed, PlanUpsert, Plan, Idle, Write, Via, Role
  <2> QED
    BY <1>3, <1>8, <2>1, DecideInv DEF SelfJoin, codes
<1>9. ASSUME NEW a \in Account, FirstLogin(q, a) PROVE Inv'
  <2>1. PICK r \in IdPRole : Decide(q, PlanUpsert(a, r, "self-idp"))
    BY <1>9 DEF FirstLogin
  <2>2. /\ Allowed(PlanUpsert(a, r, "self-idp"))
        /\ PlanUpsert(a, r, "self-idp").code = NoCode
    BY <1>9 DEF FirstLogin, JoinOpen, Allowed, PlanUpsert, Plan, Idle, Write, Via, Role
  <2> QED
    BY <1>3, <1>9, <2>1, <2>2, DecideInv DEF FirstLogin, codes
<1>10. ASSUME NEW a \in Account, Leave(q, a) PROVE Inv'
  BY <1>3, <1>7, <1>10, DecideInv DEF Leave, codes
<1>11. ASSUME NEW actor \in Account, NEW a \in Account, Remove(q, actor, a) PROVE Inv'
  <2>1. claims[actor] \in Role
    BY <1>4, <1>11 DEF Remove
  <2> QED
    BY <1>3, <1>7, <1>11, <2>1, DecideInv DEF Remove, codes
<1>12. ASSUME NEW actor \in Account, NEW a \in Account, NEW r \in InvitedRole,
              Invite(q, actor, a, r)
       PROVE  Inv'
  <2> DEFINE t == [PlanUpsert(a, r, "invite") EXCEPT !.by = claims[actor]]
  <2>1. domain # "absent" /\ claims[actor] \in Role /\ r # "admin" /\ r \in Role
    BY <1>4, <1>12, GrantableIsNotAdmin DEF Invite
  <2>2. Allowed(t) /\ t.code = NoCode
    BY <2>1 DEF Allowed, PlanUpsert, Plan, Idle, Write, Via
  <2>3. Decide(q, t) /\ UNCHANGED codes /\ asked' \in Nat
    BY <1>3, <1>12 DEF Invite
  <2> HIDE DEF t
  <2> QED
    BY <2>2, <2>3, DecideInv DEF codes
<1>13. ASSUME NEW a \in Account, NEW c \in Code, RedeemInviteCode(q, a, c) PROVE Inv'
  <2> DEFINE t == IF Grantable(issued[c])
                  THEN [PlanUpsert(a, issued[c], "invite") EXCEPT !.code = c] ELSE Idle
  <2>1. /\ issued[c] \in Role /\ domain # "absent"
        /\ redeemer[c] = NoOne /\ redeemer' = [redeemer EXCEPT ![c] = a]
    BY <1>1, <1>13 DEF RedeemInviteCode, Redeemable, Spend, AbsentInv, TypeOK
  <2>2. Allowed(t) /\ (t.code = NoCode \/ (t.code = c /\ t.account = a))
    <3>1. CASE Grantable(issued[c])
      <4>1. issued[c] # "admin"
        BY <3>1, GrantableIsNotAdmin
      <4>2. t = [PlanUpsert(a, issued[c], "invite") EXCEPT !.code = c]
        BY <3>1
      <4> QED
        BY <2>1, <4>1, <4>2 DEF Allowed, PlanUpsert, Plan, Idle, Write, Via
    <3>2. CASE ~Grantable(issued[c])
      BY <1>2, <3>2 DEF Allowed
    <3> QED
      BY <3>1, <3>2
  <2>3. Decide(q, t) /\ UNCHANGED <<issued, expired>> /\ asked' \in Nat
    BY <1>3, <1>13 DEF RedeemInviteCode
  <2> HIDE DEF t
  <2> QED
    BY <2>1, <2>2, <2>3, DecideInv
<1>14. ASSUME NEW actor \in Account, NEW c \in Code, NEW r \in InvitedRole,
              CreateInviteCode(q, actor, c, r)
       PROVE  Inv'
  <2>1. /\ domain # "absent" /\ task' = [task EXCEPT ![q] = Idle] /\ task[q] = Idle
        /\ UNCHANGED <<domain, role, via, claims, admitted, expired, redeemer>>
        /\ issued' = [issued EXCEPT ![c] = r] /\ asked' \in Nat
    BY <1>3, <1>4, <1>14 DEF CreateInviteCode, Decide, members
  <2>2. task' = task
    BY <1>1, <2>1 DEF TypeOK
  <2>3. issued' \in [Code -> Role \cup {"none"}]
    BY <1>1, <2>1 DEF TypeOK
  <2> QED
    BY <2>1, <2>2, <2>3 DEF Inv, TypeOK, AbsentInv, PlansOK, PlanOK, Upserts, MembersInv,
       AdminComesFromTheIdP, OneFounder
<1> QED
  BY <1>5, <1>8, <1>9, <1>10, <1>11, <1>12, <1>13, <1>14 DEF DecideStep

-----------------------------------------------------------------------------
LEMMA InsertDomainInv ==
  ASSUME Inv, NEW q \in Request, InsertDomain(q)
  PROVE  Inv'
<1> USE MembershipsAssumption
<1>1. TypeOK /\ AbsentInv /\ PlansOK /\ MembersInv /\ AdminComesFromTheIdP /\ OneFounder
  BY DEF Inv
<1>2. UNCHANGED <<role, via, issued, expired, redeemer, claims, admitted, asked>>
  BY DEF InsertDomain, members, codes
<1> DEFINE a == task[q].account
<1>3. task[q] \in Write /\ task[q].write = "create" /\ a \in Account \cup {NoOne}
  BY <1>1 DEF TypeOK, Write, InsertDomain
<1>4. CASE task' = [task EXCEPT ![q] = Idle] /\ (domain' = domain \/ domain = "absent")
           /\ domain' \in Policy \cup {"absent"}
  <2>1. Idle \in Write /\ Idle.write = "idle"
    BY DEF Idle, Write
  <2>2. TypeOK'
    BY <1>1, <1>2, <1>4, <2>1 DEF TypeOK
  <2>3. \A p \in Request : task'[p] = IF p = q THEN Idle ELSE task[p]
    BY <1>1, <1>4 DEF TypeOK
  <2>4. AbsentInv'
    BY <1>1, <1>2, <1>4, <2>1, <2>3 DEF AbsentInv, Policy
  <2>5. PlansOK'
    BY <1>1, <1>2, <1>4, <2>1, <2>3 DEF PlansOK, PlanOK, Upserts, AbsentInv
  <2>6. (MembersInv /\ AdminComesFromTheIdP /\ OneFounder)'
    BY <1>1, <1>2, <1>4 DEF MembersInv, AdminComesFromTheIdP, OneFounder, AbsentInv
  <2> QED
    BY <2>2, <2>4, <2>5, <2>6 DEF Inv
<1>5. CASE /\ domain = "absent" /\ domain' \in Policy /\ a # NoOne
           /\ task' = [task EXCEPT ![q] = PlanUpsert(a, "business_admin", "local")]
  <2> DEFINE t == PlanUpsert(a, "business_admin", "local")
  <2>1. /\ t \in Write /\ t.write = "upsert" /\ t.account \in Account
        /\ t.role = "business_admin" /\ t.via = "local" /\ t.code = NoCode
    BY <1>3, <1>5 DEF PlanUpsert, Plan, Idle, Write, Role, Via
  <2> HIDE DEF t
  <2>2. TypeOK'
    BY <1>1, <1>2, <1>5, <2>1 DEF TypeOK, t
  <2>3. \A p \in Request : task'[p] = IF p = q THEN t ELSE task[p]
    BY <1>1, <1>5 DEF TypeOK, t
  <2>4. /\ \A p \in Request : task[p].write # "upsert"
        /\ \A b \in Account : via[b] = "none"
    BY <1>1, <1>5 DEF AbsentInv
  <2>5. AbsentInv'
    BY <1>5 DEF AbsentInv, Policy
  <2>6. ASSUME NEW p \in Request PROVE PlanOK(p)'
    <3>1. CASE p = q
      <4>1. \A r \in Request : Upserts(r, "local")' => r = q
        BY <2>3, <2>4 DEF Upserts
      <4> QED
        BY <1>2, <2>1, <2>3, <2>4, <3>1, <4>1 DEF PlanOK, Upserts, Role, Via
    <3>2. CASE p # q
      BY <1>1, <2>3, <2>4, <3>2 DEF PlansOK, PlanOK, Upserts
    <3> QED
      BY <3>1, <3>2
  <2>7. (MembersInv /\ AdminComesFromTheIdP /\ OneFounder)'
    BY <1>1, <1>2, <2>4 DEF MembersInv, AdminComesFromTheIdP, OneFounder
  <2> QED
    BY <2>2, <2>5, <2>6, <2>7 DEF Inv, PlansOK
<1> QED
  BY <1>1, <1>4, <1>5 DEF InsertDomain, NameFree, Done, TypeOK

LEMMA UpsertMembershipInv ==
  ASSUME Inv, NEW q \in Request, UpsertMembership(q)
  PROVE  Inv'
<1> USE MembershipsAssumption
<1>1. TypeOK /\ AbsentInv /\ PlansOK /\ MembersInv /\ AdminComesFromTheIdP /\ OneFounder
  BY DEF Inv
<1> DEFINE t == task[q]
<1>2. /\ t \in Write /\ t.write = "upsert" /\ PlanOK(q)
      /\ t.account \in Account /\ t.role \in Role /\ t.via \in Via /\ domain # "absent"
  BY <1>1 DEF TypeOK, UpsertMembership, PlansOK, PlanOK, AbsentInv
<1>3. /\ role' = [role EXCEPT ![t.account] = t.role]
      /\ via' = [via EXCEPT ![t.account] = t.via]
      /\ task' = [task EXCEPT ![q] = Idle]
      /\ admitted' = IF t.code = NoCode THEN admitted
                     ELSE [admitted EXCEPT ![t.code] = @ \cup {t.account}]
      /\ UNCHANGED <<domain, issued, expired, redeemer, claims, asked>>
  BY DEF UpsertMembership, Done, codes
<1>4. Idle \in Write /\ Idle.write = "idle"
  BY DEF Idle, Write
<1>5. t.code \in Code \cup {NoCode}
  BY <1>2 DEF Write
<1>6. admitted' \in [Code -> SUBSET Account]
  BY <1>1, <1>2, <1>3, <1>5 DEF TypeOK
<1>7. TypeOK'
  BY <1>1, <1>2, <1>3, <1>4, <1>6 DEF TypeOK
<1>8. \A p \in Request : task'[p] = IF p = q THEN Idle ELSE task[p]
  BY <1>1, <1>3 DEF TypeOK
<1>9. \A a \in Account : /\ role'[a] = IF a = t.account THEN t.role ELSE role[a]
                         /\ via'[a] = IF a = t.account THEN t.via ELSE via[a]
  BY <1>1, <1>3 DEF TypeOK
<1>10. AbsentInv'
  BY <1>2, <1>3 DEF AbsentInv
<1>11. AdminComesFromTheIdP'
  BY <1>1, <1>2, <1>9 DEF AdminComesFromTheIdP, PlanOK
<1>12. OneFounder'
  BY <1>1, <1>2, <1>9 DEF OneFounder, PlanOK, Upserts
<1>13. MembersInv'
  <2>1. ASSUME NEW a \in Account, via'[a] = "self-idp" PROVE domain' = "open-via-idp"
    BY <1>1, <1>2, <1>3, <1>9, <2>1 DEF MembersInv, PlanOK
  <2>2. ASSUME NEW c \in Code, NEW a \in admitted'[c] PROVE a = redeemer'[c]
    <3>1. CASE a \in admitted[c]
      BY <1>1, <1>3, <3>1 DEF MembersInv
    <3>2. CASE t.code = c /\ a = t.account
      BY <1>2, <1>3, <3>2 DEF PlanOK
    <3> QED
      BY <1>1, <1>3, <1>5, <2>2, <3>1, <3>2 DEF TypeOK
  <2> QED
    BY <2>1, <2>2 DEF MembersInv
<1>14. ASSUME NEW p \in Request PROVE PlanOK(p)'
  <2>1. \A r \in Request : Upserts(r, "local")' => Upserts(r, "local") /\ r # q
    BY <1>4, <1>8 DEF Upserts
  <2>2. CASE p = q
    BY <1>4, <1>8, <2>2 DEF PlanOK, Upserts
  <2>3. CASE p # q
    <3>1. PlanOK(p) /\ task'[p] = task[p]
      BY <1>1, <1>8, <2>3 DEF PlansOK
    <3>2. Upserts(p, "local") => t.via # "local"
      BY <1>2, <2>3, <3>1 DEF PlanOK, Upserts
    <3> QED
      BY <1>3, <1>9, <2>1, <3>1, <3>2 DEF PlanOK, Upserts
  <2> QED
    BY <2>2, <2>3
<1> QED
  BY <1>7, <1>10, <1>11, <1>12, <1>13, <1>14 DEF Inv, PlansOK

(* A delete, a lost write, a new token and an expiry only take away. *)
LEMMA OtherInv ==
  ASSUME Inv,
         \/ \E q \in Request : DeleteMembership(q) \/ Lost(q)
         \/ \E a \in Account : MintClaims(a)
         \/ \E c \in Code : Expire(c)
         \/ UNCHANGED vars
  PROVE  Inv'
<1> USE MembershipsAssumption
<1>1. TypeOK /\ AbsentInv /\ PlansOK /\ MembersInv /\ AdminComesFromTheIdP /\ OneFounder
  BY DEF Inv
<1>2. Idle \in Write /\ Idle.write = "idle"
  BY DEF Idle, Write
<1>3. ASSUME NEW q \in Request, DeleteMembership(q) PROVE Inv'
  <2>1. /\ task[q] \in Write /\ task[q].account \in Account
        /\ role' = [role EXCEPT ![task[q].account] = "none"]
        /\ via' = [via EXCEPT ![task[q].account] = "none"]
        /\ task' = [task EXCEPT ![q] = Idle]
        /\ UNCHANGED <<domain, issued, expired, redeemer, claims, admitted, asked>>
    BY <1>1, <1>3 DEF DeleteMembership, Done, codes, TypeOK, PlansOK, PlanOK
  <2>2. TypeOK'
    BY <1>1, <1>2, <2>1 DEF TypeOK
  <2>3. \A a \in Account : /\ role'[a] \in {role[a], "none"}
                           /\ via'[a] \in {via[a], "none"}
                           /\ via'[a] = via[a] \/ role'[a] = "none"
    BY <1>1, <2>1 DEF TypeOK
  <2>4. \A p \in Request : task'[p] = IF p = q THEN Idle ELSE task[p]
    BY <1>1, <2>1 DEF TypeOK
  <2>5. AbsentInv'
    BY <1>1, <1>2, <2>1, <2>3, <2>4 DEF AbsentInv
  <2>6. PlansOK'
    BY <1>1, <1>2, <2>1, <2>3, <2>4 DEF PlansOK, PlanOK, Upserts
  <2>7. (MembersInv /\ AdminComesFromTheIdP /\ OneFounder)'
    BY <1>1, <2>1, <2>3 DEF MembersInv, AdminComesFromTheIdP, OneFounder
  <2> QED
    BY <2>2, <2>5, <2>6, <2>7 DEF Inv
<1>4. ASSUME NEW q \in Request, Lost(q) PROVE Inv'
  <2>1. /\ task' = [task EXCEPT ![q] = Idle]
        /\ UNCHANGED <<domain, role, via, issued, expired, redeemer, claims, admitted, asked>>
    BY <1>4 DEF Lost, Done, codes, members
  <2>2. TypeOK'
    BY <1>1, <1>2, <2>1 DEF TypeOK
  <2>3. \A p \in Request : task'[p] = IF p = q THEN Idle ELSE task[p]
    BY <1>1, <2>1 DEF TypeOK
  <2>4. AbsentInv' /\ PlansOK'
    BY <1>1, <1>2, <2>1, <2>3 DEF AbsentInv, PlansOK, PlanOK, Upserts
  <2>5. (MembersInv /\ AdminComesFromTheIdP /\ OneFounder)'
    BY <1>1, <2>1 DEF MembersInv, AdminComesFromTheIdP, OneFounder
  <2> QED
    BY <2>2, <2>4, <2>5 DEF Inv
<1>5. ASSUME NEW a \in Account, MintClaims(a) PROVE Inv'
  <2>1. /\ claims' = [claims EXCEPT ![a] = role[a]]
        /\ UNCHANGED <<domain, role, via, issued, expired, redeemer, task, admitted, asked>>
    BY <1>5 DEF MintClaims, codes, members
  <2>2. TypeOK' /\ AbsentInv'
    BY <1>1, <2>1 DEF TypeOK, AbsentInv
  <2>3. PlansOK'
    BY <1>1, <2>1 DEF PlansOK, PlanOK, Upserts
  <2>4. (MembersInv /\ AdminComesFromTheIdP /\ OneFounder)'
    BY <1>1, <2>1 DEF MembersInv, AdminComesFromTheIdP, OneFounder
  <2> QED
    BY <2>2, <2>3, <2>4 DEF Inv
<1>6. ASSUME NEW c \in Code, Expire(c) PROVE Inv'
  BY <1>1, <1>6 DEF Inv, Expire, members, TypeOK, AbsentInv, PlansOK, PlanOK, Upserts,
     MembersInv, AdminComesFromTheIdP, OneFounder
<1>7. CASE UNCHANGED vars
  BY <1>1, <1>7 DEF Inv, vars, codes, members, TypeOK, AbsentInv, PlansOK, PlanOK, Upserts,
     MembersInv, AdminComesFromTheIdP, OneFounder
<1> QED
  BY <1>3, <1>4, <1>5, <1>6, <1>7

LEMMA InvAlways == Spec => []Inv
<1>1. Inv /\ [Next]_vars => Inv'
  BY DecideStepInv, InsertDomainInv, UpsertMembershipInv, OtherInv DEF Next, WriteStep
<1> QED
  BY InitInv, <1>1, PTL DEF Spec

-----------------------------------------------------------------------------
(* Every variable keeps its type. *)
THEOREM TypeCorrect == Spec => []TypeOK
<1>1. Inv => TypeOK
  BY DEF Inv
<1> QED
  BY InvAlways, <1>1, PTL

(* Whatever requests overlap and whatever codes an older release left, the *)
(* role admin is only held by members the identity provider sent: the      *)
(* ceiling checked before storing (tenancy.go, checkGrantable) and again   *)
(* when a code is redeemed is enough.                                      *)
THEOREM AdminOnlyFromTheIdP == Spec => []AdminComesFromTheIdP
<1>1. Inv => AdminComesFromTheIdP
  BY DEF Inv
<1> QED
  BY InvAlways, <1>1, PTL

(* The policy may be checked before the write, because it never changes    *)
(* once the domain exists: an invite-only domain has no self-joined        *)
(* member.                                                                 *)
THEOREM InviteOnlyKept == Spec => []InviteOnlyIsInviteOnly
<1>1. Inv => InviteOnlyIsInviteOnly
  BY DEF Inv, MembersInv, InviteOnlyIsInviteOnly
<1> QED
  BY InvAlways, <1>1, PTL

(* However many requests race for it, an invite code admits one account:   *)
(* the one its single UPDATE recorded.                                     *)
THEOREM OneAccountPerCode == Spec => []CodeAdmitsOne
<1>1. Inv => CodeAdmitsOne
  BY DEF Inv, MembersInv, CodeAdmitsOne
<1> QED
  BY InvAlways, <1>1, PTL

(* The unique name makes one founder of two users who create a domain of   *)
(* one name at once, although each has seen the name free.                 *)
THEOREM OneFounderOnly == Spec => []OneFounder
<1>1. Inv => OneFounder
  BY DEF Inv
<1> QED
  BY InvAlways, <1>1, PTL
-----------------------------------------------------------------------------
(* Between its check and its write.  Until a request is overtaken, what it *)
(* looked at holds: the rank of the account that it is about, and that the *)
(* domain has another manager.  Joins and codes look at neither.           *)
StillJustified(t) ==
  /\ t.write = "delete" => ~IsLastManager(t.account)
  /\ t.write = "upsert" /\ t.by # "none" => ~DemotesLastManager(t.account, t.role)
  /\ t.write \in {"upsert", "delete"} /\ t.by # "none" => ~Outranks(role[t.account], t.by)

ChecksInv == \A q \in Request : q \in overtaken \/ StillJustified(task[q])

(* The weights, once and for all. *)
LEMMA Weights ==
  /\ \A r \in Role \cup {"none"} : Weight[r] \in Nat
  /\ Weight["business_admin"] = 80 /\ Weight["none"] = 0
BY DEF Weight, Role

(* Whoever decides for somebody else does so as a manager. *)
LEMMA DecidesJustified ==
  ASSUME Inv, NEW q \in Request, DecideStep(q)
  PROVE  /\ UNCHANGED members
         /\ \E t \in Write : task' = [task EXCEPT ![q] = t] /\ StillJustified(t)
<1>1. TypeOK
  BY DEF Inv
<1>2. Idle \in Write /\ StillJustified(Idle)
  BY DEF Idle, Write, StillJustified
<1>3. UNCHANGED members
  BY DEF DecideStep, Create, SelfJoin, FirstLogin, Leave, Remove, Invite, RedeemInviteCode,
         CreateInviteCode, Decide
<1>4. ASSUME NEW t \in Write, t.write = "upsert", t.by = "none"
      PROVE  StillJustified(t)
  BY <1>4 DEF StillJustified
<1>5. ASSUME NEW a \in Account \cup {NoOne}, Create(q, a)
      PROVE  \E t \in Write : task' = [task EXCEPT ![q] = t] /\ StillJustified(t)
  <2>1. Plan("create", a) \in Write /\ StillJustified(Plan("create", a))
    BY DEF Plan, Idle, Write, StillJustified
  <2> QED
    BY <1>5, <2>1 DEF Create, Decide
<1>6. ASSUME NEW a \in Account, NEW r \in Role, NEW v \in Via, Decide(q, PlanUpsert(a, r, v))
      PROVE  \E t \in Write : task' = [task EXCEPT ![q] = t] /\ StillJustified(t)
  <2> DEFINE t == PlanUpsert(a, r, v)
  <2>1. t \in Write /\ t.write = "upsert" /\ t.by = "none" /\ t.account \in Account
    BY DEF PlanUpsert, Plan, Idle, Write
  <2>2. task' = [task EXCEPT ![q] = t]
    BY <1>6 DEF Decide
  <2> HIDE DEF t
  <2> QED
    BY <1>4, <2>1, <2>2
<1>7. ASSUME NEW a \in Account, Leave(q, a)
      PROVE  \E t \in Write : task' = [task EXCEPT ![q] = t] /\ StillJustified(t)
  <2>1. Plan("delete", a) \in Write /\ StillJustified(Plan("delete", a))
    BY <1>7 DEF Leave, Plan, Idle, Write, StillJustified
  <2> QED
    BY <1>7, <2>1 DEF Leave, Decide
<1>8. ASSUME NEW actor \in Account, NEW a \in Account, Remove(q, actor, a)
      PROVE  \E t \in Write : task' = [task EXCEPT ![q] = t] /\ StillJustified(t)
  <2> DEFINE t == [Plan("delete", a) EXCEPT !.by = claims[actor]]
  <2>1. t \in Write /\ t.write = "delete" /\ t.account = a /\ t.by = claims[actor]
    BY <1>1 DEF TypeOK, Plan, Idle, Write
  <2>2. task' = [task EXCEPT ![q] = t]
    BY <1>8 DEF Remove, Decide
  <2> HIDE DEF t
  <2>3. StillJustified(t)
    BY <1>8, <2>1 DEF Remove, Removable, StillJustified
  <2> QED
    BY <2>1, <2>2, <2>3
<1>9. ASSUME NEW actor \in Account, NEW a \in Account, NEW r \in InvitedRole,
             Invite(q, actor, a, r)
      PROVE  \E t \in Write : task' = [task EXCEPT ![q] = t] /\ StillJustified(t)
  <2> DEFINE t == [PlanUpsert(a, r, "invite") EXCEPT !.by = claims[actor]]
  <2>1. r \in Role
    BY MembershipsAssumption
  <2>2. /\ t \in Write /\ t.write = "upsert" /\ t.account = a /\ t.role = r
        /\ t.by = claims[actor]
    BY <1>1, <2>1 DEF TypeOK, PlanUpsert, Plan, Idle, Write, Via
  <2>3. task' = [task EXCEPT ![q] = t]
    BY <1>9 DEF Invite, Decide
  <2> HIDE DEF t
  <2>4. claims[actor] # "none" /\ ~Outranks(role[a], claims[actor]) /\ ~DemotesLastManager(a, r)
    BY <1>9, ManagerHasARole DEF Invite
  <2>5. StillJustified(t)
    BY <2>2, <2>4 DEF StillJustified
  <2> QED
    BY <2>2, <2>3, <2>5
<1>10. ASSUME NEW a \in Account, NEW c \in Code, RedeemInviteCode(q, a, c)
       PROVE  \E t \in Write : task' = [task EXCEPT ![q] = t] /\ StillJustified(t)
  <2>1. issued[c] \in Role
    BY <1>1, <1>10 DEF RedeemInviteCode, Redeemable, TypeOK
  <2> DEFINE t == [PlanUpsert(a, issued[c], "invite") EXCEPT !.code = c]
  <2>2. t \in Write /\ t.write = "upsert" /\ t.by = "none" /\ t.account \in Account
    BY <2>1 DEF PlanUpsert, Plan, Idle, Write, Via
  <2>3. task' = [task EXCEPT ![q] = t] \/ task' = [task EXCEPT ![q] = Idle]
    BY <1>10 DEF RedeemInviteCode, Decide
  <2> HIDE DEF t
  <2> QED
    BY <1>2, <1>4, <2>2, <2>3
<1>11. ASSUME NEW actor \in Account, NEW c \in Code, NEW r \in InvitedRole,
              CreateInviteCode(q, actor, c, r)
       PROVE  \E t \in Write : task' = [task EXCEPT ![q] = t] /\ StillJustified(t)
  BY <1>2, <1>11 DEF CreateInviteCode, Decide
<1>12. ASSUME NEW a \in Account, SelfJoin(q, a)
       PROVE  \E t \in Write : task' = [task EXCEPT ![q] = t] /\ StillJustified(t)
  <2>1. "standard_customer" \in Role /\ "self-idp" \in Via
    BY DEF Role, Via
  <2> QED
    BY <1>6, <1>12, <2>1 DEF SelfJoin
<1>13. ASSUME NEW a \in Account, FirstLogin(q, a)
       PROVE  \E t \in Write : task' = [task EXCEPT ![q] = t] /\ StillJustified(t)
  <2>1. IdPRole \subseteq Role /\ "self-idp" \in Via
    BY MembershipsAssumption DEF Via
  <2> QED
    BY <1>6, <1>13, <2>1 DEF FirstLogin
<1> QED
  BY <1>3, <1>5, <1>7, <1>8, <1>9, <1>10, <1>11, <1>12, <1>13 DEF DecideStep

(* What becomes of a request's plan in a step. *)
LEMMA TaskSteps ==
  ASSUME Inv, Next, NEW q \in Request
  PROVE  \/ task'[q] = task[q] \/ task'[q] = Idle
         \/ DecideStep(q)
         \/ task'[q].write = "upsert" /\ task'[q].by = "none"
<1>1. TypeOK
  BY DEF Inv
<1>2. ASSUME NEW p \in Request, DecideStep(p), p # q
      PROVE  task'[q] = task[q]
  <2>1. \E t \in Write : task' = [task EXCEPT ![p] = t]
    BY <1>2, DecidesJustified
  <2> QED
    BY <1>1, <1>2, <2>1 DEF TypeOK
<1>3. ASSUME NEW p \in Request, task' = [task EXCEPT ![p] = Idle]
      PROVE  task'[q] = task[q] \/ task'[q] = Idle
  BY <1>1, <1>3 DEF TypeOK
<1>4. ASSUME NEW p \in Request, InsertDomain(p)
      PROVE  \/ task'[q] = task[q] \/ task'[q] = Idle
             \/ task'[q].write = "upsert" /\ task'[q].by = "none"
  <2> DEFINE t == PlanUpsert(task[p].account, "business_admin", "local")
  <2>1. t.write = "upsert" /\ t.by = "none"
    BY DEF PlanUpsert, Plan, Idle
  <2>2. task' = [task EXCEPT ![p] = Idle] \/ task' = [task EXCEPT ![p] = t]
    BY <1>4 DEF InsertDomain, Done
  <2> HIDE DEF t
  <2> QED
    BY <1>1, <1>3, <2>1, <2>2 DEF TypeOK
<1>5. ASSUME NEW p \in Request, UpsertMembership(p) \/ DeleteMembership(p) \/ Lost(p)
      PROVE  task'[q] = task[q] \/ task'[q] = Idle
  BY <1>3, <1>5 DEF UpsertMembership, DeleteMembership, Lost, Done
<1>6. CASE (\E a \in Account : MintClaims(a)) \/ \E c \in Code : Expire(c)
  BY <1>6 DEF MintClaims, Expire
<1> QED
  BY <1>2, <1>4, <1>5, <1>6 DEF Next, WriteStep

(* As long as its row and the managers that it counted stay, a request may *)
(* rely on its check.                                                      *)
LEMMA StaysJustified ==
  ASSUME Inv, NEW q \in Request, StillJustified(task[q]), task'[q] = task[q], ~Overtakes(q)
  PROVE  StillJustified(task[q])'
<1>1. CASE ~Planned(q)
  BY <1>1 DEF Planned, StillJustified
<1>2. CASE Planned(q)
  <2> DEFINE a == task[q].account
  <2>1. a \in Account /\ role'[a] = role[a] /\ Managers \subseteq Managers'
    BY <1>2 DEF Inv, PlansOK, PlanOK, Planned, Overtakes
  <2>2. Managers' = {a} => Managers = {a}
    <3>1. a \in Managers' => a \in Managers
      BY <2>1 DEF Managers
    <3> QED
      BY <2>1, <3>1
  <2>3. IsLastManager(task[q].account)' => IsLastManager(task[q].account)
    BY <2>2 DEF IsLastManager
  <2> QED
    BY <2>1, <2>3 DEF StillJustified, DemotesLastManager
<1> QED
  BY <1>1, <1>2

LEMMA ChecksInvStep ==
  ASSUME Inv, ChecksInv, [MCNext]_allVars
  PROVE  ChecksInv'
<1>1. CASE UNCHANGED <<vars, overtaken>>
  <2>1. UNCHANGED <<task, role, overtaken>>
    BY <1>1 DEF vars, members
  <2> QED
    BY <2>1 DEF ChecksInv, StillJustified, IsLastManager, DemotesLastManager, Managers
<1>2. CASE /\ Next
           /\ overtaken' = {q \in Request :
                              Waits(q) /\ Waits(q)' /\ (q \in overtaken \/ Overtakes(q))}
  <2> SUFFICES ASSUME NEW q \in Request, q \notin overtaken'
               PROVE  StillJustified(task[q])'
    BY DEF ChecksInv
  <2>1. CASE task'[q] = Idle
    BY <2>1 DEF StillJustified, Idle
  <2>2. CASE task'[q].write = "upsert" /\ task'[q].by = "none"
    BY <2>2 DEF StillJustified
  <2>3. CASE DecideStep(q)
    <3>1. PICK t \in Write : task' = [task EXCEPT ![q] = t] /\ StillJustified(t)
      BY <2>3, DecidesJustified
    <3>2. task'[q] = t /\ UNCHANGED role
      BY <2>3, <3>1, DecidesJustified DEF Inv, TypeOK, members
    <3> QED
      BY <3>1, <3>2 DEF StillJustified, IsLastManager, DemotesLastManager, Managers
  <2>4. CASE task'[q] = task[q] /\ task[q] # Idle
    <3>1. q \notin overtaken /\ ~Overtakes(q)
      BY <1>2, <2>4 DEF Waits
    <3> QED
      BY <2>4, <3>1, StaysJustified DEF ChecksInv
  <2> QED
    BY <1>2, <2>1, <2>2, <2>3, <2>4, TaskSteps
<1> QED
  BY <1>1, <1>2 DEF MCNext, allVars

LEMMA ChecksAlways == MCSpec => [](Inv /\ ChecksInv)
<1>1. MCInit => Inv /\ ChecksInv
  BY InitInv DEF MCInit, Init, ChecksInv, StillJustified, Idle
<1>2. Inv /\ [MCNext]_allVars => Inv'
  <2>1. [MCNext]_allVars => [Next]_vars
    BY DEF MCNext, allVars
  <2> QED
    BY <2>1, DecideStepInv, InsertDomainInv, UpsertMembershipInv, OtherInv DEF Next, WriteStep
<1> QED
  BY <1>1, <1>2, ChecksInvStep, PTL DEF MCSpec

(* However requests overlap, what a manager does to somebody else respects *)
(* the rank that is held when it is done, although the manager's own is    *)
(* the one of a token minted earlier; unless the member's row changed, or  *)
(* a manager went, since it was compared (tenancy.go, outranks).           *)
THEOREM RankIsRespected == MCSpec => RankRespected
<1>1. ASSUME Inv, ChecksInv
      PROVE  \A q \in Request : Applies(q) /\ task[q].by # "none" =>
               q \in overtaken \/ ~Outranks(role[task[q].account], task[q].by)
  BY <1>1 DEF ChecksInv, Applies, Planned, StillJustified
<1> QED
  BY <1>1, ChecksAlways, PTL DEF RankRespected

(* Memberships change by one request's write. *)
LEMMA OneApplies ==
  ASSUME Inv, [MCNext]_allVars, role' # role
  PROVE  \E q \in Request : Applies(q) /\ (UpsertMembership(q) \/ DeleteMembership(q))
<1>1. Next
  BY DEF MCNext, allVars, vars, members
<1>2. ~\E q \in Request : DecideStep(q)
  BY DecidesJustified DEF members
<1>3. PICK q \in Request : UpsertMembership(q) \/ DeleteMembership(q)
  BY <1>1, <1>2 DEF Next, WriteStep, InsertDomain, Lost, MintClaims, Expire, members
<1>4. task'[q] = Idle /\ Planned(q)
  BY <1>3 DEF UpsertMembership, DeleteMembership, Done, Planned, Inv, TypeOK
<1> QED
  BY <1>3, <1>4 DEF Applies, Waits, members

(* A write that was checked and not overtaken leaves a manager. *)
LEMMA WriteKeepsAManager ==
  ASSUME Inv, ChecksInv, NEW q \in Request, UpsertMembership(q) \/ DeleteMembership(q),
         ~LowersItself(task[q]), q \notin overtaken, Managers # {}
  PROVE  Managers' # {}
<1>1. TypeOK /\ PlansOK
  BY DEF Inv
<1> DEFINE t == task[q]
<1>2. t \in Write /\ t.account \in Account /\ StillJustified(t)
  BY <1>1 DEF TypeOK, PlansOK, PlanOK, UpsertMembership, DeleteMembership, ChecksInv
<1>3. SUFFICES ASSUME Managers' = {} PROVE FALSE
  OBVIOUS
<1>4. \A a \in Account : a # t.account => role'[a] = role[a]
  BY <1>1, <1>2 DEF TypeOK, UpsertMembership, DeleteMembership
<1>5. Managers \subseteq {t.account}
  BY <1>3, <1>4 DEF Managers
<1>6. IsLastManager(t.account)
  BY <1>5 DEF IsLastManager
<1>7. Weight[role[t.account]] >= Weight["business_admin"]
  BY <1>6 DEF IsLastManager, Managers
<1>8. t.write = "upsert" /\ role'[t.account] = t.role
  BY <1>1, <1>2, <1>6 DEF TypeOK, UpsertMembership, DeleteMembership, StillJustified
<1>9. ~(Weight[t.role] >= Weight["business_admin"])
  BY <1>2, <1>3, <1>8 DEF Managers
<1>10. Weight[t.role] \in Nat /\ Weight[role[t.account]] \in Nat /\ Weight["business_admin"] = 80
  BY <1>1, <1>2, Weights DEF Write, TypeOK
<1>11. t.by = "none"
  BY <1>2, <1>6, <1>8, <1>9, <1>10 DEF StillJustified, DemotesLastManager
<1> QED
  BY <1>7, <1>8, <1>9, <1>10, <1>11 DEF LowersItself

(* "Guards against a domain being left with no administrator at all": for  *)
(* any overlap of requests, a leave, a removal or an invitation takes the  *)
(* last manager only if the row or a manager it looked at went before it   *)
(* wrote (tenancy.go, isLastManager). What is left is a manager's own join *)
(* or code, which nothing guards.                                          *)
THEOREM LastManagerIsGuarded == MCSpec => LastManagerGuarded
<1>1. ASSUME Inv, ChecksInv, [MCNext]_allVars, Managers # {}, Managers' = {}
      PROVE  \E q \in Request : Applies(q) /\ (LowersItself(task[q]) \/ q \in overtaken)
  <2>1. role' # role
    BY <1>1 DEF Managers
  <2>2. PICK q \in Request : Applies(q) /\ (UpsertMembership(q) \/ DeleteMembership(q))
    BY <1>1, <2>1, OneApplies
  <2> QED
    BY <1>1, <2>2, WriteKeepsAManager
<1>2. Inv /\ ChecksInv /\ [MCNext]_allVars =>
        [Managers # {} /\ Managers' = {} =>
           \E q \in Request : Applies(q) /\ (LowersItself(task[q]) \/ q \in overtaken)]_<<vars, overtaken>>
  BY <1>1
<1> QED
  BY <1>2, ChecksAlways, PTL DEF MCSpec, LastManagerGuarded

-----------------------------------------------------------------------------
(* The session of a page.  What its variables hold: a token of nobody is   *)
(* not accepted, and an answer that is not "ok" sets no cookie.            *)
Token ==
  {t \in [account : User \cup {NoOne}, seen : Nat, age : Nat] :
     t.account = NoOne => t.age >= TTL}
AnswerOf ==
  {x \in [status : {"none", "ok", "refused", "unavailable"}, token : Token, seen : Nat] :
     x.status # "ok" => x.token = Page!NoToken}
LoginCall == {"login", "register", "exchange"}
AccountCall == {"logout", "me", "refresh", "fetch", "change", "profile"}
Follow == {"nothing", "hydrate", "refresh", "fetch"}
RequestOf ==
  [call : LoginCall \cup AccountCall \cup {"none"}, token : Token, who : User \cup {NoOne},
   then : Follow, answer : AnswerOf]

SessionType ==
  /\ users \subseteq User
  /\ held \in [User -> Nat]
  /\ cookie \in Token
  /\ account \in User \cup {NoOne}
  /\ isHydrated \in BOOLEAN /\ hydrating \in BOOLEAN /\ fetching \in BOOLEAN
  /\ mixed \in BOOLEAN
  /\ memberships \in [account : User \cup {NoOne}, seen : Nat]
  /\ call \in [Page!Runner -> RequestOf]

(* How "who am I" was answered says whether its token was accepted, and    *)
(* one that was refused is of no more use now.                             *)
MeAnswered(q) ==
  q.call = "me" /\ q.answer # Page!NoAnswer =>
    IF q.answer.status = "ok" THEN q.token.account # NoOne ELSE ~Page!Accepted(q.token)

WellAsked(q) ==
  /\ q.call \in LoginCall => q.who \in User
  /\ q.call = "change" => q.then \in {Page!SubscribeToDomain, Page!UnsubscribeFromDomain}

(* The page asks who it is at most once at a time, and only after that it  *)
(* knows itself as a visitor.                                              *)
HydrationInv ==
  /\ account # NoOne => isHydrated
  /\ \A r \in Page!Runner : MeAnswered(call[r]) /\ WellAsked(call[r])
  /\ ~mixed =>
       /\ \A r \in Page!Runner : call[r].call = "me" => hydrating
       /\ \A q, r \in Page!Runner : call[q].call = "me" /\ call[r].call = "me" => q = r
       /\ hydrating => \E r \in Page!Runner : call[r].call = "me"

(* A page that is logged in: its cookie, its memberships and all it asked  *)
(* for are of its account.                                                 *)
OfTheAccount(q) ==
  q.call # "none" =>
    /\ q.call \in AccountCall /\ q.token.account = account
    /\ q.call \in {"refresh", "profile"} /\ q.answer.token # Page!NoToken =>
         q.answer.token.account = account

LoggedInInv ==
  ~mixed /\ account # NoOne =>
    /\ cookie.account = account
    /\ memberships # Page!NotFetched => memberships.account = account
    /\ \A r \in Page!Runner : OfTheAccount(call[r])

(* A visitor's page fetched nothing and asks only who it is or to log in;  *)
(* when its cookie would be accepted, it is about to learn whose it is.    *)
OfNobody(q) ==
  /\ q.call \in LoginCall \cup {"me", "none"}
  /\ q.call \in LoginCall => isHydrated /\ q.then = "hydrate"
  /\ q.call = "me" => q.token = cookie
  /\ q.call = "me" /\ isHydrated /\ q.answer.status = "ok" => q.then = "hydrate"

VisitorInv ==
  ~mixed /\ account = NoOne =>
    /\ memberships = Page!NotFetched /\ ~fetching
    /\ \A r \in Page!Runner : OfNobody(call[r])
    /\ \A q, r \in Page!Runner : call[q].then = "hydrate" /\ call[r].then = "hydrate" => q = r
    /\ ~isHydrated => hydrating
    /\ isHydrated /\ Page!Accepted(cookie) =>
         \E r \in Page!Runner : call[r].call = "me" /\ call[r].then = "hydrate"

PageInv == SessionType /\ HydrationInv /\ LoggedInInv /\ VisitorInv

(* Records of a request, and what ageing leaves alone. *)
LEMMA Requests ==
  ASSUME Page!SessionAssumption
  PROVE  /\ Page!NoToken \in Token /\ Page!NoAnswer \in AnswerOf /\ Page!Idle \in RequestOf
         /\ ~Page!Accepted(Page!NoToken)
         /\ Page!Idle.call = "none" /\ Page!Idle.then = "nothing"
         /\ Page!Idle.answer = Page!NoAnswer
         /\ Page!NoAnswer.token = Page!NoToken /\ Page!NoAnswer.status = "none"
BY DEF Page!SessionAssumption, Page!NoToken, Page!NoAnswer, Page!Idle, Token, AnswerOf, RequestOf,
   Follow, Page!Accepted

LEMMA Words ==
  /\ "nothing" \in Follow /\ "hydrate" \in Follow /\ "refresh" \in Follow /\ "fetch" \in Follow
  /\ "me" \in AccountCall /\ "refresh" \in AccountCall /\ "fetch" \in AccountCall
BY DEF AccountCall, Follow

LEMMA SentRequest ==
  ASSUME Page!SessionAssumption, NEW c \in LoginCall \cup AccountCall, NEW t \in Token,
         NEW a \in User \cup {NoOne}, NEW n \in Follow
  PROVE  /\ Page!Sent(c, t, a, n) \in RequestOf
         /\ Page!Sent(c, t, a, n).call = c /\ Page!Sent(c, t, a, n).token = t
         /\ Page!Sent(c, t, a, n).who = a /\ Page!Sent(c, t, a, n).then = n
         /\ Page!Sent(c, t, a, n).answer = Page!NoAnswer
BY Requests DEF Page!Sent, RequestOf

LEMMA OlderToken ==
  ASSUME Page!SessionAssumption, NEW t \in Token
  PROVE  /\ Page!Older(t) \in Token /\ Page!Older(t).account = t.account
         /\ Page!Accepted(Page!Older(t)) => Page!Accepted(t)
         /\ t = Page!NoToken => Page!Older(t) = Page!NoToken
BY DEF Page!SessionAssumption, Page!Older, Token, Page!Accepted, Page!NoToken

LEMMA OlderRequest ==
  ASSUME Page!SessionAssumption, NEW q \in RequestOf
  PROVE  /\ Page!AllOlder(q) \in RequestOf
         /\ Page!AllOlder(q).call = q.call /\ Page!AllOlder(q).who = q.who
         /\ Page!AllOlder(q).then = q.then
         /\ Page!AllOlder(q).token = Page!Older(q.token)
         /\ Page!AllOlder(q).answer.status = q.answer.status
         /\ Page!AllOlder(q).answer.token = Page!Older(q.answer.token)
         /\ q.answer = Page!NoAnswer => Page!AllOlder(q).answer = Page!NoAnswer
<1>1. q.token \in Token /\ q.answer \in AnswerOf /\ q.answer.token \in Token
  BY DEF RequestOf, AnswerOf
<1> DEFINE t == Page!Older(q.token)
           u == Page!Older(q.answer.token)
           x == [q.answer EXCEPT !.token = u]
<1>2. t \in Token /\ u \in Token /\ (q.answer.token = Page!NoToken => u = Page!NoToken)
  BY <1>1, OlderToken
<1>3. Page!AllOlder(q) = [q EXCEPT !.token = t, !.answer.token = u]
  BY DEF Page!AllOlder
<1> HIDE DEF t, u
<1>4. x \in AnswerOf /\ x.status = q.answer.status /\ x.token = u
  BY <1>1, <1>2 DEF AnswerOf
<1>5. q.answer = Page!NoAnswer => x = Page!NoAnswer
  BY <1>2, Requests DEF Page!NoAnswer
<1>6. Page!AllOlder(q) = [q EXCEPT !.token = t, !.answer = x]
  BY <1>3
<1> HIDE DEF x
<1>7. /\ Page!AllOlder(q) \in RequestOf
      /\ Page!AllOlder(q).call = q.call /\ Page!AllOlder(q).who = q.who
      /\ Page!AllOlder(q).then = q.then
      /\ Page!AllOlder(q).token = t /\ Page!AllOlder(q).answer = x
  BY <1>2, <1>4, <1>6 DEF RequestOf
<1> QED
  BY <1>4, <1>5, <1>7 DEF t, u

(* One request is replaced, and keeps its type. *)
LEMMA OneMoves ==
  ASSUME SessionType, NEW r \in Page!Runner, NEW q \in RequestOf, call' = [call EXCEPT ![r] = q]
  PROVE  /\ call' \in [Page!Runner -> RequestOf]
         /\ \A p \in Page!Runner : call'[p] = IF p = r THEN q ELSE call[p]
BY DEF SessionType

LEMMA SessionInit ==
  ASSUME Page!SessionAssumption, Page!Init
  PROVE  PageInv
<1>1. \A r \in Page!Runner : call[r] = Page!Idle
  BY DEF Page!Init
<1>2. /\ users \subseteq User /\ held \in [User -> Nat]
      /\ account \in User \cup {NoOne}
      /\ isHydrated = TRUE /\ hydrating = FALSE /\ fetching = FALSE /\ mixed = FALSE
      /\ memberships = Page!NotFetched /\ call \in [Page!Runner -> RequestOf]
  BY Requests DEF Page!Init, Page!SessionAssumption
<1>3. cookie \in Token /\ (account # NoOne => cookie.account = account)
      /\ (account = NoOne => cookie = Page!NoToken)
  BY <1>2, Requests DEF Page!Init, Page!SessionAssumption, Token
<1>4. Page!NotFetched \in [account : User \cup {NoOne}, seen : Nat]
  BY DEF Page!NotFetched
<1>5. SessionType
  BY <1>2, <1>3, <1>4 DEF SessionType
<1>6. HydrationInv /\ LoggedInInv /\ VisitorInv
  BY <1>1, <1>2, <1>3, Requests DEF HydrationInv, MeAnswered, WellAsked, LoginCall, LoggedInInv,
     OfTheAccount, VisitorInv, OfNobody
<1> QED
  BY <1>5, <1>6 DEF PageInv

(* A service answers: what the page knows is as before. *)
LEMMA AnswerInv ==
  ASSUME Page!SessionAssumption, PageInv, NEW r \in Page!Runner, NEW x \in AnswerOf,
         Page!Answers(r, x),
         users' \subseteq User, held' \in [User -> Nat],
         UNCHANGED <<cookie, Page!storeVars, mixed>>,
         call[r].call = "me" => (x.status = "ok" <=> Page!Accepted(call[r].token)),
         call[r].call \in {"refresh", "profile"} /\ x.token # Page!NoToken =>
           x.token.account = call[r].token.account
  PROVE  PageInv'
<1>1. SessionType /\ HydrationInv /\ LoggedInInv /\ VisitorInv
  BY DEF PageInv
<1> DEFINE q == [call[r] EXCEPT !.answer = x]
<1>2. /\ q \in RequestOf /\ q.call = call[r].call /\ q.token = call[r].token
      /\ q.who = call[r].who /\ q.then = call[r].then /\ q.answer = x
  BY <1>1 DEF SessionType, RequestOf
<1>3. call' = [call EXCEPT ![r] = q]
  BY DEF Page!Answers
<1> HIDE DEF q
<1>4. /\ call' \in [Page!Runner -> RequestOf]
      /\ \A p \in Page!Runner : call'[p] = IF p = r THEN q ELSE call[p]
  BY <1>1, <1>2, <1>3, OneMoves
<1>5. UNCHANGED <<account, isHydrated, hydrating, memberships, fetching, timer>>
  BY DEF Page!storeVars
<1>6. SessionType'
  BY <1>1, <1>4, <1>5 DEF SessionType
<1>7. \A p \in Page!Runner : /\ call'[p].call = call[p].call /\ call'[p].token = call[p].token
                             /\ call'[p].who = call[p].who /\ call'[p].then = call[p].then
                             /\ p # r => call'[p].answer = call[p].answer
  BY <1>2, <1>4
<1>8. call'[r].answer = x /\ call[r].token \in Token
  BY <1>1, <1>2, <1>4 DEF SessionType, RequestOf
<1>9. Page!Accepted(call[r].token) => call[r].token.account # NoOne
  BY <1>8 DEF Token, Page!Accepted, Page!SessionAssumption
<1>10. \A p \in Page!Runner : (MeAnswered(call[p]) /\ WellAsked(call[p]))'
  BY <1>1, <1>7, <1>8, <1>9 DEF HydrationInv, MeAnswered, WellAsked, Page!Accepted
<1>11. HydrationInv'
  BY <1>1, <1>5, <1>7, <1>10 DEF HydrationInv
<1>12. LoggedInInv'
  <2> SUFFICES ASSUME ~mixed, account # NoOne PROVE LoggedInInv'
    BY <1>5 DEF LoggedInInv
  <2>1. \A p \in Page!Runner : OfTheAccount(call[p])'
    BY <1>1, <1>5, <1>7, <1>8 DEF LoggedInInv, OfTheAccount
  <2> QED
    BY <1>1, <1>5, <2>1 DEF LoggedInInv
<1>13. VisitorInv'
  <2> SUFFICES ASSUME ~mixed, account = NoOne PROVE VisitorInv'
    BY <1>5 DEF VisitorInv
  <2>1. ASSUME call[r].call = "me", isHydrated, x.status = "ok"
        PROVE  call[r].then = "hydrate"
    <3>1. Page!Accepted(cookie)
      BY <1>1, <2>1 DEF VisitorInv, OfNobody
    <3>2. PICK p \in Page!Runner : call[p].call = "me" /\ call[p].then = "hydrate"
      BY <1>1, <2>1, <3>1 DEF VisitorInv
    <3> QED
      BY <1>1, <2>1, <3>2 DEF HydrationInv
  <2>2. \A p \in Page!Runner : OfNobody(call[p])'
    BY <1>1, <1>5, <1>7, <1>8, <2>1 DEF VisitorInv, OfNobody
  <2> QED
    BY <1>1, <1>5, <1>7, <2>2 DEF VisitorInv, Page!Accepted
<1> QED
  BY <1>6, <1>11, <1>12, <1>13 DEF PageInv

LEMMA ServeInv ==
  ASSUME Page!SessionAssumption, PageInv, NEW r \in Page!Runner, Page!Serve(r)
  PROVE  PageInv'
<1>1. /\ SessionType /\ call[r] \in RequestOf /\ call[r].token \in Token
      /\ Page!Accepted(call[r].token) => call[r].token.account \in User
  BY DEF PageInv, SessionType, RequestOf, Token, Page!Accepted, Page!SessionAssumption
<1>2. WellAsked(call[r])
  BY DEF PageInv, HydrationInv
<1>3. /\ Page!Unauthenticated \in AnswerOf /\ Page!Unauthenticated.status = "refused"
      /\ Page!Unauthenticated.token = Page!NoToken
      /\ Page!Unavailable \in AnswerOf /\ Page!Unavailable.status = "unavailable"
      /\ Page!Unavailable.token = Page!NoToken
      /\ \A n \in Nat : /\ Page!Answer("ok", Page!NoToken, n) \in AnswerOf
                        /\ Page!Answer("ok", Page!NoToken, n).status = "ok"
                        /\ Page!Answer("ok", Page!NoToken, n).token = Page!NoToken
  BY Requests DEF Page!Unauthenticated, Page!Unavailable, Page!Answer, AnswerOf
<1>4. \A a \in User, n \in Nat : /\ Page!Answer("ok", Page!Sign(a, n), 0) \in AnswerOf
                                 /\ Page!Answer("ok", Page!Sign(a, n), 0).status = "ok"
                                 /\ Page!Answer("ok", Page!Sign(a, n), 0).token.account = a
  BY DEF Page!Answer, Page!Sign, AnswerOf, Token, Page!SessionAssumption
<1>5. ASSUME NEW a \in User, Page!Exchange(r, a)
      PROVE  /\ held' \in [User -> Nat]
             /\ \E x \in AnswerOf : Page!Answers(r, x)
  BY <1>1, <1>3, <1>4, <1>5 DEF Page!Exchange, Page!ProvisionOnFirstLogin, SessionType
<1>6. ASSUME NEW a \in User, NEW known, Page!PasswordGrant(r, a, known)
      PROVE  /\ held' \in [User -> Nat]
             /\ \E x \in AnswerOf : Page!Answers(r, x)
  BY <1>1, <1>3, <1>5, <1>6 DEF Page!PasswordGrant, SessionType
<1>7. ASSUME Page!ServeLogin(r) \/ Page!ServeExchange(r) \/ Page!ServeRegister(r) PROVE PageInv'
  <2>1. call[r].call \in LoginCall /\ call[r].who \in User
    BY <1>2, <1>7 DEF Page!ServeLogin, Page!ServeExchange, Page!ServeRegister, Page!Serves,
       LoginCall, WellAsked
  <2>2. users' \subseteq User
    BY <1>1, <1>7, <2>1 DEF Page!ServeLogin, Page!ServeExchange, Page!ServeRegister,
       Page!CreateUser, SessionType
  <2>3. held' \in [User -> Nat] /\ \E x \in AnswerOf : Page!Answers(r, x)
    BY <1>1, <1>3, <1>5, <1>6, <1>7, <2>1 DEF Page!ServeLogin, Page!ServeExchange,
       Page!ServeRegister, SessionType
  <2>4. UNCHANGED <<cookie, Page!storeVars, mixed>>
    BY <1>7 DEF Page!ServeLogin, Page!ServeExchange, Page!ServeRegister
  <2> QED
    BY <2>1, <2>2, <2>3, <2>4, AnswerInv DEF LoginCall
<1>8. ASSUME Page!ServeMe(r) PROVE PageInv'
  BY <1>1, <1>3, <1>8, AnswerInv DEF Page!ServeMe, Page!Serves, Page!keptVars, SessionType
<1>9. ASSUME Page!ServeRefresh(r) PROVE PageInv'
  <2>1. Page!Accepted(call[r].token) =>
          /\ Page!Answer("ok", Page!RefreshSession(call[r].token), 0) \in AnswerOf
          /\ Page!Answer("ok", Page!RefreshSession(call[r].token), 0).token.account = call[r].token.account
    BY <1>1, <1>4 DEF Page!RefreshSession, SessionType
  <2>2. UNCHANGED <<users, held, cookie, Page!storeVars, mixed>> /\ call[r].call = "refresh"
    BY <1>9 DEF Page!ServeRefresh, Page!Serves, Page!keptVars
  <2>3. \E x \in AnswerOf : /\ Page!Answers(r, x)
                            /\ x.token # Page!NoToken => x.token.account = call[r].token.account
    BY <1>3, <1>9, <2>1 DEF Page!ServeRefresh
  <2> QED
    BY <1>1, <2>2, <2>3, AnswerInv DEF SessionType
<1>10. ASSUME Page!ServeUpdateProfile(r) PROVE PageInv'
  <2>1. Page!Accepted(call[r].token) =>
          /\ Page!Answer("ok", Page!UpdateProfile(call[r].token), 0) \in AnswerOf
          /\ Page!Answer("ok", Page!UpdateProfile(call[r].token), 0).token.account = call[r].token.account
    <3>1. call[r].token.seen \in Nat
      BY <1>1 DEF Token
    <3> QED
      BY <1>1, <1>4, <3>1 DEF Page!UpdateProfile
  <2>2. UNCHANGED <<users, held, cookie, Page!storeVars, mixed>> /\ call[r].call = "profile"
    BY <1>10 DEF Page!ServeUpdateProfile, Page!Serves, Page!keptVars
  <2>3. \E x \in AnswerOf : /\ Page!Answers(r, x)
                            /\ x.token # Page!NoToken => x.token.account = call[r].token.account
    BY <1>3, <1>10, <2>1 DEF Page!ServeUpdateProfile
  <2> QED
    BY <1>1, <2>2, <2>3, AnswerInv DEF SessionType
<1>11. ASSUME Page!ServeLogout(r) PROVE PageInv'
  BY <1>1, <1>3, <1>11, AnswerInv DEF Page!ServeLogout, Page!Serves, Page!keptVars, SessionType
<1>12. ASSUME Page!ServeMemberships(r) PROVE PageInv'
  <2>1. \E x \in AnswerOf : Page!Answers(r, x)
    BY <1>1, <1>3, <1>12 DEF Page!ServeMemberships, SessionType
  <2> QED
    BY <1>1, <1>12, <2>1, AnswerInv DEF Page!ServeMemberships, Page!Serves, Page!keptVars,
       SessionType
<1>13. ASSUME Page!ServeChange(r) PROVE PageInv'
  <2>1. held' \in [User -> Nat] /\ \E x \in AnswerOf : Page!Answers(r, x)
    BY <1>1, <1>3, <1>13 DEF Page!ServeChange, SessionType
  <2> QED
    BY <1>1, <1>13, <2>1, AnswerInv DEF Page!ServeChange, Page!Serves, SessionType
<1> QED
  BY <1>7, <1>8, <1>9, <1>10, <1>11, <1>12, <1>13 DEF Page!Serve

-----------------------------------------------------------------------------
(* A step of a page that is logged in: a request begins, goes on or ends,  *)
(* and what the page keeps remains of its account.                         *)
LEMMA GoesOnInv ==
  ASSUME Page!SessionAssumption, PageInv, SessionType', NEW r \in Page!Runner,
         NEW q \in RequestOf,
         call' = [call EXCEPT ![r] = q], q.call \in AccountCall \cup {"none"},
         q.call = "change" => q.then \in {Page!SubscribeToDomain, Page!UnsubscribeFromDomain},
         q.call # "none" => q.token = cookie' /\ q.answer = Page!NoAnswer,
         call[r].call # "me", UNCHANGED isHydrated, account' # NoOne => account # NoOne,
         ~mixed' =>
           /\ ~mixed /\ account # NoOne /\ account' = account /\ cookie'.account = account
           /\ memberships' = memberships \/ memberships'.account = account
           /\ IF q.call = "me" THEN ~hydrating /\ hydrating' ELSE hydrating' = hydrating
  PROVE  PageInv'
<1>1. SessionType /\ HydrationInv /\ LoggedInInv
  BY DEF PageInv
<1>2. \A p \in Page!Runner : call'[p] = IF p = r THEN q ELSE call[p]
  BY <1>1, OneMoves
<1>3. \A p \in Page!Runner : (MeAnswered(call[p]) /\ WellAsked(call[p]))'
  BY <1>1, <1>2, Requests DEF HydrationInv, MeAnswered, WellAsked, Page!Accepted, LoginCall,
     AccountCall
<1>4. HydrationInv'
  <2>1. SUFFICES ASSUME ~mixed'
                 PROVE  /\ \A p \in Page!Runner : call'[p].call = "me" => hydrating'
                        /\ \A o, p \in Page!Runner : call'[o].call = "me" /\ call'[p].call = "me" => o = p
                        /\ hydrating' => \E p \in Page!Runner : call'[p].call = "me"
    BY <1>1, <1>3 DEF HydrationInv
  <2>2. CASE q.call = "me"
    BY <1>1, <1>2, <2>1, <2>2 DEF HydrationInv
  <2>3. CASE q.call # "me"
    BY <1>1, <1>2, <2>1, <2>3 DEF HydrationInv
  <2> QED
    BY <2>2, <2>3
<1>5. LoggedInInv' /\ VisitorInv'
  <2> SUFFICES ASSUME ~mixed' PROVE LoggedInInv'
    BY DEF LoggedInInv, VisitorInv
  <2>1. \A p \in Page!Runner : p # r => OfTheAccount(call[p])'
    BY <1>1, <1>2 DEF LoggedInInv, OfTheAccount
  <2>2. OfTheAccount(call[r])'
    BY <1>2, Requests DEF OfTheAccount
  <2> QED
    BY <1>1, <2>1, <2>2 DEF LoggedInInv
<1> QED
  BY <1>4, <1>5 DEF PageInv

(* Once something may be of another session, little is left to keep. *)
LEMMA MixedInv ==
  ASSUME PageInv, SessionType', mixed', NEW r \in Page!Runner,
         call' = [call EXCEPT ![r] = Page!Idle],
         account' # NoOne => isHydrated', Page!SessionAssumption
  PROVE  PageInv'
<1>1. SessionType /\ HydrationInv
  BY DEF PageInv
<1>2. \A p \in Page!Runner : call'[p] = IF p = r THEN Page!Idle ELSE call[p]
  BY <1>1, OneMoves, Requests
<1>3. \A p \in Page!Runner : (MeAnswered(call[p]) /\ WellAsked(call[p]))'
  BY <1>1, <1>2, Requests DEF HydrationInv, MeAnswered, WellAsked, Page!Accepted, LoginCall
<1> QED
  BY <1>3 DEF PageInv, HydrationInv, LoggedInInv, VisitorInv

(* A page that is logged in begins a request. *)
LEMMA AskInv ==
  ASSUME Page!SessionAssumption, PageInv, NEW r \in Page!Runner, NEW c \in AccountCall \ {"me"},
         NEW n \in Follow, account # NoOne,
         c = "change" => n \in {Page!SubscribeToDomain, Page!UnsubscribeFromDomain},
         Page!Begins(r, c, NoOne, n), fetching' \in BOOLEAN,
         UNCHANGED <<Page!keptVars, cookie, account, isHydrated, hydrating, memberships,
                     timer, mixed>>
  PROVE  PageInv'
<1>1. SessionType /\ LoggedInInv /\ cookie \in Token
  BY DEF PageInv, SessionType
<1> DEFINE q == Page!Sent(c, cookie, NoOne, n)
<1>2. q \in RequestOf /\ q.call = c /\ q.token = cookie /\ q.answer = Page!NoAnswer /\ q.then = n
  BY <1>1, SentRequest, Words
<1>3. call' = [call EXCEPT ![r] = q] /\ call[r].call # "me"
  BY Requests DEF Page!Begins
<1> HIDE DEF q
<1>4. SessionType'
  BY <1>1, <1>2, <1>3, OneMoves DEF SessionType, Page!keptVars
<1>5. ~mixed => cookie.account = account
  BY <1>1 DEF LoggedInInv
<1> QED
  BY <1>2, <1>3, <1>4, <1>5, GoesOnInv

LEMMA HydrateInv ==
  ASSUME Page!SessionAssumption, PageInv, NEW r \in Page!Runner, Page!Hydrate(r)
  PROVE  PageInv'
<1>1. SessionType /\ HydrationInv /\ LoggedInInv /\ VisitorInv /\ cookie \in Token
  BY DEF PageInv, SessionType
<1> DEFINE q == Page!Sent("me", cookie, NoOne, "nothing")
<1>2. /\ q \in RequestOf /\ q.call = "me" /\ q.token = cookie /\ q.answer = Page!NoAnswer
      /\ q.then = "nothing"
  BY <1>1, SentRequest, Words
<1>3. /\ call' = [call EXCEPT ![r] = q] /\ call[r] = Page!Idle /\ ~hydrating
      /\ hydrating' = TRUE
      /\ UNCHANGED <<users, held, cookie, account, isHydrated, memberships, fetching, mixed>>
  BY DEF Page!Hydrate, Page!Begins, Page!keptVars
<1> HIDE DEF q
<1>4. SessionType' /\ \A p \in Page!Runner : call'[p] = IF p = r THEN q ELSE call[p]
  BY <1>1, <1>2, <1>3, OneMoves DEF SessionType
<1>5. CASE account # NoOne
  <2>1. ~mixed => cookie.account = account
    BY <1>1, <1>5 DEF LoggedInInv
  <2> QED
    BY <1>2, <1>3, <1>4, <1>5, <2>1, GoesOnInv, Requests DEF AccountCall
<1>6. CASE account = NoOne
  <2>1. \A p \in Page!Runner : (MeAnswered(call[p]) /\ WellAsked(call[p]))'
    BY <1>1, <1>2, <1>4 DEF HydrationInv, MeAnswered, WellAsked, Page!Accepted, LoginCall
  <2>2. HydrationInv'
    BY <1>1, <1>2, <1>3, <1>4, <2>1 DEF HydrationInv
  <2>3. LoggedInInv'
    BY <1>3, <1>6 DEF LoggedInInv
  <2>4. SUFFICES ASSUME ~mixed PROVE VisitorInv'
    BY <1>3, <1>4, <2>2, <2>3 DEF PageInv, VisitorInv
  <2>5. \A p \in Page!Runner : OfNobody(call[p])'
    BY <1>1, <1>2, <1>3, <1>4, <1>6, <2>4, Requests DEF VisitorInv, OfNobody, LoginCall
  <2>6. isHydrated /\ Page!Accepted(cookie) => FALSE
    BY <1>1, <1>3, <1>6, <2>4 DEF VisitorInv, HydrationInv
  <2>7. \A o, p \in Page!Runner : call'[o].then = "hydrate" /\ call'[p].then = "hydrate" => o = p
    BY <1>1, <1>2, <1>3, <1>4, <1>6, <2>4 DEF VisitorInv
  <2> QED
    BY <1>1, <1>3, <1>6, <2>4, <2>5, <2>6, <2>7 DEF VisitorInv, Page!Accepted
<1> QED
  BY <1>5, <1>6

LEMMA LogInInv ==
  ASSUME Page!SessionAssumption, PageInv, NEW r \in Call, NEW a \in User, NEW c \in LoginCall,
         Page!LogIn(r, c, a)
  PROVE  PageInv'
<1>1. SessionType /\ HydrationInv /\ VisitorInv /\ cookie \in Token /\ r \in Page!Runner
  BY DEF PageInv, SessionType, Page!Runner
<1> DEFINE q == Page!Sent(c, cookie, a, "hydrate")
<1>2. /\ q \in RequestOf /\ q.call = c /\ q.who = a /\ q.answer = Page!NoAnswer
      /\ q.then = "hydrate"
  BY <1>1, SentRequest, Words
<1>3. /\ call' = [call EXCEPT ![r] = q] /\ call[r] = Page!Idle
      /\ account = NoOne /\ isHydrated
      /\ \A p \in Page!Runner : call[p].then # "hydrate"
      /\ UNCHANGED <<users, held, cookie, account, isHydrated, hydrating, memberships, fetching,
                     timer, mixed>>
  BY DEF Page!LogIn, Page!Begins, Page!keptVars, Page!storeVars
<1> HIDE DEF q
<1>4. SessionType' /\ \A p \in Page!Runner : call'[p] = IF p = r THEN q ELSE call[p]
  BY <1>1, <1>2, <1>3, OneMoves DEF SessionType
<1>5. \A p \in Page!Runner : (MeAnswered(call[p]) /\ WellAsked(call[p]))'
  BY <1>1, <1>2, <1>4 DEF HydrationInv, MeAnswered, WellAsked, Page!Accepted, LoginCall
<1>6. HydrationInv'
  BY <1>1, <1>2, <1>3, <1>4, <1>5, Requests DEF HydrationInv, LoginCall
<1>7. LoggedInInv'
  BY <1>3 DEF LoggedInInv
<1>8. SUFFICES ASSUME ~mixed PROVE VisitorInv'
  BY <1>3, <1>4, <1>6, <1>7 DEF PageInv, VisitorInv
<1>9. \A p \in Page!Runner : OfNobody(call[p])'
  BY <1>1, <1>2, <1>3, <1>4, <1>8 DEF VisitorInv, OfNobody, LoginCall
<1>10. ~Page!Accepted(cookie)
  BY <1>1, <1>3, <1>8 DEF VisitorInv
<1> QED
  BY <1>1, <1>2, <1>3, <1>4, <1>8, <1>9, <1>10 DEF VisitorInv, Page!Accepted

LEMMA ReloadInv ==
  ASSUME Page!SessionAssumption, PageInv, NEW r \in Page!Runner, Page!Reload(r)
  PROVE  PageInv'
<1>1. SessionType /\ cookie \in Token
  BY DEF PageInv, SessionType
<1> DEFINE q == Page!Sent("me", cookie, NoOne, "nothing")
<1>2. /\ q \in RequestOf /\ q.call = "me" /\ q.token = cookie /\ q.answer = Page!NoAnswer
      /\ q.then = "nothing"
  BY <1>1, SentRequest, Words
<1>3. /\ call' = [p \in Page!Runner |-> IF p = r THEN q ELSE Page!Idle]
      /\ account' = NoOne /\ isHydrated' = FALSE /\ hydrating' = TRUE
      /\ memberships' = Page!NotFetched /\ fetching' = FALSE /\ mixed' = FALSE
      /\ UNCHANGED <<users, held, cookie>>
  BY DEF Page!Reload, Page!keptVars
<1> HIDE DEF q
<1>4. \A p \in Page!Runner : call'[p] = IF p = r THEN q ELSE Page!Idle
  BY <1>3
<1>5. SessionType'
  BY <1>1, <1>2, <1>3, Requests DEF SessionType, Page!NotFetched
<1>6. HydrationInv'
  BY <1>2, <1>3, <1>4, Requests DEF HydrationInv, MeAnswered, WellAsked, LoginCall
<1>7. VisitorInv'
  BY <1>2, <1>3, <1>4, Requests DEF VisitorInv, OfNobody, LoginCall
<1> QED
  BY <1>3, <1>5, <1>6, <1>7 DEF PageInv, LoggedInInv

LEMMA BeginsInv ==
  ASSUME Page!SessionAssumption, PageInv, NEW r \in Call,
         \/ Page!LogOut(r) \/ Page!FetchMemberships(r) \/ Page!EditProfile(r)
         \/ \E then \in {Page!SubscribeToDomain, Page!UnsubscribeFromDomain} :
                     Page!ChangeDomains(r, then)
  PROVE  PageInv'
<1>1. r \in Page!Runner /\ fetching \in BOOLEAN
  BY DEF Page!Runner, PageInv, SessionType
<1>2. CASE Page!LogOut(r)
  BY <1>1, <1>2, AskInv, Words DEF Page!LogOut, Page!storeVars, AccountCall
<1>3. CASE Page!FetchMemberships(r)
  BY <1>1, <1>3, AskInv, Words DEF Page!FetchMemberships, AccountCall
<1>4. CASE Page!EditProfile(r)
  BY <1>1, <1>4, AskInv, Words DEF Page!EditProfile, Page!storeVars, AccountCall
<1>5. CASE \E then \in {Page!SubscribeToDomain, Page!UnsubscribeFromDomain} :
                     Page!ChangeDomains(r, then)
  BY <1>1, <1>5, AskInv, Words DEF Page!ChangeDomains, Page!storeVars, AccountCall, Follow,
     Page!SubscribeToDomain, Page!UnsubscribeFromDomain
<1> QED
  BY <1>2, <1>3, <1>4, <1>5

-----------------------------------------------------------------------------
(* An answer arrives. *)
LEMMA CookieSet ==
  ASSUME SessionType, NEW r \in Page!Runner, Page!SetCookie(r)
  PROVE  cookie' \in Token /\ (~Page!Ok(r) => cookie' = cookie)
BY DEF SessionType, Page!SetCookie, RequestOf, AnswerOf, Page!Ok

(* Only a page that is logged in awaits an answer to one of these.         *)
LEMMA AwaitedByAccount ==
  ASSUME PageInv, ~mixed, NEW r \in Page!Runner, call[r].call \in AccountCall \ {"me"}
  PROVE  /\ account # NoOne /\ cookie.account = account
         /\ call[r].token.account = account
         /\ call[r].call \in {"refresh", "profile"} /\ Page!SetCookie(r) => cookie'.account = account
<1>1. account # NoOne
  BY DEF PageInv, VisitorInv, OfNobody, AccountCall, LoginCall
<1>2. cookie.account = account /\ OfTheAccount(call[r])
  BY <1>1 DEF PageInv, LoggedInInv
<1> QED
  BY <1>1, <1>2 DEF OfTheAccount, AccountCall, Page!SetCookie

LEMMA LoggedInKeeps ==
  ASSUME Page!SessionAssumption, PageInv, NEW r \in Page!Runner, Page!LoggedIn(r)
  PROVE  PageInv'
<1>1. SessionType /\ HydrationInv /\ LoggedInInv /\ VisitorInv
  BY DEF PageInv
<1>2. /\ call[r].call \in LoginCall /\ Page!SetCookie(r)
      /\ UNCHANGED <<users, held, account, isHydrated, memberships, fetching>>
  BY DEF Page!LoggedIn, Page!Heard, LoginCall, Page!keptVars
<1>3. cookie' \in Token /\ (~Page!Ok(r) => cookie' = cookie)
  BY <1>1, <1>2, CookieSet
<1>4. ~mixed => account = NoOne
  BY <1>1, <1>2 DEF LoggedInInv, OfTheAccount, LoginCall, AccountCall
<1>5. CASE ~Page!Ok(r) \/ hydrating
  <2>1. call' = [call EXCEPT ![r] = Page!Idle] /\ hydrating' = hydrating
    BY <1>5 DEF Page!LoggedIn, Page!HydrateAnew, Page!Ends
  <2>2. /\ SessionType' /\ call[r].call # "me"
        /\ \A p \in Page!Runner : call'[p] = IF p = r THEN Page!Idle ELSE call[p]
    BY <1>1, <1>2, <1>3, <2>1, OneMoves, Requests DEF SessionType, Page!LoggedIn, LoginCall
  <2>3. CASE mixed'
    BY <1>1, <1>2, <2>1, <2>2, <2>3, MixedInv DEF HydrationInv
  <2>4. CASE ~mixed'
    <3>1. ~mixed /\ ~Page!Ok(r) /\ cookie' = cookie
      <4>1. ASSUME Page!Ok(r) PROVE FALSE
        <5>1. hydrating /\ ~mixed /\ Page!Alone(r)
          BY <1>5, <2>4, <4>1 DEF Page!LoggedIn
        <5>2. PICK p \in Page!Runner : call[p].call = "me"
          BY <1>1, <5>1 DEF HydrationInv
        <5> QED
          BY <2>2, <5>1, <5>2, Requests DEF Page!Alone
      <4> QED
        BY <1>3, <2>4, <4>1 DEF Page!LoggedIn
    <3>2. HydrationInv'
      <4>1. \A p \in Page!Runner : (MeAnswered(call[p]) /\ WellAsked(call[p]))'
        BY <1>1, <2>2, Requests DEF HydrationInv, MeAnswered, WellAsked, Page!Accepted, LoginCall
      <4> QED
        BY <1>1, <1>2, <2>1, <2>2, <3>1, <4>1, Requests DEF HydrationInv
    <3>3. VisitorInv'
      <4>1. \A p \in Page!Runner : OfNobody(call[p])'
        BY <1>1, <1>2, <1>4, <2>2, <3>1, Requests DEF VisitorInv, OfNobody, LoginCall
      <4>2. isHydrated /\ Page!Accepted(cookie) =>
              \E p \in Page!Runner : call'[p].call = "me" /\ call'[p].then = "hydrate"
        BY <1>1, <1>4, <2>2, <3>1 DEF VisitorInv
      <4> QED
        BY <1>1, <1>2, <1>4, <2>1, <2>2, <3>1, <4>1, <4>2, Requests DEF VisitorInv, Page!Accepted
    <3> QED
      BY <1>2, <1>4, <2>2, <3>1, <3>2, <3>3 DEF PageInv, LoggedInInv
  <2> QED
    BY <2>3, <2>4
<1>6. CASE Page!Ok(r) /\ ~hydrating
  <2> DEFINE q == Page!Sent("me", cookie', NoOne, "hydrate")
  <2>1. /\ q \in RequestOf /\ q.call = "me" /\ q.token = cookie' /\ q.answer = Page!NoAnswer
        /\ q.then = "hydrate"
    BY <1>3, SentRequest, Words
  <2>2. /\ call' = [call EXCEPT ![r] = q] /\ hydrating' = TRUE /\ mixed' = (mixed \/ ~Page!Alone(r))
        /\ ~mixed' => ~mixed
    BY <1>6 DEF Page!LoggedIn, Page!HydrateAnew, Page!Continues
  <2> HIDE DEF q
  <2>3. /\ SessionType'
        /\ \A p \in Page!Runner : call'[p] = IF p = r THEN q ELSE call[p]
    BY <1>1, <1>2, <1>3, <2>1, <2>2, OneMoves DEF SessionType, Page!LoggedIn, Page!HydrateAnew
  <2>4. \A p \in Page!Runner : (MeAnswered(call[p]) /\ WellAsked(call[p]))'
    BY <1>1, <2>1, <2>3 DEF HydrationInv, MeAnswered, WellAsked, Page!Accepted, LoginCall
  <2>5. HydrationInv'
    BY <1>1, <1>2, <1>6, <2>1, <2>2, <2>3, <2>4 DEF HydrationInv
  <2>6. CASE mixed'
    BY <2>3, <2>5, <2>6 DEF PageInv, LoggedInInv, VisitorInv
  <2>7. CASE ~mixed'
    <3>1. ~mixed /\ \A p \in Page!Runner : p # r => call'[p] = Page!Idle
      BY <2>2, <2>3, <2>7 DEF Page!Alone, SessionType
    <3>2. VisitorInv'
      BY <1>1, <1>2, <1>4, <2>1, <2>2, <2>3, <3>1, Requests DEF VisitorInv, OfNobody, LoginCall
    <3> QED
      BY <1>2, <1>4, <2>3, <2>5, <3>1, <3>2 DEF PageInv, LoggedInInv
  <2> QED
    BY <2>6, <2>7
<1> QED
  BY <1>5, <1>6

LEMMA LoggedOutInv ==
  ASSUME Page!SessionAssumption, PageInv, NEW r \in Page!Runner, Page!LoggedOut(r)
  PROVE  PageInv'
<1>1. SessionType /\ HydrationInv /\ LoggedInInv
  BY DEF PageInv
<1>2. /\ call[r].call = "logout" /\ call' = [call EXCEPT ![r] = Page!Idle]
      /\ cookie' = Page!NoToken /\ account' = NoOne
      /\ memberships' = Page!NotFetched /\ fetching' = FALSE /\ mixed' = (mixed \/ ~Page!Alone(r))
      /\ UNCHANGED <<users, held, isHydrated, hydrating>>
  BY DEF Page!LoggedOut, Page!Heard, Page!Ends, Page!Becomes, Page!Reset, Page!keptVars
<1>3. SessionType' /\ \A p \in Page!Runner : call'[p] = IF p = r THEN Page!Idle ELSE call[p]
  BY <1>1, <1>2, OneMoves, Requests DEF SessionType, Page!NotFetched
<1>4. CASE mixed'
  BY <1>1, <1>2, <1>3, <1>4, MixedInv DEF HydrationInv
<1>5. CASE ~mixed'
  <2>1. ~mixed /\ \A p \in Page!Runner : call'[p] = Page!Idle
    BY <1>2, <1>3, <1>5 DEF Page!Alone, SessionType
  <2>2. account # NoOne
    BY <1>2, <2>1, AwaitedByAccount DEF AccountCall
  <2>3. ~hydrating
    BY <1>1, <1>2, <1>3, <2>1, Requests DEF HydrationInv
  <2>4. HydrationInv'
    BY <1>1, <1>2, <2>1, <2>2, <2>3, Requests DEF HydrationInv, MeAnswered, WellAsked, LoginCall
  <2>5. VisitorInv'
    BY <1>1, <1>2, <2>1, <2>2, Requests DEF HydrationInv, VisitorInv, OfNobody, LoginCall,
       Page!Accepted
  <2> QED
    BY <1>2, <1>3, <2>4, <2>5 DEF PageInv, LoggedInInv
<1> QED
  BY <1>4, <1>5

LEMMA HydratedInv ==
  ASSUME Page!SessionAssumption, PageInv, NEW r \in Page!Runner, Page!Hydrated(r)
  PROVE  PageInv'
<1>1. SessionType /\ HydrationInv /\ LoggedInInv /\ VisitorInv
  BY DEF PageInv
<1>2. /\ call[r].call = "me" /\ call[r].answer # Page!NoAnswer
      /\ call' = [call EXCEPT ![r] = Page!Idle]
      /\ account' = IF Page!Ok(r) THEN call[r].token.account ELSE NoOne
      /\ isHydrated' = TRUE /\ hydrating' = FALSE
      /\ mixed' = (mixed \/ (account # NoOne /\ account' = NoOne))
      /\ UNCHANGED <<users, held, cookie, memberships, fetching>>
  BY DEF Page!Hydrated, Page!Heard, Page!Ends, Page!Becomes, Page!keptVars
<1>3. call[r] \in RequestOf /\ call[r].token.account \in User \cup {NoOne}
  BY <1>1 DEF SessionType, RequestOf, Token
<1>4. SessionType' /\ \A p \in Page!Runner : call'[p] = IF p = r THEN Page!Idle ELSE call[p]
  BY <1>1, <1>2, <1>3, OneMoves, Requests DEF SessionType
<1>5. CASE mixed'
  BY <1>1, <1>2, <1>4, <1>5, MixedInv
<1>6. CASE ~mixed'
  <2>1. ~mixed /\ (account # NoOne => account' # NoOne)
    BY <1>1, <1>2, <1>6 DEF SessionType
  <2>2. \A p \in Page!Runner : call'[p].call # "me"
    BY <1>1, <1>2, <1>4, <2>1, Requests DEF HydrationInv
  <2>3. \A p \in Page!Runner : (MeAnswered(call[p]) /\ WellAsked(call[p]))'
    BY <1>1, <1>4, Requests DEF HydrationInv, MeAnswered, WellAsked, Page!Accepted, LoginCall
  <2>4. HydrationInv'
    BY <1>2, <2>2, <2>3 DEF HydrationInv
  <2>5. CASE account # NoOne
    <3>1. account' = account
      BY <1>1, <1>2, <2>1, <2>5 DEF LoggedInInv, OfTheAccount
    <3>2. LoggedInInv'
      BY <1>1, <1>2, <1>4, <2>1, <2>5, <3>1, Requests DEF LoggedInInv, OfTheAccount
    <3> QED
      BY <1>4, <2>4, <2>5, <3>1, <3>2 DEF PageInv, VisitorInv
  <2>6. CASE account = NoOne /\ Page!Ok(r)
    <3>1. account' = cookie.account /\ account' # NoOne /\ memberships = Page!NotFetched
      BY <1>1, <1>2, <2>1, <2>6 DEF VisitorInv, OfNobody, HydrationInv, MeAnswered, Page!Ok
    <3>2. ASSUME NEW p \in Page!Runner, call[p].call \in LoginCall PROVE FALSE
      <4>1. isHydrated /\ call[p].then = "hydrate" /\ p # r
        BY <1>1, <1>2, <2>1, <2>6, <3>2 DEF VisitorInv, OfNobody, LoginCall
      <4>2. call[r].then = "hydrate"
        BY <1>1, <1>2, <2>1, <2>6, <4>1 DEF VisitorInv, OfNobody, Page!Ok
      <4> QED
        BY <1>1, <2>1, <2>6, <4>1, <4>2 DEF VisitorInv
    <3>3. \A p \in Page!Runner : call'[p].call = "none"
      BY <1>1, <1>4, <2>1, <2>2, <2>6, <3>2, Requests DEF VisitorInv, OfNobody
    <3>4. LoggedInInv'
      BY <1>2, <3>1, <3>3 DEF LoggedInInv, OfTheAccount
    <3> QED
      BY <1>4, <2>4, <3>1, <3>4 DEF PageInv, VisitorInv
  <2>7. CASE account = NoOne /\ ~Page!Ok(r)
    <3>1. account' = NoOne /\ ~Page!Accepted(cookie)
      BY <1>1, <1>2, <2>1, <2>7 DEF VisitorInv, OfNobody, HydrationInv, MeAnswered, Page!Ok
    <3>2. \A p \in Page!Runner : OfNobody(call[p])'
      BY <1>1, <1>2, <1>4, <2>1, <2>2, <2>7, Requests DEF VisitorInv, OfNobody, LoginCall
    <3>3. VisitorInv'
      BY <1>1, <1>2, <1>4, <2>1, <2>7, <3>1, <3>2, Requests DEF VisitorInv, Page!Accepted
    <3> QED
      BY <1>4, <2>4, <3>1, <3>3 DEF PageInv, LoggedInInv
  <2> QED
    BY <2>5, <2>6, <2>7
<1> QED
  BY <1>5, <1>6

LEMMA RefreshedInv ==
  ASSUME Page!SessionAssumption, PageInv, NEW r \in Page!Runner, Page!Refreshed(r)
  PROVE  PageInv'
<1>1. SessionType /\ HydrationInv
  BY DEF PageInv
<1>2. /\ call[r].call = "refresh" /\ Page!SetCookie(r)
      /\ UNCHANGED <<users, held, isHydrated, hydrating, memberships>>
  BY DEF Page!Refreshed, Page!Heard, Page!keptVars
<1>3. cookie' \in Token
  BY <1>1, <1>2, CookieSet
<1> DEFINE q == IF call[r].then = "fetch"
                THEN Page!Sent("fetch", cookie', NoOne, "nothing") ELSE Page!Idle
<1>4. /\ q \in RequestOf /\ q.call \in {"fetch", "none"} /\ q.answer = Page!NoAnswer
      /\ q.call # "none" => q.token = cookie'
  <2>1. cookie' \in Token /\ "fetch" \in AccountCall
    BY <1>3, Words
  <2>2. /\ Page!Sent("fetch", cookie', NoOne, "nothing") \in RequestOf
        /\ Page!Sent("fetch", cookie', NoOne, "nothing").call = "fetch"
        /\ Page!Sent("fetch", cookie', NoOne, "nothing").token = cookie'
        /\ Page!Sent("fetch", cookie', NoOne, "nothing").answer = Page!NoAnswer
    BY <2>1, SentRequest, Words
  <2> QED
    BY <2>2, Requests
<1>5. call' = [call EXCEPT ![r] = q] /\ fetching' \in BOOLEAN
  BY <1>1 DEF Page!Refreshed, Page!FetchAnew, Page!Continues, Page!Ends, SessionType
<1> HIDE DEF q
<1>6. /\ account' \in {account, NoOne} /\ mixed' \in BOOLEAN
      /\ ~mixed' => ~mixed /\ account' = account
  BY <1>1 DEF Page!Refreshed, Page!Becomes, SessionType
<1>7. SessionType'
  BY <1>1, <1>2, <1>3, <1>4, <1>5, <1>6, OneMoves DEF SessionType
<1>8. ~mixed' => account # NoOne /\ cookie'.account = account
  BY <1>2, <1>6, AwaitedByAccount DEF AccountCall
<1> QED
  BY <1>2, <1>4, <1>5, <1>6, <1>7, <1>8, GoesOnInv DEF AccountCall

LEMMA FetchedInv ==
  ASSUME Page!SessionAssumption, PageInv, NEW r \in Page!Runner, Page!FetchedMemberships(r)
  PROVE  PageInv'
<1>1. SessionType
  BY DEF PageInv
<1>2. /\ call[r].call = "fetch" /\ call' = [call EXCEPT ![r] = Page!Idle]
      /\ mixed' = (mixed \/ ~Page!Ok(r)) /\ fetching' = FALSE
      /\ UNCHANGED <<users, held, cookie, account, isHydrated, hydrating>>
  BY DEF Page!FetchedMemberships, Page!Heard, Page!Ends, Page!keptVars
<1>3. /\ memberships' \in [account : User \cup {NoOne}, seen : Nat]
      /\ Page!Ok(r) => memberships'.account = call[r].token.account
  BY <1>1 DEF Page!FetchedMemberships, SessionType, RequestOf, Token, AnswerOf
<1>4. SessionType'
  BY <1>1, <1>2, <1>3, OneMoves, Requests DEF SessionType
<1>5. ~mixed' => /\ ~mixed /\ account # NoOne /\ cookie'.account = account
                 /\ memberships'.account = account
  BY <1>1, <1>2, <1>3, AwaitedByAccount DEF AccountCall, SessionType
<1> QED
  BY <1>2, <1>4, <1>5, GoesOnInv, Requests

LEMMA ChangedInv ==
  ASSUME Page!SessionAssumption, PageInv, NEW r \in Page!Runner, Page!Changed(r)
  PROVE  PageInv'
<1>1. SessionType /\ cookie \in Token
  BY DEF PageInv, SessionType
<1>2. /\ call[r].call = "change"
      /\ UNCHANGED <<users, held, cookie, account, isHydrated, hydrating, memberships, mixed>>
  BY DEF Page!Changed, Page!Heard, Page!keptVars
<1>3. \E q \in RequestOf : /\ call' = [call EXCEPT ![r] = q] /\ fetching' \in BOOLEAN
                           /\ q.call \in {"fetch", "refresh", "none"}
                           /\ q.call # "none" => q.token = cookie' /\ q.answer = Page!NoAnswer
  <2>1. CASE ~Page!Ok(r)
    BY <1>1, <2>1, Requests DEF Page!Changed, Page!Ends, SessionType
  <2>2. CASE Page!Ok(r) /\ call[r].then = "fetch"
    <3>1. Page!Continues(r, "fetch", "nothing") /\ fetching' = TRUE
      BY <2>2 DEF Page!Changed, Page!FetchAnew, Page!UnsubscribeFromDomain, Page!SubscribeToDomain
    <3> DEFINE q == Page!Sent("fetch", cookie', NoOne, "nothing")
    <3>2. q \in RequestOf /\ q.call = "fetch" /\ q.token = cookie' /\ q.answer = Page!NoAnswer
      <4>1. cookie' \in Token /\ "fetch" \in AccountCall
        BY <1>1, <1>2 DEF AccountCall
      <4> QED
        BY <4>1, SentRequest, Words
    <3>3. call' = [call EXCEPT ![r] = q]
      BY <3>1 DEF Page!Continues
    <3> HIDE DEF q
    <3> QED
      BY <3>1, <3>2, <3>3
  <2>3. CASE Page!Ok(r) /\ call[r].then = "refresh"
    <3>1. Page!Continues(r, "refresh", "fetch") /\ UNCHANGED fetching
      BY <2>3 DEF Page!Changed, Page!UnsubscribeFromDomain, Page!SubscribeToDomain
    <3>2. fetching' \in BOOLEAN
      BY <1>1, <3>1 DEF SessionType
    <3> DEFINE q == Page!Sent("refresh", cookie', NoOne, "fetch")
    <3>3. q \in RequestOf /\ q.call = "refresh" /\ q.token = cookie' /\ q.answer = Page!NoAnswer
      <4>1. cookie' \in Token /\ "refresh" \in AccountCall
        BY <1>1, <1>2 DEF AccountCall
      <4> QED
        BY <4>1, SentRequest, Words
    <3>4. call' = [call EXCEPT ![r] = q]
      BY <3>1 DEF Page!Continues
    <3> HIDE DEF q
    <3> QED
      BY <3>2, <3>3, <3>4
  <2> QED
    BY <1>2, <2>1, <2>2, <2>3 DEF PageInv, HydrationInv, WellAsked, Page!UnsubscribeFromDomain,
       Page!SubscribeToDomain
<1>4. SessionType'
  BY <1>1, <1>2, <1>3, OneMoves DEF SessionType
<1>5. ~mixed => account # NoOne /\ cookie.account = account
  BY <1>2, AwaitedByAccount DEF AccountCall
<1> QED
  BY <1>2, <1>3, <1>4, <1>5, GoesOnInv DEF AccountCall

LEMMA ProfileInv ==
  ASSUME Page!SessionAssumption, PageInv, NEW r \in Page!Runner, Page!ProfileUpdated(r)
  PROVE  PageInv'
<1>1. SessionType
  BY DEF PageInv
<1>2. /\ call[r].call = "profile" /\ Page!SetCookie(r)
      /\ UNCHANGED <<users, held, account, isHydrated, memberships, fetching, mixed>>
  BY DEF Page!ProfileUpdated, Page!Heard, Page!keptVars
<1>3. cookie' \in Token
  BY <1>1, <1>2, CookieSet
<1> DEFINE q == IF Page!Ok(r) /\ ~hydrating
                THEN Page!Sent("me", cookie', NoOne, "hydrate") ELSE Page!Idle
<1>4. /\ q \in RequestOf /\ q.call \in {"me", "none"} /\ q.answer = Page!NoAnswer
      /\ q.call # "none" => q.token = cookie'
      /\ q.call = "me" <=> Page!Ok(r) /\ ~hydrating
  BY <1>3, SentRequest, Requests, Words
<1>5. call' = [call EXCEPT ![r] = q]
  BY <1>1 DEF Page!ProfileUpdated, Page!HydrateAnew, Page!Continues, Page!Ends
<1> HIDE DEF q
<1>6. /\ hydrating' \in BOOLEAN
      /\ IF q.call = "me" THEN ~hydrating /\ hydrating' ELSE hydrating' = hydrating
  BY <1>1, <1>4 DEF Page!ProfileUpdated, Page!HydrateAnew, SessionType
<1>7. SessionType'
  BY <1>1, <1>2, <1>3, <1>4, <1>5, <1>6, OneMoves DEF SessionType
<1>8. ~mixed => account # NoOne /\ cookie'.account = account
  BY <1>2, AwaitedByAccount DEF AccountCall
<1> QED
  BY <1>2, <1>4, <1>5, <1>6, <1>7, <1>8, GoesOnInv DEF AccountCall

LEMMA RejectedInv ==
  ASSUME Page!SessionAssumption, PageInv, NEW r \in Page!Runner, Page!Rejected(r)
  PROVE  PageInv'
<1>1. SessionType
  BY DEF PageInv
<1>2. /\ call' = [call EXCEPT ![r] = Page!Idle] /\ mixed' = TRUE
      /\ hydrating' \in BOOLEAN /\ isHydrated' \in BOOLEAN /\ fetching' \in BOOLEAN
      /\ isHydrated => isHydrated'
      /\ UNCHANGED <<users, held, cookie, account, memberships>>
  BY <1>1 DEF Page!Rejected, Page!Ends, Page!keptVars, SessionType
<1>3. SessionType'
  BY <1>1, <1>2, OneMoves, Requests DEF SessionType
<1>4. account' # NoOne => isHydrated'
  BY <1>2 DEF PageInv, HydrationInv
<1> QED
  BY <1>2, <1>3, <1>4, MixedInv

LEMMA TickInv ==
  ASSUME Page!SessionAssumption, PageInv, Page!Tick
  PROVE  PageInv'
<1>1. SessionType /\ HydrationInv /\ LoggedInInv /\ VisitorInv /\ KeepAlive \in Page!Runner
  BY DEF PageInv, Page!Runner
<1>2. /\ cookie' = Page!Older(cookie) /\ call[KeepAlive] = Page!Idle
      /\ UNCHANGED <<users, held, account, isHydrated, hydrating, memberships, fetching, mixed>>
  BY DEF Page!Tick, Page!keptVars
<1>3. /\ cookie' \in Token /\ cookie'.account = cookie.account
      /\ Page!Accepted(cookie') => Page!Accepted(cookie)
  BY <1>1, <1>2, OlderToken DEF SessionType
<1> DEFINE aged(p) == Page!AllOlder(call[p])
           fired == Page!Sent("refresh", cookie', NoOne, "nothing")
<1>4. ASSUME NEW p \in Page!Runner
      PROVE  /\ aged(p) \in RequestOf
             /\ aged(p).call = call[p].call /\ aged(p).who = call[p].who
             /\ aged(p).then = call[p].then
             /\ aged(p).token = Page!Older(call[p].token)
             /\ aged(p).token.account = call[p].token.account
             /\ Page!Accepted(aged(p).token) => Page!Accepted(call[p].token)
             /\ aged(p).answer.status = call[p].answer.status
             /\ call[p].answer = Page!NoAnswer => aged(p).answer = Page!NoAnswer
             /\ aged(p).answer.token # Page!NoToken =>
                  /\ call[p].answer.token # Page!NoToken
                  /\ aged(p).answer.token.account = call[p].answer.token.account
  <2>1. call[p] \in RequestOf /\ call[p].token \in Token /\ call[p].answer.token \in Token
    BY <1>1 DEF SessionType, RequestOf, AnswerOf
  <2> QED
    BY <2>1, OlderRequest, OlderToken
<1>5. /\ fired \in RequestOf /\ fired.call = "refresh" /\ fired.then = "nothing"
      /\ fired.token = cookie' /\ fired.answer = Page!NoAnswer
  <2>1. cookie' \in Token /\ "refresh" \in AccountCall
    BY <1>3 DEF AccountCall
  <2> QED
    BY <2>1, SentRequest, Words
<1>6. /\ \A p \in Page!Runner : p # KeepAlive => call'[p] = aged(p)
      /\ \/ call'[KeepAlive] = aged(KeepAlive)
         \/ account # NoOne /\ call'[KeepAlive] = fired
      /\ DOMAIN call' = Page!Runner /\ call' = [p \in Page!Runner |-> call'[p]]
  BY <1>1 DEF Page!Tick
<1> HIDE DEF aged, fired
<1>7. SessionType'
  <2>1. \A p \in Page!Runner : call'[p] \in RequestOf
    BY <1>4, <1>5, <1>6
  <2> QED
    BY <1>1, <1>2, <1>3, <1>6, <2>1 DEF SessionType
<1>8. call[KeepAlive].call = "none"
  BY <1>2, Requests
<1>9. ASSUME NEW p \in Page!Runner PROVE (MeAnswered(call[p]) /\ WellAsked(call[p]))'
  <2>1. CASE call'[p] = aged(p)
    <3>1. MeAnswered(call[p]) /\ WellAsked(call[p])
      BY <1>1 DEF HydrationInv
    <3> QED
      BY <1>4, <2>1, <3>1 DEF MeAnswered, WellAsked, Page!Accepted
  <2>2. CASE call'[p] = fired
    BY <1>5, <2>2 DEF MeAnswered, WellAsked, LoginCall
  <2> QED
    BY <1>6, <2>1, <2>2
<1>10. \A p \in Page!Runner : call'[p].call = "me" <=> call[p].call = "me"
  BY <1>4, <1>5, <1>6, <1>8
<1>11. HydrationInv'
  BY <1>1, <1>2, <1>9, <1>10 DEF HydrationInv
<1>12. LoggedInInv'
  <2> SUFFICES ASSUME ~mixed, account # NoOne PROVE LoggedInInv'
    BY <1>2 DEF LoggedInInv
  <2>1. ASSUME NEW p \in Page!Runner PROVE OfTheAccount(call[p])'
    <3>1. CASE call'[p] = aged(p)
      <4>1. OfTheAccount(call[p])
        BY <1>1 DEF LoggedInInv
      <4> QED
        BY <1>2, <1>4, <3>1, <4>1 DEF OfTheAccount
    <3>2. CASE call'[p] = fired
      BY <1>1, <1>2, <1>3, <1>5, <3>2, Requests DEF LoggedInInv, OfTheAccount, AccountCall
    <3> QED
      BY <1>6, <3>1, <3>2
  <2> QED
    BY <1>1, <1>2, <1>3, <2>1 DEF LoggedInInv
<1>13. VisitorInv'
  <2> SUFFICES ASSUME ~mixed, account = NoOne PROVE VisitorInv'
    BY <1>2 DEF VisitorInv
  <2>1. \A p \in Page!Runner : call'[p] = aged(p)
    BY <1>6
  <2>2. ASSUME NEW p \in Page!Runner PROVE OfNobody(call[p])'
    <3>1. OfNobody(call[p])
      BY <1>1 DEF VisitorInv
    <3>2. call[p].answer.status = "ok" <=> aged(p).answer.status = "ok"
      BY <1>4
    <3> QED
      BY <1>2, <1>4, <2>1, <3>1, <3>2 DEF OfNobody
  <2> QED
    BY <1>1, <1>2, <1>3, <1>4, <2>1, <2>2 DEF VisitorInv, Page!Accepted
<1> QED
  BY <1>7, <1>11, <1>12, <1>13 DEF PageInv

LEMMA OthersInv ==
  ASSUME Page!SessionAssumption, PageInv,
         (\E a \in User : Page!ChangedByOthers(a)) \/ UNCHANGED Page!vars
  PROVE  PageInv'
<1>1. /\ held' \in [User -> Nat]
      /\ UNCHANGED <<users, cookie, account, isHydrated, hydrating, memberships, fetching,
                     call, mixed>>
  BY DEF PageInv, SessionType, Page!ChangedByOthers, Page!vars, Page!keptVars, Page!storeVars
<1> QED
  BY <1>1 DEF PageInv, SessionType, HydrationInv, MeAnswered, WellAsked, LoggedInInv,
     OfTheAccount, VisitorInv, OfNobody, Page!Accepted

LEMMA PageInvAlways ==
  ASSUME Page!SessionAssumption
  PROVE  Page!Init /\ [][Page!Next]_(Page!vars) => []PageInv
<1>1. Page!Init => PageInv
  BY SessionInit
<1>2. PageInv /\ [Page!Next]_(Page!vars) => PageInv'
  <2> SUFFICES ASSUME PageInv, [Page!Next]_(Page!vars) PROVE PageInv'
    OBVIOUS
  <2>1. ASSUME NEW r \in Call, NEW a \in User, NEW kind \in {"login", "register", "exchange"},
               Page!LogIn(r, kind, a)
        PROVE  PageInv'
    BY <2>1, LogInInv DEF LoginCall
  <2>2. ASSUME NEW r \in Call, Page!Hydrate(r) \/ Page!Reload(r) PROVE PageInv'
    BY <2>2, HydrateInv, ReloadInv DEF Page!Runner
  <2>3. ASSUME NEW r \in Call,
               \/ Page!LogOut(r) \/ Page!FetchMemberships(r) \/ Page!EditProfile(r)
               \/ \E then \in {Page!SubscribeToDomain, Page!UnsubscribeFromDomain} :
                     Page!ChangeDomains(r, then)
        PROVE  PageInv'
    BY <2>3, BeginsInv
  <2>4. ASSUME NEW r \in Page!Runner, Page!Serve(r) \/ Page!Receive(r) \/ Page!Rejected(r)
        PROVE  PageInv'
    BY <2>4, ServeInv, RejectedInv, LoggedInKeeps, LoggedOutInv, HydratedInv, RefreshedInv,
       FetchedInv, ChangedInv, ProfileInv DEF Page!Receive
  <2> QED
    BY <2>1, <2>2, <2>3, <2>4, TickInv, OthersInv DEF Page!Next
<1> QED
  BY <1>1, <1>2, PTL

(* Unless requests overlapped a login or a logout, one was lost, or a      *)
(* session ended by itself, what a page shows and what it sends is of the  *)
(* account it is logged in as (the stores authentication.ts and domain.ts  *)
(* of the frontend; claims-gateway signs every cookie for its caller).     *)
THEOREM OnesOwnPage == Page!Spec => []PageIsOnesOwn
<1>1. PageInv => PageIsOnesOwn
  <2> SUFFICES ASSUME PageInv, ~mixed PROVE PageIsOnesOwn
    BY DEF PageIsOnesOwn, Page!PageIsOnesOwn
  <2>1. account # NoOne => /\ cookie.account = account
                           /\ memberships # Page!NotFetched => memberships.account = account
    BY DEF PageInv, LoggedInInv
  <2>2. Page!Quiet /\ Page!Accepted(cookie) /\ account = NoOne => FALSE
    BY SessionHolds, Requests DEF PageInv, VisitorInv, HydrationInv, Page!Quiet
  <2> QED
    BY <2>1, <2>2 DEF PageIsOnesOwn, Page!PageIsOnesOwn
<1> QED
  BY <1>1, PageInvAlways, SessionHolds, PTL DEF Page!Spec
=============================================================================
