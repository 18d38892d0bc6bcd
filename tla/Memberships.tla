---------------------------- MODULE Memberships ----------------------------
(***************************************************************************)
(* Who belongs to a domain.  tenancy serves each request with a read (of   *)
(* the domain, its members, or an invite code), checks in Go on what it    *)
(* read, and one SQL statement that writes - no transaction spans them.    *)
(* A request is therefore two actions: a decision, which leaves a planned  *)
(* write in task[q], and the write itself.  claims-gateway stands between  *)
(* the identity provider and tenancy: it mints the roles a caller acts     *)
(* with, and provisions an account the first time it logs in.              *)
(*                                                                         *)
(* One domain (a root or a subdomain) is enough: no statement touches two. *)
(***************************************************************************)
EXTENDS Naturals

CONSTANTS
  Account,
  Request,      \* requests in flight, over all replicas of tenancy
  Code,         \* invite codes
  NoOne, NoCode,
  InvitedRole,  \* the roles asked for in invitations and codes
  IdPRole,      \* the roles the identity provider assigns
  MaxRequests   \* bound: requests made

Weight == [none |-> 0, standard_customer |-> 10, business_staff |-> 60,
           business_admin |-> 80, admin |-> 100]
Role == {"standard_customer", "business_staff", "business_admin", "admin"}
Via == {"self-idp", "invite", "local"}
Policy == {"open-via-idp", "invite-only"}

ASSUME MembershipsAssumption ==
  /\ NoOne \notin Account /\ NoCode \notin Code
  /\ InvitedRole \subseteq Role /\ IdPRole \subseteq Role
  /\ MaxRequests \in Nat

VARIABLES
  domain,    \* the domain's join policy, or "absent"
  role, via, \* the memberships table: role[a] is "none" without a row
  issued,    \* issued[c]: the role code c grants, or "none"
  expired,   \* codes past their expiry
  redeemer,  \* redeemer[c]: who redeemed c
  claims,    \* claims[a]: the role in the token a's calls carry
  task,      \* task[q]: the write q has decided on
  admitted,  \* history: the accounts c brought in
  asked      \* requests so far

members == <<role, via>>
codes == <<issued, expired, redeemer>>
vars == <<domain, members, codes, claims, task, admitted, asked>>

Write == [write : {"idle", "create", "upsert", "delete"}, account : Account \cup {NoOne},
          role : Role \cup {"none"}, via : Via \cup {"none"},
          by : Role \cup {"none"},  \* the role of the manager who acts on someone else
          code : Code \cup {NoCode}]
Idle == [write |-> "idle", account |-> NoOne, role |-> "none", via |-> "none",
         by |-> "none", code |-> NoCode]

TypeOK ==
  /\ domain \in Policy \cup {"absent"}
  /\ role \in [Account -> Role \cup {"none"}]
  /\ via \in [Account -> Via \cup {"none"}]
  /\ issued \in [Code -> Role \cup {"none"}]
  /\ expired \subseteq Code
  /\ redeemer \in [Code -> Account \cup {NoOne}]
  /\ claims \in [Account -> Role \cup {"none"}]
  /\ task \in [Request -> Write]
  /\ admitted \in [Code -> SUBSET Account]
  /\ asked \in Nat

Nobody(none) == [a \in Account |-> none]

(* Either a new database, or one of a release that did not cap the role of *)
(* a code yet.                                                             *)
Init ==
  /\ \/ /\ domain = "absent"
        /\ role = Nobody("none") /\ via = Nobody("none")
        /\ issued = [c \in Code |-> "none"]
     \/ /\ domain \in Policy
        /\ \E a \in Account :
             /\ role = [Nobody("none") EXCEPT ![a] = "business_admin"]
             /\ via = [Nobody("none") EXCEPT ![a] = "local"]
        /\ issued \in [Code -> {"none", "admin"}]
  /\ expired = {}
  /\ redeemer = [c \in Code |-> NoOne]
  /\ claims = Nobody("none")
  /\ task = [q \in Request |-> Idle]
  /\ admitted = [c \in Code |-> {}]
  /\ asked = 0

Managers == {a \in Account : Weight[role[a]] >= Weight["business_admin"]}
CanManage(actor) == Weight[claims[actor]] >= Weight["business_admin"]
IsLastManager(a) == Managers = {a}
Outranks(r, than) == Weight[r] > Weight[than]
GrantableAny(r) == TRUE  \* mutant: no ceiling
Grantable(r) == Weight[r] <= Weight["business_admin"]

Ask(q) ==
  /\ task[q] = Idle
  /\ asked < MaxRequests
  /\ asked' = asked + 1

Decide(q, write) ==
  /\ task' = [task EXCEPT ![q] = write]
  /\ UNCHANGED <<domain, members, claims, admitted>>

Plan(write, a) == [Idle EXCEPT !.write = write, !.account = a]
PlanUpsert(a, r, v) == [Plan("upsert", a) EXCEPT !.role = r, !.via = v]

-----------------------------------------------------------------------------
(* Decisions *)

(* The name is free when looked up.  A user who founds a root domain will  *)
(* manage it; the provisioner's domains and subdomains are created for no  *)
(* one.                                                                    *)
Create(q, a) ==
  /\ Ask(q)
  /\ domain = "absent"
  /\ Decide(q, Plan("create", a))
  /\ UNCHANGED codes

JoinOpen == domain = "open-via-idp"

SelfJoin(q, a) ==
  /\ Ask(q)
  /\ domain # "absent" /\ JoinOpen
  /\ Decide(q, PlanUpsert(a, "standard_customer", "self-idp"))
  /\ UNCHANGED codes

(* claims-gateway found no membership and asks tenancy for one. *)
FirstLogin(q, a) ==
  /\ Ask(q)
  /\ role[a] = "none"
  /\ domain # "absent" /\ JoinOpen
  /\ \E r \in IdPRole : Decide(q, PlanUpsert(a, r, "self-idp"))
  /\ UNCHANGED codes

DemotesUnchecked(a, r) == FALSE  \* mutant: only removals look for the last manager
DemotesLastManager(a, r) ==
  IsLastManager(a) /\ Weight[r] < Weight["business_admin"]

Invite(q, actor, a, r) ==
  /\ Ask(q)
  /\ CanManage(actor)
  /\ Grantable(r)
  /\ ~Outranks(role[a], claims[actor])
  /\ ~DemotesLastManager(a, r)
  /\ Decide(q, [PlanUpsert(a, r, "invite") EXCEPT !.by = claims[actor]])
  /\ UNCHANGED codes

Leave(q, a) ==
  /\ Ask(q)
  /\ domain # "absent" /\ ~IsLastManager(a)
  /\ Decide(q, Plan("delete", a))
  /\ UNCHANGED codes

RemovableAny(actor, a) == TRUE  \* mutant: rank is not compared
Removable(actor, a) == ~Outranks(role[a], claims[actor])
Remove(q, actor, a) ==
  /\ Ask(q)
  /\ actor # a /\ CanManage(actor)
  /\ Removable(actor, a)
  /\ ~IsLastManager(a)
  /\ Decide(q, [Plan("delete", a) EXCEPT !.by = claims[actor]])
  /\ UNCHANGED codes

(* One insert, and nothing left to do. *)
CreateInviteCode(q, actor, c, r) ==
  /\ Ask(q)
  /\ CanManage(actor) /\ Grantable(r)
  /\ issued[c] = "none"
  /\ issued' = [issued EXCEPT ![c] = r]
  /\ Decide(q, Idle)
  /\ UNCHANGED <<expired, redeemer>>

Redeemable(c) == issued[c] # "none" /\ c \notin expired /\ redeemer[c] = NoOne

Spend(c, a) == redeemer' = [redeemer EXCEPT ![c] = a]

(* The code is spent first, in one statement; its role is looked at after, *)
(* and the membership is a second statement.                               *)
RedeemInviteCode(q, a, c) ==
  /\ Ask(q)
  /\ Redeemable(c)
  /\ Spend(c, a)
  /\ Decide(q, IF Grantable(issued[c])
               THEN [PlanUpsert(a, issued[c], "invite") EXCEPT !.code = c]
               ELSE Idle)
  /\ UNCHANGED <<issued, expired>>

-----------------------------------------------------------------------------
(* Writes *)

Done(q) == task' = [task EXCEPT ![q] = Idle]

(* The unique name decides between two creators: the later one is told the *)
(* name is taken.  A user's domain goes on to the founder's membership.    *)
NameFree == domain = "absent"
InsertDomain(q) ==
  /\ task[q].write = "create"
  /\ IF NameFree
     THEN /\ domain' \in Policy
          /\ IF task[q].account = NoOne
             THEN Done(q)
             ELSE task' = [task EXCEPT ![q] =
                             PlanUpsert(task[q].account, "business_admin", "local")]
     ELSE Done(q) /\ UNCHANGED domain
  /\ UNCHANGED <<members, codes, claims, admitted, asked>>

UpsertMembership(q) ==
  /\ task[q].write = "upsert"
  /\ role' = [role EXCEPT ![task[q].account] = task[q].role]
  /\ via' = [via EXCEPT ![task[q].account] = task[q].via]
  /\ admitted' = IF task[q].code = NoCode THEN admitted
                 ELSE [admitted EXCEPT ![task[q].code] = @ \cup {task[q].account}]
  /\ Done(q)
  /\ UNCHANGED <<domain, codes, claims, asked>>

DeleteMembership(q) ==
  /\ task[q].write = "delete"
  /\ role' = [role EXCEPT ![task[q].account] = "none"]
  /\ via' = [via EXCEPT ![task[q].account] = "none"]
  /\ Done(q)
  /\ UNCHANGED <<domain, codes, claims, admitted, asked>>

(* The statement errs, or the process stops before it. *)
Lost(q) ==
  /\ task[q] # Idle
  /\ Done(q)
  /\ UNCHANGED <<domain, members, codes, claims, admitted, asked>>

-----------------------------------------------------------------------------
(* A login or a refresh: until the next one, the account acts with this    *)
(* role, whatever becomes of its membership.                               *)
MintClaims(a) ==
  /\ claims' = [claims EXCEPT ![a] = role[a]]
  /\ UNCHANGED <<domain, members, codes, task, admitted, asked>>

Expire(c) ==
  /\ issued[c] # "none" /\ c \notin expired
  /\ expired' = expired \cup {c}
  /\ UNCHANGED <<domain, members, issued, redeemer, claims, task, admitted, asked>>

DecideStep(q) ==
  \/ \E a \in Account \cup {NoOne} : Create(q, a)
  \/ \E a \in Account : SelfJoin(q, a) \/ FirstLogin(q, a) \/ Leave(q, a)
  \/ \E actor, a \in Account :
       Remove(q, actor, a) \/ \E r \in InvitedRole : Invite(q, actor, a, r)
  \/ \E a \in Account, c \in Code :
       RedeemInviteCode(q, a, c) \/ \E r \in InvitedRole : CreateInviteCode(q, a, c, r)

WriteStep(q) == InsertDomain(q) \/ UpsertMembership(q) \/ DeleteMembership(q)

Next ==
  \/ \E q \in Request : DecideStep(q) \/ WriteStep(q) \/ Lost(q)
  \/ \E a \in Account : MintClaims(a)
  \/ \E c \in Code : Expire(c)

Spec == Init /\ [][Next]_vars

-----------------------------------------------------------------------------
(* What is needed, beyond the properties below, to prove them: see module  *)
(* MembershipsProofs.                                                      *)

(* Nothing refers to a domain that does not exist. *)
AbsentInv ==
  domain = "absent" =>
    /\ \A a \in Account : role[a] = "none" /\ via[a] = "none" /\ claims[a] = "none"
    /\ \A c \in Code : issued[c] = "none"
    /\ \A q \in Request : task[q].write # "upsert"

Upserts(q, v) == task[q].write = "upsert" /\ task[q].via = v

PlanOK(q) ==
  /\ task[q].write \in {"upsert", "delete"} => task[q].account \in Account
  /\ task[q].write = "upsert" =>
       /\ task[q].role \in Role /\ task[q].via \in Via
       /\ task[q].role = "admin" => task[q].via = "self-idp"
       /\ task[q].via = "self-idp" => domain = "open-via-idp"
       /\ task[q].code # NoCode => redeemer[task[q].code] = task[q].account
  /\ Upserts(q, "local") =>
       /\ \A a \in Account : via[a] # "local"
       /\ \A p \in Request : Upserts(p, "local") => p = q

PlansOK == \A q \in Request : PlanOK(q)

MembersInv ==
  /\ \A a \in Account : via[a] = "self-idp" => domain = "open-via-idp"
  /\ \A c \in Code : \A a \in admitted[c] : a = redeemer[c]

-----------------------------------------------------------------------------
(* "No route a user can reach hands out admin": it only comes from the     *)
(* identity provider, even while codes of an older release are around.     *)
AdminComesFromTheIdP ==
  \A a \in Account : role[a] = "admin" => via[a] = "self-idp"

(* Nobody walks into an invite-only domain. *)
InviteOnlyIsInviteOnly ==
  domain = "invite-only" => \A a \in Account : via[a] # "self-idp"

(* "Two people racing to redeem the same code must not both succeed", now  *)
(* or later.                                                               *)
CodeAdmitsOne ==
  \A c \in Code : \A a, b \in admitted[c] : a = b

(* Of two users creating a domain of one name at once, one becomes its     *)
(* manager.                                                                *)
OneFounder ==
  \A a, b \in Account : via[a] = "local" /\ via[b] = "local" => a = b
=============================================================================
