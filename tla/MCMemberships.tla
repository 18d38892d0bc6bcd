--------------------------- MODULE MCMemberships ---------------------------
(***************************************************************************)
(* An instance of Memberships and of Session for TLC; the .cfg file gives  *)
(* the constants.  Either requests for a domain are made, or a page's      *)
(* session moves, until something may be of another one.                   *)
(*                                                                         *)
(* A request checks what it read and writes later.  Here a history tells   *)
(* which requests can still rely on their check when they write.           *)
(***************************************************************************)
EXTENDS Memberships, TLC

CONSTANTS
  User, InOrganization, Call, KeepAlive, TTL, INTERVAL, MAX_CALLS, MAX_CHANGES, MAX_LOST

VARIABLES
  users, held, cookie, account, isHydrated, hydrating, memberships, fetching, timer,
  call, mixed, calls, changes, lost,
  overtaken,   \* requests whose check no longer says what is stored (history)
  moves        \* requests, or the session

Page == INSTANCE Session WITH Account <- User, NoAccount <- NoOne, Task <- Call, task <- call

ASSUME SessionHolds == Page!SessionAssumption

sessionVars ==
  <<users, held, cookie, account, isHydrated, hydrating, memberships, fetching, timer,
    call, mixed, calls, changes, lost>>

Symmetry == Permutations(Account) \cup Permutations(Request)

Planned(q) == task[q].write \in {"upsert", "delete"}

(* A step overtakes a request that is between its check and its write when *)
(* it changes the row that the request is about, or when the domain loses  *)
(* one of the managers that the request counted.                           *)
Overtakes(q) ==
  /\ Planned(q)
  /\ role'[task[q].account] # role[task[q].account] \/ ~(Managers \subseteq Managers')

Waits(q) == task[q] # Idle

MCInit ==
  /\ Init /\ Page!Init
  /\ overtaken = {}
  /\ moves \in {"requests", "session"}
  /\ IF moves = "session" THEN domain = "absent" ELSE account = NoOne /\ users = User

MCNext ==
  \/ /\ moves = "requests" /\ Next /\ UNCHANGED <<sessionVars, moves>>
     /\ overtaken' = {q \in Request : Waits(q) /\ Waits(q)' /\ (q \in overtaken \/ Overtakes(q))}
  \/ /\ moves = "session" /\ ~mixed /\ Page!Next
     /\ UNCHANGED <<vars, overtaken, moves>>

allVars == <<vars, sessionVars, overtaken, moves>>

MCSpec == MCInit /\ [][MCNext]_allVars

Applies(q) == Planned(q) /\ members' # members /\ ~Waits(q)'

(* A join, or a code, that takes the place of a better role.               *)
LowersItself(write) ==
  /\ write.write = "upsert" /\ write.by = "none"
  /\ Weight[write.role] < Weight[role[write.account]]

(* "Guards against a domain being left with no administrator at all": what *)
(* leaves, removals and invitations look for.  A domain loses its last     *)
(* manager through none of them, unless it was overtaken; but it does when *)
(* that manager joins again or redeems a code, which are not guarded.      *)
LastManagerGuarded ==
  [][Managers # {} /\ Managers' = {} =>
       \E q \in Request :
         Applies(q) /\ (LowersItself(task[q]) \/ q \in overtaken)]_<<vars, overtaken>>

(* Refuted, kept as a statement: it speaks of overtaken requests and of    *)
(* joins, too.                                                             *)
StaysManaged == [][Managers # {} => Managers' # {}]_vars

(* "A manager cannot change or remove a member whose role weight is above  *)
(* their own", though their own is the one of an older token, unless the   *)
(* request was overtaken.                                                  *)
RankRespected ==
  [][\A q \in Request : Applies(q) /\ task[q].by # "none" =>
       q \in overtaken \/ ~Outranks(role[task[q].account], task[q].by)]_<<vars, overtaken>>

(* Session: unless requests overlapped a login or a logout, one was lost,  *)
(* or a session ended by itself, what a page shows and what it sends is of *)
(* the account it is logged in as.                                         *)
PageIsOnesOwn == Page!PageIsOnesOwn
=============================================================================
