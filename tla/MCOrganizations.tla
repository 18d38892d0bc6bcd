-------------------------- MODULE MCOrganizations --------------------------
(***************************************************************************)
(* An instance of Organizations and of Session for TLC: what is decided    *)
(* behind a signup, and what a session learns of it.  They share nothing,  *)
(* so in each behaviour one of them moves and the other stays as it began. *)
(***************************************************************************)
EXTENDS Organizations

CONSTANTS
  Account, NoAccount, InOrganization, Task, KeepAlive, TTL, INTERVAL,
  MAX_CALLS, MAX_CHANGES, MAX_LOST

VARIABLES
  users, held, cookie, account, isHydrated, hydrating, memberships, fetching, timer,
  task, mixed, calls, changes, lost,
  moves        \* which of the two does

Sessions == INSTANCE Session

ASSUME Sessions!SessionAssumption

sessionVars ==
  <<users, held, cookie, account, isHydrated, hydrating, memberships, fetching, timer,
    task, mixed, calls, changes, lost>>

MCInit ==
  /\ Init /\ Sessions!Init
  /\ \/ moves = "organizations" /\ users = Account /\ account = NoAccount
     \/ moves = "session" /\ tier = [o \in Org |-> "pooled"]

MCNext ==
  \/ moves = "organizations" /\ Next /\ UNCHANGED <<sessionVars, moves>>
  \/ moves = "session" /\ Sessions!Next /\ UNCHANGED <<vars, moves>>

(* The fairness of whichever moves.                                        *)
MCFairness ==
  /\ \A p \in Provisioner : WF_vars(moves = "organizations" /\ Work(p))
  /\ WF_sessionVars(moves = "session" /\ Sessions!Tick)
  /\ \A r \in Sessions!Runner :
       /\ WF_sessionVars(moves = "session" /\ Sessions!Serve(r))
       /\ WF_sessionVars(moves = "session" /\ Sessions!Receive(r))

MCSpec == MCInit /\ [][MCNext]_<<vars, sessionVars, moves>> /\ MCFairness

(* Session: a page that stays logged in learns of changed memberships.     *)
ClaimsCatchUp == Sessions!ClaimsCatchUp
=============================================================================
