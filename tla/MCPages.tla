------------------------------- MODULE MCPages -------------------------------
(***************************************************************************)
(* An instance of Conversations and of Live for TLC: what a page shows of  *)
(* the answers and of the readings that stream to it.  The services share  *)
(* nothing, so in each behaviour one of them moves and the other one stays *)
(* as it began.                                                            *)
(***************************************************************************)
EXTENDS Naturals, TLC

CONSTANTS
  Ask, MAX_TOOL_HOPS, MAX_MESSAGES, Untitled, Chosen,
  MaxAtOnce,        \* bound: questions being answered at once
  MaxTogether,      \* bound: what befalls a page and its readings
  MAX_READINGS, MAX_TRIES, MAX_CONNECTIONS, MAX_VISITS, MAX_REDIS_BREAKS, MAX_RESTARTS

VARIABLES
  run, there, title, kept, exchange, page, busiest,
  ingest, tries, stored, listening, prefs, tasks, relaying, online, join, wire,
  open, shown, error, fetches, since, overtaken, connections, visits, breaks, restarts,
  moves        \* which of the two does

Chat == INSTANCE Conversations
Readings == INSTANCE Live WITH up <- online

ASSUME PagesHold ==
  /\ Chat!AgentAssumption /\ Chat!ConversationsAssumption
  /\ Readings!LiveAssumption

chatVars == <<run, there, title, kept, exchange, page, busiest>>

readingVars ==
  <<ingest, tries, stored, listening, prefs, tasks, relaying, online, join, wire,
    open, shown, error, fetches, since, overtaken, connections, visits, breaks, restarts>>

AskSymmetry == Permutations(Ask)

PagesInit ==
  /\ Chat!Init /\ Readings!Init
  /\ \/ moves = "conversation" /\ prefs = "shows"
     \/ moves = "readings" /\ title = Untitled

PagesNext ==
  \/ /\ moves = "conversation" /\ Chat!Next /\ UNCHANGED <<readingVars, moves>>
     /\ busiest' <= MaxAtOnce
  \/ /\ moves = "readings" /\ Readings!Next /\ UNCHANGED <<chatVars, moves>>
     /\ connections' + visits' + breaks' + restarts' <= MaxTogether

PagesSpec == PagesInit /\ [][PagesNext]_<<chatVars, readingVars, moves>>

(* A conversation outgrows its cap only by the questions that were being   *)
(* answered along with the last one that still found room.                 *)
BoundedOverrun == Chat!BoundedOverrun

(* chat.qd: "no truncated answer, no half-applied title": what is kept is  *)
(* what the agent settled on, once, and is what a complete page shows.     *)
KeptIsWhole == Chat!KeptIsWhole

(* acceptance-criteria.qd, LD-4: a reading ingested while the connection   *)
(* was lost is shown once it is restored, or the page says that it could   *)
(* not be fetched.                                                         *)
OutageRecovered == Readings!OutageRecovered
=============================================================================
