---------------------------- MODULE Conversations ---------------------------
(***************************************************************************)
(* chat: one conversation of one user, who may have it open in several     *)
(* tabs.  A question is admitted by what the conversation holds when it is *)
(* asked; its answer streams from the agent through chat to the page, and  *)
(* the exchange is appended when the answer is complete.                   *)
(*                                                                         *)
(* A frame passes from the agent to the page in one step: whoever is cut   *)
(* off in between has not got it.  The keys of the user's conversations    *)
(* are never used again, so a conversation that is deleted is gone.        *)
(***************************************************************************)
EXTENDS Agent, Sequences, FiniteSets, Functions

CONSTANTS MAX_MESSAGES, Untitled, Chosen  \* DEFAULT_TITLE, and a title the user typed

ConversationsAssumption ==
  /\ MAX_MESSAGES \in Nat
  /\ Untitled \notin Ask /\ Chosen \notin Ask /\ Untitled # Chosen

VARIABLES
  there,      \* whether the conversation is stored
  title,      \* its title: one of the questions, once it is named after it
  kept,       \* its exchanges, in order, or those it had when it was deleted
  exchange,   \* per question: what send_message is doing
  page,       \* per question: what the reader sees
  busiest     \* most questions that were being answered at once (history)

storeVars == <<there, title, kept>>
vars == <<run, storeVars, exchange, page, busiest>>

Text == (SUBSET Delta) \cup {IDK}
NotSent == [step |-> "none", text |-> {}, newTitle |-> FALSE]

Init ==
  /\ AgentInit
  /\ there = TRUE /\ title \in {Untitled, Chosen} /\ kept = <<>>
  /\ exchange = [a \in Ask |-> NotSent]
  /\ page = [a \in Ask |-> [state |-> "empty", text |-> {}]]
  /\ busiest = 0

Max2(m, n) == IF m < n THEN n ELSE m
UnderWay == {a \in Ask : exchange[a].step \in {"admitted", "streaming", "persisting"}}

-----------------------------------------------------------------------------
Rename(new) ==
  /\ there /\ title' = new
  /\ UNCHANGED <<run, there, kept, exchange, page, busiest>>

Delete ==
  /\ there /\ there' = FALSE
  /\ UNCHANGED <<run, title, kept, exchange, page, busiest>>

RoomBefore == 2 * Len(kept) <= MAX_MESSAGES  \* mutant: forgets the two to come
HasRoomForExchange == 2 * Len(kept) + 2 <= MAX_MESSAGES
NamesIt == title = Untitled /\ kept = <<>>

(* The page shows the question, and chat looks whether there is room.      *)
Admit(a) ==
  /\ exchange[a].step = "none"
  /\ there /\ HasRoomForExchange
  /\ exchange' = [exchange EXCEPT ![a] = [NotSent EXCEPT !.step = "admitted", !.newTitle = NamesIt]]
  /\ page' = [page EXCEPT ![a].state = "streaming"]
  /\ busiest' = Max2(busiest, Cardinality(UnderWay) + 1)
  /\ UNCHANGED <<run, storeVars>>

(* No conversation, or no room in it: 404 or 409.                          *)
Refuse(a) ==
  /\ exchange[a].step = "none"
  /\ ~(there /\ HasRoomForExchange)
  /\ exchange' = [exchange EXCEPT ![a].step = "ended"]
  /\ page' = [page EXCEPT ![a].state = "discarded"]
  /\ UNCHANGED <<run, storeVars, busiest>>

AskAgent(a) ==
  /\ exchange[a].step = "admitted"
  /\ StartRun(a)
  /\ exchange' = [exchange EXCEPT ![a].step = "streaming"]
  /\ UNCHANGED <<storeVars, page, busiest>>

ReceiveToken(a, delta) ==
  /\ exchange[a].step = "streaming" /\ Says(a, delta)
  /\ exchange' = [exchange EXCEPT ![a].text = @ \cup {delta}]
  /\ page' = [page EXCEPT ![a].text = @ \cup {delta}]
  /\ UNCHANGED <<storeVars, busiest>>

ToolHop(a) ==
  /\ RunToolCalls(a)
  /\ UNCHANGED <<storeVars, exchange, page, busiest>>

TokensOnly(tokens, answer) == tokens  \* mutant: keeps what was streamed
FinalText(tokens, answer) == answer

ReceiveDone(a) ==
  /\ exchange[a].step = "streaming"
  /\ \E answer \in Text :
       /\ Answers(a, answer)
       /\ exchange' = [exchange EXCEPT ![a].step = "persisting",
                                       ![a].text = FinalText(@, answer)]
  /\ UNCHANGED <<storeVars, page, busiest>>

(* append_exchange: both messages and the title in one update.             *)
Append2(a) ==
  /\ kept' = Append(kept, [by |-> a, text |-> exchange[a].text])
  /\ title' = IF exchange[a].newTitle THEN a ELSE title
  /\ UNCHANGED there

End(a) == exchange' = [exchange EXCEPT ![a] = [NotSent EXCEPT !.step = "ended"]]
Discard(a) == page' = [page EXCEPT ![a].state = "discarded", ![a].text = {}]
ShowDone(a) == page' = [page EXCEPT ![a].state = "complete", ![a].text = exchange[a].text]

Persist(a) ==
  /\ exchange[a].step = "persisting"
  /\ IF there THEN Append2(a) /\ ShowDone(a)
     ELSE UNCHANGED storeVars /\ Discard(a)
  /\ End(a)
  /\ UNCHANGED <<run, busiest>>

(* The stream stops: the agent fails or cannot be reached, the reader      *)
(* leaves, chat restarts, or the database fails, which may be after the    *)
(* update.                                                                 *)
Applied(a) == exchange[a].step = "persisting" /\ there /\ Append2(a)

BreakOff(a) ==
  /\ a \in UnderWay
  /\ Applied(a) \/ UNCHANGED storeVars
  /\ CutOff(a) /\ End(a) /\ Discard(a)
  /\ UNCHANGED busiest

Next ==
  \/ \E new \in {Untitled, Chosen} : Rename(new)
  \/ Delete
  \/ \E a \in Ask :
       \/ Admit(a) \/ Refuse(a) \/ AskAgent(a) \/ ToolHop(a)
       \/ \E delta \in Delta : ReceiveToken(a, delta)
       \/ ReceiveDone(a) \/ Persist(a) \/ BreakOff(a)

Spec == Init /\ [][Next]_vars

-----------------------------------------------------------------------------
(* A conversation outgrows its cap only by the questions that were being   *)
(* answered along with the last one that still found room.                 *)
BoundedOverrun ==
  2 * Len(kept) <= MAX_MESSAGES + 2 * Max2(0, busiest - 1)

(* chat.qd: "no truncated answer, no half-applied title": what is kept is  *)
(* the answer that the agent settled on, once; a page that says it has the *)
(* answer shows what is kept; and a title comes with its exchange.         *)
KeptIsWhole ==
  /\ \A i \in DOMAIN kept :
       /\ run[kept[i].by].step = "answered" /\ kept[i].text = run[kept[i].by].answer
       /\ \A j \in DOMAIN kept : kept[j].by = kept[i].by => j = i
  /\ \A a \in Ask : page[a].state = "complete" => [by |-> a, text |-> page[a].text] \in Range(kept)
  /\ title \in Ask => \E i \in DOMAIN kept : kept[i].by = title
=============================================================================
