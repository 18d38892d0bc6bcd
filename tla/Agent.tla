------------------------------- MODULE Agent --------------------------------
(***************************************************************************)
(* agent: the tool loop that answers a question.  The model speaks as it   *)
(* thinks, turn by turn: what it says before it calls tools is no part of  *)
(* the answer, nor are the citations it made up, but all of it has been    *)
(* streamed by the time the terminal event names the answer.               *)
(*                                                                         *)
(* Of a text only the turns it comes from matter, and whether it is a      *)
(* citation that was made up; what the tools find is the model's affair.   *)
(***************************************************************************)
EXTENDS Naturals

CONSTANTS Ask,          \* questions, each asked once
          MAX_TOOL_HOPS

AgentAssumption == MAX_TOOL_HOPS \in Nat \ {0}

VARIABLE run            \* per question: its loop, and what was `said` in the turn under way

Hop == 0 .. MAX_TOOL_HOPS - 1
Delta == Hop \X {"words", "madeUp"}
IDK == {<<MAX_TOOL_HOPS, "words">>}   \* IDK_MARKER, said by no turn

NotAsked == [step |-> "none", hop |-> 0, said |-> {}, answer |-> {}]

AgentInit == run = [a \in Ask |-> NotAsked]

-----------------------------------------------------------------------------
Thinking(a) == run[a].step = "thinking"

StartRun(a) == run' = [run EXCEPT ![a] = [NotAsked EXCEPT !.step = "thinking"]]

(* One delta of the turn under way, streamed at once.                      *)
Says(a, delta) ==
  /\ Thinking(a) /\ delta[1] = run[a].hop /\ delta \notin run[a].said
  /\ run' = [run EXCEPT ![a].said = @ \cup {delta}]

(* The turn ends in tool calls: what they find goes into the next one.     *)
RunToolCalls(a) ==
  /\ Thinking(a) /\ run[a].hop + 1 < MAX_TOOL_HOPS
  /\ run' = [run EXCEPT ![a].hop = @ + 1, ![a].said = {}]

StripHallucinated(text) == {d \in text : d[2] # "madeUp"}

(* The turn is the answer, or it was the last one and called tools again.  *)
Answers(a, answer) ==
  /\ Thinking(a)
  /\ \/ answer = StripHallucinated(run[a].said)
     \/ run[a].hop + 1 = MAX_TOOL_HOPS /\ answer = IDK
  /\ run' = [run EXCEPT ![a] = [NotAsked EXCEPT !.step = "answered", !.answer = answer]]

(* The model, the database or the agent itself fails, or nobody listens.   *)
CutOff(a) ==
  run' = IF Thinking(a) THEN [run EXCEPT ![a] = [NotAsked EXCEPT !.step = "cut"]] ELSE run
=============================================================================
