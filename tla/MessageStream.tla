---------------------------- MODULE MessageStream ----------------------------
(* What a client of the Anthropic streaming format may rely on: a message  *)
(* is a succession of blocks, numbered in order, one open at a time, and   *)
(* its end says whether tools are to be called.  After an error nothing    *)
(* but errors follows.                                                     *)
EXTENDS Integers

VARIABLES stage,    \* "silent", "open", the stop reason, "over" or "failed"
          open,     \* the indexes of the blocks that are open
          next,     \* the index of the next block
          touched,  \* the index the last event was about
          tools     \* a tool block has been started

messageVars == <<stage, open, next, touched, tools>>

Start ==
    stage = "silent" /\ open = {} /\ next = 0 /\ touched = -1 /\ tools = FALSE

Begin ==
    /\ stage = "silent"
    /\ stage' = "open"
    /\ UNCHANGED <<open, next, touched, tools>>

OpenBlock(tool) ==
    /\ stage = "open" /\ open = {}
    /\ open' = {next} /\ next' = next + 1 /\ touched' = next
    /\ tools' = (tools \/ tool)
    /\ UNCHANGED stage

WriteBlock ==
    /\ stage = "open" /\ open # {}
    /\ touched' \in open
    /\ UNCHANGED <<stage, open, next, tools>>

CloseBlock ==
    /\ stage = "open" /\ open # {}
    /\ touched' \in open /\ open' = {}
    /\ UNCHANGED <<stage, next, tools>>

Conclude ==
    /\ stage = "open" /\ open = {}
    /\ stage' = IF tools THEN "tool_use" ELSE "end_turn"
    /\ UNCHANGED <<open, next, touched, tools>>

Finish ==
    /\ stage \in {"tool_use", "end_turn"}
    /\ stage' = "over"
    /\ UNCHANGED <<open, next, touched, tools>>

Fail ==
    /\ stage = "open"
    /\ stage' = "failed"
    /\ UNCHANGED <<open, next, touched, tools>>

Change ==
    \/ Begin \/ WriteBlock \/ CloseBlock \/ Conclude \/ Finish \/ Fail
    \/ \E tool \in BOOLEAN : OpenBlock(tool)

Protocol == Start /\ [][Change]_messageVars
=============================================================================
