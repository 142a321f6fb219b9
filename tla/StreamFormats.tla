---------------------------- MODULE StreamFormats ----------------------------
(* kiro/streaming_anthropic.py and kiro/streaming_openai.py: how unified   *)
(* events become server-sent events.  A converter is the record of the     *)
(* generator's local variables; out is what it has yet to yield.  The item *)
(* "save" stands for the place where truncations are saved.                *)
EXTENDS KiroStream

None == -1

NewConverter ==
    [next |-> 0, thinkingAt |-> None, textAt |-> None, first |-> TRUE,
     full |-> <<>>, calls |-> <<>>, complete |-> FALSE, out |-> <<>>]

Emit(conv, item) == [conv EXCEPT !.out = Append(@, item)]

Save(calls, text) ==
    [type |-> "save",
     calls |-> {calls[i].id : i \in {j \in DOMAIN calls : calls[j].truncated}},
     text |-> text]

(* Completion signals are missing, and no tool call hides it.              *)
TextCut(conv) == ~conv.complete /\ conv.full # <<>> /\ conv.calls = <<>>
CutText(conv) == IF TextCut(conv) THEN conv.full ELSE <<>>
-----------------------------------------------------------------------------
(* Anthropic: blocks with an index                                         *)

MessageStart == [type |-> "message_start"]
Start(index, block, call) ==
    [type |-> "content_block_start", index |-> index, block |-> block, call |-> call]
Delta(index, text) == [type |-> "content_block_delta", index |-> index, text |-> text]
Stop(index) == [type |-> "content_block_stop", index |-> index]
ErrorEvent == [type |-> "error"]

CloseThinking(conv) ==
    IF conv.thinkingAt = None THEN conv
    ELSE [Emit(conv, Stop(conv.thinkingAt)) EXCEPT !.thinkingAt = None, !.next = @ + 1]

CloseText(conv) ==
    IF conv.textAt = None THEN conv
    ELSE [Emit(conv, Stop(conv.textAt)) EXCEPT !.textAt = None, !.next = @ + 1]

OpenText(conv) ==
    IF conv.textAt # None THEN conv
    ELSE [Emit(conv, Start(conv.next, "text", NoCall)) EXCEPT !.textAt = conv.next]

OpenThinking(conv) ==
    IF conv.thinkingAt # None THEN conv
    ELSE [Emit(conv, Start(conv.next, "thinking", NoCall)) EXCEPT !.thinkingAt = conv.next]

AnthropicContent(conv, text) ==
    LET opened == OpenText(CloseThinking(conv))
    IN [Emit(opened, Delta(opened.textAt, text)) EXCEPT !.full = @ \o text]

(* Any other handling mode drops the thinking.                             *)
AnthropicThinking(mode, conv, text) ==
    IF mode # "as_reasoning_content" THEN conv
    ELSE LET opened == OpenThinking(conv)
         IN Emit(opened, Delta(opened.thinkingAt, text))

(* Defect: a text block stays open when a call comes.                      *)
AnthropicToolOverText(conv, call) ==
    LET c == CloseThinking(conv)
    IN [c EXCEPT !.out = @ \o <<Start(c.next, "tool_use", call), Delta(c.next, call.args), Stop(c.next)>>,
                 !.calls = Append(@, call),
                 !.next = @ + 1]

(* A block of its own for each call, all of its input in one delta.        *)
AnthropicTool(conv, call) ==
    LET c == CloseText(CloseThinking(conv))
    IN [c EXCEPT !.out = @ \o <<Start(c.next, "tool_use", call), Delta(c.next, call.args), Stop(c.next)>>,
                 !.calls = Append(@, call),
                 !.next = @ + 1]

AnthropicStep(mode, conv, event) ==
    IF event.type = "content" THEN AnthropicContent(conv, event.text)
    ELSE IF event.type = "thinking" THEN AnthropicThinking(mode, conv, event.text)
    ELSE IF event.type = "tool_use" THEN AnthropicTool(conv, event.call)
    ELSE IF event.type = "context_usage" THEN [conv EXCEPT !.complete = TRUE]
    ELSE conv

(* After the last event: calls written in the text, the blocks still open, *)
(* the end of the message, and the truncations after it.                   *)
AnthropicEnd(conv) ==
    LET tools == ForEach(AnthropicTool, conv, ParseBracketToolCalls(conv.full))
        closed == CloseText(CloseThinking(tools))
    IN [closed EXCEPT !.out = @ \o
           <<[type |-> "message_delta",
              reason |-> IF closed.calls = <<>> THEN "end_turn" ELSE "tool_use"],
             [type |-> "message_stop"],
             Save(closed.calls, CutText(closed))>>]
-----------------------------------------------------------------------------
(* OpenAI: chunks with a delta                                             *)

(* Defect: every chunk names the role.                                     *)
ChunkWithRole(conv, field, text) ==
    Emit(conv, [type |-> "chunk", field |-> field, text |-> text, role |-> conv.first])

Chunk(conv, field, text) ==
    [Emit(conv, [type |-> "chunk", field |-> field, text |-> text, role |-> conv.first])
        EXCEPT !.first = FALSE]

OpenAIStep(mode, conv, event) ==
    IF event.type = "content"
    THEN [Chunk(conv, "content", event.text) EXCEPT !.full = @ \o event.text]
    ELSE IF event.type = "thinking"
    THEN Chunk(conv, IF mode = "as_reasoning_content" THEN "reasoning_content"
                                                     ELSE "content", event.text)
    ELSE IF event.type = "tool_use" THEN [conv EXCEPT !.calls = Append(@, event.call)]
    ELSE IF event.type \in {"usage", "context_usage"} THEN [conv EXCEPT !.complete = TRUE]
    ELSE conv

(* Defect: calls written in the text are not looked for.                   *)
OnlyKiroCalls(conv) == DeduplicateToolCalls(conv.calls)

AllCalls(conv) ==
    DeduplicateToolCalls(conv.calls \o ParseBracketToolCalls(conv.full))

OpenAIEnd(conv) ==
    LET calls == AllCalls(conv)
        c == [conv EXCEPT !.calls = calls]
    IN [c EXCEPT !.out = @
           \o (IF calls = <<>> THEN <<>> ELSE <<[type |-> "tool_calls", calls |-> calls]>>)
           \o <<Save(calls, CutText(c)),
                [type |-> "final", reason |-> IF calls = <<>> THEN "stop" ELSE "tool_calls"],
                [type |-> "done"]>>]
-----------------------------------------------------------------------------
Step(format, mode, conv, event) ==
    IF format = "anthropic" THEN AnthropicStep(mode, conv, event)
                            ELSE OpenAIStep(mode, conv, event)

Steps(format, mode, conv, events) ==
    LET step(c, event) == Step(format, mode, c, event) IN ForEach(step, conv, events)

End(format, conv) ==
    IF format = "anthropic" THEN AnthropicEnd(conv) ELSE OpenAIEnd(conv)
=============================================================================
