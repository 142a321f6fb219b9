-------------------------- MODULE StreamProperties --------------------------
(* What a response through kiro-gateway promises its client, in terms of   *)
(* the events received from Kiro and those sent on.                        *)
EXTENDS GatewayStream

SentAt(types) == {i \in DOMAIN sent : sent[i].type \in types}
LatestOf(types) == sent[Max(SentAt(types))]
Finished == SentAt({"message_stop", "final"}) # {}

(* Anthropic: the deltas of the blocks of a kind, joined.                  *)
BlocksAt == SentAt({"content_block_start"})
IsBlock(index, kind) ==
    \E i \in BlocksAt : sent[i].index = index /\ sent[i].block = kind

SentTo(kind) ==
    LET texts == [i \in DOMAIN sent |->
            IF format = "anthropic"
            THEN IF sent[i].type = "content_block_delta" /\ IsBlock(sent[i].index, kind)
                 THEN sent[i].text ELSE <<>>
            ELSE IF sent[i].type = "chunk" /\ sent[i].field = kind
                 THEN sent[i].text ELSE <<>>]
    IN FlattenSeq(texts)

SentContent == SentTo(IF format = "anthropic" THEN "text" ELSE "content")
SentThinking == SentTo(IF format = "anthropic" THEN "thinking" ELSE "reasoning_content")

SentCalls ==
    IF format = "anthropic"
    THEN FlattenSeq([i \in DOMAIN sent |->
             IF i \in BlocksAt /\ sent[i].block = "tool_use" THEN <<sent[i].call>> ELSE <<>>])
    ELSE FlattenSeq([i \in DOMAIN sent |->
             IF sent[i].type = "tool_calls" THEN sent[i].calls ELSE <<>>])
-----------------------------------------------------------------------------
(* The text of the response: an event that repeats the one before it does  *)
(* not count.                                                              *)
Contents == SelectSeq(received, LAMBDA event : event.kind = "content")
Text ==
    FlattenSeq([i \in DOMAIN Contents |->
                   IF i > 1 /\ Contents[i].text = Contents[i - 1].text
                   THEN <<>> ELSE Contents[i].text])

(* The calls Kiro has started.                                             *)
KiroCalls ==
    [id \in 1..Cardinality(CallIds(received)) |->
        [id |-> id, name |-> received[StartOf(received, id)].name,
         args |-> InputOf(received, id)]]

IsCut(args) == args # <<>> /\ args \notin ValidArguments
Effective(call) == IF call.args \in ValidArguments THEN call.args ELSE EmptyObject

(* Two calls of the same tool with the same arguments count as one.        *)
Unrepeated(i) ==
    \A j \in DOMAIN KiroCalls :
        j < i => \/ KiroCalls[j].name # KiroCalls[i].name
                 \/ Effective(KiroCalls[j]) # Effective(KiroCalls[i])
-----------------------------------------------------------------------------
(* The types of the variables that are not sequences of parts; of the      *)
(* blocks that the Anthropic converter takes for open, each is the one it  *)
(* has numbered last, and there is one at most.                            *)
TypeOK ==
    /\ format \in Formats /\ mode \in HandlingModes
    /\ phase \in {"waiting", "reading", "ending", "failed", "closed", "left"}
    /\ parsing.thinking.state \in {"pre_content", "in_thinking", "streaming"}
    /\ response \in {"open", "closed"}
    /\ Len(received) <= MaxEvents
    /\ conv.thinkingAt \in {None, conv.next} /\ conv.textAt \in {None, conv.next}
    /\ None \in {conv.thinkingAt, conv.textAt}

(* The Anthropic stream is a message: blocks are numbered without a gap,   *)
(* one is open at a time, deltas go to the open one, an end comes when all *)
(* are closed and names the right reason, and errors end it.  It depends   *)
(* on the order in which the parsers let thinking, text and calls out.     *)
StartedIndexes == {sent[i].index : i \in BlocksAt}
StoppedIndexes == {sent[i].index : i \in SentAt({"content_block_stop"})}

MappedStage ==
    IF format # "anthropic" \/ sent = <<>> THEN "silent"
    ELSE IF SentAt({"error"}) # {} THEN "failed"
    ELSE IF SentAt({"message_stop"}) # {} THEN "over"
    ELSE IF SentAt({"message_delta"}) # {} THEN LatestOf({"message_delta"}).reason
    ELSE "open"

Touching == {"content_block_start", "content_block_delta", "content_block_stop"}

IsAnthropic == format = "anthropic"

Message == INSTANCE MessageStream WITH
    stage <- MappedStage,
    open <- StartedIndexes \ StoppedIndexes,
    next <- Cardinality(BlocksAt),
    touched <- IF SentAt(Touching) # {} THEN LatestOf(Touching).index ELSE -1,
    tools <- \E i \in BlocksAt : sent[i].block = "tool_use"

BlockProtocol == Message!Protocol

(* The OpenAI stream is chunks of text, of which the first and no other    *)
(* names the role, then at most one chunk with all the calls, then the     *)
(* final chunk with the right reason, then [DONE], which comes in any      *)
(* case and last.                                                          *)
Rank(item) ==
    IF item.type = "chunk" THEN 1 ELSE IF item.type = "tool_calls" THEN 2
    ELSE IF item.type = "final" THEN 3 ELSE 4

ChunkProtocol ==
    format = "openai" =>
        /\ \A i, j \in DOMAIN sent : i < j => Rank(sent[i]) <= Rank(sent[j])
        /\ \A i \in DOMAIN sent : sent[i].type = "chunk" => (sent[i].role <=> i = 1)
        /\ \A i, j \in DOMAIN sent : i < j /\ sent[i].type # "chunk" => sent[i].type # sent[j].type
        /\ \A i \in DOMAIN sent :
               sent[i].type = "final" =>
                   (sent[i].reason = "tool_calls" <=>
                       \E j \in SentAt({"tool_calls"}) : sent[j].calls # <<>>)
        /\ phase = "closed" => Last(sent).type = "done"

(* A client that is served to the end has the answer and the thinking of   *)
(* the whole response, wherever the chunks cut it: nothing twice, nothing  *)
(* missing but the thinking that its mode removes and the space after it.  *)
(* Of the thinking that belongs into the content (pass, strip_tags) an     *)
(* Anthropic client gets all or nothing; PassedOn says what it should get. *)
BesideThinking(shown) ==
    {LStrip(shown \o AnswerOf(Text)), LStrip(shown \o LStrip(AnswerOf(Text)))}

TextComplete ==
    Finished =>
        /\ SentThinking = IF mode = "as_reasoning_content" THEN ThoughtOf(Text) ELSE <<>>
        /\ LStrip(SentContent) \in
               IF mode \in {"as_reasoning_content", "remove"} THEN BesideThinking(<<>>)
               ELSE BesideThinking(Shown(mode, Text))
                    \cup (IF IsAnthropic THEN BesideThinking(<<>>) ELSE {})

(* "pass": Pass through as-is with original tags in content                *)
(* (kiro-gateway's config.py:424); "strip_tags": remove the tags but keep  *)
(* thinking content in regular content (config.py:425).                    *)
PassedOn ==
    Finished /\ mode \in {"pass", "strip_tags"} =>
        LStrip(SentContent) \in BesideThinking(Shown(mode, Text))

(* Each call that Kiro starts is delivered once, be it stopped, started    *)
(* over by the next one or never ended: with the input of all its pieces   *)
(* and of no other call's, or with none when it was cut.  Beside these     *)
(* only calls written in the text are.                                     *)
CallsDelivered ==
    Finished =>
        /\ \A i \in DOMAIN KiroCalls :
               Unrepeated(i) =>
                   Len(SelectSeq(SentCalls, LAMBDA call :
                           /\ call.id = KiroCalls[i].id /\ call.name = KiroCalls[i].name
                           /\ call.args = Effective(KiroCalls[i]))) = 1
        /\ \A i \in DOMAIN SentCalls :
               \/ \E j \in DOMAIN KiroCalls : KiroCalls[j].id = SentCalls[i].id
               \/ SentCalls[i].id < 0 /\ \E k \in DOMAIN Text : Text[k] \in DOMAIN Heads

(* A truncation is saved for just the calls delivered with their input cut *)
(* off, and for a text only when nothing said that it was complete; for    *)
(* OpenAI it is saved before the client is told of the end, so that its    *)
(* next request finds it; for Anthropic after it, so that one who leaves   *)
(* in between is never told.                                               *)
ThinkingApart == IsAnthropic \/ mode \in {"as_reasoning_content", "remove"}

NoticesDue == IF IsAnthropic THEN Finished /\ phase = "closed" ELSE Finished

CutsNoticed ==
    /\ NoticesDue =>
           \A i \in DOMAIN SentCalls, j \in DOMAIN KiroCalls :
               SentCalls[i].id = KiroCalls[j].id /\ IsCut(KiroCalls[j].args)
                   => [id |-> KiroCalls[j].id] \in saved
    /\ NoticesDue /\ LStrip(AnswerOf(Text)) # <<>> /\ SentCalls = <<>>
           /\ ~Has("usage", received) /\ ~Has("context_usage", received)
               => \E cut \in saved : "content" \in DOMAIN cut
    /\ \A cut \in saved :
           IF "id" \in DOMAIN cut
           THEN \E j \in DOMAIN KiroCalls :
                    KiroCalls[j].id = cut.id /\ IsCut(KiroCalls[j].args)
           ELSE /\ SentCalls = <<>> /\ ~Has("context_usage", received)
                /\ ThinkingApart => cut.content = SentContent

(* Streaming or not, the client is told the same: the same text, and the   *)
(* same calls by name and arguments, unless a call is written in the       *)
(* thinking, which only the collected response looks at.                   *)
NamesAndArgs(calls) == {<<calls[i].name, calls[i].args>> : i \in DOMAIN calls}

SameCollected ==
    LET all == Collected(mode, received)
    IN Finished =>
           /\ IsAnthropic => all.content = SentContent
           /\ (\A i \in DOMAIN all.thinking : all.thinking[i] \notin DOMAIN Heads)
                  => NamesAndArgs(all.calls) = NamesAndArgs(SentCalls)

(* However it ends, the response of Kiro is closed.                        *)
ResponseClosed == <>(phase \in {"closed", "left"} /\ response = "closed")
=============================================================================
