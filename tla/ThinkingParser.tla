--------------------------- MODULE ThinkingParser ---------------------------
(* kiro/thinking_parser.py: the finite state machine that finds one        *)
(* thinking block at the start of a response that arrives in pieces.       *)
(* A text is a sequence of symbols; " " stands for whitespace.  A parser   *)
(* is a record of the fields of class ThinkingParser, a result that of     *)
(* ThinkingParseResult together with the parser it leaves behind.          *)
EXTENDS Integers, SequencesExt

CONSTANTS
    Symbols,       \* texts are sequences of
    OpenTags       \* FAKE_REASONING_OPEN_TAGS: texts of several symbols

(* No tag is the beginning of another (they all end with ">"), and none    *)
(* starts with space.                                                      *)
ASSUME TagsAssumption ==
    /\ "/" \in Symbols
    /\ OpenTags \in Seq(Seq(Symbols) \ {<<>>}) /\ OpenTags # <<>>
    /\ \A i \in DOMAIN OpenTags : Head(OpenTags[i]) # " "
    /\ \A i, j \in DOMAIN OpenTags :
          i # j => ~IsPrefix(OpenTags[i], OpenTags[j])

HandlingModes == {"as_reasoning_content", "remove", "pass", "strip_tags"}

(* "<t>" becomes "</t>".                                                   *)
CloseTag(tag) == <<Head(tag), "/">> \o Tail(tag)

MaxTagLength == 2 * Max({Len(OpenTags[i]) : i \in DOMAIN OpenTags})

LStrip(text) ==
    LET solid == {i \in DOMAIN text : text[i] # " "}
    IN IF solid = {} THEN <<>> ELSE SubSeq(text, Min(solid), Len(text))

(* The positions at which pattern occurs in text.                          *)
Occurrences(pattern, text) ==
    {i \in DOMAIN text : IsPrefix(pattern, SubSeq(text, i, Len(text)))}

(* The first tag of OpenTags, in their order, that text starts with.       *)
TagsAtStart(text) == {i \in DOMAIN OpenTags : IsPrefix(OpenTags[i], text)}
TagAtStart(text) == OpenTags[Min(TagsAtStart(text))]

(* Defect: only the first tag is waited for.                               *)
CouldBeFirstTag(text) == IsPrefix(text, OpenTags[1])

CouldBeTagPrefix(text) == \E i \in DOMAIN OpenTags : IsPrefix(text, OpenTags[i])

NewThinkingParser ==
    [state |-> "pre_content", initialBuffer |-> <<>>, thinkingBuffer |-> <<>>,
     openTag |-> <<>>, first |-> TRUE]

(* What one call returns, over a parser that has changed to parser.        *)
Nothing(parser) ==
    [parser |-> parser, thinking |-> <<>>, regular |-> <<>>,
     isFirst |-> FALSE, isLast |-> FALSE]

(* The closing tag is at this position: what is before it is thinking,     *)
(* what follows it is not.                                                 *)
ClosedAt(parser, at) ==
    [parser |-> [parser EXCEPT !.state = "streaming", !.thinkingBuffer = <<>>,
                               !.first = @ /\ at = 1],
     thinking |-> SubSeq(parser.thinkingBuffer, 1, at - 1),
     regular |-> LStrip(SubSeq(parser.thinkingBuffer, at + Len(CloseTag(parser.openTag)),
                               Len(parser.thinkingBuffer))),
     isFirst |-> parser.first /\ at > 1, isLast |-> TRUE]

(* Without a closing tag all but the last MaxTagLength symbols can be sent.*)
ProcessThinkingBuffer(parser) ==
    LET buffer == parser.thinkingBuffer
        closings == Occurrences(CloseTag(parser.openTag), buffer)
        held == Len(buffer) - MaxTagLength
    IN IF closings # {}
       THEN ClosedAt(parser, Min(closings))
       ELSE IF held > 0
       THEN [parser |-> [parser EXCEPT !.thinkingBuffer = SubSeq(buffer, held + 1, Len(buffer)),
                                       !.first = FALSE],
             thinking |-> SubSeq(buffer, 1, held), regular |-> <<>>,
             isFirst |-> parser.first, isLast |-> FALSE]
       ELSE Nothing(parser)

(* _handle_pre_content: the limit on the initial buffer is left out, since *)
(* a text no tag can start with ends the search whatever its length, and   *)
(* any other is kept before the limit is looked at.                        *)
HandlePreContent(parser, content) ==
    LET buffer == parser.initialBuffer \o content
        stripped == LStrip(buffer)
        tag == TagAtStart(stripped)
    IN IF TagsAtStart(stripped) # {}
       THEN ProcessThinkingBuffer(
                [parser EXCEPT !.state = "in_thinking", !.openTag = tag,
                               !.initialBuffer = <<>>,
                               !.thinkingBuffer = SubSeq(stripped, Len(tag) + 1, Len(stripped))])
       ELSE IF CouldBeTagPrefix(stripped)
       THEN Nothing([parser EXCEPT !.initialBuffer = buffer])
       ELSE [Nothing([parser EXCEPT !.state = "streaming", !.initialBuffer = <<>>])
                EXCEPT !.regular = buffer]

HandleInThinking(parser, content) ==
    ProcessThinkingBuffer([parser EXCEPT !.thinkingBuffer = @ \o content])

Feed(parser, content) ==
    IF content = <<>> THEN Nothing(parser)
    ELSE IF parser.state = "pre_content" THEN HandlePreContent(parser, content)
    ELSE IF parser.state = "in_thinking" THEN HandleInThinking(parser, content)
    ELSE [Nothing(parser) EXCEPT !.regular = content]

(* Defect: what may have become a tag is forgotten when the stream ends.   *)
FinalizeThinking(parser) ==
    LET thought == parser.state = "in_thinking" /\ parser.thinkingBuffer # <<>>
    IN [Nothing(parser) EXCEPT !.thinking = IF thought THEN parser.thinkingBuffer ELSE <<>>,
                               !.isFirst = thought /\ parser.first, !.isLast = thought]

(* What is left in the buffers when the stream ends.                       *)
Finalize(parser) ==
    LET thought == parser.state = "in_thinking" /\ parser.thinkingBuffer # <<>>
    IN [parser |-> [parser EXCEPT !.thinkingBuffer = <<>>, !.initialBuffer = <<>>],
        thinking |-> IF thought THEN parser.thinkingBuffer ELSE <<>>,
        regular |-> parser.initialBuffer,
        isFirst |-> thought /\ parser.first,
        isLast |-> thought]

(* process_for_output: None is the empty text.                             *)
ProcessForOutput(mode, result) ==
    LET tag == result.parser.openTag
        prefix == IF result.isFirst THEN tag ELSE <<>>
        suffix == IF result.isLast THEN CloseTag(tag) ELSE <<>>
    IN IF result.thinking = <<>> \/ mode = "remove" THEN <<>>
       ELSE IF mode = "pass" THEN prefix \o result.thinking \o suffix
       ELSE result.thinking

(* streaming_core.py: the events a result becomes, thinking first.         *)
ContentEvents(mode, result) ==
    LET thought == ProcessForOutput(mode, result)
    IN (IF thought = <<>> THEN <<>> ELSE <<[type |-> "thinking", text |-> thought]>>)
       \o (IF result.regular = <<>> THEN <<>>
           ELSE <<[type |-> "content", text |-> result.regular]>>)

(* The texts of the events of a type, joined.                              *)
TextOf(type, events) ==
    FlattenSeq([i \in DOMAIN events |->
                   IF events[i].type = type THEN events[i].text ELSE <<>>])
-----------------------------------------------------------------------------
(* What the module's comment promises of a whole response, without a       *)
(* buffer: the block that opens it, up to the first closing tag or the     *)
(* end, is thinking, and all the rest is the answer.                       *)
Opens(text) == TagsAtStart(LStrip(text)) # {}
OpeningTag(text) == TagAtStart(LStrip(text))
Body(text) == SubSeq(LStrip(text), Len(OpeningTag(text)) + 1, Len(LStrip(text)))
Closings(text) == Occurrences(CloseTag(OpeningTag(text)), Body(text))

ThoughtOf(text) ==
    IF ~Opens(text) THEN <<>>
    ELSE IF Closings(text) = {} THEN Body(text)
    ELSE SubSeq(Body(text), 1, Min(Closings(text)) - 1)

AnswerOf(text) ==
    IF ~Opens(text) THEN text
    ELSE IF Closings(text) = {} THEN <<>>
    ELSE SubSeq(Body(text), Min(Closings(text)) + Len(CloseTag(OpeningTag(text))),
                Len(Body(text)))

Tagged(text) ==
    OpeningTag(text) \o ThoughtOf(text) \o CloseTag(OpeningTag(text))

Shown(mode, text) ==
    IF ThoughtOf(text) = <<>> \/ mode = "remove" THEN <<>>
    ELSE IF mode = "pass" THEN Tagged(text)
    ELSE ThoughtOf(text)
=============================================================================
