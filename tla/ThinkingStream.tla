--------------------------- MODULE ThinkingStream ---------------------------
(* A response fed to the thinking parser in pieces cut anywhere, and what  *)
(* comes out of it: the events parse_kiro_stream yields for it.            *)
EXTENDS ThinkingParser

CONSTANTS Cuts,        \* the texts a content event may carry
          MaxPieces    \* bound: content events in a response

ASSUME CutsAssumption == \A cut \in Cuts : cut \in Seq(Symbols)

VARIABLES handling,       \* FAKE_REASONING_HANDLING
          thinkingParser, \* the ThinkingParser of the response
          fed,            \* the pieces of text Kiro has sent so far
          thoughts,       \* the thinking events yielded so far, joined
          answer,         \* the content events yielded so far, joined
          ended           \* the stream has ended and the parser is finalized

thinkingVars == <<handling, thinkingParser, fed, thoughts, answer, ended>>

ThinkingInit ==
    /\ handling \in HandlingModes
    /\ thinkingParser = NewThinkingParser
    /\ fed = <<>> /\ thoughts = <<>> /\ answer = <<>>
    /\ ended = FALSE

YieldEvents(result) ==
    LET events == ContentEvents(handling, result)
    IN /\ thinkingParser' = result.parser
       /\ thoughts' = thoughts \o TextOf("thinking", events)
       /\ answer' = answer \o TextOf("content", events)
       /\ UNCHANGED handling

Content(piece) ==
    /\ ~ended
    /\ Len(fed) < MaxPieces
    /\ fed' = Append(fed, piece)
    /\ YieldEvents(Feed(thinkingParser, piece))
    /\ UNCHANGED ended

EndOfText ==
    /\ ~ended
    /\ ended' = TRUE
    /\ YieldEvents(Finalize(thinkingParser))
    /\ UNCHANGED fed

ThinkingNext == EndOfText \/ \E piece \in Cuts : Content(piece)

ThinkingSpec == ThinkingInit /\ [][ThinkingNext]_thinkingVars
-----------------------------------------------------------------------------
(* However the tags are cut by the chunks, the client gets the thinking    *)
(* and the answer of the whole response, each symbol once; only space      *)
(* between the two may be lost.  Until then nothing sent is taken back:    *)
(* whatever comes next, what has been yielded is a beginning of what the   *)
(* whole response is split into, and no part of a closing tag has left as  *)
(* thinking.                                                               *)
SplitAnywhere ==
    IF ended
    THEN LET text == FlattenSeq(fed)
         IN thoughts = Shown(handling, text) /\ LStrip(answer) = LStrip(AnswerOf(text))
    ELSE \A rest \in {<<>>} \cup Cuts :
             LET text == FlattenSeq(fed) \o rest
             IN /\ IsPrefix(thoughts, Shown(handling, text))
                /\ IsPrefix(LStrip(answer), LStrip(AnswerOf(text)))
=============================================================================
