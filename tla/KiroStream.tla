----------------------------- MODULE KiroStream -----------------------------
(* kiro/streaming_core.py: the unified events (KiroEvent) that one Kiro    *)
(* response becomes, before they are put into a client's format.  A raw    *)
(* event is a record with a "kind"; the parsing of a response is a record  *)
(* of its two parsers.                                                     *)
EXTENDS ThinkingParser, KiroEvents

NewParsing == [events |-> NewEventParser, thinking |-> NewThinkingParser]

KiroEvent(type) == [type |-> type]

(* _process_chunk, for a chunk with one event: tool events only change the *)
(* event parser, a repeated content event is dropped.                      *)
Parsed(parsing, event) ==
    LET fed == IF event.kind = "content" /\ ~RepeatsContent(parsing.events, event)
               THEN Feed(parsing.thinking, event.text)
               ELSE Nothing(parsing.thinking)
    IN [events |-> ProcessEvent(parsing.events, event), thinking |-> fed.parser]

EventsOf(mode, parsing, event) ==
    IF event.kind = "content"
    THEN IF RepeatsContent(parsing.events, event) THEN <<>>
         ELSE ContentEvents(mode, Feed(parsing.thinking, event.text))
    ELSE IF event.kind \in {"usage", "context_usage"} THEN <<KiroEvent(event.kind)>>
    ELSE <<>>

(* What parse_kiro_stream yields once the bytes have ended.                *)
LastEvents(mode, parsing) ==
    LET calls == GetToolCalls(parsing.events)
    IN ContentEvents(mode, Finalize(parsing.thinking))
       \o [i \in DOMAIN calls |-> [type |-> "tool_use", call |-> calls[i]]]

(* The whole of it, for the raw events of a response that ended.           *)
ParseAll(raw) == ForEach(Parsed, NewParsing, raw)

AllEvents(mode, raw) ==
    FlattenSeq([i \in DOMAIN raw |->
                   EventsOf(mode, ParseAll(SubSeq(raw, 1, i - 1)), raw[i])])
    \o LastEvents(mode, ParseAll(raw))

CallsOf(events) ==
    FlattenSeq([i \in DOMAIN events |->
                   IF events[i].type = "tool_use" THEN <<events[i].call>> ELSE <<>>])

(* collect_stream_to_result: what a client that does not stream is given.  *)
Collected(mode, raw) ==
    LET events == AllEvents(mode, raw)
        bracket == ParseBracketToolCalls(
                       FlattenSeq([i \in DOMAIN events |->
                           IF events[i].type \in {"content", "thinking"}
                           THEN events[i].text ELSE <<>>]))
    IN [content |-> TextOf("content", events),
        thinking |-> TextOf("thinking", events),
        calls |-> IF bracket = <<>> THEN CallsOf(events)
                  ELSE DeduplicateToolCalls(CallsOf(events) \o bracket)]
=============================================================================
