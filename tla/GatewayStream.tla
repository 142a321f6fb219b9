---------------------------- MODULE GatewayStream ----------------------------
(***************************************************************************)
(* One streaming response of kiro-gateway, from the bytes of Kiro to the   *)
(* client: the route's stream_wrapper around a format's converter around   *)
(* parse_kiro_stream.  The generators are suspended at every yield, where  *)
(* the client may leave, and while they wait for Kiro, which may be silent *)
(* for too long, break off, or end early.  Kiro is external: what it sends *)
(* is text, tool calls in pieces, each with an id of its own and stopped   *)
(* or not, and usage at most once.                                         *)
(***************************************************************************)
EXTENDS StreamFormats

CONSTANTS
    Formats,      \* the routes clients use
    Modes,        \* FAKE_REASONING_HANDLING
    Pieces,       \* the texts of a content event
    ToolNames,
    InputPieces,  \* the texts of the input of a tool event
    UsageKinds,   \* the events about usage that Kiro may send
    MaxEvents     \* bound: events in a response

ASSUME StreamAssumption ==
    /\ Formats \subseteq {"anthropic", "openai"} /\ Modes \subseteq HandlingModes
    /\ \A text \in Pieces \cup InputPieces : text \in Seq(Symbols)
    /\ UsageKinds \subseteq {"usage", "context_usage"}
    /\ MaxEvents \in Nat

VARIABLES
    format, mode,
    phase,        \* "waiting" for the first bytes, "reading", "ending",
                  \* "failed", "closed", "left" (by the client)
    parsing,      \* parser and thinking_parser of parse_kiro_stream
    conv,         \* the locals of stream_kiro_to_anthropic or _openai
    received,     \* history: the events of Kiro
    sent,         \* history: the server-sent events the client has been sent
    saved,        \* truncations saved: call ids and texts
    response      \* the connection to Kiro, "open" or "closed"

streamVars == <<format, mode, phase, parsing, conv, received, sent, saved, response>>

StreamInit ==
    /\ format \in Formats /\ mode \in Modes
    /\ phase = "waiting"
    /\ parsing = NewParsing
    /\ conv = IF format = "anthropic" THEN Emit(NewConverter, MessageStart)
                                      ELSE NewConverter
    /\ received = <<>> /\ sent = <<>> /\ saved = {}
    /\ response = "open"
-----------------------------------------------------------------------------
(* Kiro (external)                                                         *)

StartsAt(events) == {i \in DOMAIN events : events[i].kind = "tool_start"}
Has(kind, events) == \E i \in DOMAIN events : events[i].kind = kind

(* Calls are numbered in the order they start.                             *)
CallIds(events) == {events[i].id : i \in StartsAt(events)}
StartOf(events, id) == Min({i \in StartsAt(events) : events[i].id = id})

(* A stop ends the call under way, if there is one, and so does any start. *)
EndsAt(events) ==
    {i \in DOMAIN events : events[i].kind \in {"tool_start", "tool_stop"}}

CallOpen(events) == EndsAt(events) # {} /\ ~events[Max(EndsAt(events))].stop

(* The input that has come for the call with this id.                      *)
InputOf(events, id) ==
    LET at == StartOf(events, id)
        ends == {j \in EndsAt(events) : j > at}
        end == IF events[at].stop THEN at
               ELSE IF ends = {} THEN Len(events) ELSE Min(ends)
    IN events[at].input \o FlattenSeq([j \in 1..end |->
           IF j > at /\ events[j].kind = "tool_input" THEN events[j].input ELSE <<>>])

(* Pieces of an object, possibly cut off before its end.                   *)
Continues(input, piece) == \E args \in ValidArguments : IsPrefix(input \o piece, args)

InputSoFar(events) ==
    IF CallOpen(events) THEN InputOf(events, events[Max(EndsAt(events))].id) ELSE <<>>

ContentEvent(text) == [kind |-> "content", text |-> text]
ToolStartEvent(id, name, input, stop) ==
    [kind |-> "tool_start", id |-> id, name |-> name, input |-> input, stop |-> stop]

(* A call may start over another that was not stopped, with some of its    *)
(* input or all of it, and be stopped by the same event; a start with the  *)
(* id of an earlier call stops, as does an event that has no start.        *)
KiroSends ==
    {ContentEvent(piece) : piece \in Pieces}
    \cup {[kind |-> kind] : kind \in {k \in UsageKinds : ~Has(k, received)}}
    \cup {ToolStartEvent(Cardinality(CallIds(received)) + 1, name, input, stop) :
             name \in ToolNames, stop \in BOOLEAN,
             input \in {<<>>} \cup {p \in InputPieces : Continues(<<>>, p)}}
    \cup {ToolStartEvent(id, received[StartOf(received, id)].name, <<>>, TRUE) :
             id \in CallIds(received)}
    \cup {[kind |-> "tool_input", input |-> piece] :
             piece \in {p \in InputPieces : Continues(InputSoFar(received), p)}}
    \cup {[kind |-> "tool_stop", stop |-> TRUE]}
-----------------------------------------------------------------------------
(* The gateway                                                             *)

Reads == phase \in {"waiting", "reading"} /\ conv.out = <<>>

(* A chunk: its events go through the parsers and the converter.           *)
Receive(event) ==
    /\ Reads
    /\ Len(received) < MaxEvents
    /\ phase' = "reading"
    /\ received' = Append(received, event)
    /\ parsing' = Parsed(parsing, event)
    /\ conv' = Steps(format, mode, conv, EventsOf(mode, parsing, event))
    /\ UNCHANGED <<format, mode, sent, saved, response>>

Close == [type |-> "close"]

(* The bytes end, be it because Kiro is done or because it was cut off.    *)
EndOfStream ==
    /\ Reads
    /\ phase' = "ending"
    /\ conv' = Emit(End(format, Steps(format, mode, conv, LastEvents(mode, parsing))), Close)
    /\ UNCHANGED <<format, mode, parsing, received, sent, saved, response>>

(* Defect: the response is only closed when it has been read to its end.   *)
AfterErrorOpen(timeout) ==
    IF format = "openai" THEN <<[type |-> "done"]>> ELSE <<ErrorEvent>>

(* What is still yielded for an exception: the Anthropic converter sends   *)
(* an error event, except for a first token timeout, closes the response,  *)
(* and the wrapper sends one as well; for OpenAI the wrapper sends [DONE]. *)
AfterError(timeout) ==
    IF format = "openai" THEN <<Close, [type |-> "done"]>>
    ELSE (IF timeout THEN <<>> ELSE <<ErrorEvent>>) \o <<Close, ErrorEvent>>

Raise(timeout) ==
    /\ phase' = "failed"
    /\ conv' = [conv EXCEPT !.out = AfterError(timeout)]
    /\ UNCHANGED <<format, mode, parsing, received, sent, saved, response>>

FirstTokenTimeout == phase = "waiting" /\ conv.out = <<>> /\ Raise(TRUE)

Break == Reads /\ Raise(FALSE)

Next1 == Head(conv.out)
Taken == conv' = [conv EXCEPT !.out = Tail(@)]

(* The client is sent what the generator yielded, and asks for more.       *)
Yield ==
    /\ conv.out # <<>> /\ Next1.type \notin {"save", "close"}
    /\ sent' = Append(sent, Next1)
    /\ Taken
    /\ UNCHANGED <<format, mode, phase, parsing, received, saved, response>>

SaveTruncations ==
    /\ conv.out # <<>> /\ Next1.type = "save"
    /\ saved' = saved \cup {[id |-> id] : id \in Next1.calls}
                      \cup (IF Next1.text = <<>> THEN {} ELSE {[content |-> Next1.text]})
    /\ Taken
    /\ UNCHANGED <<format, mode, phase, parsing, received, sent, response>>

CloseResponse ==
    /\ conv.out # <<>> /\ Next1.type = "close"
    /\ response' = "closed"
    /\ Taken
    /\ UNCHANGED <<format, mode, phase, parsing, received, sent, saved>>

(* The generators have returned; a failed one is over as well.             *)
Return ==
    /\ phase \in {"ending", "failed"} /\ conv.out = <<>>
    /\ phase' = "closed"
    /\ UNCHANGED <<format, mode, parsing, conv, received, sent, saved, response>>

(* GeneratorExit or CancelledError at a yield or a read: nothing more is   *)
(* sent or saved, and the finally clauses close the response.              *)
ClientLeaves ==
    /\ phase \notin {"closed", "left"}
    /\ phase' = "left" /\ response' = "closed"
    /\ conv' = [NewConverter EXCEPT !.full = conv.full] /\ parsing' = NewParsing
    /\ UNCHANGED <<format, mode, received, sent, saved>>

Ends == FirstTokenTimeout \/ Break \/ EndOfStream
Proceed == Yield \/ SaveTruncations \/ CloseResponse \/ Return

StreamNext == Ends \/ Proceed \/ ClientLeaves \/ \E event \in KiroSends : Receive(event)

StreamSpec == StreamInit /\ [][StreamNext]_streamVars

(* Reads of Kiro have a timeout, and writing to a client goes on or fails. *)
FairStreamSpec == StreamSpec /\ WF_streamVars(Ends) /\ WF_streamVars(Proceed)
=============================================================================
