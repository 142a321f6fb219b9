------------------------------ MODULE EventFeed ------------------------------
(* kiro/parsers.py, AwsEventStreamParser.feed: the JSON events in the      *)
(* bytes of a response, which the network cuts into chunks anywhere.  The  *)
(* bytes are frames: binary junk, then an object.  A character of two      *)
(* bytes is "h1", "h2"; an EVENT_PATTERN is the two symbols an object of   *)
(* an event starts with.                                                   *)
EXTENDS KiroEvents

CONSTANTS
    Patterns,    \* EVENT_PATTERNS
    Frames,      \* the frames of a response: records [junk, object]
    MaxFrames    \* bound: frames in a response

VARIABLES
    frames,      \* what Kiro sends (external)
    at,          \* how much of it has come
    buffer,      \* the parser's buffer
    events       \* the texts of the events found so far

feedVars == <<frames, at, buffer, events>>

Bytes == FlattenSeq([i \in DOMAIN frames |-> frames[i].junk \o frames[i].object])

(* decode('utf-8', errors='ignore') of one chunk: a half of a character    *)
(* without its other half is dropped.                                      *)
Decode(chunk) ==
    LET whole(i) ==
            IF chunk[i] = "h1" THEN i < Len(chunk)
            ELSE IF chunk[i] = "h2" THEN i > 1
            ELSE TRUE
    IN FlattenSeq([i \in DOMAIN chunk |-> IF whole(i) THEN <<chunk[i]>> ELSE <<>>])

(* The nearest pattern; 0 is the -1.                                       *)
EarliestPos(text) ==
    LET found == {i \in 1..(Len(text) - 1) : SubSeq(text, i, i + 1) \in Patterns}
    IN IF found = {} THEN 0 ELSE Min(found)

(* The loop of feed: the objects that are complete, and the rest.          *)
Extract(text) ==
    LET from[i \in 1..(Len(text) + 1)] ==
            LET rest == SubSeq(text, i, Len(text))
                start == EarliestPos(rest)
                end == FindMatchingBrace(rest, start)
            IN IF start = 0 \/ end = 0 THEN [events |-> <<>>, rest |-> rest]
               ELSE [from[i + end] EXCEPT !.events = <<SubSeq(rest, start, end)>> \o @]
    IN from[1]

Init ==
    /\ frames \in SeqOf(Frames, MaxFrames)
    /\ at = 0 /\ buffer = <<>> /\ events = <<>>

Chunk(n) ==
    LET read == Extract(buffer \o Decode(SubSeq(Bytes, at + 1, at + n)))
    IN /\ at' = at + n
       /\ buffer' = read.rest
       /\ events' = events \o read.events
       /\ UNCHANGED frames

Next == \E n \in 1..(Len(Bytes) - at) : Chunk(n)

Spec == Init /\ [][Next]_feedVars
-----------------------------------------------------------------------------
(* An event is found as soon as its last byte has come and never before,   *)
(* whatever the chunks, the junk, and the braces, quotes and patterns in   *)
(* its strings; and all a cut can lose is the character it divides.        *)
EndOf(i) ==
    Len(FlattenSeq([j \in 1..i |-> frames[j].junk \o frames[j].object]))
Solid(text) == SelectSeq(text, LAMBDA s : s \notin {"h1", "h2"})
IsEvent(object) == SubSeq(object, 1, 2) \in Patterns

Complete ==
    LET come == {i \in DOMAIN frames : EndOf(i) <= at}
        objects == [i \in 1..Cardinality(come) |-> frames[i].object]
    IN SelectSeq(objects, IsEvent)

EventsFound ==
    /\ Len(events) = Len(Complete)
    /\ \A i \in DOMAIN events : Solid(events[i]) = Solid(Complete[i])
=============================================================================
