------------------------------ MODULE MCStreams ------------------------------
(* Model checking instances of what a streaming response goes through, one *)
(* machine in each behaviour: the attempts to get it (HttpRetries), whole  *)
(* responses, with text of every kind or with several calls (two instances *)
(* of StreamProperties, on the same variables), the thinking parser over   *)
(* every way to cut the text (ThinkingStream), the event parser over every *)
(* way to cut the bytes (EventFeed).                                       *)
EXTENDS HttpRetries, StreamProperties, ThinkingStream

VARIABLES scenario, frames, at, buffer, found

feedState == <<frames, at, buffer, found>>
allVars == <<scenario, retryVars, streamVars, thinkingVars, feedState>>

MCSymbols == {"<", "t", "/", ">", "x", " ", "[f", "{", "}", "k"}
MCHeads == ("[f" :> "f")
MCPieces == {<<"<", "t">>, <<">", "x">>, <<"}", "<", "/", "t", ">", " ">>,
             <<"[f", "{">>}
CallInputs == {<<"{", "k">>, <<"}">>}

(* Two tags, one a beginning of the other but for its end.                 *)
MCTags == <<<<"<", "t", ">">>, <<"<", "t", "t", ">">>>>
MCCuts == {<<"<">>, <<"<", "t">>, <<"t">>, <<">", "x", "x", "x", "x">>,
           <<"<", "/", "t">>, <<"/">>, <<" ">>,
           <<"x", "<", "/", "t", ">", " ", "x">>}

Q == "\""
EventPatterns == {<<"{", "c">>, <<"{", "u">>}

(* A string with a divided character and a brace, one with an escaped      *)
(* quote and a pattern, an object in an object, an escaped escape, and an  *)
(* object that is no event.                                                *)
Objects == {<<"{", "c", Q, "h1", "h2", "}", Q, "}">>,
            <<"{", "c", Q, "\\", Q, "{", "c", Q, "}">>,
            <<"{", "u", "{", "x", "}", "}">>,
            <<"{", "c", Q, "\\", "\\", Q, "}">>,
            <<"{", "x", "}">>}

Bytes == INSTANCE EventFeed WITH
    Patterns <- EventPatterns, MaxFrames <- 2, events <- found,
    Frames <- [junk : {<<>>, <<"{">>, <<"}", Q>>}, object : Objects]

(* Calls of two tools, with their input whole, in pieces or cut.           *)
Calls == INSTANCE StreamProperties WITH
    Modes <- {"remove"}, Pieces <- {}, UsageKinds <- {},
    ToolNames <- {"f", "g"}, InputPieces <- CallInputs
-----------------------------------------------------------------------------
NoAttempts ==
    /\ stream = FALSE /\ pc = "done" /\ attempt = 1 /\ lastError = 0
    /\ unclosed = 0 /\ status = 200 /\ heard = <<"ok">>

NoResponse ==
    /\ format = "anthropic" /\ mode = "remove" /\ phase = "closed"
    /\ parsing = NewParsing /\ conv = NewConverter
    /\ received = <<>> /\ sent = <<>> /\ saved = {} /\ response = "closed"

NoPieces ==
    /\ handling = "remove" /\ thinkingParser = NewThinkingParser
    /\ fed = <<>> /\ thoughts = <<>> /\ answer = <<>> /\ ended = TRUE

NoBytes == frames = <<>> /\ at = 0 /\ buffer = <<>> /\ found = <<>>

MCInit ==
    \/ scenario = "attempts" /\ Init /\ NoResponse /\ NoPieces /\ NoBytes
    \/ scenario = "response" /\ NoAttempts /\ StreamInit /\ NoPieces /\ NoBytes
    \/ scenario = "calls" /\ NoAttempts /\ Calls!StreamInit /\ NoPieces /\ NoBytes
    \/ scenario = "pieces" /\ NoAttempts /\ NoResponse /\ ThinkingInit /\ NoBytes
    \/ scenario = "bytes" /\ NoAttempts /\ NoResponse /\ NoPieces /\ Bytes!Init

MCNext ==
    /\ UNCHANGED scenario
    /\ \/ /\ scenario = "attempts" /\ Next
          /\ UNCHANGED <<streamVars, thinkingVars, feedState>>
       \/ /\ scenario = "response" /\ StreamNext
          /\ UNCHANGED <<retryVars, thinkingVars, feedState>>
       \/ /\ scenario = "calls" /\ Calls!StreamNext
          /\ UNCHANGED <<retryVars, thinkingVars, feedState>>
       \/ /\ scenario = "pieces" /\ ThinkingNext
          /\ UNCHANGED <<retryVars, streamVars, feedState>>
       \/ /\ scenario = "bytes" /\ Bytes!Next
          /\ UNCHANGED <<retryVars, streamVars, thinkingVars>>

MCSpec ==
    /\ MCInit /\ [][MCNext]_allVars
    /\ WF_retryVars(scenario = "attempts" /\ Next)
    /\ WF_streamVars(scenario \in {"response", "calls"} /\ Ends)
    /\ WF_streamVars(scenario \in {"response", "calls"} /\ Proceed)
-----------------------------------------------------------------------------
(* HttpRetries, StreamProperties and ThinkingStream explain their          *)
(* properties; and every event is found with its last byte, whatever its   *)
(* strings hold.                                                           *)
EventsFound == Bytes!EventsFound
=============================================================================
