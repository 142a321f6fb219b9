----------------------------- MODULE KiroEvents -----------------------------
(* kiro/parsers.py: the JSON events of a Kiro response, and the tool calls *)
(* put together from them.  Text is a sequence of symbols; those that      *)
(* matter are braces, brackets, quotes, the escape, and the head of a      *)
(* "[Called f with args:" text, one symbol for each tool.  A tool call is  *)
(* a record [id, name, args, truncated], its arguments a text.             *)
EXTENDS Integers, SequencesExt, Loops

CONSTANT Heads         \* symbol of a bracket call |-> name of its tool

EmptyObject == <<"{", "}">>

(* State of find_matching_brace after the symbols from start to i.         *)
BraceScan(text, start) ==
    LET scan[i \in (start - 1)..Len(text)] ==
            IF i < start
            THEN [depth |-> 0, inString |-> FALSE, escaped |-> FALSE, closed |-> 0]
            ELSE LET s == scan[i - 1] IN
                 IF s.closed # 0 THEN s
                 ELSE IF s.escaped THEN [s EXCEPT !.escaped = FALSE]
                 ELSE IF text[i] = "\\" /\ s.inString THEN [s EXCEPT !.escaped = TRUE]
                 ELSE IF text[i] = "\"" THEN [s EXCEPT !.inString = ~@]
                 ELSE IF text[i] = "{" /\ ~s.inString THEN [s EXCEPT !.depth = @ + 1]
                 ELSE IF text[i] = "}" /\ ~s.inString
                 THEN [s EXCEPT !.depth = @ - 1, !.closed = IF s.depth = 1 THEN i ELSE 0]
                 ELSE s
    IN scan[Len(text)]

(* Defect: braces in strings count.                                        *)
FindBalancingBrace(text, start) ==
    LET depth(i) ==
            LET part == SubSeq(text, start, i)
            IN Len(SelectSeq(part, LAMBDA s : s = "{")) - Len(SelectSeq(part, LAMBDA s : s = "}"))
        closing == {i \in DOMAIN text : i > start /\ depth(i) = 0}
    IN IF start \notin DOMAIN text \/ closing = {} THEN 0 ELSE Min(closing)

(* The position of the brace that closes the one at start; 0 is the -1.    *)
FindMatchingBrace(text, start) ==
    IF start \notin DOMAIN text THEN 0
    ELSE IF text[start] # "{" THEN 0 ELSE BraceScan(text, start).closed

Count(symbol, text) == Len(SelectSeq(text, LAMBDA s : s = symbol))

(* Quotes that no escape precedes; escapes are looked at inside and        *)
(* outside of strings.                                                     *)
UnescapedQuotes(text) ==
    LET quotes[i \in 0..Len(text)] ==
            IF i = 0 THEN [escaped |-> FALSE, count |-> 0]
            ELSE LET q == quotes[i - 1] IN
                 IF q.escaped THEN [q EXCEPT !.escaped = FALSE]
                 ELSE [escaped |-> text[i] = "\\" /\ i < Len(text),
                       count |-> q.count + IF text[i] = "\"" THEN 1 ELSE 0]
    IN quotes[Len(text)].count

(* _diagnose_json_truncation: whether text that is no JSON looks cut off.  *)
LooksTruncated(text) ==
    /\ text # <<>>
    /\ \/ Head(text) = "{" /\ Last(text) # "}"
       \/ Head(text) = "[" /\ Last(text) # "]"
       \/ Count("{", text) # Count("}", text)
       \/ Count("[", text) # Count("]", text)
       \/ UnescapedQuotes(text) % 2 = 1
-----------------------------------------------------------------------------
(* The arguments json.loads accepts: an object of the symbol "k" alone.    *)
ValidArguments == {EmptyObject, <<"{", "k", "}">>, <<"{", "k", "k", "}">>}

NoCall == [id |-> 0, name |-> "", args |-> <<>>, truncated |-> FALSE]

NewEventParser == [lastContent |-> <<>>, current |-> NoCall, calls |-> <<>>]

(* Defect: arguments that were cut off are not marked.                     *)
FinalizedUnmarked(call) ==
    IF call.args \in ValidArguments THEN call ELSE [call EXCEPT !.args = EmptyObject]

(* Arguments that do not parse become {}, and are marked when cut off.     *)
FinalizedCall(call) ==
    IF call.args \in ValidArguments THEN call
    ELSE [call EXCEPT !.args = EmptyObject, !.truncated = LooksTruncated(call.args)]

FinalizeToolCall(parser) ==
    IF parser.current = NoCall THEN parser
    ELSE [parser EXCEPT !.calls = Append(@, FinalizedCall(parser.current)),
                        !.current = NoCall]

(* Defect: a call that was not stopped is lost to the next one.            *)
ToolStartOver(parser, event) ==
    LET started == [parser EXCEPT
                        !.current = [id |-> event.id, name |-> event.name,
                                     args |-> event.input, truncated |-> FALSE]]
    IN IF event.stop THEN FinalizeToolCall(started) ELSE started

(* A start ends the call before it.  Kiro ends a call by a start that says *)
(* stop, with the same id and no input: it becomes a second, empty call.   *)
ToolStart(parser, event) ==
    LET started == [FinalizeToolCall(parser) EXCEPT
                        !.current = [id |-> event.id, name |-> event.name,
                                     args |-> event.input, truncated |-> FALSE]]
    IN IF event.stop THEN FinalizeToolCall(started) ELSE started

(* Input goes to the current call, whatever its id says.                   *)
ToolInput(parser, event) ==
    IF parser.current = NoCall THEN parser
    ELSE [parser EXCEPT !.current.args = @ \o event.input]

ToolStop(parser, event) ==
    IF event.stop THEN FinalizeToolCall(parser) ELSE parser

(* A content event equal to the one before is taken for a repetition.      *)
RepeatsContent(parser, event) == event.text = parser.lastContent

ProcessEvent(parser, event) ==
    IF event.kind = "content" THEN [parser EXCEPT !.lastContent = event.text]
    ELSE IF event.kind = "tool_start" THEN ToolStart(parser, event)
    ELSE IF event.kind = "tool_input" THEN ToolInput(parser, event)
    ELSE IF event.kind = "tool_stop" THEN ToolStop(parser, event)
    ELSE parser

BetterArguments(new, old) ==
    new # EmptyObject /\ (old = EmptyObject \/ Len(new) > Len(old))

(* One call for each id, in the order the ids came, then one for each name *)
(* and arguments.                                                          *)
BestWithId(best, call) ==
    LET same == {i \in DOMAIN best : best[i].id = call.id}
    IN IF same = {} THEN Append(best, call)
       ELSE LET i == Min(same)
            IN IF BetterArguments(call.args, best[i].args)
               THEN [best EXCEPT ![i] = call] ELSE best

FirstOfItsKind(unique, call) ==
    IF \E i \in DOMAIN unique : unique[i].name = call.name /\ unique[i].args = call.args
    THEN unique ELSE Append(unique, call)

DeduplicateToolCalls(calls) ==
    ForEach(FirstOfItsKind, <<>>, ForEach(BestWithId, <<>>, calls))

GetToolCalls(parser) == DeduplicateToolCalls(FinalizeToolCall(parser).calls)

(* parse_bracket_tool_calls: for each head, the object at the first brace  *)
(* after it, wherever that is.  Ids are made up: the head's position, less *)
(* than 0.                                                                 *)
BracketCallAt(text, i) ==
    LET braces == {j \in DOMAIN text : j > i /\ text[j] = "{"}
        start == Min(braces)
        end == FindMatchingBrace(text, start)
        args == SubSeq(text, start, end)
    IN IF text[i] \in DOMAIN Heads /\ braces # {} /\ end # 0 /\ args \in ValidArguments
       THEN <<[id |-> -i, name |-> Heads[text[i]], args |-> args, truncated |-> FALSE]>>
       ELSE <<>>

ParseBracketToolCalls(text) ==
    FlattenSeq([i \in DOMAIN text |-> BracketCallAt(text, i)])
=============================================================================
