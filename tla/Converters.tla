----------------------------- MODULE Converters -----------------------------
(* kiro/converters_core.py, converters_anthropic.py, converters_openai.py: *)
(* how a client's conversation becomes the payload for Kiro.  A text is a  *)
(* sequence of fragments [what, id]: a fragment stands for a whole piece   *)
(* of text.  A message is [role, text, calls, results, images, plain]:     *)
(* calls and images are sequences of ids, results of [id, images, noted],  *)
(* plain is whether the content is a string and no list of blocks.  The    *)
(* images in results are among those of the message once it is converted.  *)
EXTENDS Integers, SequencesExt, Loops

Fragment(what, id) == [what |-> what, id |-> id]
Empty == <<Fragment("empty", 0)>>          \* "(empty)"
Continue == <<Fragment("continue", 0)>>
Break == <<Fragment("break", 0)>>          \* the newline between merged texts

Message(role, text) ==
    [role |-> role, text |-> text, calls |-> <<>>, results |-> <<>>,
     images |-> <<>>, plain |-> TRUE]

(* The content of a result carries the notice it was given.                *)
ResultText(result) ==
    (IF result.noted THEN <<Fragment("notice", result.id)>> ELSE <<>>)
    \o <<Fragment("result", result.id)>>

ResultsText(results) ==
    FlattenSeq([i \in DOMAIN results |-> ResultText(results[i])])

ImagesIn(results) == FlattenSeq([i \in DOMAIN results |-> results[i].images])

CallsText(calls) == [i \in DOMAIN calls |-> Fragment("call", calls[i])]
-----------------------------------------------------------------------------
(* The adapters                                                            *)

(* Anthropic messages have their calls, results and images already.        *)
FromAnthropic(messages) ==
    [i \in DOMAIN messages |->
        [messages[i] EXCEPT !.images = @ \o ImagesIn(messages[i].results)]]

(* OpenAI: the results of consecutive tool messages are pooled and become  *)
(* a user message when one of another role, or the end, follows.           *)
Unconverted == [done |-> <<>>, results |-> <<>>, images |-> <<>>]

Flush(state) ==
    IF state.results = <<>> THEN state
    ELSE [done |-> Append(state.done, [Message("user", <<>>) EXCEPT
                                           !.results = state.results, !.images = state.images]),
          results |-> <<>>, images |-> <<>>]

(* Defect: every tool message becomes a user message of its own.           *)
ConvertSingly(state, msg) ==
    IF msg.role = "system" THEN state
    ELSE IF msg.role = "tool"
    THEN Flush([state EXCEPT !.results = msg.results, !.images = ImagesIn(msg.results)])
    ELSE [state EXCEPT !.done = Append(@, msg)]

Convert(state, msg) ==
    IF msg.role = "system" THEN state
    ELSE IF msg.role = "tool"
    THEN [state EXCEPT !.results = @ \o msg.results,
                       !.images = @ \o ImagesIn(msg.results)]
    ELSE [Flush(state) EXCEPT !.done = Append(@, msg)]

(* Defect: results at the end of the conversation are not flushed.         *)
FromOpenAIUnflushed(messages) == ForEach(Convert, Unconverted, messages).done

FromOpenAI(messages) == Flush(ForEach(Convert, Unconverted, messages)).done

(* System messages, wherever they are, make up the system prompt.          *)
SystemText(messages) ==
    FlattenSeq([i \in DOMAIN messages |->
                   IF messages[i].role = "system" THEN messages[i].text ELSE <<>>])
-----------------------------------------------------------------------------
(* The core                                                                *)

HasTools(msg) == msg.calls # <<>> \/ msg.results # <<>>

StripToolContent(messages) ==
    [i \in DOMAIN messages |->
        LET msg == messages[i]
        IN IF ~HasTools(msg) THEN msg
           ELSE [msg EXCEPT !.text = @ \o CallsText(msg.calls) \o ResultsText(msg.results),
                            !.calls = <<>>, !.results = <<>>]]

(* Defect: results are passed on whatever they follow.                     *)
AfterAnything(done, msg) == Append(done, msg)

(* Results that do not follow a message with calls become text.            *)
AfterAssistant(done, msg) ==
    LET follows == /\ done # <<>>
                   /\ Last(done).role = "assistant"
                   /\ Last(done).calls # <<>>
    IN Append(done, IF msg.results = <<>> \/ follows THEN msg
                    ELSE [msg EXCEPT !.text = @ \o ResultsText(msg.results),
                                     !.results = <<>>])

EnsureAssistantBeforeToolResults(messages) == ForEach(AfterAssistant, <<>>, messages)

(* Neighbours of one role are merged; of images only the first one's stay. *)
MergeInto(done, msg) ==
    IF done = <<>> THEN <<msg>>
    ELSE IF Last(done).role # msg.role THEN Append(done, msg)
    ELSE Append(Front(done),
             [Last(done) EXCEPT
                 !.text = @ \o Break \o msg.text,
                 !.calls = IF msg.role = "assistant" THEN @ \o msg.calls ELSE @,
                 !.results = IF msg.role = "user" THEN @ \o msg.results ELSE @])

MergeAdjacentMessages(messages) == ForEach(MergeInto, <<>>, messages)

EnsureFirstMessageIsUser(messages) ==
    IF messages = <<>> THEN messages
    ELSE IF Head(messages).role = "user" THEN messages
    ELSE <<Message("user", Empty)>> \o messages

NormalizeMessageRoles(messages) ==
    [i \in DOMAIN messages |->
        IF messages[i].role \in {"user", "assistant"} THEN messages[i]
        ELSE [messages[i] EXCEPT !.role = "user"]]

Alternating(done, msg) ==
    IF done # <<>> /\ msg.role = "user" /\ Last(done).role = "user"
    THEN done \o <<Message("assistant", Empty), msg>>
    ELSE Append(done, msg)

EnsureAlternatingRoles(messages) ==
    ForEach(Alternating, <<>>, messages)

(* build_kiro_payload up to the merged messages.                           *)
Merged(messages, tools) ==
    LET paired == IF tools = "none" THEN StripToolContent(messages)
                  ELSE EnsureAssistantBeforeToolResults(messages)
    IN EnsureAlternatingRoles(NormalizeMessageRoles(
           EnsureFirstMessageIsUser(MergeAdjacentMessages(paired))))
-----------------------------------------------------------------------------
(* An entry of the history: [role, text, uses, results, images].           *)
NonEmpty(text) == IF text = <<>> THEN Empty ELSE text

HistoryEntry(msg) ==
    [role |-> msg.role, text |-> NonEmpty(msg.text),
     uses |-> IF msg.role = "assistant" THEN msg.calls ELSE <<>>,
     results |-> IF msg.role = "user" THEN msg.results ELSE <<>>,
     images |-> IF msg.role = "user" THEN msg.images ELSE <<>>]

BuildKiroHistory(messages) == [i \in DOMAIN messages |-> HistoryEntry(messages[i])]

(* The system prompt of the request, with what the gateway adds: long tool *)
(* descriptions, and what its tags and notices mean.                       *)
FullSystemPrompt(system, tools) ==
    system \o (IF tools = "documented" THEN <<Fragment("documentation", 0)>> ELSE <<>>)
    \o <<Fragment("thinking_mode", 0), Fragment("truncation", 0)>>

(* A ValueError: the client is answered 400 and Kiro is sent nothing.      *)
NoPayload == [history |-> <<>>, current |-> Message("rejected", <<>>), tools |-> FALSE]

(* The last message is the current one.  One of the assistant's goes into  *)
(* the history, as it is and without its calls, and the user continues.    *)
BuildKiroPayload(messages, system, tools) ==
    LET merged == Merged(messages, tools)
        last == Last(merged)
        full == FullSystemPrompt(system, tools)
        prefixed == IF Len(merged) < 2 THEN <<>>
                    ELSE [Front(merged) EXCEPT ![1].text = full \o @]
        text == IF prefixed = <<>> THEN full \o last.text ELSE last.text
        continued == last.role = "assistant"
        asked == IF continued \/ text = <<>> THEN Continue ELSE text
    IN IF merged = <<>> \/ tools = "misnamed" THEN NoPayload
       ELSE [history |->
                 BuildKiroHistory(prefixed)
                 \o (IF continued
                     THEN <<[role |-> "assistant", text |-> text, uses |-> <<>>,
                             results |-> <<>>, images |-> <<>>]>>
                     ELSE <<>>),
             current |->
                 [role |-> "user",
                  text |-> IF continued THEN asked
                           ELSE <<Fragment("thinking_tags", 0)>> \o asked,
                  uses |-> <<>>,
                  results |-> last.results,
                  images |-> last.images],
             tools |-> tools # "none"]
-----------------------------------------------------------------------------
(* Truncation notices                                                      *)

(* Defect: notices are taken from the store and not written down.          *)
UnnotedResults(store, results) == results

(* The routes look every result and every text of the assistant up, and    *)
(* what is found is gone from the store: [done, store].  The content of a  *)
(* result that is found becomes a string, and has no images any more.      *)
(* Only the text of a plain message is found: that of blocks is read as    *)
(* empty.                                                                  *)
NoteResults(store, results) ==
    [i \in DOMAIN results |->
        IF /\ [call |-> results[i].id] \in store
           /\ \A j \in 1..(i - 1) : results[j].id # results[i].id
        THEN [results[i] EXCEPT !.noted = TRUE, !.images = <<>>]
        ELSE results[i]]

TextNotice(msg) == [text |-> msg.text]

Noticed(format, msg) ==
    msg.role = (IF format = "anthropic" THEN "user" ELSE "tool") /\ msg.results # <<>>

TakeNotice(format, state, msg) ==
    IF Noticed(format, msg)
    THEN [done |-> Append(state.done, [msg EXCEPT !.results = NoteResults(state.store, @)]),
          store |-> state.store \ {[call |-> msg.results[i].id] : i \in DOMAIN msg.results}]
    ELSE IF msg.role = "assistant" /\ msg.plain /\ TextNotice(msg) \in state.store
    THEN [done |-> state.done \o
                       <<msg, Message("user", <<Fragment("notice", Head(msg.text).id)>>)>>,
          store |-> state.store \ {TextNotice(msg)}]
    ELSE [state EXCEPT !.done = Append(@, msg)]

Untaken(store) == [done |-> <<>>, store |-> store]

TakeNotices(format, store, messages) ==
    LET take(state, msg) == TakeNotice(format, state, msg)
    IN ForEach(take, Untaken(store), messages)
=============================================================================
