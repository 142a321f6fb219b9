------------------------------ MODULE Dialogue ------------------------------
(***************************************************************************)
(* A client's conversation with kiro-gateway.  The client may put any      *)
(* message at its end, and sends all of it with each request; the gateway  *)
(* answers it, and remembers an answer that was cut off, until a request   *)
(* contains it.  The client is external: agents of all kinds, which repeat *)
(* roles, leave out answers, and split or pool tool results.               *)
(***************************************************************************)
EXTENDS Converters

CONSTANTS
    ClientFormats,  \* the routes clients use: of Anthropic, of OpenAI
    Tools,          \* the tools of their requests; "misnamed" has too long a name
    MaxMessages,    \* bound: messages of the conversation
    MaxSends        \* bound: requests

ASSUME ClientFormatsAssumption == ClientFormats \subseteq {"anthropic", "openai"}

VARIABLES
    format, tools,  \* of the client's requests
    messages,       \* the conversation, as the client has it
    store,          \* _tool_truncation_cache and _content_truncation_cache
    payload,        \* what Kiro was sent for it, if anything
    answered,       \* history: texts and calls that were cut
    sends           \* requests sent

dialogueVars == <<format, tools, messages, store, payload, answered, sends>>

DialogueInit ==
    /\ format \in ClientFormats /\ tools \in Tools
    /\ messages = <<>> /\ store = {} /\ answered = {}
    /\ payload = NoPayload
    /\ sends = 0

Here == Len(messages) + 1
Text(solid) == IF solid THEN <<Fragment("text", Here)>> ELSE <<>>

(* Calls are numbered by the message they are in; 0 is a call that is not  *)
(* part of the conversation, because the client has forgotten it.          *)
CallsSoFar == UNION {ToSet(messages[i].calls) : i \in DOMAIN messages}
Result(id) == [id |-> id, images |-> <<100 * Here + id>>, noted |-> FALSE]

UserMessages ==
    {[Message("user", Text(TRUE)) EXCEPT !.images = images] : images \in {<<>>, <<Here>>}}

(* Results, of pictures, are in a user's message, which may have several   *)
(* and a text of its own, or in a tool message each.                       *)
AnswerRole == IF format = "anthropic" THEN "user" ELSE "tool"

AnswersSoFar ==
    {<<Result(id)>> : id \in CallsSoFar \cup {0}}
    \cup (IF format = "anthropic" THEN {<<Result(a), Result(b)>> : a, b \in CallsSoFar} ELSE {})

Answering(results, solid) ==
    [Message(AnswerRole, Text(solid)) EXCEPT
        !.results = results, !.plain = FALSE]

TextBesides == IF format = "anthropic" THEN BOOLEAN ELSE {FALSE}

ResultMessages ==
    {Answering(results, solid) : results \in AnswersSoFar, solid \in TextBesides}

AssistantMessages ==
    {[Message("assistant", Text(TRUE)) EXCEPT !.plain = plain] : plain \in BOOLEAN}
    \cup {Message("assistant", <<>>)}
    \cup {[Message("assistant", Text(solid)) EXCEPT
              !.plain = format = "openai",
              !.calls = IF solid THEN <<Here>> ELSE <<Here, Here + 10>>] : solid \in BOOLEAN}

OtherMessages ==
    IF format = "openai" THEN {Message(role, Text(TRUE)) : role \in {"system", "developer"}}
    ELSE {}

(* The client adds a message, of its own or of an assistant.               *)
Say ==
    /\ Len(messages) < MaxMessages
    /\ \E msg \in UserMessages \cup ResultMessages \cup AssistantMessages \cup OtherMessages :
           messages' = Append(messages, msg)
    /\ payload' = NoPayload
    /\ UNCHANGED <<format, tools, store, answered, sends>>

(* An answer of the gateway, cut off in its call or, without one, its text.*)
Cut ==
    /\ Len(messages) < MaxMessages
    /\ \E msg \in AssistantMessages :
           LET notice == IF msg.calls = <<>> THEN TextNotice(msg)
                         ELSE [call |-> Last(msg.calls)]
           IN /\ HasTools(msg) \/ msg.text # <<>>
              /\ messages' = Append(messages, msg)
              /\ store' = store \cup {notice}
              /\ answered' = answered \cup {notice}
    /\ payload' = NoPayload
    /\ UNCHANGED <<format, tools, sends>>

(* A request: the notices are taken, then the payload is built.            *)
SystemPrompt(msgs) == IF format = "openai" THEN SystemText(msgs) ELSE <<Fragment("system", 0)>>

Send ==
    LET taken == TakeNotices(format, store, messages)
        unified == IF format = "openai" THEN FromOpenAI(taken.done) ELSE FromAnthropic(taken.done)
    IN /\ sends < MaxSends /\ messages # <<>>
       /\ sends' = sends + 1
       /\ store' = taken.store
       /\ payload' = BuildKiroPayload(unified, SystemPrompt(messages), tools)
       /\ UNCHANGED <<format, tools, messages, answered>>

DialogueNext == Say \/ Cut \/ Send

DialogueSpec == DialogueInit /\ [][DialogueNext]_dialogueVars
-----------------------------------------------------------------------------
(* What Kiro is sent                                                       *)

Entries == payload.history \o <<payload.current>>
Built == payload # NoPayload

OfWhat(what, text) == SelectSeq(text, LAMBDA f : f.what = what)
Ids(fragments) == [i \in DOMAIN fragments |-> fragments[i].id]
AllText == FlattenSeq([i \in DOMAIN Entries |-> Entries[i].text])

(* Kiro wants user and assistant to take turns, the user first and last,   *)
(* whatever the client's roles are.                                        *)
Alternates ==
    Built => \A i \in DOMAIN Entries :
                    Entries[i].role = IF i % 2 = 1 THEN "user" ELSE "assistant"

(* "When toolResults are present, there must be a preceding                *)
(* assistantResponseMessage with toolUses" (converters_core.py:932), and   *)
(* neither in a request without tools.                                     *)
ResultsFollowCalls ==
    Built => \A i \in DOMAIN Entries :
        /\ Entries[i].results # <<>> => i > 1 /\ Entries[i - 1].uses # <<>>
        /\ Entries[i].results # <<>> \/ Entries[i].uses # <<>> => payload.tools

(* Every text of the client is there once and in order, and the system     *)
(* prompt once and first.                                                  *)
TextsOf(roles) ==
    FlattenSeq([i \in DOMAIN messages |->
        IF messages[i].role \in roles THEN Ids(messages[i].text) ELSE <<>>])
OtherRoles == {"user", "assistant", "tool", "developer"}

TextsKept ==
    Built =>
        /\ Ids(OfWhat("text", AllText)) = TextsOf({"system"}) \o TextsOf(OtherRoles)
        /\ Len(OfWhat("truncation", AllText)) = 1
        /\ OfWhat("truncation", Head(Entries).text) # <<>>

(* Every result of the client is there once, as a result or as text, and   *)
(* every call, but for those of an assistant's message at the very end.    *)
CountOf(x, seq) == Len(SelectSeq(seq, LAMBDA y : y = x))
ClientResults ==
    FlattenSeq([i \in DOMAIN messages |->
        [j \in DOMAIN messages[i].results |-> messages[i].results[j].id]])
PayloadResults ==
    FlattenSeq([i \in DOMAIN Entries |->
        [j \in DOMAIN Entries[i].results |-> Entries[i].results[j].id]
        \o Ids(OfWhat("result", Entries[i].text))])
ClientCalls(msgs) == FlattenSeq([i \in DOMAIN msgs |-> msgs[i].calls])
PayloadCalls ==
    FlattenSeq([i \in DOMAIN Entries |->
        Entries[i].uses \o Ids(OfWhat("call", Entries[i].text))])

LastSpoken == {i \in DOMAIN messages : messages[i].role # "system"}
EndsWithAssistant ==
    LastSpoken # {} /\ messages[Max(LastSpoken)].role = "assistant"

ToolContentKept ==
    Built =>
        /\ \A id \in ToSet(ClientResults \o PayloadResults) :
               CountOf(id, PayloadResults) = CountOf(id, ClientResults)
        /\ EndsWithAssistant \/ PayloadCalls = ClientCalls(messages)

(* A client that answers each message with calls by one message, or by a   *)
(* run of tool messages, with their results, has them all paired.          *)
Spoken == SelectSeq(messages, LAMBDA m : m.role # "system")
Answers(i) == {j \in DOMAIN Spoken : /\ j > i
                   /\ \A k \in (i + 1)..j : Spoken[k].results # <<>> /\ Spoken[k].role = Spoken[j].role}
AnswersOf(i) ==
    FlattenSeq([j \in DOMAIN Spoken |->
        IF j \in Answers(i)
        THEN [k \in DOMAIN Spoken[j].results |-> Spoken[j].results[k].id] ELSE <<>>])
Orderly ==
    /\ \A i \in DOMAIN Spoken :
           /\ Spoken[i].calls # <<>> => ToSet(AnswersOf(i)) = ToSet(Spoken[i].calls)
           /\ Spoken[i].results # <<>> =>
                  \E j \in DOMAIN Spoken : Spoken[j].calls # <<>> /\ i \in Answers(j)
           /\ format = "anthropic" /\ i > 1 => Spoken[i].role # Spoken[i - 1].role
    /\ ~EndsWithAssistant

ResultsIn(entry) == {entry.results[j].id : j \in DOMAIN entry.results}

AllPaired ==
    Built /\ payload.tools /\ Orderly =>
        \A i \in DOMAIN Entries :
            Entries[i].uses # <<>> => ResultsIn(Entries[i + 1]) = ToSet(Entries[i].uses)

(* A result is passed on as a result only behind its own call, unless the  *)
(* client itself has put it right behind calls, none of which is its own.  *)
CallsAt(i) ==
    UNION {ToSet(Spoken[k].calls) :
              k \in {k \in 1..i : \A l \in k..i : Spoken[l].calls # <<>>}}
Misplaced ==
    UNION {ToSet(AnswersOf(i)) \ CallsAt(i) :
              i \in {i \in DOMAIN Spoken : Spoken[i].calls # <<>>}}

BehindTheirCalls ==
    Built => \A i \in DOMAIN Entries :
        ResultsIn(Entries[i]) \subseteq
            Misplaced \cup (IF i > 1 THEN ToSet(Entries[i - 1].uses) ELSE {})

PairsKept == AllPaired /\ BehindTheirCalls

(* No content is empty, which Kiro would reject; but an assistant's message*)
(* at the very end is passed on as it is.                                  *)
ContentsNonEmpty ==
    Built => \A i \in DOMAIN Entries :
        Entries[i].text # <<>> \/ (EndsWithAssistant /\ i = Len(Entries) - 1)

(* The ids that the notices in a payload are about.                        *)
Notices(p) ==
    LET entries == p.history \o <<p.current>> IN
    UNION {{entries[i].results[j].id : j \in {k \in DOMAIN entries[i].results :
                                                 entries[i].results[k].noted}}
           \cup ToSet(Ids(OfWhat("notice", entries[i].text))) : i \in DOMAIN entries}

(* Every image reaches Kiro, unless its message is merged into another, be *)
(* it one of the client or the notice about the answer before it, or a     *)
(* notice replaces the result that it is in, the first for its call.       *)
Unified(msgs) == IF format = "openai" THEN FromOpenAI(msgs) ELSE FromAnthropic(msgs)
Unmerged ==
    LET unified == Unified(messages)
    IN /\ \A notice \in answered : "call" \in DOMAIN notice
       /\ \A i \in DOMAIN unified : i > 1 => unified[i].role # unified[i - 1].role

NoticeReplaces(i, j) ==
    LET id == messages[i].results[j].id
        same(k) == {l \in DOMAIN messages[k].results : messages[k].results[l].id = id}
    IN /\ id \in Notices(payload)
       /\ \A k \in 1..(i - 1) : same(k) = {}
       /\ \A l \in same(i) : j <= l

ImagesKept ==
    Built /\ Unmerged =>
        FlattenSeq([i \in DOMAIN Entries |-> Entries[i].images])
            = FlattenSeq([i \in DOMAIN messages |->
                  messages[i].images \o FlattenSeq([j \in DOMAIN messages[i].results |->
                      IF NoticeReplaces(i, j) THEN <<>> ELSE messages[i].results[j].images])])

(* Kiro can take every request that is sent to it, whatever the client's   *)
(* messages look like.                                                     *)
WellFormed == Alternates /\ ResultsFollowCalls /\ ContentsNonEmpty

(* And nothing of the client's messages is lost on the way.                *)
NothingLost == TextsKept /\ ToolContentKept /\ ImagesKept

(* A notice that is taken is sent with this request, next to the result or *)
(* after the text it is about.                                             *)
IdOf(notice) == IF "call" \in DOMAIN notice THEN notice.call ELSE Head(notice.text).id

NoticesSent ==
    [][/\ \A notice \in store \ store' :
              payload' # NoPayload => IdOf(notice) \in Notices(payload')
       /\ \A id \in Notices(payload') : \E notice \in answered : IdOf(notice) = id]_dialogueVars
=============================================================================
