----------------------------- MODULE HttpRetries -----------------------------
(* kiro/http_client.py, request_with_retry, and the routes' use of it: one *)
(* request is sent to Kiro again and again until an attempt settles it.    *)
(* The coroutine waits for a token, for the status of Kiro, for a new      *)
(* token after a 403, between attempts, and while the response is served.  *)
EXTENDS Integers, Sequences, FiniteSets

CONSTANT MaxRetries      \* FIRST_TOKEN_MAX_RETRIES, since routes say stream=True

ASSUME RetriesAssumption == MaxRetries \in Nat \ {0}

VARIABLES
    stream,      \* the client streams: the HTTP client is its own, not shared
    pc,          \* "token", "sent", "refreshing", "sleeping", "serving", "done"
    attempt,
    lastError,   \* suggested code of last_error_info; 0 is None
    unclosed,    \* responses of Kiro that are neither read nor closed
    status,      \* what the client is answered; 0 is nothing yet
    heard        \* history: what each attempt has brought

retryVars == <<stream, pc, attempt, lastError, unclosed, status, heard>>

Init ==
    /\ stream \in BOOLEAN
    /\ pc = "token" /\ attempt = 1 /\ lastError = 0 /\ unclosed = 0 /\ status = 0
    /\ heard = <<>>
-----------------------------------------------------------------------------
(* network_errors.py: the category of an error says whether to try again,  *)
(* and the status to answer.                                               *)
ConnectErrors == {"dns", "refused", "reset", "unreachable", "ssl"}
TimeoutErrors == {"connect timeout", "read timeout"}
NetworkErrors == ConnectErrors \cup TimeoutErrors \cup {"redirects", "proxy", "unknown"}
(* Defect: every error of the network is tried again.                      *)
IsAnyError(error) == TRUE

IsRetryable(error) == error \notin {"ssl", "redirects"}

SuggestedCode(error) == IF error \in TimeoutErrors THEN 504 ELSE 502

(* Defect: the HTTP client of a request that streams is left open.         *)
AnswerOnly(code, left) ==
    /\ status' = code
    /\ pc' = "done"
    /\ unclosed' = left
    /\ UNCHANGED <<stream, attempt>>

(* The answer: the HTTP client is closed with all of its connections if it *)
(* is this request's own; close() does nothing for the shared one.         *)
Answer(code, left) ==
    /\ status' = code
    /\ pc' = "done"
    /\ unclosed' = IF stream THEN 0 ELSE left
    /\ UNCHANGED <<stream, attempt>>

(* After the last attempt: the last error of the network, if there was any.*)
GiveUp(error, left) == Answer(IF error = 0 THEN 504 ELSE error, left)

(* Defect: nothing is answered after the last attempt.                     *)
NextAttemptIfLeft(left) ==
    /\ attempt < MaxRetries
    /\ pc' = "token" /\ attempt' = attempt + 1
    /\ unclosed' = left
    /\ UNCHANGED <<stream, status>>

NextAttempt(left) ==
    IF attempt = MaxRetries THEN GiveUp(lastError, left)
    ELSE /\ pc' = "token" /\ attempt' = attempt + 1
         /\ unclosed' = left
         /\ UNCHANGED <<stream, status>>

Hear(what) == heard' = Append(heard, what)

Sleep ==
    /\ pc' = "sleeping"
    /\ UNCHANGED <<stream, attempt, status>>

(* The two except clauses.                                                 *)
NetworkError(error) ==
    /\ Hear(error)
    /\ lastError' = SuggestedCode(error)
    /\ IF IsRetryable(error) /\ attempt < MaxRetries
       THEN Sleep /\ UNCHANGED unclosed
       ELSE GiveUp(SuggestedCode(error), unclosed)

(* Any other exception goes to the route, which answers 500.               *)
InternalError ==
    /\ Hear("internal")
    /\ Answer(500, unclosed)
    /\ UNCHANGED lastError

Fails == InternalError \/ \E error \in NetworkErrors : NetworkError(error)
-----------------------------------------------------------------------------
(* get_access_token, whose request may fail as well                        *)
Token ==
    /\ pc = "token"
    /\ pc' = "sent"
    /\ UNCHANGED <<stream, attempt, lastError, unclosed, status, heard>>

TokenFails == pc = "token" /\ Fails

SendFails == pc = "sent" /\ \E error \in NetworkErrors : NetworkError(error)

Accepted ==
    /\ pc = "sent"
    /\ pc' = "serving"
    /\ unclosed' = unclosed + 1
    /\ Hear("ok")
    /\ UNCHANGED <<stream, attempt, lastError, status>>

(* 403: the response is left as it is while the token is refreshed.        *)
Forbidden ==
    /\ pc = "sent"
    /\ pc' = "refreshing"
    /\ unclosed' = unclosed + 1
    /\ UNCHANGED <<stream, attempt, lastError, status, heard>>

Refreshed ==
    /\ pc = "refreshing"
    /\ Hear("forbidden")
    /\ NextAttempt(unclosed)
    /\ UNCHANGED lastError

RefreshFails == pc = "refreshing" /\ Fails

(* 429, whose body is read, and 5xx, whose body is not: back off, even     *)
(* after the last attempt.                                                 *)
Busy(code) ==
    /\ pc = "sent"
    /\ Hear("busy")
    /\ unclosed' = IF code = 429 THEN unclosed ELSE unclosed + 1
    /\ Sleep
    /\ UNCHANGED lastError

Wake ==
    /\ pc = "sleeping"
    /\ NextAttempt(unclosed)
    /\ UNCHANGED <<lastError, heard>>

(* Any other status is read and passed on.                                 *)
Rejected(code) ==
    /\ pc = "sent"
    /\ Hear("rejected")
    /\ Answer(code, unclosed)
    /\ UNCHANGED lastError

(* The response has been streamed, however that ended, or collected.       *)
Served ==
    /\ pc = "serving"
    /\ \E code \in IF stream THEN {200} ELSE {200, 500} : Answer(code, unclosed - 1)
    /\ UNCHANGED <<lastError, heard>>

Next ==
    \/ Token \/ TokenFails \/ SendFails
    \/ Accepted \/ Forbidden \/ Refreshed \/ RefreshFails \/ Wake \/ Served
    \/ \E code \in {429, 500} : Busy(code)
    \/ \E code \in {400, 402} : Rejected(code)

Spec == Init /\ [][Next]_retryVars

(* Every wait has a timeout.                                               *)
FairSpec == Spec /\ WF_retryVars(Next)
-----------------------------------------------------------------------------
(* The answer is what the attempts say: what Kiro said where that is final,*)
(* otherwise the last failure of the network in any attempt, otherwise a   *)
(* 504; Kiro is asked again just as long as nothing was final, and at most *)
(* MaxRetries times: never after it has accepted the request.              *)
Final == {"ok", "rejected", "internal", "ssl", "redirects"}

LatestFailure ==
    {i \in DOMAIN heard : /\ heard[i] \in NetworkErrors
                          /\ \A j \in (i + 1)..Len(heard) : heard[j] \notin NetworkErrors}

AnswerOfAttempts ==
    LET last == heard[Len(heard)] IN
    IF last = "ok" THEN IF stream THEN {200} ELSE {200, 500}
    ELSE IF last = "rejected" THEN {400, 402}
    ELSE IF last = "internal" THEN {500}
    ELSE IF LatestFailure = {} THEN {504}
    ELSE {SuggestedCode(heard[i]) : i \in LatestFailure}

AnsweredRight ==
    /\ Len(heard) <= MaxRetries
    /\ \A i \in 1..(Len(heard) - 1) : heard[i] \notin Final
    /\ pc = "done" => /\ status \in AnswerOfAttempts
                      /\ heard[Len(heard)] \in Final \/ Len(heard) = MaxRetries

(* A request that streams leaves no connection behind; one that does not   *)
(* leaves, in the client that all share, those of attempts that failed,    *)
(* and only those.                                                         *)
Failed == {i \in DOMAIN heard : heard[i] \notin {"ok", "rejected"}}

ConnectionsClosed ==
    pc = "done" => unclosed <= IF stream THEN 0 ELSE Cardinality(Failed)

(* Every request is answered.                                              *)
Answered == <>(pc = "done")
=============================================================================
