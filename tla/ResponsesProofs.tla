--------------------------- MODULE ResponsesProofs ---------------------------
(***************************************************************************)
(* What holds of one request to Kiro and of the response to it, for any    *)
(* number of attempts, and whatever Kiro sends: what the client is         *)
(* answered and the connections left behind (HttpRetries), what a stream   *)
(* shows its client (StreamProperties), and how the thinking is split off  *)
(* (ThinkingStream).                                                       *)
(*                                                                         *)
(* A stream's invariant is about its client: sent leads to a state q (the  *)
(* blocks open, the stage, the rank of the latest chunk), the items that   *)
(* wait in out lead from q to a state p, each of them allowed where it     *)
(* comes, and p is what the converter's own variables say.  The converter  *)
(* may put text behind text without closing a thinking block only because  *)
(* thinking comes before all text, so that the order in which the parsers  *)
(* let events out is part of the argument.                                 *)
(*                                                                         *)
(* The thinking parser's invariant (Split) is about the text fed to it so  *)
(* far: what it has shown of the text and what it holds back, in each of   *)
(* its states.  It holds back enough that a closing tag that is still to   *)
(* come cannot begin in what has been shown.                               *)
(***************************************************************************)
EXTENDS HttpRetries, StreamProperties, ThinkingStream, LoopProofs, FiniteSetTheorems

-----------------------------------------------------------------------------
(* The attempts                                                            *)

Heard == NetworkErrors \cup {"ok", "rejected", "internal", "forbidden", "busy"}

RetriesTypeOK ==
    /\ stream \in BOOLEAN
    /\ pc \in {"token", "sent", "refreshing", "sleeping", "serving", "done"}
    /\ attempt \in 1..MaxRetries
    /\ unclosed \in Nat
    /\ heard \in Seq(Heard)

(* An attempt is heard of when it ends, by waiting for the next or by      *)
(* being served.                                                           *)
AttemptsHeard ==
    Len(heard) = IF pc \in {"token", "sent", "refreshing"} THEN attempt - 1 ELSE attempt

(* What is final ends the attempts.                                        *)
FinalLast ==
    /\ \A i \in 1..(Len(heard) - 1) : heard[i] \notin Final
    /\ pc \notin {"serving", "done"} =>
           \A i \in DOMAIN heard : heard[i] \notin Final
    /\ pc = "serving" => heard[Len(heard)] = "ok"

(* last_error_info is of the latest failure of the network.                *)
LastErrorTold ==
    \/ lastError = 0 /\ LatestFailure = {}
    \/ \E i \in LatestFailure : lastError = SuggestedCode(heard[i])

(* Each attempt that failed has left one response open at most, and the    *)
(* one under way may have its own.                                         *)
ResponsesCounted ==
    /\ unclosed <= Cardinality(Failed)
                       + IF pc \in {"refreshing", "serving"} THEN 1 ELSE 0
    /\ pc = "serving" => unclosed # 0
    /\ pc = "done" /\ stream => unclosed = 0

DoneRight ==
    pc = "done" => /\ status \in AnswerOfAttempts
                   /\ heard[Len(heard)] \in Final \/ Len(heard) = MaxRetries

RetriesInv ==
    /\ RetriesTypeOK
    /\ AttemptsHeard
    /\ FinalLast
    /\ LastErrorTold
    /\ ResponsesCounted
    /\ DoneRight
-----------------------------------------------------------------------------
(* The history                                                             *)

LEMMA HeardOnce ==
    ASSUME heard \in Seq(Heard), NEW what \in Heard, Hear(what)
    PROVE  /\ heard' \in Seq(Heard) /\ Len(heard') = Len(heard) + 1
           /\ Len(heard) \in Nat
           /\ DOMAIN heard = 1..Len(heard) /\ DOMAIN heard' = 1..(Len(heard) + 1)
           /\ heard'[Len(heard) + 1] = what
           /\ \A i \in 1..Len(heard) : heard'[i] = heard[i]
BY AppendProperties DEF Hear

LEMMA FailedFinite ==
    ASSUME NEW all \in Seq(Heard)
    PROVE  LET failed == {i \in DOMAIN all : all[i] \notin {"ok", "rejected"}}
           IN  IsFiniteSet(failed) /\ Cardinality(failed) \in Nat
<1> DEFINE failed == {i \in DOMAIN all : all[i] \notin {"ok", "rejected"}}
<1>1. IsFiniteSet(1..Len(all)) /\ DOMAIN all = 1..Len(all)
  BY FS_Interval
<1>2. failed \subseteq 1..Len(all)
  BY <1>1
<1> HIDE DEF failed
<1>3. IsFiniteSet(failed) /\ Cardinality(failed) \in Nat
  BY <1>1, <1>2, FS_Subset, FS_CardinalityType
<1> QED
  BY <1>3 DEF failed

LEMMA FailedCounted ==
    ASSUME heard \in Seq(Heard), NEW what \in Heard, Hear(what)
    PROVE  Cardinality(Failed') =
               Cardinality(Failed) + IF what \in {"ok", "rejected"} THEN 0 ELSE 1
<1> IsFiniteSet(Failed) /\ Cardinality(Failed) \in Nat
  BY FailedFinite DEF Failed
<1>1. CASE what \in {"ok", "rejected"}
  <2>1. Failed' = Failed
    BY <1>1, HeardOnce DEF Failed
  <2> QED
    BY <1>1, <2>1
<1>2. CASE what \notin {"ok", "rejected"}
  <2>1. Failed' = Failed \cup {Len(heard) + 1}
    BY <1>2, HeardOnce DEF Failed
  <2>2. Len(heard) + 1 \notin Failed
    BY HeardOnce DEF Failed
  <2> QED
    BY <1>2, <2>1, <2>2, FS_AddElement
<1> QED
  BY <1>1, <1>2

(* last_error_info is set by every failure of the network, and by nothing  *)
(* else.                                                                   *)
LEMMA LastErrorKept ==
    ASSUME heard \in Seq(Heard), LastErrorTold, NEW what \in Heard, Hear(what),
           lastError' = IF what \in NetworkErrors THEN SuggestedCode(what) ELSE lastError
    PROVE  LastErrorTold'
<1>1. CASE what \in NetworkErrors
  <2>1. Len(heard) + 1 \in LatestFailure'
    BY <1>1, HeardOnce DEF LatestFailure
  <2> QED
    BY <1>1, <2>1, HeardOnce DEF LastErrorTold
<1>2. CASE what \notin NetworkErrors
  <2>1. LatestFailure' = LatestFailure
    <3>1. ASSUME NEW i \in LatestFailure PROVE i \in LatestFailure'
      BY <1>2, <3>1, HeardOnce DEF LatestFailure
    <3>2. ASSUME NEW i \in LatestFailure' PROVE i \in LatestFailure
      BY <1>2, <3>2, HeardOnce DEF LatestFailure
    <3> QED
      BY <3>1, <3>2
  <2>2. \A i \in LatestFailure : heard'[i] = heard[i]
    BY HeardOnce DEF LatestFailure
  <2> QED
    BY <1>2, <2>1, <2>2 DEF LastErrorTold
<1> QED
  BY <1>1, <1>2
-----------------------------------------------------------------------------
(* The three ways an attempt ends                                          *)

(* What the attempts of a request look like once the current one is over.  *)
AttemptOver ==
    /\ heard \in Seq(Heard)
    /\ \A i \in 1..(Len(heard) - 1) : heard[i] \notin Final
    /\ LastErrorTold

LEMMA OverAfter ==
    ASSUME RetriesInv, Len(heard) = attempt - 1, pc \notin {"serving", "done"}, NEW what \in Heard, Hear(what),
           lastError' = IF what \in NetworkErrors THEN SuggestedCode(what) ELSE lastError
    PROVE  /\ AttemptOver' /\ Len(heard') = attempt /\ heard'[Len(heard')] = what
           /\ what \notin Final => \A i \in DOMAIN heard' : heard'[i] \notin Final
<1>1. heard \in Seq(Heard) /\ LastErrorTold /\ attempt \in Nat
  BY DEF RetriesInv, RetriesTypeOK
<1>2. LastErrorTold'
  BY <1>1, LastErrorKept
<1>3. \A i \in 1..Len(heard) : heard[i] \notin Final
  BY <1>1, HeardOnce DEF RetriesInv, FinalLast
<1> QED
  BY <1>1, <1>2, <1>3, HeardOnce DEF AttemptOver

LEMMA AnswerGiven ==
    ASSUME RetriesTypeOK, AttemptOver', Len(heard') = attempt, NEW left \in Nat, left <= Cardinality(Failed)',
           NEW code, Answer(code, left), code \in AnswerOfAttempts',
           heard'[Len(heard')] \in Final \/ Len(heard') = MaxRetries
    PROVE  RetriesInv'
<1>1. /\ pc' = "done" /\ status' = code /\ stream' = stream /\ attempt' = attempt
      /\ unclosed' = IF stream THEN 0 ELSE left
  BY DEF Answer
<1>2. RetriesTypeOK'
  BY <1>1 DEF RetriesTypeOK, AttemptOver
<1>3. ResponsesCounted'
  <2>1. Cardinality(Failed)' \in Nat
    BY FailedFinite DEF AttemptOver, Failed
  <2> QED
    BY <1>1, <2>1 DEF ResponsesCounted, RetriesTypeOK
<1> QED
  BY <1>1, <1>2, <1>3 DEF RetriesInv, AttemptsHeard, FinalLast, AttemptOver, DoneRight

(* The answer to give up with is the one that the attempts call for.       *)
LEMMA GivenUp ==
    ASSUME RetriesTypeOK, AttemptOver', Len(heard') = attempt, NEW left \in Nat, left <= Cardinality(Failed)',
           NEW error, error = lastError', GiveUp(error, left),
           heard'[Len(heard')] \notin {"ok", "rejected", "internal"},
           heard'[Len(heard')] \in Final \/ Len(heard') = MaxRetries
    PROVE  RetriesInv'
<1> DEFINE code == IF error = 0 THEN 504 ELSE error
<1>1. code \in AnswerOfAttempts'
  <2>1. CASE error = 0 /\ LatestFailure' = {}
    BY <2>1 DEF AnswerOfAttempts
  <2>2. CASE \E i \in LatestFailure' : error = SuggestedCode(heard'[i])
    <3>1. error # 0
      BY <2>2 DEF SuggestedCode
    <3> QED
      BY <2>2, <3>1 DEF AnswerOfAttempts
  <2> QED
    BY <2>1, <2>2 DEF AttemptOver, LastErrorTold
<1>2. Answer(code, left)
  BY DEF GiveUp
<1> HIDE DEF code
<1> QED
  BY <1>1, <1>2, AnswerGiven

LEMMA GoesOn ==
    ASSUME RetriesTypeOK, AttemptOver', Len(heard') = attempt,
           NEW left \in Nat, left <= Cardinality(Failed)', lastError' = lastError, NextAttempt(left),
           \A i \in DOMAIN heard' : heard'[i] \notin Final
    PROVE  RetriesInv'
<1>1. CASE attempt = MaxRetries
  <2>1. GiveUp(lastError, left) /\ attempt' = attempt
    BY <1>1 DEF NextAttempt, GiveUp, Answer
  <2>2. Len(heard') = MaxRetries /\ heard'[Len(heard')] \notin Final
    BY <1>1, <2>1 DEF AttemptOver, RetriesTypeOK
  <2>3. heard'[Len(heard')] \notin {"ok", "rejected", "internal"}
    BY <2>2 DEF Final
  <2> QED
    BY <2>1, <2>2, <2>3, GivenUp
<1>2. CASE attempt # MaxRetries
  <2>1. /\ pc' = "token" /\ attempt' = attempt + 1 /\ unclosed' = left
        /\ stream' = stream
    BY <1>2 DEF NextAttempt
  <2>2. RetriesTypeOK'
    BY <1>2, <2>1, RetriesAssumption DEF RetriesTypeOK, AttemptOver
  <2>3. AttemptsHeard' /\ ResponsesCounted'
    <3>1. Cardinality(Failed)' \in Nat
      BY FailedFinite DEF AttemptOver, Failed
    <3> QED
      BY <2>1, <3>1 DEF AttemptsHeard, ResponsesCounted, RetriesTypeOK
  <2>4. FinalLast' /\ DoneRight'
    BY <2>1 DEF FinalLast, AttemptOver, DoneRight
  <2> QED
    BY <2>2, <2>3, <2>4 DEF RetriesInv, AttemptOver
<1> QED
  BY <1>1, <1>2
-----------------------------------------------------------------------------
(* The steps                                                               *)

LEMMA InitRetriesInv == Init => RetriesInv
<1> SUFFICES ASSUME Init PROVE RetriesInv
  OBVIOUS
<1>1. heard \in Seq(Heard) /\ Len(heard) = 0 /\ DOMAIN heard = {}
  BY EmptySeq DEF Init
<1>2. Cardinality(Failed) \in Nat
  BY <1>1, FailedFinite DEF Failed
<1> QED
  BY <1>1, <1>2, RetriesAssumption DEF Init, RetriesInv, RetriesTypeOK, AttemptsHeard, FinalLast,
     LastErrorTold, LatestFailure, ResponsesCounted, DoneRight

(* A failure of the network, in any of the waits that may have one.        *)
LEMMA NetworkErrorKeeps ==
    ASSUME RetriesInv, pc \in {"token", "sent", "refreshing"},
           NEW error \in NetworkErrors, NetworkError(error)
    PROVE  RetriesInv'
<1>1. /\ RetriesTypeOK /\ Len(heard) = attempt - 1 /\ Hear(error) /\ error \in Heard
      /\ lastError' = SuggestedCode(error)
  BY DEF RetriesInv, AttemptsHeard, NetworkError, Heard
<1>2. /\ AttemptOver' /\ Len(heard') = attempt /\ heard'[Len(heard')] = error
      /\ error \notin Final => \A i \in DOMAIN heard' : heard'[i] \notin Final
  BY <1>1, OverAfter
<1>3. error \notin {"ok", "rejected", "internal"}
  BY DEF NetworkErrors, ConnectErrors, TimeoutErrors
<1>4. unclosed \in Nat /\ unclosed <= Cardinality(Failed)'
  <2>1. Cardinality(Failed') = Cardinality(Failed) + 1
    BY <1>1, <1>3, FailedCounted DEF RetriesTypeOK
  <2>2. Cardinality(Failed) \in Nat
    BY <1>1, FailedFinite DEF RetriesTypeOK, Failed
  <2> QED
    BY <2>1, <2>2 DEF RetriesInv, ResponsesCounted, RetriesTypeOK
<1>5. IsRetryable(error) <=> error \notin Final
  BY <1>3 DEF IsRetryable, Final
<1>6. CASE IsRetryable(error) /\ attempt < MaxRetries
  <2>1. /\ pc' = "sleeping"
        /\ UNCHANGED <<stream, attempt, status, unclosed>>
    BY <1>6 DEF NetworkError, Sleep
  <2>2. RetriesTypeOK'
    BY <1>1, <1>2, <2>1 DEF RetriesTypeOK, AttemptOver
  <2>3. AttemptsHeard' /\ ResponsesCounted' /\ DoneRight'
    <3>1. Cardinality(Failed)' \in Nat
      BY <1>2, FailedFinite DEF AttemptOver, Failed
    <3> QED
      BY <1>2, <1>4, <2>1, <3>1 DEF AttemptsHeard, ResponsesCounted, DoneRight
  <2>4. FinalLast'
    BY <1>2, <1>5, <1>6, <2>1 DEF FinalLast, AttemptOver
  <2> QED
    BY <1>2, <2>2, <2>3, <2>4 DEF RetriesInv, AttemptOver
<1>7. CASE ~(IsRetryable(error) /\ attempt < MaxRetries)
  <2>1. GiveUp(SuggestedCode(error), unclosed)
    BY <1>7 DEF NetworkError
  <2>2. heard'[Len(heard')] \in Final \/ Len(heard') = MaxRetries
    BY <1>1, <1>2, <1>5, <1>7, RetriesAssumption DEF RetriesTypeOK
  <2> QED
    BY <1>1, <1>2, <1>3, <1>4, <2>1, <2>2, GivenUp
<1> QED
  BY <1>6, <1>7

LEMMA InternalErrorKeeps ==
    ASSUME RetriesInv, pc \in {"token", "refreshing"}, InternalError
    PROVE  RetriesInv'
<1>1. /\ RetriesTypeOK /\ Len(heard) = attempt - 1 /\ Hear("internal")
      /\ lastError' = lastError /\ Answer(500, unclosed)
      /\ "internal" \in Heard /\ "internal" \notin NetworkErrors
  BY DEF RetriesInv, AttemptsHeard, InternalError, Heard, NetworkErrors,
     ConnectErrors, TimeoutErrors
<1>2. /\ AttemptOver' /\ Len(heard') = attempt /\ heard'[Len(heard')] = "internal"
  BY <1>1, OverAfter
<1>3. unclosed \in Nat /\ unclosed <= Cardinality(Failed)'
  <2>1. Cardinality(Failed') = Cardinality(Failed) + 1
    BY <1>1, FailedCounted DEF RetriesTypeOK
  <2>2. Cardinality(Failed) \in Nat
    BY <1>1, FailedFinite DEF RetriesTypeOK, Failed
  <2> QED
    BY <2>1, <2>2 DEF RetriesInv, ResponsesCounted, RetriesTypeOK
<1>4. 500 \in AnswerOfAttempts' /\ heard'[Len(heard')] \in Final
  BY <1>2 DEF AnswerOfAttempts, Final
<1> QED
  BY <1>1, <1>2, <1>3, <1>4, AnswerGiven

(* A step that hears nothing: the token, and a 403.                        *)
LEMMA UnheardKeeps ==
    ASSUME RetriesInv, Token \/ Forbidden
    PROVE  RetriesInv'
<1>1. /\ pc \in {"token", "sent"} /\ pc' \in {"sent", "refreshing"}
      /\ UNCHANGED <<stream, attempt, lastError, status, heard>>
      /\ unclosed' = unclosed + IF pc' = "refreshing" THEN 1 ELSE 0
  BY DEF Token, Forbidden, RetriesInv, RetriesTypeOK
<1>2. Cardinality(Failed) \in Nat /\ Failed' = Failed
  BY <1>1, FailedFinite DEF RetriesInv, RetriesTypeOK, Failed
<1>3. RetriesTypeOK' /\ ResponsesCounted'
  BY <1>1, <1>2 DEF RetriesInv, RetriesTypeOK, ResponsesCounted
<1>4. LastErrorTold'
  BY <1>1 DEF RetriesInv, LastErrorTold, LatestFailure
<1>5. AttemptsHeard' /\ FinalLast' /\ DoneRight'
  BY <1>1 DEF RetriesInv, AttemptsHeard, FinalLast, DoneRight
<1> QED
  BY <1>3, <1>4, <1>5 DEF RetriesInv

(* A 403 after which the token was refreshed.                              *)
LEMMA RefreshedKeeps ==
    ASSUME RetriesInv, Refreshed
    PROVE  RetriesInv'
<1>1. /\ RetriesTypeOK /\ Len(heard) = attempt - 1 /\ Hear("forbidden")
      /\ pc = "refreshing" /\ lastError' = lastError /\ NextAttempt(unclosed)
      /\ "forbidden" \in Heard /\ "forbidden" \notin NetworkErrors
      /\ "forbidden" \notin Final
  BY DEF RetriesInv, AttemptsHeard, Refreshed, Heard, NetworkErrors,
     ConnectErrors, TimeoutErrors, Final
<1>2. /\ AttemptOver' /\ Len(heard') = attempt
      /\ \A i \in DOMAIN heard' : heard'[i] \notin Final
  BY <1>1, OverAfter
<1>3. unclosed \in Nat /\ unclosed <= Cardinality(Failed)'
  <2>1. Cardinality(Failed') = Cardinality(Failed) + 1
    BY <1>1, FailedCounted DEF RetriesTypeOK
  <2>2. Cardinality(Failed) \in Nat
    BY <1>1, FailedFinite DEF RetriesTypeOK, Failed
  <2> QED
    BY <1>1, <2>1, <2>2 DEF RetriesInv, ResponsesCounted, RetriesTypeOK
<1> QED
  BY <1>1, <1>2, <1>3, GoesOn

LEMMA WakeKeeps ==
    ASSUME RetriesInv, Wake
    PROVE  RetriesInv'
<1>1. /\ RetriesTypeOK /\ Len(heard) = attempt /\ UNCHANGED <<lastError, heard>>
      /\ pc = "sleeping" /\ NextAttempt(unclosed)
  BY DEF RetriesInv, AttemptsHeard, Wake
<1>2. AttemptOver' /\ \A i \in DOMAIN heard' : heard'[i] \notin Final
  BY <1>1 DEF AttemptOver, RetriesInv, RetriesTypeOK, FinalLast, LastErrorTold,
     LatestFailure
<1>3. unclosed \in Nat /\ unclosed <= Cardinality(Failed)'
  <2>1. Failed' = Failed /\ Cardinality(Failed) \in Nat
    BY <1>1, FailedFinite DEF RetriesTypeOK, Failed
  <2> QED
    BY <1>1, <2>1 DEF RetriesInv, ResponsesCounted, RetriesTypeOK
<1> QED
  BY <1>1, <1>2, <1>3, GoesOn

(* A 429 or a 5xx: it waits, even after the last attempt.                  *)
LEMMA BusyKeeps ==
    ASSUME RetriesInv, NEW code \in {429, 500}, Busy(code)
    PROVE  RetriesInv'
<1>1. /\ RetriesTypeOK /\ Len(heard) = attempt - 1 /\ Hear("busy")
      /\ pc = "sent" /\ pc' = "sleeping"
      /\ UNCHANGED <<stream, attempt, lastError, status>>
      /\ unclosed' \in {unclosed, unclosed + 1}
      /\ "busy" \in Heard /\ "busy" \notin NetworkErrors /\ "busy" \notin Final
  BY DEF RetriesInv, AttemptsHeard, Busy, Sleep, Heard, NetworkErrors,
     ConnectErrors, TimeoutErrors, Final
<1>2. /\ AttemptOver' /\ Len(heard') = attempt
      /\ \A i \in DOMAIN heard' : heard'[i] \notin Final
  BY <1>1, OverAfter
<1>3. unclosed' \in Nat /\ unclosed' <= Cardinality(Failed)'
  <2>1. Cardinality(Failed') = Cardinality(Failed) + 1
    BY <1>1, FailedCounted DEF RetriesTypeOK
  <2>2. Cardinality(Failed) \in Nat
    BY <1>1, FailedFinite DEF RetriesTypeOK, Failed
  <2> QED
    BY <1>1, <2>1, <2>2 DEF RetriesInv, ResponsesCounted, RetriesTypeOK
<1>4. RetriesTypeOK'
  BY <1>1, <1>2, <1>3 DEF RetriesTypeOK, AttemptOver
<1>5. AttemptsHeard' /\ FinalLast' /\ DoneRight'
  BY <1>1, <1>2 DEF AttemptsHeard, FinalLast, AttemptOver, DoneRight
<1>6. ResponsesCounted'
  <2>1. Cardinality(Failed)' \in Nat
    BY <1>2, FailedFinite DEF AttemptOver, Failed
  <2> QED
    BY <1>1, <1>3, <2>1 DEF ResponsesCounted
<1> QED
  BY <1>2, <1>4, <1>5, <1>6 DEF RetriesInv, AttemptOver

(* Kiro takes the request: the response is open until it is served.        *)
LEMMA AcceptedKeeps ==
    ASSUME RetriesInv, Accepted
    PROVE  RetriesInv'
<1>1. /\ RetriesTypeOK /\ Len(heard) = attempt - 1 /\ Hear("ok")
      /\ pc = "sent" /\ pc' = "serving"
      /\ UNCHANGED <<stream, attempt, lastError, status>>
      /\ unclosed' = unclosed + 1
      /\ "ok" \in Heard /\ "ok" \notin NetworkErrors
  BY DEF RetriesInv, AttemptsHeard, Accepted, Heard, NetworkErrors,
     ConnectErrors, TimeoutErrors
<1>2. AttemptOver' /\ Len(heard') = attempt /\ heard'[Len(heard')] = "ok"
  BY <1>1, OverAfter
<1>3. ResponsesCounted' /\ unclosed' \in Nat
  <2>1. Cardinality(Failed) \in Nat
    BY <1>1, FailedFinite DEF RetriesTypeOK, Failed
  <2>2. Cardinality(Failed') = Cardinality(Failed)
    BY <1>1, <2>1, FailedCounted DEF RetriesTypeOK
  <2> QED
    BY <1>1, <2>1, <2>2 DEF RetriesInv, ResponsesCounted, RetriesTypeOK
<1>4. RetriesTypeOK'
  BY <1>1, <1>2, <1>3 DEF RetriesTypeOK, AttemptOver
<1>5. AttemptsHeard' /\ FinalLast' /\ DoneRight'
  BY <1>1, <1>2 DEF AttemptsHeard, FinalLast, AttemptOver, DoneRight
<1> QED
  BY <1>2, <1>3, <1>4, <1>5 DEF RetriesInv, AttemptOver

LEMMA RejectedKeeps ==
    ASSUME RetriesInv, NEW code \in {400, 402}, Rejected(code)
    PROVE  RetriesInv'
<1>1. /\ RetriesTypeOK /\ Len(heard) = attempt - 1 /\ Hear("rejected")
      /\ pc = "sent" /\ lastError' = lastError /\ Answer(code, unclosed)
      /\ "rejected" \in Heard /\ "rejected" \notin NetworkErrors
  BY DEF RetriesInv, AttemptsHeard, Rejected, Heard, NetworkErrors,
     ConnectErrors, TimeoutErrors
<1>2. /\ AttemptOver' /\ Len(heard') = attempt /\ heard'[Len(heard')] = "rejected"
  BY <1>1, OverAfter
<1>3. unclosed \in Nat /\ unclosed <= Cardinality(Failed)'
  <2>1. Cardinality(Failed) \in Nat
    BY <1>1, FailedFinite DEF RetriesTypeOK, Failed
  <2>2. Cardinality(Failed') = Cardinality(Failed)
    BY <1>1, <2>1, FailedCounted DEF RetriesTypeOK
  <2> QED
    BY <1>1, <2>1, <2>2 DEF RetriesInv, ResponsesCounted, RetriesTypeOK
<1>4. code \in AnswerOfAttempts' /\ heard'[Len(heard')] \in Final
  BY <1>2 DEF AnswerOfAttempts, Final
<1> QED
  BY <1>1, <1>2, <1>3, <1>4, AnswerGiven

LEMMA ServedKeeps ==
    ASSUME RetriesInv, Served
    PROVE  RetriesInv'
<1>1. PICK code \in (IF stream THEN {200} ELSE {200, 500}) : Answer(code, unclosed - 1)
  BY DEF Served
<1>2. /\ RetriesTypeOK /\ Len(heard) = attempt /\ UNCHANGED <<lastError, heard>>
      /\ pc = "serving" /\ heard[Len(heard)] = "ok" /\ stream' = stream
  BY <1>1 DEF RetriesInv, AttemptsHeard, FinalLast, Served, Answer
<1>3. AttemptOver'
  BY <1>2 DEF AttemptOver, RetriesInv, RetriesTypeOK, FinalLast, LastErrorTold,
     LatestFailure
<1>4. unclosed - 1 \in Nat /\ unclosed - 1 <= Cardinality(Failed)'
  <2>1. heard \in Seq(Heard) /\ Failed' = Failed
    BY <1>2 DEF RetriesTypeOK, Failed
  <2>2. Cardinality(Failed) \in Nat
    BY <2>1, FailedFinite DEF Failed
  <2>3. unclosed \in Nat \ {0} /\ unclosed <= Cardinality(Failed) + 1
    BY <1>2 DEF RetriesInv, ResponsesCounted, RetriesTypeOK
  <2> QED
    BY <2>1, <2>2, <2>3
<1>5. code \in AnswerOfAttempts' /\ heard'[Len(heard')] \in Final
  BY <1>1, <1>2 DEF AnswerOfAttempts, Final
<1> QED
  BY <1>1, <1>2, <1>3, <1>4, <1>5, AnswerGiven

LEMMA NextRetriesInv ==
    ASSUME RetriesInv, [Next]_retryVars
    PROVE  RetriesInv'
<1>1. CASE Token \/ Forbidden
  BY <1>1, UnheardKeeps
<1>2. CASE TokenFails \/ SendFails \/ RefreshFails
  <2>1. \/ \E error \in NetworkErrors : NetworkError(error)
        \/ pc \in {"token", "refreshing"} /\ InternalError
    BY <1>2 DEF TokenFails, SendFails, RefreshFails, Fails
  <2>2. pc \in {"token", "sent", "refreshing"}
    BY <1>2 DEF TokenFails, SendFails, RefreshFails
  <2> QED
    BY <2>1, <2>2, NetworkErrorKeeps, InternalErrorKeeps
<1>3. CASE UNCHANGED retryVars
  BY <1>3 DEF retryVars, RetriesInv, RetriesTypeOK, AttemptsHeard, FinalLast,
     LastErrorTold, LatestFailure, ResponsesCounted, Failed, DoneRight, AnswerOfAttempts
<1> QED
  BY <1>1, <1>2, <1>3, RefreshedKeeps, WakeKeeps, BusyKeeps, AcceptedKeeps,
     RejectedKeeps, ServedKeeps DEF Next

LEMMA RetriesInvariant == Spec => []RetriesInv
<1>1. Init => RetriesInv
  BY InitRetriesInv
<1>2. RetriesInv /\ [Next]_retryVars => RetriesInv'
  BY NextRetriesInv
<1> QED
  BY <1>1, <1>2, PTL DEF Spec

(* Whatever comes of the attempts, the client is answered what they say:   *)
(* Kiro's own answer where that is final, else the latest failure of the   *)
(* network, else a 504, and Kiro is asked MaxRetries times at most, never  *)
(* after a final answer (http_client.py, request_with_retry).              *)
THEOREM AnsweredRightHolds == Spec => []AnsweredRight
<1>1. RetriesInv => AnsweredRight
  BY RetriesAssumption
  DEF RetriesInv, RetriesTypeOK, AttemptsHeard, FinalLast, DoneRight, AnsweredRight
<1> QED
  BY <1>1, RetriesInvariant, PTL

(* A request that streams leaves no connection behind, and another at most *)
(* one for every attempt that failed, none for the last response           *)
(* (http_client.py, close and the paths that do not read a response).      *)
THEOREM ConnectionsClosedHolds == Spec => []ConnectionsClosed
<1>1. RetriesInv => ConnectionsClosed
  <2> SUFFICES ASSUME RetriesInv, pc = "done"
               PROVE  unclosed <= IF stream THEN 0 ELSE Cardinality(Failed)
    BY DEF ConnectionsClosed
  <2>1. Cardinality(Failed) \in Nat
    BY FailedFinite DEF RetriesInv, RetriesTypeOK, Failed
  <2> QED
    BY <2>1 DEF RetriesInv, ResponsesCounted, RetriesTypeOK
<1> QED
  BY <1>1, RetriesInvariant, PTL

-----------------------------------------------------------------------------
(* Least and greatest                                                      *)

(* The least of a set of natural numbers.                                  *)
LEMMA MinOf ==
    ASSUME NEW S \in SUBSET Nat, S # {}
    PROVE  Min(S) \in S /\ \A i \in S : Min(S) <= i
<1>1. PICK n \in S : \A m \in S : n <= m
  BY LeastNatural
<1>2. \E x \in S : \A y \in S : x =< y
  BY <1>1
<1> QED
  BY <1>2 DEF Min

(* The greatest of a finite set of them.                                   *)
LEMMA MaxOf ==
    ASSUME NEW n \in Nat, NEW S \in SUBSET (1..n), S # {}
    PROVE  Max(S) \in S /\ \A i \in S : i <= Max(S)
<1> DEFINE T == {m \in Nat : \A i \in S : i <= m}
<1>1. n \in T
  OBVIOUS
<1>2. PICK m \in T : \A k \in T : m <= k
  <2> T \in SUBSET Nat /\ T # {}
    BY <1>1
  <2> HIDE DEF T
  <2> QED
    BY LeastNatural
<1>3. m \in S
  <2> SUFFICES ASSUME m \notin S PROVE FALSE
    OBVIOUS
  <2>0. m \in Nat /\ \A i \in S : i \in 1..n /\ i <= m /\ i # m
    BY <1>2
  <2>1. \A i \in S : i <= m - 1 /\ i >= 1
    BY <2>0
  <2> HIDE DEF T
  <2>2. m - 1 \in Nat
    <3> PICK i \in S : TRUE
      OBVIOUS
    <3> QED
      BY <2>0, <2>1
  <2> USE DEF T
  <2>3. m - 1 \in T
    BY <2>1, <2>2
  <2> HIDE DEF T
  <2> QED
    BY <1>2, <2>0, <2>3
<1>4. \E x \in S : \A y \in S : x >= y
  BY <1>3
<1> QED
  BY <1>4 DEF Max

-----------------------------------------------------------------------------
(* Texts                                                                   *)
Texts == Seq(Symbols)

LEMMA TextParts ==
    ASSUME NEW t \in Texts
    PROVE  /\ Len(t) \in Nat /\ DOMAIN t = 1..Len(t)
           /\ \A i \in 1..Len(t) : t[i] \in Symbols
           /\ t = <<>> <=> Len(t) = 0
BY LenProperties, ElementOfSeq, EmptySeq DEF Texts

LEMMA PartOf ==
    ASSUME NEW t \in Texts, NEW m \in Nat \ {0}, NEW n \in Int, n <= Len(t)
    PROVE  /\ SubSeq(t, m, n) \in Texts
           /\ Len(SubSeq(t, m, n)) = IF m <= n THEN n - m + 1 ELSE 0
           /\ \A i \in 1..(n - m + 1) : SubSeq(t, m, n)[i] = t[m + i - 1]
<1>1. \A i \in m..n : t[i] \in Symbols
  BY TextParts
<1> QED
  BY <1>1, SubSeqProperties DEF Texts

LEMMA JoinedText ==
    ASSUME NEW t \in Texts, NEW u \in Texts
    PROVE  /\ t \o u \in Texts /\ Len(t \o u) = Len(t) + Len(u)
           /\ \A i \in 1..Len(t) : (t \o u)[i] = t[i]
           /\ \A i \in 1..Len(u) : (t \o u)[Len(t) + i] = u[i]
<1>1. /\ t \o u \in Seq(Symbols) /\ Len(t \o u) = Len(t) + Len(u)
      /\ \A i \in 1..(Len(t) + Len(u)) :
            (t \o u)[i] = IF i <= Len(t) THEN t[i] ELSE u[i - Len(t)]
  BY ConcatProperties DEF Texts
<1>2. Len(t) \in Nat /\ Len(u) \in Nat
  BY TextParts
<1>3. ASSUME NEW i \in 1..Len(u)
      PROVE  (t \o u)[Len(t) + i] = u[i]
  <2>1. Len(t) + i \in 1..(Len(t) + Len(u)) /\ ~ Len(t) + i <= Len(t) /\ Len(t) + i - Len(t) = i
    BY <1>2
  <2> QED
    BY <1>1, <2>1
<1> QED
  BY <1>1, <1>2, <1>3 DEF Texts

Solid(t) == {i \in DOMAIN t : t[i] # " "}

(* Space before a text is dropped, up to its first other symbol.           *)
LEMMA StrippedText ==
    ASSUME NEW t \in Texts
    PROVE  LStrip(t) \in Texts
<1>0. Solid(t) \subseteq DOMAIN t
  BY Zenon DEF Solid
<1>1. /\ Solid(t) \in SUBSET Nat /\ \A i \in Solid(t) : i \in 1..Len(t)
      /\ Len(t) \in Nat /\ <<>> \in Texts
  BY <1>0, TextParts, EmptySeq DEF Texts
<1>2. LStrip(t) = IF Solid(t) = {} THEN <<>> ELSE SubSeq(t, Min(Solid(t)), Len(t))
  BY Zenon DEF LStrip, Solid
<1>3. CASE Solid(t) # {}
  <2>1. Min(Solid(t)) \in 1..Len(t)
    BY <1>1, <1>3, MinOf
  <2>2. Min(Solid(t)) \in Nat \ {0} /\ Len(t) \in Int /\ Len(t) <= Len(t)
    BY <1>1, <2>1
  <2>3. SubSeq(t, Min(Solid(t)), Len(t)) \in Texts
    BY <2>2, PartOf
  <2> QED
    BY <1>2, <1>3, <2>3
<1> QED
  BY <1>1, <1>2, <1>3
-----------------------------------------------------------------------------
(* Tags                                                                    *)

LEMMA TagParts ==
    ASSUME NEW i \in DOMAIN OpenTags
    PROVE  /\ OpenTags[i] \in Texts /\ Len(OpenTags[i]) \in Nat \ {0}
           /\ OpenTags[i] # <<>> /\ Head(OpenTags[i]) # " "
<1>1. OpenTags \in Seq(Seq(Symbols) \ {<<>>}) /\ i \in 1..Len(OpenTags)
  BY TagsAssumption, LenProperties, Zenon
<1>2. OpenTags[i] \in Seq(Symbols) \ {<<>>}
  BY <1>1, ElementOfSeq
<1>3. Head(OpenTags[i]) # " "
  BY TagsAssumption, Zenon
<1>4. OpenTags[i] \in Texts /\ OpenTags[i] # <<>>
  BY <1>2 DEF Texts
<1>5. Len(OpenTags[i]) \in Nat /\ (OpenTags[i] = <<>> <=> Len(OpenTags[i]) = 0)
  BY <1>4, TextParts
<1>6. Len(OpenTags[i]) \in Nat \ {0}
  BY <1>4, <1>5
<1> QED
  BY <1>3, <1>4, <1>6, Zenon

LEMMA TagsListed == Len(OpenTags) \in Nat \ {0} /\ DOMAIN OpenTags = 1..Len(OpenTags)
<1>1. OpenTags \in Seq(Seq(Symbols) \ {<<>>}) /\ OpenTags # <<>>
  BY TagsAssumption, Zenon
<1> QED
  BY <1>1, LenProperties, EmptySeq

(* A closing tag is a text, one symbol longer than its opening tag.        *)
LEMMA Closing ==
    ASSUME NEW tag \in Texts, tag # <<>>
    PROVE  CloseTag(tag) \in Texts /\ Len(CloseTag(tag)) = Len(tag) + 1
<1>1. /\ Tail(tag) \in Texts /\ Len(Tail(tag)) = Len(tag) - 1 /\ Head(tag) \in Symbols
  BY HeadTailProperties DEF Texts
<1>2. <<Head(tag), "/">> \in Texts /\ Len(<<Head(tag), "/">>) = 2
  <2>1. "/" \in Symbols
    BY TagsAssumption, Zenon
  <2> QED
    BY <1>1, <2>1 DEF Texts
<1>3. Len(tag) \in Nat
  BY TextParts
<1> QED
  BY <1>1, <1>2, <1>3, JoinedText DEF CloseTag

(* The tag found is the first one.                                         *)
LEMMA TagFound ==
    ASSUME NEW t \in Texts, TagsAtStart(t) # {}
    PROVE  /\ Min(TagsAtStart(t)) \in TagsAtStart(t) /\ TagsAtStart(t) \subseteq DOMAIN OpenTags
           /\ TagAtStart(t) \in Texts /\ TagAtStart(t) # <<>>
           /\ IsPrefix(TagAtStart(t), t)
<1>1. TagsAtStart(t) \subseteq DOMAIN OpenTags /\ DOMAIN OpenTags \subseteq Nat
  BY TagsListed DEF TagsAtStart
<1>2. Min(TagsAtStart(t)) \in TagsAtStart(t)
  BY <1>1, MinOf
<1> QED
  BY <1>1, <1>2, TagParts DEF TagAtStart, TagsAtStart

LEMMA OccurrencesAt ==
    ASSUME NEW t \in Texts, NEW pattern
    PROVE  /\ Occurrences(pattern, t) \in SUBSET Nat
           /\ Occurrences(pattern, t) \subseteq 1..Len(t)
BY TextParts DEF Occurrences

-----------------------------------------------------------------------------
(* Types of the thinking parser: it knows its tag while it is in a block.  *)
Parsers ==
    {p \in [state : {"pre_content", "in_thinking", "streaming"}, initialBuffer : Texts,
            thinkingBuffer : Texts, openTag : Texts, first : BOOLEAN] :
        p.state = "in_thinking" => p.openTag # <<>>}

Results ==
    {r \in [parser : Parsers, thinking : Texts, regular : Texts,
            isFirst : BOOLEAN, isLast : BOOLEAN] :
        r.isLast => r.parser.openTag # <<>>}

LEMMA ParserParts ==
    ASSUME NEW p \in Parsers
    PROVE  /\ p.state \in {"pre_content", "in_thinking", "streaming"}
           /\ p.initialBuffer \in Texts /\ p.thinkingBuffer \in Texts /\ p.openTag \in Texts
           /\ p.first \in BOOLEAN
           /\ p.state = "in_thinking" => p.openTag # <<>>
BY DEF Parsers

LEMMA NothingText == <<>> \in Texts
BY EmptySeq DEF Texts

LEMMA NothingType == ASSUME NEW p \in Parsers PROVE Nothing(p) \in Results
BY NothingText DEF Nothing, Results

(* Where a closing tag is, the buffer is divided.                          *)
LEMMA ClosedType ==
    ASSUME NEW p \in Parsers, p.state = "in_thinking", NEW at \in 1..Len(p.thinkingBuffer)
    PROVE  ClosedAt(p, at) \in Results
<1> DEFINE b == p.thinkingBuffer
           close == CloseTag(p.openTag)
           left == [p EXCEPT !.state = "streaming", !.thinkingBuffer = <<>>,
                             !.first = @ /\ at = 1]
<1>1. b \in Texts /\ Len(b) \in Nat /\ p.openTag \in Texts /\ p.openTag # <<>>
  BY ParserParts, TextParts
<1>2. Len(close) \in Nat
  BY <1>1, Closing, TextParts
<1>3. SubSeq(b, 1, at - 1) \in Texts
  BY <1>1, PartOf
<1>4. LStrip(SubSeq(b, at + Len(close), Len(b))) \in Texts
  <2> HIDE DEF b, close
  <2>1. SubSeq(b, at + Len(close), Len(b)) \in Texts
    BY <1>1, <1>2, PartOf
  <2> QED
    BY <2>1, StrippedText
<1>5. left \in Parsers /\ left.openTag = p.openTag
  BY NothingText DEF Parsers
<1>6. p.first \in BOOLEAN
  BY ParserParts
<1> HIDE DEF b, close, left
<1> QED
  BY <1>1, <1>3, <1>4, <1>5, <1>6 DEF ClosedAt, Results, b, close, left

(* The longest tag is at most half of what is held back.                   *)
LEMMA HeldBack ==
    /\ MaxTagLength \in Nat
    /\ \A i \in DOMAIN OpenTags : 2 * Len(OpenTags[i]) <= MaxTagLength
<1> DEFINE lengths == {Len(OpenTags[i]) : i \in DOMAIN OpenTags}
           n == Len(OpenTags)
           Bounds(m) == {k \in Nat : \A i \in 1..m : Len(OpenTags[i]) <= k}
           S == {m \in 0..n : Bounds(m) # {}}
<1>1. /\ n \in Nat /\ DOMAIN OpenTags = 1..n /\ n # 0
      /\ \A i \in 1..n : Len(OpenTags[i]) \in Nat
  BY TagsListed, TagParts
<1>2. 0 \in S
  <2>1. 0 \in Bounds(0) /\ 0 \in 0..n
    BY <1>1
  <2> QED
    BY <2>1
<1>3. ASSUME NEW m \in 1..n, m - 1 \in S
      PROVE  m \in S
  <2>1. PICK k \in Bounds(m - 1) : TRUE
    BY <1>3
  <2>2. Len(OpenTags[m]) \in Nat /\ k \in Nat
    BY <1>1, <2>1
  <2>3. \A i \in 1..m : i = m \/ i \in 1..(m - 1)
    BY <1>1
  <2>4. k + Len(OpenTags[m]) \in Bounds(m)
    BY <1>1, <2>1, <2>2, <2>3
  <2> QED
    BY <2>4
<1>4. n \in S
  <2> HIDE DEF S
  <2>1. n \in Nat /\ \A i \in 1..n : i - 1 \in S => i \in S
    BY <1>1, <1>3
  <2>2. n \in 0..n
    BY <1>1
  <2> HIDE DEF n
  <2> QED
    BY <1>2, <2>1, <2>2, UpTo
<1>5. PICK k \in Nat : \A i \in 1..n : Len(OpenTags[i]) <= k
  BY <1>4
<1>6. lengths \subseteq Nat /\ lengths # {} /\ \A x \in lengths : x <= k
  <2>1. 1 \in 1..n
    BY <1>1
  <2> QED
    BY <1>1, <1>5, <2>1
<1> DEFINE T == {m \in Nat : \A x \in lengths : x <= m}
<1>7. PICK m \in T : \A j \in T : m <= j
  <2>1. T \in SUBSET Nat /\ k \in T
    BY <1>6
  <2> HIDE DEF T
  <2> QED
    BY <2>1, LeastNatural
<1> HIDE DEF lengths
<1>8. m \in lengths
  <2> SUFFICES ASSUME m \notin lengths PROVE FALSE
    OBVIOUS
  <2>1. \A x \in lengths : x \in Nat /\ x <= m /\ x # m
    BY <1>6, <1>7
  <2>2. m \in Nat /\ \A x \in lengths : x <= m - 1
    BY <1>7, <2>1
  <2>3. m - 1 \in Nat
    <3> PICK x \in lengths : TRUE
      BY <1>6
    <3> QED
      BY <2>1, <2>2
  <2>4. m - 1 \in T
    BY <2>2, <2>3
  <2> HIDE DEF T
  <2> QED
    BY <1>7, <2>2, <2>4
<1>9. \E x \in lengths : \A y \in lengths : x >= y
  BY <1>6, <1>7, <1>8
<1>10. Max(lengths) \in lengths /\ \A y \in lengths : Max(lengths) >= y
  BY <1>9 DEF Max
<1>11. MaxTagLength = 2 * Max(lengths)
  BY DEF MaxTagLength, lengths
<1>12. \A i \in DOMAIN OpenTags : Len(OpenTags[i]) \in lengths
  BY DEF lengths
<1>13. Max(lengths) \in Nat
  BY <1>6, <1>10
<1>14. \A y \in lengths : y \in Nat
  BY <1>6
<1> HIDE DEF T, S, n
<1> QED
  BY <1>10, <1>11, <1>12, <1>13, <1>14

LEMMA ProcessType ==
    ASSUME NEW p \in Parsers, p.state = "in_thinking"
    PROVE  ProcessThinkingBuffer(p) \in Results
<1> DEFINE b == p.thinkingBuffer
           closings == Occurrences(CloseTag(p.openTag), b)
           held == Len(b) - MaxTagLength
<1>1. b \in Texts /\ Len(b) \in Nat /\ MaxTagLength \in Nat /\ p.first \in BOOLEAN
  BY ParserParts, TextParts, HeldBack
<1>2. CASE closings # {}
  <2>1. Min(closings) \in 1..Len(b)
    BY <1>1, <1>2, OccurrencesAt, MinOf
  <2>2. ProcessThinkingBuffer(p) = ClosedAt(p, Min(closings))
    BY <1>2 DEF ProcessThinkingBuffer
  <2> QED
    BY <2>1, <2>2, ClosedType
<1>3. CASE closings = {} /\ held > 0
  <2> DEFINE left == [p EXCEPT !.thinkingBuffer = SubSeq(b, held + 1, Len(b)),
                               !.first = FALSE]
  <2>1. SubSeq(b, held + 1, Len(b)) \in Texts /\ SubSeq(b, 1, held) \in Texts
    <3> HIDE DEF b
    <3> QED
      BY <1>1, <1>3, PartOf
  <2>2. left \in Parsers
    BY <2>1 DEF Parsers
  <2>3. ProcessThinkingBuffer(p) =
            [parser |-> left, thinking |-> SubSeq(b, 1, held), regular |-> <<>>,
             isFirst |-> p.first, isLast |-> FALSE]
    BY <1>3 DEF ProcessThinkingBuffer
  <2> HIDE DEF left, b, held
  <2> QED
    BY <1>1, <2>1, <2>2, <2>3, NothingText DEF Results
<1>4. CASE closings = {} /\ ~ held > 0
  BY <1>4, NothingType DEF ProcessThinkingBuffer
<1> QED
  BY <1>2, <1>3, <1>4

LEMMA FeedType ==
    ASSUME NEW p \in Parsers, NEW text \in Texts
    PROVE  Feed(p, text) \in Results
<1>1. CASE text = <<>>
  BY <1>1, NothingType DEF Feed
<1>2. CASE text # <<>> /\ p.state = "pre_content"
  <2> DEFINE b == p.initialBuffer \o text
             stripped == LStrip(b)
             tag == TagAtStart(stripped)
  <2>1. b \in Texts /\ stripped \in Texts /\ Len(stripped) \in Nat
    BY ParserParts, JoinedText, StrippedText, TextParts
  <2>2. Feed(p, text) = HandlePreContent(p, text)
    BY <1>2 DEF Feed
  <2>3. CASE TagsAtStart(stripped) # {}
    <3> DEFINE inside == [p EXCEPT !.state = "in_thinking", !.openTag = tag,
                              !.initialBuffer = <<>>,
                              !.thinkingBuffer = SubSeq(stripped, Len(tag) + 1, Len(stripped))]
    <3>1. tag \in Texts /\ tag # <<>> /\ Len(tag) \in Nat
      BY <2>1, <2>3, TagFound, TextParts
    <3>2. SubSeq(stripped, Len(tag) + 1, Len(stripped)) \in Texts
      <4> HIDE DEF stripped, tag
      <4> QED
        BY <2>1, <3>1, PartOf
    <3>3. inside \in Parsers /\ inside.state = "in_thinking"
      <4> HIDE DEF stripped, tag
      <4> QED
        BY <3>1, <3>2, NothingText DEF Parsers
    <3>4. Feed(p, text) = ProcessThinkingBuffer(inside)
      BY <2>2, <2>3 DEF HandlePreContent
    <3> HIDE DEF inside
    <3> QED
      BY <3>3, <3>4, ProcessType
  <2>4. CASE TagsAtStart(stripped) = {} /\ CouldBeTagPrefix(stripped)
    <3>1. [p EXCEPT !.initialBuffer = b] \in Parsers
      BY <2>1 DEF Parsers
    <3> QED
      BY <2>2, <2>4, <3>1, NothingType DEF HandlePreContent
  <2>5. CASE TagsAtStart(stripped) = {} /\ ~CouldBeTagPrefix(stripped)
    <3> DEFINE left == [p EXCEPT !.state = "streaming", !.initialBuffer = <<>>]
    <3>1. left \in Parsers
      BY NothingText DEF Parsers
    <3>2. Feed(p, text) = [Nothing(left) EXCEPT !.regular = b]
      BY <2>2, <2>5 DEF HandlePreContent
    <3> HIDE DEF left, b
    <3>3. [Nothing(left) EXCEPT !.regular = b] \in Results
      BY <2>1, <3>1, NothingText DEF Nothing, Results
    <3> QED
      BY <3>2, <3>3
  <2> QED
    BY <2>3, <2>4, <2>5
<1>3. CASE text # <<>> /\ p.state = "in_thinking"
  <2> DEFINE more == [p EXCEPT !.thinkingBuffer = p.thinkingBuffer \o text]
  <2>1. p.thinkingBuffer \o text \in Texts
    BY ParserParts, JoinedText
  <2>2. more \in Parsers /\ more.state = "in_thinking"
    BY <1>3, <2>1 DEF Parsers
  <2>3. Feed(p, text) = ProcessThinkingBuffer(more)
    BY <1>3 DEF Feed, HandleInThinking
  <2> HIDE DEF more
  <2> QED
    BY <2>2, <2>3, ProcessType
<1>4. CASE text # <<>> /\ p.state = "streaming"
  <2>1. [Nothing(p) EXCEPT !.regular = text] \in Results
    BY NothingText DEF Nothing, Results
  <2> QED
    BY <1>4, <2>1 DEF Feed
<1> QED
  BY <1>1, <1>2, <1>3, <1>4, ParserParts

LEMMA FinalizeType == ASSUME NEW p \in Parsers PROVE Finalize(p) \in Results
<1> DEFINE thought == p.state = "in_thinking" /\ p.thinkingBuffer # <<>>
           left == [p EXCEPT !.thinkingBuffer = <<>>, !.initialBuffer = <<>>]
<1>1. left \in Parsers /\ left.openTag = p.openTag
  BY NothingText DEF Parsers
<1>2. thought => left.openTag # <<>>
  BY <1>1, ParserParts
<1>3. Finalize(p) = [parser |-> left,
                     thinking |-> IF thought THEN p.thinkingBuffer ELSE <<>>,
                     regular |-> p.initialBuffer,
                     isFirst |-> thought /\ p.first, isLast |-> thought]
  BY DEF Finalize
<1>4. thought \in BOOLEAN /\ (thought /\ p.first) \in BOOLEAN
  OBVIOUS
<1> HIDE DEF left
<1>5. /\ (IF thought THEN p.thinkingBuffer ELSE <<>>) \in Texts
      /\ p.initialBuffer \in Texts
  BY ParserParts, NothingText
<1> HIDE DEF thought
<1> QED
  BY <1>1, <1>2, <1>3, <1>4, <1>5 DEF Results

(* What a result is sent as.                                               *)
LEMMA OutputType ==
    ASSUME NEW how, NEW r \in Results
    PROVE  ProcessForOutput(how, r) \in Texts
<1> DEFINE tag == r.parser.openTag
           prefix == IF r.isFirst THEN tag ELSE <<>>
           suffix == IF r.isLast THEN CloseTag(tag) ELSE <<>>
<1>1. tag \in Texts /\ r.thinking \in Texts /\ (r.isLast => tag # <<>>)
  BY DEF Results, Parsers
<1>2. prefix \in Texts /\ suffix \in Texts
  BY <1>1, Closing, NothingText
<1>3. prefix \o r.thinking \o suffix \in Texts
  <2> HIDE DEF prefix, suffix
  <2> QED
    BY <1>1, <1>2, JoinedText
<1> QED
  BY <1>1, <1>3, NothingText DEF ProcessForOutput
-----------------------------------------------------------------------------
(* Loops that stay in a set                                                *)

(* A converter that each event leaves in D is there after all of them; the *)
(* first event comes to the converter as it was.                           *)
LEMMA StepsStay ==
    ASSUME NEW D, NEW m, Len(m) \in Nat, NEW how, NEW by, NEW c0, c0 \in D,
           \A i \in 1..Len(m) : \A d \in D :
               (i = 1 => d = c0) => Step(how, by, d, m[i]) \in D
    PROVE  Steps(how, by, c0, m) \in D
<1> DEFINE n == Len(m)
           F == [i \in 1..n |-> [d \in D |-> IF i = 1 THEN Step(how, by, c0, m[i])
                                                     ELSE Step(how, by, d, m[i])]]
           Done(g) == g = [i \in 0..n |->
                               IF i = 0 THEN c0 ELSE Step(how, by, g[i - 1], m[i])]
           h == CHOOSE g : Done(g)
<1>1. Steps(how, by, c0, m) = h[n]
  BY DEF ForEach, Steps
<1>2. n \in Nat /\ \A i \in 1..n : \A d \in D :
          /\ F[i][d] = IF i = 1 THEN Step(how, by, c0, m[i]) ELSE Step(how, by, d, m[i])
          /\ F[i][d] \in D
  OBVIOUS
<1> HIDE DEF n, F
<1>3. PICK f : Loop(f, D, c0, F, n)
  BY <1>2, LoopExists
<1>4. Done(f)
  <2>1. f[0] = c0 /\ f = [i \in 0..n |-> f[i]]
    BY <1>3 DEF Loop
  <2>2. ASSUME NEW i \in 1..n
        PROVE  f[i] = Step(how, by, f[i - 1], m[i])
    <3>1. f[i] = F[i][f[i - 1]] /\ f[i - 1] \in D
      BY <1>2, <1>3 DEF Loop
    <3>2. i = 1 => f[i - 1] = c0
      BY <2>1
    <3> QED
      BY <1>2, <3>1, <3>2
  <2>3. \A i \in 0..n : i = 0 \/ i \in 1..n
    BY <1>2
  <2>4. \A i \in 0..n : f[i] = IF i = 0 THEN c0 ELSE Step(how, by, f[i - 1], m[i])
    BY <2>1, <2>2, <2>3
  <2> QED
    BY <2>1, <2>4
<1>5. Done(h)
  <2> HIDE DEF Done
  <2> QED
    BY <1>4
<1> HIDE DEF h
<1>6. \A i \in 0..n : h[i] = IF i = 0 THEN c0 ELSE Step(how, by, h[i - 1], m[i])
  BY <1>5
<1>7. h = [i \in 0..n |-> h[i]]
  <2>1. DOMAIN h = 0..n /\ h = [i \in DOMAIN h |-> h[i]]
    BY <1>5
  <2> QED
    BY <2>1, Zenon
<1>8. h[0] = c0 /\ \A i \in 1..n : h[i] = Step(how, by, h[i - 1], m[i])
  <2> HIDE DEF Done
  <2> QED
    BY <1>2, <1>6
<1>9. h \in [0..n -> D]
  <2>1. h[0] \in D
    BY <1>8
  <2>2. ASSUME NEW i \in 1..n, h[i - 1] \in D
        PROVE  h[i] \in D
    <3>1. i = 1 => h[i - 1] = c0
      BY <1>8
    <3>2. i \in 1..Len(m)
      BY DEF n
    <3> QED
      BY <1>8, <2>2, <3>1, <3>2
  <2> QED
    BY <1>2, <1>7, <2>1, <2>2, LoopStays
<1> QED
  BY <1>1, <1>2, <1>9

(* The same of the calls written in a text,                                *)
LEMMA ToolsStay ==
    ASSUME NEW D, NEW m, Len(m) \in Nat, NEW c0, c0 \in D,
           \A i \in 1..Len(m) : \A d \in D : AnthropicTool(d, m[i]) \in D
    PROVE  ForEach(AnthropicTool, c0, m) \in D
<1> DEFINE n == Len(m)
           F == [i \in 1..n |-> [d \in D |-> AnthropicTool(d, m[i])]]
           Done(g) == g = [i \in 0..n |->
                               IF i = 0 THEN c0 ELSE AnthropicTool(g[i - 1], m[i])]
           h == CHOOSE g : Done(g)
<1>1. ForEach(AnthropicTool, c0, m) = h[n]
  BY DEF ForEach
<1>2. n \in Nat /\ \A i \in 1..n : \A d \in D :
          F[i][d] = AnthropicTool(d, m[i]) /\ F[i][d] \in D
  OBVIOUS
<1> HIDE DEF n, F
<1>3. PICK f : Loop(f, D, c0, F, n)
  BY <1>2, LoopExists
<1>4. Done(f)
  BY <1>2, <1>3 DEF Loop
<1>5. Done(h)
  <2> HIDE DEF Done
  <2> QED
    BY <1>4
<1> HIDE DEF h
<1>6. \A i \in 0..n : h[i] = IF i = 0 THEN c0 ELSE AnthropicTool(h[i - 1], m[i])
  BY <1>5
<1>7. h = [i \in 0..n |-> h[i]]
  <2>1. DOMAIN h = 0..n /\ h = [i \in DOMAIN h |-> h[i]]
    BY <1>5
  <2> QED
    BY <2>1, Zenon
<1>8. h[0] = c0 /\ \A i \in 1..n : h[i] = AnthropicTool(h[i - 1], m[i])
  <2> HIDE DEF Done
  <2> QED
    BY <1>2, <1>6
<1>9. h \in [0..n -> D]
  <2>1. h[0] \in D /\ \A i \in 1..n : h[i - 1] \in D => h[i] \in D
    BY <1>2, <1>8
  <2> QED
    BY <1>2, <1>7, <2>1, LoopStays
<1> QED
  BY <1>1, <1>2, <1>9

(* of the calls of one id each,                                            *)
LEMMA BestStay ==
    ASSUME NEW D, NEW m, Len(m) \in Nat, <<>> \in D,
           \A i \in 1..Len(m) : \A d \in D : BestWithId(d, m[i]) \in D
    PROVE  ForEach(BestWithId, <<>>, m) \in D
<1> DEFINE n == Len(m)
           F == [i \in 1..n |-> [d \in D |-> BestWithId(d, m[i])]]
           Done(g) == g = [i \in 0..n |->
                               IF i = 0 THEN <<>> ELSE BestWithId(g[i - 1], m[i])]
           h == CHOOSE g : Done(g)
<1>1. ForEach(BestWithId, <<>>, m) = h[n]
  BY DEF ForEach
<1>2. n \in Nat /\ \A i \in 1..n : \A d \in D :
          F[i][d] = BestWithId(d, m[i]) /\ F[i][d] \in D
  OBVIOUS
<1> HIDE DEF n, F
<1>3. PICK f : Loop(f, D, <<>>, F, n)
  BY <1>2, LoopExists
<1>4. Done(f)
  BY <1>2, <1>3 DEF Loop
<1>5. Done(h)
  <2> HIDE DEF Done
  <2> QED
    BY <1>4
<1> HIDE DEF h
<1>6. \A i \in 0..n : h[i] = IF i = 0 THEN <<>> ELSE BestWithId(h[i - 1], m[i])
  BY <1>5
<1>7. h = [i \in 0..n |-> h[i]]
  <2>1. DOMAIN h = 0..n /\ h = [i \in DOMAIN h |-> h[i]]
    BY <1>5
  <2> QED
    BY <2>1, Zenon
<1>8. h[0] = <<>> /\ \A i \in 1..n : h[i] = BestWithId(h[i - 1], m[i])
  <2> HIDE DEF Done
  <2> QED
    BY <1>2, <1>6
<1>9. h \in [0..n -> D]
  <2>1. h[0] \in D /\ \A i \in 1..n : h[i - 1] \in D => h[i] \in D
    BY <1>2, <1>8
  <2> QED
    BY <1>2, <1>7, <2>1, LoopStays
<1> QED
  BY <1>1, <1>2, <1>9

(* and of those of one kind each.                                          *)
LEMMA UniqueStay ==
    ASSUME NEW D, NEW m, Len(m) \in Nat, <<>> \in D,
           \A i \in 1..Len(m) : \A d \in D : FirstOfItsKind(d, m[i]) \in D
    PROVE  ForEach(FirstOfItsKind, <<>>, m) \in D
<1> DEFINE n == Len(m)
           F == [i \in 1..n |-> [d \in D |-> FirstOfItsKind(d, m[i])]]
           Done(g) == g = [i \in 0..n |->
                               IF i = 0 THEN <<>> ELSE FirstOfItsKind(g[i - 1], m[i])]
           h == CHOOSE g : Done(g)
<1>1. ForEach(FirstOfItsKind, <<>>, m) = h[n]
  BY DEF ForEach
<1>2. n \in Nat /\ \A i \in 1..n : \A d \in D :
          F[i][d] = FirstOfItsKind(d, m[i]) /\ F[i][d] \in D
  OBVIOUS
<1> HIDE DEF n, F
<1>3. PICK f : Loop(f, D, <<>>, F, n)
  BY <1>2, LoopExists
<1>4. Done(f)
  BY <1>2, <1>3 DEF Loop
<1>5. Done(h)
  <2> HIDE DEF Done
  <2> QED
    BY <1>4
<1> HIDE DEF h
<1>6. \A i \in 0..n : h[i] = IF i = 0 THEN <<>> ELSE FirstOfItsKind(h[i - 1], m[i])
  BY <1>5
<1>7. h = [i \in 0..n |-> h[i]]
  <2>1. DOMAIN h = 0..n /\ h = [i \in DOMAIN h |-> h[i]]
    BY <1>5
  <2> QED
    BY <2>1, Zenon
<1>8. h[0] = <<>> /\ \A i \in 1..n : h[i] = FirstOfItsKind(h[i - 1], m[i])
  <2> HIDE DEF Done
  <2> QED
    BY <1>2, <1>6
<1>9. h \in [0..n -> D]
  <2>1. h[0] \in D /\ \A i \in 1..n : h[i - 1] \in D => h[i] \in D
    BY <1>2, <1>8
  <2> QED
    BY <1>2, <1>7, <2>1, LoopStays
<1> QED
  BY <1>1, <1>2, <1>9
-----------------------------------------------------------------------------
(* Types of the calls, and of the parser that puts them together           *)

CallNames == {""} \cup ToolNames \cup {Heads[s] : s \in DOMAIN Heads}
Arguments == Seq(Symbols \cup {"{", "}", "k"})
Calls == [id : Int, name : CallNames, args : Arguments, truncated : BOOLEAN]

LEMMA ArgumentTypes ==
    /\ Texts \subseteq Arguments
    /\ ValidArguments \subseteq Arguments /\ EmptyObject \in Arguments
    /\ NoCall \in Calls
<1> DEFINE A == Symbols \cup {"{", "}", "k"}
<1>1. Texts \subseteq Arguments
  <2> SUFFICES ASSUME NEW t \in Texts PROVE t \in Seq(A)
    BY DEF Arguments
  <2>1. t \in Seq(Symbols) /\ Symbols \subseteq A
    BY DEF Texts
  <2> HIDE DEF A
  <2> QED
    BY <2>1, SeqMonotonic
<1>2. "{" \in A /\ "}" \in A /\ "k" \in A
  OBVIOUS
<1> HIDE DEF A
<1>3. Arguments = Seq(A)
  BY DEF Arguments, A
<1>4. <<"{", "}">> \in Seq(A) /\ <<"{", "k", "}">> \in Seq(A) /\ <<"{", "k", "k", "}">> \in Seq(A)
  <2>1. \A x, y, z \in A : /\ <<x, y>> \in Seq(A) /\ <<x, y, z>> \in Seq(A)
                          /\ <<x, y, y, z>> \in Seq(A)
    OBVIOUS
  <2> QED
    BY <1>2, <2>1, Zenon
<1>5. <<>> \in Seq(A)
  BY EmptySeq
<1>6. NoCall \in Calls
  BY <1>3, <1>5 DEF NoCall, Calls, CallNames
<1> QED
  BY <1>1, <1>3, <1>4, <1>6 DEF ValidArguments, EmptyObject

LEMMA FinalizedCallType == ASSUME NEW call \in Calls PROVE FinalizedCall(call) \in Calls
<1>1. LooksTruncated(call.args) \in BOOLEAN
  BY DEF LooksTruncated
<1>2. EmptyObject \in Arguments
  BY ArgumentTypes
<1> QED
  BY <1>1, <1>2 DEF FinalizedCall, Calls

EventParsers == [lastContent : Texts, current : Calls, calls : Seq(Calls)]

LEMMA FinalizedParserType ==
    ASSUME NEW parser \in EventParsers
    PROVE  FinalizeToolCall(parser) \in EventParsers
<1>1. FinalizedCall(parser.current) \in Calls /\ parser.calls \in Seq(Calls)
  BY FinalizedCallType DEF EventParsers
<1>2. Append(parser.calls, FinalizedCall(parser.current)) \in Seq(Calls)
  BY <1>1, AppendProperties
<1> QED
  BY <1>2, ArgumentTypes DEF FinalizeToolCall, EventParsers

(* The events of Kiro.                                                     *)
RawEvents ==
    [kind : {"content"}, text : Texts]
    \cup [kind : {"usage", "context_usage"}]
    \cup [kind : {"tool_start"}, id : Int, name : ToolNames, input : Texts, stop : BOOLEAN]
    \cup [kind : {"tool_input"}, input : Texts]
    \cup [kind : {"tool_stop"}, stop : {TRUE}]

LEMMA NewParserType == NewEventParser \in EventParsers
BY NothingText, ArgumentTypes, EmptySeq DEF NewEventParser, EventParsers

LEMMA ProcessEventType ==
    ASSUME NEW parser \in EventParsers, NEW event \in RawEvents
    PROVE  ProcessEvent(parser, event) \in EventParsers
<1>1. CASE event \in [kind : {"content"}, text : Texts]
  BY <1>1 DEF ProcessEvent, EventParsers
<1>2. CASE event \in [kind : {"usage", "context_usage"}]
  BY <1>2 DEF ProcessEvent
<1>3. CASE event \in [kind : {"tool_start"}, id : Int, name : ToolNames, input : Texts,
                      stop : BOOLEAN]
  <2> DEFINE call == [id |-> event.id, name |-> event.name,
                      args |-> event.input, truncated |-> FALSE]
             before == FinalizeToolCall(parser)
             started == [before EXCEPT !.current = call]
  <2>1. call \in Calls
    BY <1>3, ArgumentTypes DEF Calls, CallNames
  <2>2. before \in EventParsers
    BY FinalizedParserType
  <2> HIDE DEF before, call
  <2>3. started \in EventParsers
    BY <2>1, <2>2 DEF EventParsers
  <2>4. FinalizeToolCall(started) \in EventParsers
    <3> HIDE DEF started
    <3> QED
      BY <2>3, FinalizedParserType
  <2>5. ProcessEvent(parser, event) = IF event.stop THEN FinalizeToolCall(started) ELSE started
    BY <1>3 DEF ProcessEvent, ToolStart, before, call
  <2> QED
    BY <2>3, <2>4, <2>5
<1>4. CASE event \in [kind : {"tool_input"}, input : Texts]
  <2>1. ProcessEvent(parser, event) = ToolInput(parser, event)
    BY <1>4 DEF ProcessEvent
  <2>2. parser.current \in Calls /\ parser.current.args \in Arguments /\ event.input \in Arguments
    BY <1>4, ArgumentTypes DEF EventParsers, Calls
  <2>3. parser.current.args \o event.input \in Arguments
    BY <2>2, ConcatProperties DEF Arguments
  <2>4. [parser.current EXCEPT !.args = parser.current.args \o event.input] \in Calls
    BY <2>2, <2>3 DEF Calls
  <2>5. ToolInput(parser, event) =
            IF parser.current = NoCall THEN parser
            ELSE [parser EXCEPT !.current =
                     [parser.current EXCEPT !.args = parser.current.args \o event.input]]
    BY DEF ToolInput, EventParsers
  <2> QED
    BY <2>1, <2>4, <2>5 DEF EventParsers
<1>5. CASE event \in [kind : {"tool_stop"}, stop : {TRUE}]
  BY <1>5, FinalizedParserType DEF ProcessEvent, ToolStop
<1> QED
  BY <1>1, <1>2, <1>3, <1>4, <1>5 DEF RawEvents

(* The calls that are left of repeated ones.                               *)
LEMMA DeduplicatedType ==
    ASSUME NEW calls \in Seq(Calls)
    PROVE  DeduplicateToolCalls(calls) \in Seq(Calls)
<1>1. Len(calls) \in Nat /\ <<>> \in Seq(Calls) /\ \A i \in 1..Len(calls) : calls[i] \in Calls
  BY EmptySeq, ElementOfSeq
<1>2. ASSUME NEW best \in Seq(Calls), NEW call \in Calls
      PROVE  BestWithId(best, call) \in Seq(Calls)
  <2> DEFINE same == {i \in DOMAIN best : best[i].id = call.id}
  <2>1. Append(best, call) \in Seq(Calls)
    BY AppendProperties
  <2>2. CASE same # {}
    <3>1. same \in SUBSET Nat /\ \A i \in same : i \in 1..Len(best)
      OBVIOUS
    <3>2. Min(same) \in 1..Len(best)
      <4> HIDE DEF same
      <4> QED
        BY <2>2, <3>1, MinOf
    <3>3. [best EXCEPT ![Min(same)] = call] \in Seq(Calls)
      <4> HIDE DEF same
      <4> QED
        BY <3>2, ExceptSeq
    <3>4. BestWithId(best, call) \in {best, [best EXCEPT ![Min(same)] = call]}
      BY <2>2 DEF BestWithId
    <3> QED
      BY <3>3, <3>4
  <2>3. CASE same = {}
    BY <2>1, <2>3 DEF BestWithId
  <2> QED
    BY <2>2, <2>3
<1>3. ForEach(BestWithId, <<>>, calls) \in Seq(Calls)
  BY <1>1, <1>2, BestStay
<1> DEFINE best == ForEach(BestWithId, <<>>, calls)
<1>4. Len(best) \in Nat /\ \A i \in 1..Len(best) : best[i] \in Calls
  BY <1>3, LenProperties, ElementOfSeq
<1>5. ASSUME NEW unique \in Seq(Calls), NEW call \in Calls
      PROVE  FirstOfItsKind(unique, call) \in Seq(Calls)
  BY AppendProperties DEF FirstOfItsKind
<1>6. ForEach(FirstOfItsKind, <<>>, best) \in Seq(Calls)
  <2> HIDE DEF best
  <2> QED
    BY <1>1, <1>4, <1>5, UniqueStay
<1> QED
  BY <1>6 DEF DeduplicateToolCalls

(* The calls of a parser whose response has ended.                         *)
LEMMA GetToolCallsType ==
    ASSUME NEW parser \in EventParsers
    PROVE  GetToolCalls(parser) \in Seq(Calls)
<1>1. FinalizeToolCall(parser).calls \in Seq(Calls)
  BY FinalizedParserType DEF EventParsers
<1> QED
  BY <1>1, DeduplicatedType DEF GetToolCalls

(* The calls written in a text.                                            *)
LEMMA BracketCallsType ==
    ASSUME NEW text \in Texts
    PROVE  ParseBracketToolCalls(text) \in Seq(Calls)
<1> DEFINE found == [i \in DOMAIN text |-> BracketCallAt(text, i)]
<1>1. ASSUME NEW i \in 1..Len(text)
      PROVE  BracketCallAt(text, i) \in Seq(Calls)
  <2> DEFINE braces == {j \in DOMAIN text : j > i /\ text[j] = "{"}
             args == SubSeq(text, Min(braces), FindMatchingBrace(text, Min(braces)))
             call == [id |-> -i, name |-> Heads[text[i]], args |-> args, truncated |-> FALSE]
  <2>1. CASE text[i] \in DOMAIN Heads /\ args \in ValidArguments
    <3>1. call \in Calls
      <4>1. Heads[text[i]] \in CallNames
        BY <2>1 DEF CallNames
      <4>2. args \in Arguments
        BY <2>1, ArgumentTypes
      <4>3. -i \in Int
        OBVIOUS
      <4> HIDE DEF args
      <4> QED
        BY <4>1, <4>2, <4>3 DEF Calls
    <3>2. BracketCallAt(text, i) \in {<<call>>, <<>>}
      BY DEF BracketCallAt
    <3> HIDE DEF call
    <3>3. <<call>> \in Seq(Calls) /\ <<>> \in Seq(Calls)
      BY <3>1
    <3> QED
      BY <3>2, <3>3
  <2>2. CASE ~ (text[i] \in DOMAIN Heads /\ args \in ValidArguments)
    <3>1. BracketCallAt(text, i) = <<>>
      BY <2>2 DEF BracketCallAt
    <3> QED
      BY <3>1, EmptySeq
  <2> QED
    BY <2>1, <2>2
<1>2. found = [i \in 1..Len(text) |-> BracketCallAt(text, i)] /\ Len(text) \in Nat
  BY TextParts
<1>3. found \in Seq(Seq(Calls))
  BY <1>1, <1>2
<1> HIDE DEF found
<1>4. FlattenSeq(found) \in Seq(Calls)
  BY <1>3, Flattened
<1> QED
  BY <1>4 DEF ParseBracketToolCalls, found

-----------------------------------------------------------------------------
(* Types of the unified events                                             *)
KiroEventSet ==
    [type : {"content", "thinking"}, text : Texts]
    \cup [type : {"usage", "context_usage"}]
    \cup [type : {"tool_use"}, call : Calls]

LEMMA ContentEventsType ==
    ASSUME NEW how, NEW r \in Results
    PROVE  ContentEvents(how, r) \in Seq(KiroEventSet)
<1> DEFINE thought == ProcessForOutput(how, r)
           a == [type |-> "thinking", text |-> thought]
           b == [type |-> "content", text |-> r.regular]
<1>1. thought \in Texts /\ r.regular \in Texts
  BY OutputType DEF Results
<1>2. a \in KiroEventSet /\ b \in KiroEventSet
  <2> HIDE DEF thought
  <2> QED
    BY <1>1 DEF KiroEventSet
<1>3. ContentEvents(how, r) = (IF thought = <<>> THEN <<>> ELSE <<a>>)
                              \o (IF r.regular = <<>> THEN <<>> ELSE <<b>>)
  BY DEF ContentEvents
<1> DEFINE first == IF thought = <<>> THEN <<>> ELSE <<a>>
           second == IF r.regular = <<>> THEN <<>> ELSE <<b>>
<1> HIDE DEF a, b, thought
<1>4. first \in Seq(KiroEventSet) /\ second \in Seq(KiroEventSet)
  BY <1>2, EmptySeq
<1> HIDE DEF first, second
<1>5. first \o second \in Seq(KiroEventSet)
  BY <1>4, ConcatProperties
<1> QED
  BY <1>3, <1>5 DEF first, second

Parsings == [events : EventParsers, thinking : Parsers]

LEMMA NewParsingType == NewParsing \in Parsings
<1>1. NewThinkingParser \in Parsers
  BY NothingText DEF NewThinkingParser, Parsers
<1> QED
  BY <1>1, NewParserType DEF NewParsing, Parsings

LEMMA EventsType ==
    ASSUME NEW how, NEW p \in Parsings, NEW event \in RawEvents
    PROVE  Parsed(p, event) \in Parsings /\ EventsOf(how, p, event) \in Seq(KiroEventSet)
<1>1. p.events \in EventParsers /\ p.thinking \in Parsers
  BY DEF Parsings
<1>2. ProcessEvent(p.events, event) \in EventParsers
  BY <1>1, ProcessEventType
<1>3. event.kind = "content" => event.text \in Texts
  BY DEF RawEvents
<1>4. event.kind = "content" => Feed(p.thinking, event.text) \in Results
  BY <1>1, <1>3, FeedType
<1>5. \A r \in Results : r.parser \in Parsers
  BY DEF Results
<1>6. Nothing(p.thinking) \in Results
  BY <1>1, NothingType
<1>7. Parsed(p, event) \in Parsings
  BY <1>2, <1>4, <1>5, <1>6 DEF Parsed, Parsings
<1>8. CASE event.kind = "content"
  <2>1. ContentEvents(how, Feed(p.thinking, event.text)) \in Seq(KiroEventSet)
    BY <1>4, <1>8, ContentEventsType
  <2> QED
    BY <1>7, <1>8, <2>1, EmptySeq DEF EventsOf
<1>9. CASE event.kind \in {"usage", "context_usage"}
  <2> DEFINE e == KiroEvent(event.kind)
  <2>1. e \in KiroEventSet
    BY <1>9 DEF KiroEvent, KiroEventSet
  <2>2. EventsOf(how, p, event) = <<e>>
    BY <1>9 DEF EventsOf
  <2> HIDE DEF e
  <2> QED
    BY <1>7, <2>1, <2>2
<1>10. CASE event.kind \notin {"content", "usage", "context_usage"}
  BY <1>7, <1>10, EmptySeq DEF EventsOf
<1> QED
  BY <1>8, <1>9, <1>10

LEMMA LastEventsType ==
    ASSUME NEW how, NEW p \in Parsings
    PROVE  LastEvents(how, p) \in Seq(KiroEventSet)
<1> DEFINE calls == GetToolCalls(p.events)
           uses == [i \in DOMAIN calls |-> [type |-> "tool_use", call |-> calls[i]]]
<1>1. calls \in Seq(Calls) /\ Finalize(p.thinking) \in Results
  BY GetToolCallsType, FinalizeType DEF Parsings
<1>2. ContentEvents(how, Finalize(p.thinking)) \in Seq(KiroEventSet)
  BY <1>1, ContentEventsType
<1>3. uses \in Seq(KiroEventSet)
  <2> HIDE DEF calls
  <2>1. Len(calls) \in Nat /\ DOMAIN calls = 1..Len(calls)
        /\ \A i \in 1..Len(calls) : calls[i] \in Calls
    BY <1>1, LenProperties, ElementOfSeq
  <2>2. \A i \in 1..Len(calls) : [type |-> "tool_use", call |-> calls[i]] \in KiroEventSet
    BY <2>1 DEF KiroEventSet
  <2> QED
    BY <2>1, <2>2
<1> HIDE DEF uses
<1>4. ContentEvents(how, Finalize(p.thinking)) \o uses \in Seq(KiroEventSet)
  BY <1>2, <1>3, ConcatProperties
<1> QED
  BY <1>4 DEF LastEvents, uses

-----------------------------------------------------------------------------
(* What is sent, and how far a client that is sent it has come             *)

Items ==
    [type : {"message_start", "message_stop", "error", "done", "close"}]
    \cup [type : {"content_block_start"}, index : Int,
          block : {"text", "thinking", "tool_use"}, call : Calls]
    \cup [type : {"content_block_delta"}, index : Int, text : Arguments]
    \cup [type : {"content_block_stop"}, index : Int]
    \cup [type : {"message_delta"}, reason : {"end_turn", "tool_use"}]
    \cup [type : {"chunk"}, field : {"content", "reasoning_content"},
          text : Texts, role : BOOLEAN]
    \cup [type : {"tool_calls"}, calls : Seq(Calls)]
    \cup [type : {"final"}, reason : {"stop", "tool_calls"}]
    \cup [type : {"save"}, calls : SUBSET Int, text : Texts]

(* The blocks of a message, for a client of the Anthropic format, and the  *)
(* rank of the latest chunk for one of OpenAI's, whose stage is "none".    *)
States == [stage : {"none", "silent", "open", "end_turn", "tool_use", "over", "failed"},
           open : SUBSET Int, next : Nat, touched : Int, tools : BOOLEAN,
           rank : 0..4, called : BOOLEAN]

Allowed(p, item) ==
    /\ item.type = "message_start" => p.stage = "silent"
    /\ item.type = "content_block_start" =>
           p.stage = "open" /\ p.open = {} /\ item.index = p.next
    /\ item.type \in {"content_block_delta", "content_block_stop"} =>
           p.stage = "open" /\ p.open = {item.index}
    /\ item.type = "message_delta" =>
           /\ p.stage = "open" /\ p.open = {}
           /\ item.reason = IF p.tools THEN "tool_use" ELSE "end_turn"
    /\ item.type = "message_stop" => p.stage \in {"end_turn", "tool_use"}
    /\ item.type = "error" => p.stage \in {"open", "failed"}
    /\ item.type \in {"chunk", "tool_calls", "final", "done"} => p.stage = "none"
    /\ item.type = "chunk" => p.rank <= 1 /\ (item.role <=> p.rank = 0)
    /\ item.type = "tool_calls" => p.rank <= 1
    /\ item.type = "final" => p.rank <= 2 /\ (item.reason = "tool_calls" <=> p.called)
    /\ item.type = "done" => p.rank <= 3

After(p, item) ==
    IF item.type = "message_start" THEN [p EXCEPT !.stage = "open"]
    ELSE IF item.type = "content_block_start"
    THEN [p EXCEPT !.open = {item.index}, !.next = p.next + 1, !.touched = item.index,
                   !.tools = (p.tools \/ item.block = "tool_use")]
    ELSE IF item.type = "content_block_delta" THEN [p EXCEPT !.touched = item.index]
    ELSE IF item.type = "content_block_stop" THEN [p EXCEPT !.open = {}, !.touched = item.index]
    ELSE IF item.type = "message_delta" THEN [p EXCEPT !.stage = item.reason]
    ELSE IF item.type = "message_stop" THEN [p EXCEPT !.stage = "over"]
    ELSE IF item.type = "error" THEN [p EXCEPT !.stage = "failed"]
    ELSE IF item.type = "chunk" THEN [p EXCEPT !.rank = 1]
    ELSE IF item.type = "tool_calls" THEN [p EXCEPT !.rank = 2, !.called = (item.calls # <<>>)]
    ELSE IF item.type = "final" THEN [p EXCEPT !.rank = 3]
    ELSE IF item.type = "done" THEN [p EXCEPT !.rank = 4]
    ELSE p

(* Items out, sent one after the other, lead from q to p.                  *)
Leads(tr, q, out, p) ==
    /\ tr[0] = q /\ tr[Len(out)] = p
    /\ \A i \in 1..Len(out) : Allowed(tr[i - 1], out[i]) /\ tr[i] = After(tr[i - 1], out[i])

Reached(q, out, p) == \E tr \in [0..Len(out) -> States] : Leads(tr, q, out, p)

LEMMA AfterType ==
    ASSUME NEW p \in States, NEW item \in Items
    PROVE  After(p, item) \in States
<1>1. CASE item \in [type : {"message_start", "message_stop", "error", "done", "close"}]
  BY <1>1 DEF After, States
<1>2. CASE item \in [type : {"content_block_start"}, index : Int,
                     block : {"text", "thinking", "tool_use"}, call : Calls]
  <2> DEFINE tool == (p.tools \/ item.block = "tool_use")
             now == {item.index}
  <2>1. tool \in BOOLEAN /\ now \in SUBSET Int /\ item.index \in Int
    BY <1>2
  <2>2. After(p, item) = [p EXCEPT !.open = now, !.next = p.next + 1,
                                   !.touched = item.index, !.tools = tool]
    BY <1>2 DEF After
  <2> HIDE DEF tool, now
  <2>3. p.next + 1 \in Nat
    BY DEF States
  <2> QED
    BY <2>1, <2>2, <2>3, Zenon DEF States
<1>3. CASE item \in [type : {"content_block_delta"}, index : Int, text : Arguments]
  BY <1>3 DEF After, States
<1>4. CASE item \in [type : {"content_block_stop"}, index : Int]
  BY <1>4 DEF After, States
<1>5. CASE item \in [type : {"message_delta"}, reason : {"end_turn", "tool_use"}]
  BY <1>5 DEF After, States
<1>6. CASE item \in [type : {"chunk"}, field : {"content", "reasoning_content"},
                     text : Texts, role : BOOLEAN]
  BY <1>6 DEF After, States
<1>7. CASE item \in [type : {"tool_calls"}, calls : Seq(Calls)]
  <2> DEFINE some == (item.calls # <<>>)
  <2>1. some \in BOOLEAN
    OBVIOUS
  <2>2. After(p, item) = [p EXCEPT !.rank = 2, !.called = some]
    BY <1>7 DEF After
  <2> HIDE DEF some
  <2>3. 2 \in 0..4
    OBVIOUS
  <2> QED
    BY <2>1, <2>2, <2>3, Zenon DEF States
<1>8. CASE item \in [type : {"final"}, reason : {"stop", "tool_calls"}]
  BY <1>8 DEF After, States
<1>9. CASE item \in [type : {"save"}, calls : SUBSET Int, text : Texts]
  BY <1>9 DEF After
<1> QED
  BY <1>1, <1>2, <1>3, <1>4, <1>5, <1>6, <1>7, <1>8, <1>9 DEF Items

LEMMA ReachedNone ==
    ASSUME NEW q \in States
    PROVE  Reached(q, <<>>, q) /\ \A p : Reached(q, <<>>, p) => p = q
<1>1. Len(<<>>) = 0
  BY EmptySeq
<1>2. Leads([i \in 0..0 |-> q], q, <<>>, q)
  BY <1>1 DEF Leads
<1>3. [i \in 0..0 |-> q] \in [0..Len(<<>>) -> States]
  BY <1>1
<1>4. ASSUME NEW p, Reached(q, <<>>, p)
      PROVE  p = q
  BY <1>1, <1>4 DEF Reached, Leads
<1> QED
  BY <1>2, <1>3, <1>4 DEF Reached

(* One more.                                                               *)
LEMMA ReachedMore ==
    ASSUME NEW q, NEW out \in Seq(Items), NEW p, Reached(q, out, p),
           NEW item \in Items, Allowed(p, item)
    PROVE  /\ Append(out, item) \in Seq(Items)
           /\ Reached(q, Append(out, item), After(p, item))
<1> DEFINE n == Len(out)
           r == After(p, item)
           more == Append(out, item)
<1>1. PICK tr \in [0..n -> States] : Leads(tr, q, out, p)
  BY DEF Reached
<1>2. /\ n \in Nat /\ Len(more) = n + 1 /\ more \in Seq(Items)
      /\ (\A i \in 1..n : more[i] = out[i]) /\ more[n + 1] = item
  BY LenProperties, AppendProperties
<1> HIDE DEF more
<1>3. p \in States /\ p = tr[n]
  BY <1>1, <1>2 DEF Leads
<1>4. r \in States
  BY <1>3, AfterType
<1> DEFINE ts == [i \in 0..(n + 1) |-> IF i = n + 1 THEN r ELSE tr[i]]
<1> HIDE DEF r
<1>5. ts \in [0..(n + 1) -> States]
  BY <1>1, <1>2, <1>4
<1>6. ts[0] = q /\ ts[n + 1] = r /\ (\A i \in 0..n : ts[i] = tr[i])
  BY <1>1, <1>2 DEF Leads
<1> HIDE DEF ts
<1>7. ASSUME NEW i \in 1..(n + 1)
      PROVE  Allowed(ts[i - 1], more[i]) /\ ts[i] = After(ts[i - 1], more[i])
  <2>1. CASE i = n + 1
    <3>1. i - 1 = n /\ ts[n] = p /\ ts[i] = r /\ more[i] = item
      BY <1>2, <1>3, <1>6, <2>1
    <3> QED
      BY <3>1 DEF r
  <2>2. CASE i # n + 1
    <3>1. i \in 1..n /\ i - 1 \in 0..n
      BY <1>2, <2>2
    <3>2. Allowed(tr[i - 1], out[i]) /\ tr[i] = After(tr[i - 1], out[i])
      BY <1>1, <3>1 DEF Leads
    <3>3. ts[i - 1] = tr[i - 1] /\ ts[i] = tr[i] /\ more[i] = out[i]
      BY <1>2, <1>6, <3>1
    <3> QED
      BY <3>2, <3>3
  <2> QED
    BY <2>1, <2>2
<1>8. Leads(ts, q, more, r)
  BY <1>2, <1>6, <1>7 DEF Leads
<1> QED
  BY <1>2, <1>5, <1>8 DEF Reached, more, r

(* The first of them sent.                                                 *)
LEMMA ReachedRest ==
    ASSUME NEW q, NEW out \in Seq(Items), out # <<>>, NEW p, Reached(q, out, p)
    PROVE  /\ Head(out) \in Items /\ Tail(out) \in Seq(Items)
           /\ q \in States /\ Allowed(q, Head(out))
           /\ Reached(After(q, Head(out)), Tail(out), p)
<1> DEFINE n == Len(out)
           rest == Tail(out)
<1>1. PICK tr \in [0..n -> States] : Leads(tr, q, out, p)
  BY DEF Reached
<1>2. /\ n \in Nat \ {0} /\ Head(out) = out[1] /\ Head(out) \in Items
      /\ rest \in Seq(Items) /\ Len(rest) = n - 1 /\ \A i \in 1..(n - 1) : rest[i] = out[i + 1]
  BY EmptySeq, HeadTailProperties
<1> HIDE DEF rest
<1> DEFINE ts == [i \in 0..(n - 1) |-> tr[i + 1]]
<1>3. \A i \in 0..(n - 1) : i + 1 \in 1..n /\ i + 1 \in 0..n
  BY <1>2
<1>4. ts \in [0..(n - 1) -> States]
  BY <1>1, <1>3
<1>5. q \in States /\ Allowed(q, Head(out)) /\ tr[1] = After(q, Head(out))
  <2>1. 1 \in 1..n /\ 0 \in 0..n /\ 1 - 1 = 0
    BY <1>2
  <2>2. Allowed(tr[1 - 1], out[1]) /\ tr[1] = After(tr[1 - 1], out[1]) /\ tr[0] = q
    BY <1>1, <2>1 DEF Leads
  <2> QED
    BY <1>1, <1>2, <2>1, <2>2
<1>6. ts[0] = tr[1] /\ ts[n - 1] = p
  <2>1. 0 \in 0..(n - 1) /\ n - 1 \in 0..(n - 1) /\ 0 + 1 = 1 /\ n - 1 + 1 = n
    BY <1>2
  <2>2. tr[n] = p
    BY <1>1 DEF Leads
  <2>3. ts[0] = tr[0 + 1] /\ ts[n - 1] = tr[n - 1 + 1]
    BY <2>1
  <2> QED
    BY <2>1, <2>2, <2>3
<1>7. ASSUME NEW i \in 1..(n - 1)
      PROVE  Allowed(ts[i - 1], rest[i]) /\ ts[i] = After(ts[i - 1], rest[i])
  <2>1. i + 1 \in 1..n /\ i - 1 \in 0..(n - 1) /\ i \in 0..(n - 1) /\ i - 1 + 1 = i
        /\ i + 1 - 1 = i
    BY <1>2
  <2>2. ts[i - 1] = tr[i] /\ ts[i] = tr[i + 1] /\ rest[i] = out[i + 1]
    BY <1>2, <2>1
  <2>3. Allowed(tr[i + 1 - 1], out[i + 1]) /\ tr[i + 1] = After(tr[i + 1 - 1], out[i + 1])
    BY <1>1, <2>1 DEF Leads
  <2> QED
    BY <2>1, <2>2, <2>3
<1>8. Leads(ts, After(q, Head(out)), rest, p)
  <2> HIDE DEF ts
  <2> QED
    BY <1>2, <1>5, <1>6, <1>7 DEF Leads
<1>9. Reached(After(q, Head(out)), rest, p)
  BY <1>2, <1>4, <1>8 DEF Reached
<1> QED
  BY <1>2, <1>5, <1>9 DEF rest

-----------------------------------------------------------------------------
(* The converters                                                          *)

Convs == [next : Nat, thinkingAt : Int, textAt : Int, first : BOOLEAN, full : Texts,
          calls : Seq(Calls), complete : BOOLEAN, out : Seq(Items)]

LEMMA ConvParts ==
    ASSUME NEW c \in Convs
    PROVE  /\ c.next \in Nat /\ c.thinkingAt \in Int /\ c.textAt \in Int /\ c.first \in BOOLEAN
           /\ c.full \in Texts /\ c.calls \in Seq(Calls) /\ c.complete \in BOOLEAN
           /\ c.out \in Seq(Items)
BY DEF Convs

BesideOut(c, d) ==
    /\ d.next = c.next /\ d.thinkingAt = c.thinkingAt /\ d.textAt = c.textAt
    /\ d.first = c.first /\ d.full = c.full /\ d.calls = c.calls /\ d.complete = c.complete

(* An item that may come next is put behind the others.                    *)
LEMMA Emitted ==
    ASSUME NEW q, NEW c \in Convs, NEW p, Reached(q, c.out, p),
           NEW item \in Items, Allowed(p, item)
    PROVE  /\ Emit(c, item) \in Convs /\ BesideOut(c, Emit(c, item))
           /\ Emit(c, item).out = Append(c.out, item)
           /\ Append(c.out, item) \in Seq(Items)
           /\ p \in States /\ After(p, item) \in States
           /\ Reached(q, Append(c.out, item), After(p, item))
<1>1. c.out \in Seq(Items) /\ Len(c.out) \in Nat
  BY ConvParts, LenProperties
<1>2. Append(c.out, item) \in Seq(Items) /\ Reached(q, Append(c.out, item), After(p, item))
  BY <1>1, ReachedMore
<1>3. Emit(c, item) = [c EXCEPT !.out = Append(c.out, item)]
  BY DEF Emit, Convs
<1>4. p \in States
  <2>1. PICK tr \in [0..Len(c.out) -> States] : Leads(tr, q, c.out, p)
    BY DEF Reached
  <2> QED
    BY <1>1, <2>1 DEF Leads
<1>5. [c EXCEPT !.out = Append(c.out, item)] \in Convs
  BY <1>2 DEF Convs
<1>6. BesideOut(c, Emit(c, item)) /\ Emit(c, item).out = Append(c.out, item)
  BY <1>2, <1>3 DEF Convs, BesideOut
<1>7. After(p, item) \in States
  BY <1>4, AfterType
<1>8. Emit(c, item) \in Convs
  BY <1>3, <1>5
<1> QED
  BY <1>2, <1>4, <1>6, <1>7, <1>8

(* A converter of the Anthropic format between two events: it knows which  *)
(* block is open, and the index of the next.                               *)
ReadyMessage(c, p) ==
    /\ p.stage = "open"
    /\ \/ /\ c.thinkingAt = None /\ c.textAt = None
          /\ p.open = {} /\ p.next = c.next
       \/ /\ \/ c.thinkingAt = c.next /\ c.textAt = None
             \/ c.thinkingAt = None /\ c.textAt = c.next
          /\ p.open = {c.next} /\ p.next = c.next + 1
    /\ p.tools <=> c.calls # <<>>

MessageConvs(q) ==
    {c \in Convs : \E p \in States : Reached(q, c.out, p) /\ ReadyMessage(c, p)}

LEMMA CloseThinkingKept ==
    ASSUME NEW q, NEW c \in MessageConvs(q)
    PROVE  /\ CloseThinking(c) \in MessageConvs(q)
           /\ CloseThinking(c).thinkingAt = None /\ CloseThinking(c).textAt = c.textAt
<1>1. CASE c.thinkingAt = None
  BY <1>1 DEF CloseThinking
<1>2. CASE c.thinkingAt # None
  <2> DEFINE item == Stop(c.thinkingAt)
  <2>1. c \in Convs
    BY DEF MessageConvs
  <2>2. PICK p \in States : Reached(q, c.out, p) /\ ReadyMessage(c, p)
    BY DEF MessageConvs
  <2>3. c.thinkingAt = c.next /\ c.textAt = None /\ p.open = {c.next} /\ p.next = c.next + 1
    BY <1>2, <2>2 DEF ReadyMessage
  <2>4. item \in Items /\ item.type = "content_block_stop" /\ item.index = c.next
    BY <2>1, <2>3 DEF Items, Stop, Convs
  <2>5. Allowed(p, item)
    <3> HIDE DEF item
    <3> QED
      BY <2>2, <2>3, <2>4 DEF Allowed, ReadyMessage
  <2>6. After(p, item) = [p EXCEPT !.open = {}, !.touched = c.next]
    BY <2>4 DEF After
  <2> HIDE DEF item
  <2> DEFINE d == Emit(c, item)
             e == [d EXCEPT !.thinkingAt = None, !.next = d.next + 1]
             r == After(p, item)
  <2>7. /\ d \in Convs /\ BesideOut(c, d) /\ d.out = Append(c.out, item)
        /\ Append(c.out, item) \in Seq(Items) /\ r \in States
        /\ Reached(q, Append(c.out, item), r)
    BY <2>1, <2>2, <2>4, <2>5, Emitted, Zenon
  <2>8. CloseThinking(c) = e
    BY <1>2 DEF CloseThinking, item
  <2> HIDE DEF d
  <2>9. e \in Convs
    <3>1. d.next + 1 \in Nat
      BY <2>7 DEF Convs
    <3>2. None \in Int
      BY DEF None
    <3> QED
      BY <2>7, <3>1, <3>2, Zenon DEF Convs
  <2>10. /\ e.out = Append(c.out, item) /\ e.next = c.next + 1 /\ e.calls = c.calls
         /\ e.thinkingAt = None /\ e.textAt = c.textAt
    BY <2>1, <2>7 DEF Convs, BesideOut
  <2>11. r.stage = p.stage /\ r.open = {} /\ r.next = p.next /\ r.tools = p.tools
    BY <2>6 DEF States
  <2> HIDE DEF e, r
  <2>12. ReadyMessage(e, r)
    BY <2>2, <2>3, <2>10, <2>11 DEF ReadyMessage
  <2>13. e \in MessageConvs(q)
    BY <2>7, <2>9, <2>10, <2>12 DEF MessageConvs
  <2> QED
    BY <2>8, <2>10, <2>13
<1> QED
  BY <1>1, <1>2

LEMMA CloseTextKept ==
    ASSUME NEW q, NEW c \in MessageConvs(q)
    PROVE  /\ CloseText(c) \in MessageConvs(q)
           /\ CloseText(c).textAt = None /\ CloseText(c).thinkingAt = c.thinkingAt
<1>1. CASE c.textAt = None
  BY <1>1 DEF CloseText
<1>2. CASE c.textAt # None
  <2> DEFINE item == Stop(c.textAt)
  <2>1. c \in Convs
    BY DEF MessageConvs
  <2>2. PICK p \in States : Reached(q, c.out, p) /\ ReadyMessage(c, p)
    BY DEF MessageConvs
  <2>3. c.textAt = c.next /\ c.thinkingAt = None /\ p.open = {c.next} /\ p.next = c.next + 1
    BY <1>2, <2>2 DEF ReadyMessage
  <2>4. item \in Items /\ item.type = "content_block_stop" /\ item.index = c.next
    BY <2>1, <2>3 DEF Items, Stop, Convs
  <2>5. Allowed(p, item)
    <3> HIDE DEF item
    <3> QED
      BY <2>2, <2>3, <2>4 DEF Allowed, ReadyMessage
  <2>6. After(p, item) = [p EXCEPT !.open = {}, !.touched = c.next]
    BY <2>4 DEF After
  <2> HIDE DEF item
  <2> DEFINE d == Emit(c, item)
             e == [d EXCEPT !.textAt = None, !.next = d.next + 1]
             r == After(p, item)
  <2>7. /\ d \in Convs /\ BesideOut(c, d) /\ d.out = Append(c.out, item)
        /\ Append(c.out, item) \in Seq(Items) /\ r \in States
        /\ Reached(q, Append(c.out, item), r)
    BY <2>1, <2>2, <2>4, <2>5, Emitted, Zenon
  <2>8. CloseText(c) = e
    BY <1>2 DEF CloseText, item
  <2> HIDE DEF d
  <2>9. e \in Convs
    <3>1. d.next + 1 \in Nat
      BY <2>7 DEF Convs
    <3>2. None \in Int
      BY DEF None
    <3> QED
      BY <2>7, <3>1, <3>2, Zenon DEF Convs
  <2>10. /\ e.out = Append(c.out, item) /\ e.next = c.next + 1 /\ e.calls = c.calls
         /\ e.textAt = None /\ e.thinkingAt = c.thinkingAt
    BY <2>1, <2>7 DEF Convs, BesideOut
  <2>11. r.stage = p.stage /\ r.open = {} /\ r.next = p.next /\ r.tools = p.tools
    BY <2>6 DEF States
  <2> HIDE DEF e, r
  <2>12. ReadyMessage(e, r)
    BY <2>2, <2>3, <2>10, <2>11 DEF ReadyMessage
  <2>13. e \in MessageConvs(q)
    BY <2>7, <2>9, <2>10, <2>12 DEF MessageConvs
  <2> QED
    BY <2>8, <2>10, <2>13
<1> QED
  BY <1>1, <1>2

LEMMA OpenTextKept ==
    ASSUME NEW q, NEW c \in MessageConvs(q), c.thinkingAt = None
    PROVE  /\ OpenText(c) \in MessageConvs(q)
           /\ OpenText(c).textAt # None /\ OpenText(c).thinkingAt = None
<1>0. PICK p \in States : Reached(q, c.out, p) /\ ReadyMessage(c, p)
  BY DEF MessageConvs
<1>1. CASE c.textAt # None
  BY <1>1 DEF OpenText
<1>2. CASE c.textAt = None
  <2> DEFINE item == Start(c.next, "text", NoCall)
  <2>1. c \in Convs
    BY DEF MessageConvs
  <2>2. p.open = {} /\ p.next = c.next /\ c.next \in Nat /\ p.stage = "open"
    BY <1>0, <1>2, <2>1 DEF ReadyMessage, None, Convs
  <2>3. /\ item \in Items /\ item.type = "content_block_start" /\ item.index = c.next
        /\ item.block = "text"
    BY <2>2, ArgumentTypes DEF Items, Start
  <2>4. Allowed(p, item)
    <3> HIDE DEF item
    <3> QED
      BY <2>2, <2>3 DEF Allowed
  <2> DEFINE r == After(p, item)
             tool == (p.tools \/ item.block = "tool_use")
  <2>5. r = [p EXCEPT !.open = {item.index}, !.next = p.next + 1, !.touched = item.index,
                      !.tools = tool]
    <3> HIDE DEF item
    <3> QED
      BY <2>3 DEF After
  <2>6. tool <=> p.tools
    <3> HIDE DEF item
    <3> QED
      BY <2>3
  <2> HIDE DEF item, tool
  <2>7. r.stage = p.stage /\ r.open = {c.next} /\ r.next = c.next + 1 /\ (r.tools <=> p.tools)
    BY <2>2, <2>3, <2>5, <2>6 DEF States
  <2> DEFINE d == Emit(c, item)
             e == [d EXCEPT !.textAt = c.next]
  <2>8. /\ d \in Convs /\ BesideOut(c, d) /\ d.out = Append(c.out, item)
        /\ Append(c.out, item) \in Seq(Items) /\ r \in States
        /\ Reached(q, Append(c.out, item), r)
    BY <1>0, <2>1, <2>3, <2>4, Emitted, Zenon
  <2>9. OpenText(c) = e
    BY <1>2 DEF OpenText, item
  <2> HIDE DEF d
  <2>10. e \in Convs
    BY <2>2, <2>8 DEF Convs
  <2>11. /\ e.out = Append(c.out, item) /\ e.next = c.next /\ e.calls = c.calls
         /\ e.textAt = c.next /\ e.thinkingAt = None
    BY <2>1, <2>8 DEF Convs, BesideOut
  <2> HIDE DEF e, r
  <2>12. ReadyMessage(e, r)
    BY <1>0, <2>2, <2>7, <2>11 DEF ReadyMessage
  <2>13. e \in MessageConvs(q)
    BY <2>8, <2>10, <2>11, <2>12 DEF MessageConvs
  <2>14. c.next # None
    BY <2>2 DEF None
  <2> QED
    BY <2>9, <2>11, <2>13, <2>14
<1> QED
  BY <1>1, <1>2

LEMMA OpenThinkingKept ==
    ASSUME NEW q, NEW c \in MessageConvs(q), c.textAt = None
    PROVE  /\ OpenThinking(c) \in MessageConvs(q)
           /\ OpenThinking(c).thinkingAt # None /\ OpenThinking(c).textAt = None
<1>0. PICK p \in States : Reached(q, c.out, p) /\ ReadyMessage(c, p)
  BY DEF MessageConvs
<1>1. CASE c.thinkingAt # None
  BY <1>1 DEF OpenThinking
<1>2. CASE c.thinkingAt = None
  <2> DEFINE item == Start(c.next, "thinking", NoCall)
  <2>1. c \in Convs
    BY DEF MessageConvs
  <2>2. p.open = {} /\ p.next = c.next /\ c.next \in Nat /\ p.stage = "open"
    BY <1>0, <1>2, <2>1 DEF ReadyMessage, None, Convs
  <2>3. /\ item \in Items /\ item.type = "content_block_start" /\ item.index = c.next
        /\ item.block = "thinking"
    BY <2>2, ArgumentTypes DEF Items, Start
  <2>4. Allowed(p, item)
    <3> HIDE DEF item
    <3> QED
      BY <2>2, <2>3 DEF Allowed
  <2> DEFINE r == After(p, item)
             tool == (p.tools \/ item.block = "tool_use")
  <2>5. r = [p EXCEPT !.open = {item.index}, !.next = p.next + 1, !.touched = item.index,
                      !.tools = tool]
    <3> HIDE DEF item
    <3> QED
      BY <2>3 DEF After
  <2>6. tool <=> p.tools
    <3> HIDE DEF item
    <3> QED
      BY <2>3
  <2> HIDE DEF item, tool
  <2>7. r.stage = p.stage /\ r.open = {c.next} /\ r.next = c.next + 1 /\ (r.tools <=> p.tools)
    BY <2>2, <2>3, <2>5, <2>6 DEF States
  <2> DEFINE d == Emit(c, item)
             e == [d EXCEPT !.thinkingAt = c.next]
  <2>8. /\ d \in Convs /\ BesideOut(c, d) /\ d.out = Append(c.out, item)
        /\ Append(c.out, item) \in Seq(Items) /\ r \in States
        /\ Reached(q, Append(c.out, item), r)
    BY <1>0, <2>1, <2>3, <2>4, Emitted, Zenon
  <2>9. OpenThinking(c) = e
    BY <1>2 DEF OpenThinking, item
  <2> HIDE DEF d
  <2>10. e \in Convs
    BY <2>2, <2>8 DEF Convs
  <2>11. /\ e.out = Append(c.out, item) /\ e.next = c.next /\ e.calls = c.calls
         /\ e.thinkingAt = c.next /\ e.textAt = None
    BY <2>1, <2>8 DEF Convs, BesideOut
  <2> HIDE DEF e, r
  <2>12. ReadyMessage(e, r)
    BY <1>0, <2>2, <2>7, <2>11 DEF ReadyMessage
  <2>13. e \in MessageConvs(q)
    BY <2>8, <2>10, <2>11, <2>12 DEF MessageConvs
  <2>14. c.next # None
    BY <2>2 DEF None
  <2> QED
    BY <2>9, <2>11, <2>13, <2>14
<1> QED
  BY <1>1, <1>2

(* A delta goes to the block that is open.                                 *)
LEMMA DeltaKept ==
    ASSUME NEW q, NEW c \in MessageConvs(q), NEW at \in {c.thinkingAt, c.textAt}, at # None,
           NEW text \in Arguments
    PROVE  /\ Emit(c, Delta(at, text)) \in MessageConvs(q)
           /\ BesideOut(c, Emit(c, Delta(at, text)))
<1> DEFINE item == Delta(at, text)
           d == Emit(c, item)
<1>0. PICK p \in States : Reached(q, c.out, p) /\ ReadyMessage(c, p)
  BY DEF MessageConvs
<1>1. c \in Convs
  BY DEF MessageConvs
<1>2. at = c.next /\ p.open = {c.next} /\ p.stage = "open" /\ c.next \in Nat
  BY <1>0, <1>1 DEF ReadyMessage, Convs
<1>3. item \in Items /\ item.type = "content_block_delta" /\ item.index = c.next
  BY <1>2 DEF Items, Delta
<1> DEFINE r == After(p, item)
<1> HIDE DEF item
<1>4. Allowed(p, item)
  BY <1>2, <1>3 DEF Allowed
<1>5. r = [p EXCEPT !.touched = item.index]
  BY <1>3 DEF After
<1>6. r.stage = p.stage /\ r.open = p.open /\ r.next = p.next /\ r.tools = p.tools
  BY <1>5 DEF States
<1>7. /\ d \in Convs /\ BesideOut(c, d) /\ d.out = Append(c.out, item)
      /\ Append(c.out, item) \in Seq(Items) /\ r \in States
      /\ Reached(q, Append(c.out, item), r)
  BY <1>0, <1>1, <1>3, <1>4, Emitted, Zenon
<1> HIDE DEF d, r
<1>8. ReadyMessage(d, r)
  BY <1>0, <1>6, <1>7 DEF ReadyMessage, BesideOut
<1>9. d \in MessageConvs(q)
  BY <1>7, <1>8 DEF MessageConvs
<1> QED
  BY <1>7, <1>9 DEF d, item

(* What of a converter neither the items nor the blocks depend on.         *)
LEMMA FullKept ==
    ASSUME NEW q, NEW c \in MessageConvs(q), NEW text \in Texts
    PROVE  [c EXCEPT !.full = text] \in MessageConvs(q)
<1> DEFINE e == [c EXCEPT !.full = text]
<1>0. PICK p \in States : Reached(q, c.out, p) /\ ReadyMessage(c, p)
  BY DEF MessageConvs
<1>1. c \in Convs
  BY DEF MessageConvs
<1>2. /\ e \in Convs /\ e.out = c.out /\ e.next = c.next /\ e.calls = c.calls
      /\ e.thinkingAt = c.thinkingAt /\ e.textAt = c.textAt
  BY <1>1 DEF Convs
<1> HIDE DEF e
<1>3. ReadyMessage(e, p)
  BY <1>0, <1>2 DEF ReadyMessage
<1>4. e \in MessageConvs(q)
  BY <1>0, <1>2, <1>3 DEF MessageConvs
<1> QED
  BY <1>4 DEF e

LEMMA CompleteKept ==
    ASSUME NEW q, NEW c \in MessageConvs(q)
    PROVE  /\ [c EXCEPT !.complete = TRUE] \in MessageConvs(q)
           /\ [c EXCEPT !.complete = TRUE].textAt = c.textAt
<1> DEFINE e == [c EXCEPT !.complete = TRUE]
<1>0. PICK p \in States : Reached(q, c.out, p) /\ ReadyMessage(c, p)
  BY DEF MessageConvs
<1>1. c \in Convs
  BY DEF MessageConvs
<1>2. /\ e \in Convs /\ e.out = c.out /\ e.next = c.next /\ e.calls = c.calls
      /\ e.thinkingAt = c.thinkingAt /\ e.textAt = c.textAt
  BY <1>1 DEF Convs
<1> HIDE DEF e
<1>3. ReadyMessage(e, p)
  BY <1>0, <1>2 DEF ReadyMessage
<1>4. e \in MessageConvs(q)
  BY <1>0, <1>2, <1>3 DEF MessageConvs
<1> QED
  BY <1>2, <1>4 DEF e

LEMMA ContentKept ==
    ASSUME NEW q, NEW c \in MessageConvs(q), NEW text \in Texts
    PROVE  AnthropicContent(c, text) \in MessageConvs(q)
<1> DEFINE opened == OpenText(CloseThinking(c))
           d == Emit(opened, Delta(opened.textAt, text))
<1>1. CloseThinking(c) \in MessageConvs(q) /\ CloseThinking(c).thinkingAt = None
  BY CloseThinkingKept
<1>2. opened \in MessageConvs(q) /\ opened.textAt # None
  BY <1>1, OpenTextKept
<1>3. text \in Arguments
  BY ArgumentTypes
<1> HIDE DEF opened
<1>4. d \in MessageConvs(q)
  BY <1>2, <1>3, DeltaKept
<1> HIDE DEF d
<1>5. d.full \o text \in Texts
  BY <1>4, ConvParts, JoinedText DEF MessageConvs
<1>6. [d EXCEPT !.full = d.full \o text] \in MessageConvs(q)
  BY <1>4, <1>5, FullKept
<1>7. AnthropicContent(c, text) = [d EXCEPT !.full = d.full \o text]
  BY DEF AnthropicContent, d, opened
<1> QED
  BY <1>6, <1>7

(* Thinking comes while no text block is open.                             *)
LEMMA ThinkingKept ==
    ASSUME NEW q, NEW c \in MessageConvs(q), c.textAt = None, NEW how, NEW text \in Texts
    PROVE  /\ AnthropicThinking(how, c, text) \in MessageConvs(q)
           /\ AnthropicThinking(how, c, text).textAt = None
<1> DEFINE opened == OpenThinking(c)
           d == Emit(opened, Delta(opened.thinkingAt, text))
<1>1. opened \in MessageConvs(q) /\ opened.thinkingAt # None /\ opened.textAt = None
  BY OpenThinkingKept
<1>2. text \in Arguments
  BY ArgumentTypes
<1> HIDE DEF opened
<1>3. d \in MessageConvs(q) /\ d.textAt = None
  BY <1>1, <1>2, DeltaKept DEF BesideOut
<1> HIDE DEF d
<1>4. AnthropicThinking(how, c, text) \in {c, d}
  BY DEF AnthropicThinking, d, opened
<1> QED
  BY <1>3, <1>4

(* Some items more are one more, some times over.                          *)
LEMMA ThreeMore ==
    ASSUME NEW D, NEW s \in Seq(D), NEW x \in D, NEW y \in D, NEW z \in D
    PROVE  s \o <<x, y, z>> = Append(Append(Append(s, x), y), z)
<1> DEFINE more == <<x, y, z>>
           one == Append(s, x)
           two == Append(one, y)
           all == Append(two, z)
           n == Len(s)
<1>1. more \in Seq(D) /\ Len(more) = 3 /\ more[1] = x /\ more[2] = y /\ more[3] = z
  OBVIOUS
<1>2. n \in Nat
  OBVIOUS
<1> HIDE DEF more
<1>3. /\ s \o more \in Seq(D) /\ Len(s \o more) = n + 3
      /\ \A i \in 1..(n + 3) : (s \o more)[i] = IF i <= n THEN s[i] ELSE more[i - n]
  <2>1. /\ s \o more \in Seq(D) /\ Len(s \o more) = Len(s) + Len(more)
        /\ \A i \in 1..(Len(s) + Len(more)) :
               (s \o more)[i] = IF i <= Len(s) THEN s[i] ELSE more[i - Len(s)]
    BY <1>1, ConcatProperties
  <2>2. Len(s) + Len(more) = n + 3
    BY <1>1
  <2> QED
    BY <2>1, <2>2
<1>4. /\ one \in Seq(D) /\ Len(one) = n + 1 /\ one[n + 1] = x
      /\ \A i \in 1..n : one[i] = s[i]
  BY AppendProperties
<1> HIDE DEF one
<1>5. /\ two \in Seq(D) /\ Len(two) = n + 2 /\ two[n + 2] = y
      /\ \A i \in 1..(n + 1) : two[i] = one[i]
  <2>1. n + 1 + 1 = n + 2
    BY <1>2
  <2> QED
    BY <1>4, <2>1, AppendProperties
<1> HIDE DEF two
<1>6. /\ all \in Seq(D) /\ Len(all) = n + 3 /\ all[n + 3] = z
      /\ \A i \in 1..(n + 2) : all[i] = two[i]
  <2>1. n + 2 + 1 = n + 3
    BY <1>2
  <2> QED
    BY <1>5, <2>1, AppendProperties
<1> HIDE DEF all, n
<1>7. ASSUME NEW i \in 1..(n + 3)
      PROVE  (s \o more)[i] = all[i]
  <2>1. CASE i \in 1..n
    <3>1. i \in 1..(n + 1) /\ i \in 1..(n + 2) /\ i <= n
      BY <1>2, <2>1
    <3> QED
      BY <1>3, <1>4, <1>5, <1>6, <2>1, <3>1
  <2>2. CASE i = n + 1
    <3>1. i \in 1..(n + 1) /\ i \in 1..(n + 2) /\ ~ i <= n /\ i - n = 1
      BY <1>2, <2>2
    <3> QED
      BY <1>1, <1>3, <1>4, <1>5, <1>6, <2>2, <3>1
  <2>3. CASE i = n + 2
    <3>1. i \in 1..(n + 2) /\ ~ i <= n /\ i - n = 2
      BY <1>2, <2>3
    <3> QED
      BY <1>1, <1>3, <1>5, <1>6, <2>3, <3>1
  <2>4. CASE i = n + 3
    <3>1. ~ i <= n /\ i - n = 3
      BY <1>2, <2>4
    <3> QED
      BY <1>1, <1>3, <1>6, <2>4, <3>1
  <2>5. i \in 1..n \/ i = n + 1 \/ i = n + 2 \/ i = n + 3
    BY <1>2
  <2> QED
    BY <2>1, <2>2, <2>3, <2>4, <2>5
<1>8. s \o more = all
  BY <1>3, <1>6, <1>7, SeqEqual
<1> QED
  BY <1>8 DEF all, two, one, more

LEMMA ReachedThree ==
    ASSUME NEW q, NEW out \in Seq(Items), NEW p, Reached(q, out, p),
           NEW x \in Items, NEW y \in Items, NEW z \in Items,
           Allowed(p, x), Allowed(After(p, x), y), Allowed(After(After(p, x), y), z)
    PROVE  /\ out \o <<x, y, z>> \in Seq(Items)
           /\ Reached(q, out \o <<x, y, z>>, After(After(After(p, x), y), z))
<1> DEFINE one == Append(out, x)
           two == Append(one, y)
<1>1. one \in Seq(Items) /\ Reached(q, one, After(p, x))
  BY ReachedMore
<1>2. two \in Seq(Items) /\ Reached(q, two, After(After(p, x), y))
  <2> HIDE DEF one
  <2> QED
    BY <1>1, ReachedMore, Zenon
<1>3. Append(two, z) \in Seq(Items) /\ Reached(q, Append(two, z), After(After(After(p, x), y), z))
  <2> HIDE DEF two
  <2> QED
    BY <1>2, ReachedMore
<1>4. out \o <<x, y, z>> = Append(two, z)
  BY ThreeMore
<1> QED
  BY <1>3, <1>4

LEMMA ToolKept ==
    ASSUME NEW q, NEW c0 \in MessageConvs(q), NEW call \in Calls
    PROVE  AnthropicTool(c0, call) \in MessageConvs(q)
<1> DEFINE c == CloseText(CloseThinking(c0))
           x == Start(c.next, "tool_use", call)
           y == Delta(c.next, call.args)
           z == Stop(c.next)
           out == c.out \o <<x, y, z>>
           calls == Append(c.calls, call)
           e == [c EXCEPT !.out = out, !.calls = calls, !.next = c.next + 1]
<1>1. c \in MessageConvs(q) /\ c.textAt = None /\ c.thinkingAt = None
  <2>1. CloseThinking(c0) \in MessageConvs(q) /\ CloseThinking(c0).thinkingAt = None
    BY CloseThinkingKept
  <2> QED
    BY <2>1, CloseTextKept
<1>2. AnthropicTool(c0, call) = e
  BY DEF AnthropicTool
<1> HIDE DEF c
<1>3. c \in Convs /\ c.out \in Seq(Items) /\ c.next \in Nat /\ c.calls \in Seq(Calls)
  BY <1>1, ConvParts DEF MessageConvs
<1>4. PICK p \in States : Reached(q, c.out, p) /\ ReadyMessage(c, p)
  BY <1>1 DEF MessageConvs
<1>5. p.open = {} /\ p.next = c.next /\ p.stage = "open"
  BY <1>1, <1>3, <1>4 DEF ReadyMessage, None
<1>6. /\ x \in Items /\ x.type = "content_block_start" /\ x.index = c.next /\ x.block = "tool_use"
      /\ y \in Items /\ y.type = "content_block_delta" /\ y.index = c.next
      /\ z \in Items /\ z.type = "content_block_stop" /\ z.index = c.next
  <2>1. call.args \in Arguments
    BY DEF Calls
  <2> QED
    BY <1>3, <2>1 DEF Items, Start, Delta, Stop
<1> DEFINE p1 == After(p, x)
           p2 == After(p1, y)
           p3 == After(p2, z)
<1> HIDE DEF x, y, z
<1>7. Allowed(p, x)
  BY <1>5, <1>6 DEF Allowed
<1>8. /\ p1 \in States
      /\ p1.stage = "open" /\ p1.open = {c.next} /\ p1.next = c.next + 1 /\ p1.tools
  <2>0. p1 \in States
    BY <1>6, AfterType
  <2> DEFINE tool == (p.tools \/ x.block = "tool_use")
  <2>1. p1 = [p EXCEPT !.open = {x.index}, !.next = p.next + 1, !.touched = x.index,
                       !.tools = tool]
    BY <1>6 DEF After
  <2>2. tool
    BY <1>6
  <2> HIDE DEF tool, p1
  <2> QED
    BY <1>5, <1>6, <2>0, <2>1, <2>2 DEF States
<1> HIDE DEF p1
<1>9. Allowed(p1, y)
  BY <1>6, <1>8 DEF Allowed
<1>10. /\ p2 \in States
       /\ p2.stage = "open" /\ p2.open = {c.next} /\ p2.next = c.next + 1 /\ p2.tools
  <2>1. p2 = [p1 EXCEPT !.touched = y.index] /\ p2 \in States
    BY <1>6, <1>8, AfterType DEF After
  <2> QED
    BY <1>8, <2>1 DEF States
<1> HIDE DEF p2
<1>11. Allowed(p2, z)
  BY <1>6, <1>10 DEF Allowed
<1>12. /\ p3 \in States
       /\ p3.stage = "open" /\ p3.open = {} /\ p3.next = c.next + 1 /\ p3.tools
  <2>1. p3 = [p2 EXCEPT !.open = {}, !.touched = z.index] /\ p3 \in States
    BY <1>6, <1>10, AfterType DEF After
  <2> QED
    BY <1>10, <2>1 DEF States
<1>13. out \in Seq(Items) /\ Reached(q, out, p3)
  BY <1>3, <1>4, <1>6, <1>7, <1>9, <1>11, ReachedThree, Zenon DEF p1, p2
<1>14. calls \in Seq(Calls) /\ calls # <<>>
  BY <1>3, AppendProperties
<1> HIDE DEF out, calls, p3
<1>15. e \in Convs
  <2>1. c.next + 1 \in Nat
    BY <1>3
  <2> QED
    BY <1>3, <1>13, <1>14, <2>1, Zenon DEF Convs
<1>16. /\ e.out = out /\ e.next = c.next + 1 /\ e.calls = calls
       /\ e.thinkingAt = None /\ e.textAt = None
  BY <1>1, <1>3 DEF Convs
<1> HIDE DEF e
<1>17. ReadyMessage(e, p3)
  BY <1>12, <1>14, <1>16 DEF ReadyMessage
<1>18. e \in MessageConvs(q)
  BY <1>12, <1>13, <1>15, <1>16, <1>17 DEF MessageConvs
<1> QED
  BY <1>2, <1>18

-----------------------------------------------------------------------------
(* The order of the events: thinking comes first if at all, and not once   *)
(* the parser lets everything through; text comes only then.               *)

LEMMA ProcessOrder ==
    ASSUME NEW p \in Parsers, p.state = "in_thinking"
    PROVE  LET r == ProcessThinkingBuffer(p)
           IN r.parser.state # "streaming" => r.regular = <<>>
<1> DEFINE closings == Occurrences(CloseTag(p.openTag), p.thinkingBuffer)
<1>1. CASE closings # {}
  <2>1. ProcessThinkingBuffer(p) = ClosedAt(p, Min(closings))
    BY <1>1 DEF ProcessThinkingBuffer
  <2>2. ClosedAt(p, Min(closings)).parser.state = "streaming"
    BY DEF ClosedAt, Parsers
  <2> QED
    BY <2>1, <2>2
<1>2. CASE closings = {}
  BY <1>2 DEF ProcessThinkingBuffer, Nothing
<1> QED
  BY <1>1, <1>2

LEMMA FeedOrder ==
    ASSUME NEW p \in Parsers, NEW text \in Texts
    PROVE  LET r == Feed(p, text)
           IN /\ r.parser.state # "streaming" => r.regular = <<>> /\ p.state # "streaming"
              /\ p.state = "streaming" => r.thinking = <<>>
<1>1. CASE text = <<>>
  BY <1>1 DEF Feed, Nothing
<1>2. CASE text # <<>> /\ p.state = "pre_content"
  <2> DEFINE b == p.initialBuffer \o text
             stripped == LStrip(b)
             tag == TagAtStart(stripped)
  <2>1. b \in Texts /\ stripped \in Texts /\ Len(stripped) \in Nat
    BY ParserParts, JoinedText, StrippedText, TextParts
  <2>2. Feed(p, text) = HandlePreContent(p, text)
    BY <1>2 DEF Feed
  <2>3. CASE TagsAtStart(stripped) # {}
    <3> DEFINE inside == [p EXCEPT !.state = "in_thinking", !.openTag = tag,
                              !.initialBuffer = <<>>,
                              !.thinkingBuffer = SubSeq(stripped, Len(tag) + 1, Len(stripped))]
    <3>1. tag \in Texts /\ tag # <<>> /\ Len(tag) \in Nat
      BY <2>1, <2>3, TagFound, TextParts
    <3>2. SubSeq(stripped, Len(tag) + 1, Len(stripped)) \in Texts
      <4> HIDE DEF stripped, tag
      <4> QED
        BY <2>1, <3>1, PartOf
    <3>3. inside \in Parsers /\ inside.state = "in_thinking"
      <4> HIDE DEF stripped, tag
      <4> QED
        BY <3>1, <3>2, NothingText DEF Parsers
    <3>4. Feed(p, text) = ProcessThinkingBuffer(inside)
      BY <2>2, <2>3 DEF HandlePreContent
    <3> HIDE DEF inside
    <3> QED
      BY <1>2, <3>3, <3>4, ProcessOrder
  <2>4. CASE TagsAtStart(stripped) = {} /\ CouldBeTagPrefix(stripped)
    BY <1>2, <2>2, <2>4 DEF HandlePreContent, Nothing
  <2>5. CASE TagsAtStart(stripped) = {} /\ ~CouldBeTagPrefix(stripped)
    <3> DEFINE left == [p EXCEPT !.state = "streaming", !.initialBuffer = <<>>]
    <3>1. left.state = "streaming"
      BY DEF Parsers
    <3>2. Feed(p, text) = [Nothing(left) EXCEPT !.regular = b]
      BY <2>2, <2>5 DEF HandlePreContent
    <3> HIDE DEF left, b
    <3>3. [Nothing(left) EXCEPT !.regular = b].parser = left
      BY DEF Nothing
    <3> QED
      BY <1>2, <3>1, <3>2, <3>3
  <2> QED
    BY <2>3, <2>4, <2>5
<1>3. CASE text # <<>> /\ p.state = "in_thinking"
  <2> DEFINE more == [p EXCEPT !.thinkingBuffer = p.thinkingBuffer \o text]
  <2>1. p.thinkingBuffer \o text \in Texts
    BY ParserParts, JoinedText
  <2>2. more \in Parsers /\ more.state = "in_thinking"
    BY <1>3, <2>1 DEF Parsers
  <2>3. Feed(p, text) = ProcessThinkingBuffer(more)
    BY <1>3 DEF Feed, HandleInThinking
  <2> HIDE DEF more
  <2> QED
    BY <1>3, <2>2, <2>3, ProcessOrder
<1>4. CASE text # <<>> /\ p.state = "streaming"
  BY <1>4 DEF Feed, Nothing
<1> QED
  BY <1>1, <1>2, <1>3, <1>4, ParserParts

LEMMA ContentEventsOrder ==
    ASSUME NEW how, NEW r \in Results
    PROVE  LET m == ContentEvents(how, r)
           IN \A i \in 1..Len(m) :
                  /\ m[i].type \in {"thinking", "content"}
                  /\ m[i].type = "thinking" => i = 1 /\ r.thinking # <<>>
                  /\ m[i].type = "content" => r.regular # <<>>
<1> DEFINE thought == ProcessForOutput(how, r)
           a == [type |-> "thinking", text |-> thought]
           b == [type |-> "content", text |-> r.regular]
           m == ContentEvents(how, r)
<1>1. thought # <<>> => r.thinking # <<>>
  BY DEF ProcessForOutput
<1>2. m = (IF thought = <<>> THEN <<>> ELSE <<a>>)
          \o (IF r.regular = <<>> THEN <<>> ELSE <<b>>)
  BY DEF ContentEvents
<1>3. a.type = "thinking" /\ b.type = "content"
  OBVIOUS
<1> HIDE DEF a, b, thought
<1>4. \A i \in 1..Len(<<>>) : FALSE
  OBVIOUS
<1>5. Len(<<a>>) = 1 /\ <<a>>[1] = a /\ Len(<<b>>) = 1 /\ <<b>>[1] = b
  OBVIOUS
<1> DEFINE first == IF thought = <<>> THEN <<>> ELSE <<a>>
           second == IF r.regular = <<>> THEN <<>> ELSE <<b>>
           n == Len(first)
<1>6. /\ first \in Seq({a, b}) /\ second \in Seq({a, b})
      /\ n \in Nat /\ \A i \in 1..n : i = 1 /\ first[i] = a /\ thought # <<>>
      /\ Len(second) \in Nat /\ \A i \in 1..Len(second) : second[i] = b /\ r.regular # <<>>
  <2>1. <<a>> \in Seq({a, b}) /\ <<b>> \in Seq({a, b}) /\ <<>> \in Seq({a, b})
        /\ Len(<<>>) = 0
    BY EmptySeq
  <2>2. first \in Seq({a, b}) /\ second \in Seq({a, b})
    BY <2>1
  <2>3. n \in Nat /\ Len(second) \in Nat
    BY <2>1, <1>5
  <2>4. \A i \in 1..n : i = 1 /\ first[i] = a /\ thought # <<>>
    BY <1>4, <1>5
  <2>5. \A i \in 1..Len(second) : second[i] = b /\ r.regular # <<>>
    BY <1>4, <1>5
  <2> QED
    BY <2>2, <2>3, <2>4, <2>5
<1>7. m = first \o second
  BY <1>2
<1> HIDE DEF first, second, m
<1>8. /\ Len(m) = n + Len(second)
      /\ \A i \in 1..(n + Len(second)) : m[i] = IF i <= n THEN first[i] ELSE second[i - n]
  BY <1>6, <1>7, ConcatProperties
<1> HIDE DEF n
<1>9. ASSUME NEW i \in 1..Len(m)
      PROVE  \/ m[i] = a /\ i = 1 /\ thought # <<>>
             \/ m[i] = b /\ r.regular # <<>>
  <2>1. CASE i <= n
    BY <1>6, <1>8, <1>9, <2>1
  <2>2. CASE ~ i <= n
    <3>1. i - n \in 1..Len(second)
      BY <1>6, <1>8, <2>2
    <3> QED
      BY <1>6, <1>8, <2>2, <3>1
  <2> QED
    BY <2>1, <2>2
<1> QED
  BY <1>1, <1>3, <1>9 DEF m

Silent == {"thinking", "usage", "context_usage"}

LEMMA EventsOrder ==
    ASSUME NEW how, NEW p \in Parsings, NEW event \in RawEvents
    PROVE  LET m == EventsOf(how, p, event)
           IN /\ \A i \in 1..Len(m) :
                     m[i].type = "thinking" => i = 1 /\ p.thinking.state # "streaming"
              /\ Parsed(p, event).thinking.state # "streaming" =>
                     /\ p.thinking.state # "streaming"
                     /\ \A i \in 1..Len(m) : m[i].type \in Silent
<1>1. p.events \in EventParsers /\ p.thinking \in Parsers
  BY DEF Parsings
<1>2. event.kind = "content" => event.text \in Texts
  BY DEF RawEvents
<1>3. CASE event.kind = "content" /\ ~RepeatsContent(p.events, event)
  <2> DEFINE r == Feed(p.thinking, event.text)
             m == EventsOf(how, p, event)
  <2>1. r \in Results
    BY <1>1, <1>2, <1>3, FeedType
  <2>2. /\ r.parser.state # "streaming" => r.regular = <<>> /\ p.thinking.state # "streaming"
        /\ p.thinking.state = "streaming" => r.thinking = <<>>
    BY <1>1, <1>2, <1>3, FeedOrder
  <2>3. m = ContentEvents(how, r)
    BY <1>3 DEF EventsOf
  <2>4. Parsed(p, event).thinking = r.parser
    BY <1>3 DEF Parsed
  <2> HIDE DEF r
  <2>5. \A i \in 1..Len(m) :
            /\ m[i].type \in {"thinking", "content"}
            /\ m[i].type = "thinking" => i = 1 /\ r.thinking # <<>>
            /\ m[i].type = "content" => r.regular # <<>>
    BY <2>1, <2>3, ContentEventsOrder
  <2> HIDE DEF m
  <2>6. \A i \in 1..Len(m) :
            m[i].type = "thinking" => i = 1 /\ p.thinking.state # "streaming"
    BY <2>2, <2>5
  <2>7. r.parser.state # "streaming" =>
            p.thinking.state # "streaming" /\ \A i \in 1..Len(m) : m[i].type \in Silent
    BY <2>2, <2>5 DEF Silent
  <2> QED
    BY <2>4, <2>6, <2>7 DEF m
<1>4. CASE ~ (event.kind = "content" /\ ~RepeatsContent(p.events, event))
  <2>1. Parsed(p, event).thinking = p.thinking
    BY <1>4 DEF Parsed, Nothing
  <2>2. \/ EventsOf(how, p, event) = <<>>
        \/ /\ event.kind \in {"usage", "context_usage"}
           /\ EventsOf(how, p, event) = <<[type |-> event.kind]>>
    BY <1>4 DEF EventsOf, KiroEvent
  <2> QED
    BY <2>1, <2>2 DEF Silent
<1> QED
  BY <1>3, <1>4

LEMMA LastOrder ==
    ASSUME NEW how, NEW p \in Parsings
    PROVE  LET m == LastEvents(how, p)
           IN \A i \in 1..Len(m) :
                  m[i].type = "thinking" => i = 1 /\ p.thinking.state # "streaming"
<1> DEFINE r == Finalize(p.thinking)
           before == ContentEvents(how, r)
           calls == GetToolCalls(p.events)
           uses == [i \in DOMAIN calls |-> [type |-> "tool_use", call |-> calls[i]]]
           m == LastEvents(how, p)
<1>1. calls \in Seq(Calls) /\ r \in Results
  BY GetToolCallsType, FinalizeType DEF Parsings
<1>2. before \in Seq(KiroEventSet)
  BY <1>1, ContentEventsType
<1>3. \A i \in 1..Len(before) : before[i].type = "thinking" => i = 1 /\ r.thinking # <<>>
  BY <1>1, ContentEventsOrder
<1>4. p.thinking.state = "streaming" => r.thinking = <<>>
  BY DEF Finalize
<1>5. uses \in Seq(KiroEventSet) /\ \A i \in 1..Len(uses) : uses[i].type = "tool_use"
  <2> HIDE DEF calls
  <2>1. Len(calls) \in Nat /\ DOMAIN calls = 1..Len(calls)
        /\ \A i \in 1..Len(calls) : calls[i] \in Calls
    BY <1>1, LenProperties, ElementOfSeq
  <2>2. \A i \in 1..Len(calls) : [type |-> "tool_use", call |-> calls[i]] \in KiroEventSet
    BY <2>1 DEF KiroEventSet
  <2>3. uses \in Seq(KiroEventSet) /\ Len(uses) = Len(calls)
    BY <2>1, <2>2
  <2> QED
    BY <2>1, <2>3
<1>6. m = before \o uses
  BY DEF LastEvents
<1> HIDE DEF before, uses, r, m
<1> DEFINE n == Len(before)
           k == Len(uses)
<1>7. n \in Nat /\ k \in Nat /\ Len(m) = n + k
      /\ \A i \in 1..(n + k) : m[i] = IF i <= n THEN before[i] ELSE uses[i - n]
  BY <1>2, <1>5, <1>6, ConcatProperties, LenProperties
<1>8. ASSUME NEW i \in 1..Len(m), m[i].type = "thinking"
      PROVE  i = 1 /\ p.thinking.state # "streaming"
  <2>1. CASE i <= n
    <3>1. i \in 1..n /\ m[i] = before[i]
      BY <1>7, <2>1
    <3> QED
      BY <1>3, <1>4, <1>8, <3>1
  <2>2. CASE ~ i <= n
    <3>1. i - n \in 1..k /\ m[i] = uses[i - n]
      BY <1>7, <2>2
    <3> QED
      BY <1>5, <1>8, <3>1
  <2> QED
    BY <2>1, <2>2
<1> QED
  BY <1>8 DEF m

-----------------------------------------------------------------------------
(* Many events, and the end                                                *)

LEMMA EventParts ==
    ASSUME NEW e \in KiroEventSet
    PROVE  /\ e.type \in {"content", "thinking", "usage", "context_usage", "tool_use"}
           /\ e.type \in {"content", "thinking"} => e.text \in Texts
           /\ e.type = "tool_use" => e.call \in Calls
BY DEF KiroEventSet

LEMMA MessageSteps ==
    ASSUME NEW q, NEW c0 \in MessageConvs(q), NEW how, NEW m \in Seq(KiroEventSet),
           NEW quiet \in BOOLEAN, quiet => c0.textAt = None,
           \A i \in 1..Len(m) :
               /\ m[i].type = "thinking" => i = 1 /\ c0.textAt = None
               /\ quiet => m[i].type \in Silent
    PROVE  /\ Steps("anthropic", how, c0, m) \in MessageConvs(q)
           /\ quiet => Steps("anthropic", how, c0, m).textAt = None
<1> DEFINE D == {c \in MessageConvs(q) : quiet => c.textAt = None}
<1>1. c0 \in D /\ Len(m) \in Nat
  BY LenProperties
<1>2. ASSUME NEW i \in 1..Len(m), NEW d \in D, i = 1 => d = c0
      PROVE  Step("anthropic", how, d, m[i]) \in D
  <2> DEFINE e == m[i]
  <2>1. e \in KiroEventSet
    BY ElementOfSeq
  <2>2. /\ e.type \in {"content", "thinking", "usage", "context_usage", "tool_use"}
        /\ e.type \in {"content", "thinking"} => e.text \in Texts
        /\ e.type = "tool_use" => e.call \in Calls
    BY <2>1, EventParts
  <2>3. (e.type = "thinking" => i = 1 /\ c0.textAt = None) /\ (quiet => e.type \in Silent)
    OBVIOUS
  <2> HIDE DEF e
  <2>4. d \in MessageConvs(q)
    OBVIOUS
  <2>5. CASE e.type = "content"
    <3>1. AnthropicContent(d, e.text) \in MessageConvs(q)
      BY <2>2, <2>4, <2>5, ContentKept
    <3>2. ~quiet
      BY <2>3, <2>5 DEF Silent
    <3> QED
      BY <2>5, <3>1, <3>2 DEF Step, AnthropicStep, e
  <2>6. CASE e.type = "thinking"
    <3>1. d.textAt = None /\ e.text \in Texts
      BY <1>2, <2>2, <2>3, <2>6
    <3>2. /\ AnthropicThinking(how, d, e.text) \in MessageConvs(q)
          /\ AnthropicThinking(how, d, e.text).textAt = None
      BY <2>4, <3>1, ThinkingKept
    <3> QED
      BY <2>6, <3>2 DEF Step, AnthropicStep, e
  <2>7. CASE e.type = "tool_use"
    <3>1. AnthropicTool(d, e.call) \in MessageConvs(q)
      BY <2>2, <2>4, <2>7, ToolKept
    <3>2. ~quiet
      BY <2>3, <2>7 DEF Silent
    <3> QED
      BY <2>7, <3>1, <3>2 DEF Step, AnthropicStep, e
  <2>8. CASE e.type = "context_usage"
    <3>1. /\ [d EXCEPT !.complete = TRUE] \in MessageConvs(q)
          /\ [d EXCEPT !.complete = TRUE].textAt = d.textAt
      BY <2>4, CompleteKept
    <3>2. Step("anthropic", how, d, m[i]) = [d EXCEPT !.complete = TRUE]
      BY <2>8 DEF Step, AnthropicStep, e
    <3> QED
      BY <3>1, <3>2
  <2>9. CASE e.type = "usage"
    BY <2>9 DEF Step, AnthropicStep, e
  <2> QED
    BY <2>2, <2>5, <2>6, <2>7, <2>8, <2>9
<1> HIDE DEF D
<1>3. Steps("anthropic", how, c0, m) \in D
  BY <1>1, <1>2, StepsStay
<1> QED
  BY <1>3 DEF D

LEMMA SaveType ==
    ASSUME NEW calls \in Seq(Calls), NEW text \in Texts
    PROVE  Save(calls, text) \in Items /\ Save(calls, text).type = "save"
<1> DEFINE ids == {calls[i].id : i \in {j \in DOMAIN calls : calls[j].truncated}}
<1>1. ids \in SUBSET Int
  <2>0. DOMAIN calls = 1..Len(calls) /\ \A i \in 1..Len(calls) : calls[i] \in Calls
    BY LenProperties, ElementOfSeq
  <2>1. \A i \in DOMAIN calls : calls[i].id \in Int
    BY <2>0 DEF Calls
  <2> QED
    BY <2>1
<1>2. Save(calls, text) = [type |-> "save", calls |-> ids, text |-> text]
  BY DEF Save
<1> HIDE DEF ids
<1> QED
  BY <1>1, <1>2 DEF Items

LEMMA MessageEnd ==
    ASSUME NEW q, NEW c0 \in MessageConvs(q)
    PROVE  LET e == Emit(AnthropicEnd(c0), Close)
           IN /\ e \in Convs /\ e.thinkingAt = None /\ e.textAt = None
              /\ \E p \in States : Reached(q, e.out, p)
<1> DEFINE tools == ForEach(AnthropicTool, c0, ParseBracketToolCalls(c0.full))
           c == CloseText(CloseThinking(tools))
           x == [type |-> "message_delta",
                 reason |-> IF c.calls = <<>> THEN "end_turn" ELSE "tool_use"]
           y == [type |-> "message_stop"]
           z == Save(c.calls, CutText(c))
           out == c.out \o <<x, y, z>>
           e == [c EXCEPT !.out = out]
<1>1. tools \in MessageConvs(q)
  <2> DEFINE m == ParseBracketToolCalls(c0.full)
  <2>1. m \in Seq(Calls)
    BY BracketCallsType, ConvParts DEF MessageConvs
  <2>2. Len(m) \in Nat /\ \A i \in 1..Len(m) : m[i] \in Calls
    BY <2>1, LenProperties, ElementOfSeq
  <2> HIDE DEF m
  <2>3. \A i \in 1..Len(m) : \A d \in MessageConvs(q) : AnthropicTool(d, m[i]) \in MessageConvs(q)
    BY <2>2, ToolKept
  <2>4. ForEach(AnthropicTool, c0, m) \in MessageConvs(q)
    BY <2>2, <2>3, ToolsStay
  <2> QED
    BY <2>4 DEF m
<1>2. c \in MessageConvs(q) /\ c.textAt = None /\ c.thinkingAt = None
  <2> HIDE DEF tools
  <2>1. CloseThinking(tools) \in MessageConvs(q) /\ CloseThinking(tools).thinkingAt = None
    BY <1>1, CloseThinkingKept
  <2> QED
    BY <2>1, CloseTextKept
<1>3. AnthropicEnd(c0) = e
  BY DEF AnthropicEnd
<1> HIDE DEF c
<1>4. c \in Convs /\ c.out \in Seq(Items) /\ c.next \in Nat /\ c.calls \in Seq(Calls)
      /\ c.full \in Texts
  BY <1>2, ConvParts DEF MessageConvs
<1>5. PICK p \in States : Reached(q, c.out, p) /\ ReadyMessage(c, p)
  BY <1>2 DEF MessageConvs
<1>6. p.open = {} /\ p.stage = "open" /\ (p.tools <=> c.calls # <<>>)
  BY <1>2, <1>4, <1>5 DEF ReadyMessage, None
<1>7. /\ x \in Items /\ x.type = "message_delta"
      /\ x.reason = IF c.calls = <<>> THEN "end_turn" ELSE "tool_use"
  BY DEF Items
<1>8. y \in Items /\ y.type = "message_stop"
  BY DEF Items
<1>9. z \in Items /\ z.type = "save"
  <2>1. CutText(c) \in Texts
    BY <1>4, NothingText DEF CutText
  <2> QED
    BY <1>4, <2>1, SaveType
<1> DEFINE p1 == After(p, x)
           p2 == After(p1, y)
           p3 == After(p2, z)
<1> HIDE DEF x, y, z
<1>10. Allowed(p, x)
  BY <1>6, <1>7 DEF Allowed
<1>11. p1 \in States /\ p1.stage = x.reason
  <2>1. p1 = [p EXCEPT !.stage = x.reason] /\ p1 \in States
    BY <1>7, AfterType DEF After
  <2> HIDE DEF p1
  <2> QED
    BY <2>1 DEF States
<1> HIDE DEF p1
<1>12. Allowed(p1, y)
  BY <1>7, <1>8, <1>11 DEF Allowed
<1>13. p2 \in States
  BY <1>8, <1>11, AfterType
<1> HIDE DEF p2
<1>14. Allowed(p2, z)
  BY <1>9 DEF Allowed
<1>15. p3 \in States
  BY <1>9, <1>13, AfterType
<1>16. out \in Seq(Items) /\ Reached(q, out, p3)
  BY <1>4, <1>5, <1>7, <1>8, <1>9, <1>10, <1>12, <1>14, ReachedThree, Zenon DEF p1, p2
<1> HIDE DEF out, p3
<1>17. e \in Convs /\ e.out = out /\ e.thinkingAt = None /\ e.textAt = None
  BY <1>2, <1>4, <1>16 DEF Convs
<1>18. Close \in Items /\ Allowed(p3, Close)
  BY DEF Close, Items, Allowed
<1> HIDE DEF e
<1>19. Emit(e, Close) \in Convs /\ Emit(e, Close).out = Append(e.out, Close)
       /\ BesideOut(e, Emit(e, Close)) /\ After(p3, Close) \in States
       /\ Reached(q, Append(e.out, Close), After(p3, Close))
  BY <1>16, <1>17, <1>18, Emitted
<1> QED
  BY <1>3, <1>17, <1>19 DEF BesideOut

-----------------------------------------------------------------------------
(* The OpenAI converter between two events                                 *)
ReadyChunks(c, p) ==
    /\ p.stage = "none" /\ p.rank = (IF c.first THEN 0 ELSE 1) /\ ~p.called
    /\ c.thinkingAt = None /\ c.textAt = None

ChunkConvs(q) ==
    {c \in Convs : \E p \in States : Reached(q, c.out, p) /\ ReadyChunks(c, p)}

LEMMA ChunkKept ==
    ASSUME NEW q, NEW c \in ChunkConvs(q), NEW field \in {"content", "reasoning_content"},
           NEW text \in Texts
    PROVE  Chunk(c, field, text) \in ChunkConvs(q)
<1> DEFINE item == [type |-> "chunk", field |-> field, text |-> text, role |-> c.first]
           d == Emit(c, item)
           e == [d EXCEPT !.first = FALSE]
<1>1. PICK p \in States : Reached(q, c.out, p) /\ ReadyChunks(c, p)
  BY DEF ChunkConvs
<1>2. c \in Convs /\ c.first \in BOOLEAN
  BY ConvParts DEF ChunkConvs
<1>3. item \in Items /\ item.type = "chunk" /\ item.role = c.first
  BY <1>2 DEF Items
<1> DEFINE r == After(p, item)
<1> HIDE DEF item
<1>4. Allowed(p, item)
  BY <1>1, <1>2, <1>3 DEF Allowed, ReadyChunks
<1>5. r = [p EXCEPT !.rank = 1]
  BY <1>3 DEF After
<1>6. r.stage = p.stage /\ r.rank = 1 /\ r.called = p.called
  BY <1>5 DEF States
<1>7. /\ d \in Convs /\ BesideOut(c, d) /\ d.out = Append(c.out, item)
      /\ Append(c.out, item) \in Seq(Items) /\ r \in States
      /\ Reached(q, Append(c.out, item), r)
  BY <1>1, <1>2, <1>3, <1>4, Emitted, Zenon
<1>8. Chunk(c, field, text) = e
  BY DEF Chunk, item
<1> HIDE DEF d, r
<1>9. /\ e \in Convs /\ e.out = d.out /\ e.first = FALSE
      /\ e.thinkingAt = d.thinkingAt /\ e.textAt = d.textAt
  BY <1>7 DEF Convs
<1> HIDE DEF e
<1>10. ReadyChunks(e, r)
  BY <1>1, <1>6, <1>7, <1>9 DEF ReadyChunks, BesideOut
<1>11. e \in ChunkConvs(q)
  BY <1>7, <1>9, <1>10 DEF ChunkConvs
<1> QED
  BY <1>8, <1>11

(* What of it the chunks do not depend on.                                 *)
LEMMA ChunkFieldsKept ==
    ASSUME NEW q, NEW c \in ChunkConvs(q), NEW e \in Convs, e.out = c.out, e.first = c.first,
           e.thinkingAt = c.thinkingAt, e.textAt = c.textAt
    PROVE  e \in ChunkConvs(q)
<1>1. PICK p \in States : Reached(q, c.out, p) /\ ReadyChunks(c, p)
  BY DEF ChunkConvs
<1>2. ReadyChunks(e, p)
  BY <1>1 DEF ReadyChunks
<1> QED
  BY <1>1, <1>2 DEF ChunkConvs

LEMMA ChunkSteps ==
    ASSUME NEW q, NEW c0 \in ChunkConvs(q), NEW how, NEW m \in Seq(KiroEventSet)
    PROVE  Steps("openai", how, c0, m) \in ChunkConvs(q)
<1>1. Len(m) \in Nat
  BY LenProperties
<1>2. ASSUME NEW i \in 1..Len(m), NEW d \in ChunkConvs(q)
      PROVE  Step("openai", how, d, m[i]) \in ChunkConvs(q)
  <2> DEFINE e == m[i]
  <2>1. e \in KiroEventSet
    BY ElementOfSeq
  <2>2. /\ e.type \in {"content", "thinking", "usage", "context_usage", "tool_use"}
        /\ e.type \in {"content", "thinking"} => e.text \in Texts
        /\ e.type = "tool_use" => e.call \in Calls
    BY <2>1, EventParts
  <2>3. Step("openai", how, d, m[i]) = OpenAIStep(how, d, e)
    BY DEF Step
  <2> HIDE DEF e
  <2>4. d \in Convs
    BY DEF ChunkConvs
  <2>5. CASE e.type = "content"
    <3> DEFINE k == Chunk(d, "content", e.text)
    <3>1. k \in ChunkConvs(q)
      BY <2>2, <2>5, ChunkKept
    <3>2. OpenAIStep(how, d, e) = [k EXCEPT !.full = k.full \o e.text]
      BY <2>5 DEF OpenAIStep
    <3> HIDE DEF k
    <3>3. k \in Convs /\ k.full \o e.text \in Texts
      BY <2>2, <2>5, <3>1, ConvParts, JoinedText DEF ChunkConvs
    <3> DEFINE f == [k EXCEPT !.full = k.full \o e.text]
    <3>4. f \in Convs /\ f.out = k.out /\ f.first = k.first
          /\ f.thinkingAt = k.thinkingAt /\ f.textAt = k.textAt
      BY <3>3 DEF Convs
    <3> HIDE DEF f
    <3>5. f \in ChunkConvs(q)
      BY <3>1, <3>4, ChunkFieldsKept
    <3> QED
      BY <2>3, <3>2, <3>5 DEF f
  <2>6. CASE e.type = "thinking"
    <3>1. \A field \in {"content", "reasoning_content"} :
              Chunk(d, field, e.text) \in ChunkConvs(q)
      BY <2>2, <2>6, ChunkKept
    <3>2. OpenAIStep(how, d, e) =
              Chunk(d, IF how = "as_reasoning_content" THEN "reasoning_content" ELSE "content",
                    e.text)
      BY <2>6 DEF OpenAIStep
    <3> QED
      BY <2>3, <3>1, <3>2
  <2>7. CASE e.type = "tool_use"
    <3> DEFINE calls == Append(d.calls, e.call)
               f == [d EXCEPT !.calls = calls]
    <3>1. OpenAIStep(how, d, e) = f
      BY <2>7 DEF OpenAIStep
    <3>2. calls \in Seq(Calls)
      BY <2>2, <2>4, <2>7, ConvParts, AppendProperties
    <3> HIDE DEF calls
    <3>3. f \in Convs /\ f.out = d.out /\ f.first = d.first
          /\ f.thinkingAt = d.thinkingAt /\ f.textAt = d.textAt
      BY <2>4, <3>2 DEF Convs
    <3> HIDE DEF f
    <3> QED
      BY <2>3, <3>1, <3>3, ChunkFieldsKept
  <2>8. CASE e.type \in {"usage", "context_usage"}
    <3> DEFINE f == [d EXCEPT !.complete = TRUE]
    <3>1. OpenAIStep(how, d, e) = f
      BY <2>8 DEF OpenAIStep
    <3>2. f \in Convs /\ f.out = d.out /\ f.first = d.first
          /\ f.thinkingAt = d.thinkingAt /\ f.textAt = d.textAt
      BY <2>4 DEF Convs
    <3> HIDE DEF f
    <3> QED
      BY <2>3, <3>1, <3>2, ChunkFieldsKept
  <2> QED
    BY <2>2, <2>5, <2>6, <2>7, <2>8
<1> QED
  BY <1>1, <1>2, StepsStay

LEMMA ChunksEnd ==
    ASSUME NEW q, NEW c0 \in ChunkConvs(q)
    PROVE  LET e == Emit(OpenAIEnd(c0), Close)
           IN /\ e \in Convs /\ e.thinkingAt = None /\ e.textAt = None
              /\ \E p \in States : Reached(q, e.out, p) /\ p.rank = 4
<1> DEFINE calls == AllCalls(c0)
           c == [c0 EXCEPT !.calls = calls]
           w == [type |-> "tool_calls", calls |-> calls]
           x == Save(calls, CutText(c))
           y == [type |-> "final", reason |-> IF calls = <<>> THEN "stop" ELSE "tool_calls"]
           z == [type |-> "done"]
           some == c.out \o (IF calls = <<>> THEN <<>> ELSE <<w>>)
           out == some \o <<x, y, z>>
           e == [c EXCEPT !.out = out]
<1>1. OpenAIEnd(c0) = e
  BY DEF OpenAIEnd
<1>2. c0 \in Convs /\ c0.calls \in Seq(Calls) /\ c0.full \in Texts /\ c0.out \in Seq(Items)
  BY ConvParts DEF ChunkConvs
<1>3. calls \in Seq(Calls)
  <2>1. ParseBracketToolCalls(c0.full) \in Seq(Calls)
    BY <1>2, BracketCallsType
  <2>2. c0.calls \o ParseBracketToolCalls(c0.full) \in Seq(Calls)
    BY <1>2, <2>1, ConcatProperties
  <2> QED
    BY <2>2, DeduplicatedType DEF AllCalls
<1> HIDE DEF calls
<1>4. /\ c \in Convs /\ c.out = c0.out /\ c.full = c0.full
      /\ c.thinkingAt = c0.thinkingAt /\ c.textAt = c0.textAt
  BY <1>2, <1>3 DEF Convs
<1> HIDE DEF c
<1>5. PICK p \in States : Reached(q, c0.out, p) /\ ReadyChunks(c0, p)
  BY DEF ChunkConvs
<1>6. /\ w \in Items /\ w.type = "tool_calls" /\ w.calls = calls
      /\ y \in Items /\ y.type = "final"
      /\ y.reason = (IF calls = <<>> THEN "stop" ELSE "tool_calls")
      /\ z \in Items /\ z.type = "done"
  BY <1>3 DEF Items
<1>7. x \in Items /\ x.type = "save"
  <2>1. CutText(c) \in Texts
    BY <1>2, <1>4, NothingText DEF CutText
  <2> QED
    BY <1>3, <2>1, SaveType
<1> HIDE DEF w, x, y, z
<1>8. PICK p0 \in States :
          /\ some \in Seq(Items) /\ Reached(q, some, p0)
          /\ p0.stage = "none" /\ p0.rank <= 2 /\ (p0.called <=> calls # <<>>)
  <2>1. CASE calls = <<>>
    <3>1. some = c0.out
      BY <1>2, <1>4, <2>1, ConcatEmptySeq
    <3> QED
      BY <1>2, <1>5, <2>1, <3>1 DEF ReadyChunks
  <2>2. CASE calls # <<>>
    <3> DEFINE r == After(p, w)
    <3>1. some = Append(c0.out, w)
      BY <1>2, <1>4, <1>6, <2>2, AppendIsConcat
    <3>2. Allowed(p, w)
      BY <1>5, <1>6 DEF Allowed, ReadyChunks
    <3>3. some \in Seq(Items) /\ Reached(q, some, r) /\ r \in States
      BY <1>2, <1>5, <1>6, <3>1, <3>2, ReachedMore, AfterType
    <3> DEFINE has == (w.calls # <<>>)
    <3>4. r = [p EXCEPT !.rank = 2, !.called = has]
      BY <1>6 DEF After
    <3>5. has
      BY <1>6, <2>2
    <3> HIDE DEF r, has, some
    <3>6. r.stage = "none" /\ r.rank = 2 /\ r.called
      BY <1>5, <3>4, <3>5 DEF States, ReadyChunks
    <3> QED
      BY <2>2, <3>3, <3>6
  <2> QED
    BY <2>1, <2>2
<1> DEFINE p1 == After(p0, x)
           p2 == After(p1, y)
           p3 == After(p2, z)
<1>9. Allowed(p0, x) /\ p1 = p0
  BY <1>7 DEF Allowed, After
<1> HIDE DEF p1
<1>10. Allowed(p1, y)
  BY <1>6, <1>8, <1>9 DEF Allowed
<1>11. p2 \in States /\ p2.stage = "none" /\ p2.rank = 3
  <2>1. p2 = [p1 EXCEPT !.rank = 3] /\ p2 \in States
    BY <1>6, <1>8, <1>9, AfterType DEF After
  <2> HIDE DEF p2
  <2> QED
    BY <1>8, <1>9, <2>1 DEF States
<1> HIDE DEF p2
<1>12. Allowed(p2, z)
  BY <1>6, <1>11 DEF Allowed
<1>13. p3 \in States /\ p3.rank = 4
  <2>1. p3 = [p2 EXCEPT !.rank = 4] /\ p3 \in States
    BY <1>6, <1>11, AfterType DEF After
  <2> HIDE DEF p3
  <2> QED
    BY <1>11, <2>1 DEF States
<1>14. out \in Seq(Items) /\ Reached(q, out, p3)
  <2> HIDE DEF some
  <2> QED
    BY <1>6, <1>7, <1>8, <1>9, <1>10, <1>12, ReachedThree, Zenon DEF p1, p2
<1> HIDE DEF out, p3
<1>15. e \in Convs /\ e.out = out /\ e.thinkingAt = None /\ e.textAt = None
  BY <1>4, <1>5, <1>14 DEF Convs, ReadyChunks
<1>16. Close \in Items /\ Allowed(p3, Close) /\ After(p3, Close) = p3
  BY DEF Close, Items, Allowed, After
<1> HIDE DEF e
<1>17. Emit(e, Close) \in Convs /\ Emit(e, Close).out = Append(e.out, Close)
       /\ BesideOut(e, Emit(e, Close)) /\ Reached(q, Append(e.out, Close), p3)
  BY <1>14, <1>15, <1>16, Emitted
<1> QED
  BY <1>1, <1>13, <1>15, <1>17 DEF BesideOut

-----------------------------------------------------------------------------
(* What a client that has been sent s can tell                             *)

At(types, s) == {i \in DOMAIN s : s[i].type \in types}
Latest(types, s) == s[Max(At(types, s))]
Indexes(types, s) == {s[i].index : i \in At(types, s)}

Started == {"content_block_start"}
Stopped == {"content_block_stop"}

LEMMA AtMore ==
    ASSUME NEW s \in Seq(Items), NEW x \in Items, NEW types
    PROVE  LET t == Append(s, x)
           IN /\ At(types, s) \subseteq 1..Len(s) /\ Len(s) \in Nat
              /\ At(types, t) = At(types, s) \cup (IF x.type \in types THEN {Len(s) + 1} ELSE {})
              /\ \A i \in At(types, s) : t[i] = s[i]
              /\ t[Len(s) + 1] = x
<1> DEFINE t == Append(s, x)
           n == Len(s)
<1>1. n \in Nat /\ DOMAIN s = 1..n
  BY LenProperties
<1>2. t \in Seq(Items) /\ Len(t) = n + 1 /\ (\A i \in 1..n : t[i] = s[i]) /\ t[n + 1] = x
  BY AppendProperties
<1>3. DOMAIN t = 1..(n + 1)
  BY <1>2, LenProperties
<1> HIDE DEF t, n
<1>4. At(types, s) = {i \in 1..n : s[i].type \in types}
  BY <1>1 DEF At
<1>5. At(types, t) = {i \in 1..(n + 1) : t[i].type \in types}
  BY <1>3 DEF At
<1>6. CASE x.type \in types
  <2>1. ASSUME NEW i \in 1..(n + 1)
        PROVE  t[i].type \in types <=> i \in At(types, s) \/ i = n + 1
    <3>1. CASE i = n + 1
      BY <1>2, <1>6, <3>1
    <3>2. CASE i # n + 1
      <4>1. i \in 1..n
        BY <1>1, <3>2
      <4> QED
        BY <1>2, <1>4, <3>2, <4>1
    <3> QED
      BY <3>1, <3>2
  <2>2. n + 1 \in 1..(n + 1) /\ \A i \in 1..n : i \in 1..(n + 1)
    BY <1>1
  <2>3. At(types, t) = At(types, s) \cup {n + 1}
    BY <1>4, <1>5, <2>1, <2>2
  <2> QED
    BY <1>1, <1>2, <1>4, <1>6, <2>3 DEF t, n
<1>7. CASE x.type \notin types
  <2>1. ASSUME NEW i \in 1..(n + 1)
        PROVE  t[i].type \in types <=> i \in At(types, s)
    <3>1. CASE i = n + 1
      <4>1. i \notin 1..n
        BY <1>1, <3>1
      <4> QED
        BY <1>2, <1>4, <1>7, <3>1, <4>1
    <3>2. CASE i # n + 1
      <4>1. i \in 1..n
        BY <1>1, <3>2
      <4> QED
        BY <1>2, <1>4, <3>2, <4>1
    <3> QED
      BY <3>1, <3>2
  <2>2. \A i \in 1..n : i \in 1..(n + 1)
    BY <1>1
  <2>3. At(types, t) = At(types, s) \cup {}
    BY <1>4, <1>5, <2>1, <2>2
  <2> QED
    BY <1>1, <1>2, <1>4, <1>7, <2>3 DEF t, n
<1> QED
  BY <1>6, <1>7

LEMMA LatestMore ==
    ASSUME NEW s \in Seq(Items), NEW x \in Items, NEW types
    PROVE  LET t == Append(s, x)
           IN /\ x.type \in types => At(types, t) # {} /\ Latest(types, t) = x
              /\ x.type \notin types => /\ At(types, t) = At(types, s)
                                        /\ At(types, s) # {} => Latest(types, t) = Latest(types, s)
<1> DEFINE t == Append(s, x)
           n == Len(s)
<1>1. /\ At(types, s) \subseteq 1..n /\ n \in Nat
      /\ At(types, t) = At(types, s) \cup (IF x.type \in types THEN {n + 1} ELSE {})
      /\ (\A i \in At(types, s) : t[i] = s[i]) /\ t[n + 1] = x
  BY AtMore
<1> HIDE DEF t, n
<1>2. CASE x.type \in types
  <2> DEFINE S == At(types, t)
  <2>1. S = At(types, s) \cup {n + 1}
    BY <1>1, <1>2
  <2> HIDE DEF S
  <2>2. S \in SUBSET (1..(n + 1)) /\ S # {} /\ n + 1 \in Nat /\ n + 1 \in S
    BY <1>1, <2>1
  <2>3. Max(S) \in S /\ \A i \in S : i <= Max(S)
    BY <2>2, MaxOf
  <2>4. Max(S) = n + 1
    <3>1. Max(S) \in 1..(n + 1) /\ n + 1 <= Max(S)
      BY <2>2, <2>3
    <3> QED
      BY <1>1, <3>1
  <2> QED
    BY <1>1, <1>2, <2>2, <2>4 DEF Latest, S, t
<1>3. CASE x.type \notin types
  <2>1. At(types, t) = At(types, s)
    BY <1>1, <1>3
  <2>2. At(types, s) # {} => Max(At(types, s)) \in At(types, s)
    BY <1>1, MaxOf
  <2> QED
    BY <1>1, <1>3, <2>1, <2>2 DEF Latest, t
<1> QED
  BY <1>2, <1>3 DEF t

LEMMA IndexesMore ==
    ASSUME NEW s \in Seq(Items), NEW x \in Items, NEW types
    PROVE  Indexes(types, Append(s, x)) =
               Indexes(types, s) \cup (IF x.type \in types THEN {x.index} ELSE {})
<1> DEFINE t == Append(s, x)
           n == Len(s)
<1>1. /\ At(types, s) \subseteq 1..n /\ n \in Nat
      /\ At(types, t) = At(types, s) \cup (IF x.type \in types THEN {n + 1} ELSE {})
      /\ (\A i \in At(types, s) : t[i] = s[i]) /\ t[n + 1] = x
  BY AtMore
<1> HIDE DEF t, n
<1>2. Indexes(types, t) = {t[i].index : i \in At(types, t)}
      /\ Indexes(types, s) = {s[i].index : i \in At(types, s)}
  BY DEF Indexes
<1>3. CASE x.type \in types
  <2>1. At(types, t) = At(types, s) \cup {n + 1}
    BY <1>1, <1>3
  <2>2. \A y : y \in Indexes(types, t) <=> y \in Indexes(types, s) \/ y = x.index
    BY <1>1, <1>2, <2>1
  <2>3. Indexes(types, t) = Indexes(types, s) \cup {x.index}
    BY <2>2
  <2> QED
    BY <1>3, <2>3 DEF t
<1>4. CASE x.type \notin types
  <2>1. At(types, t) = At(types, s)
    BY <1>1, <1>4
  <2>2. \A y : y \in Indexes(types, t) <=> y \in Indexes(types, s)
    BY <1>1, <1>2, <2>1
  <2>3. Indexes(types, t) = Indexes(types, s)
    BY <2>2
  <2> QED
    BY <1>4, <2>3 DEF t
<1> QED
  BY <1>3, <1>4

(* The blocks that s has started and stopped are those of p,               *)
ToolStarted(s) == \E i \in At(Started, s) : s[i].block = "tool_use"
TouchedBy(s) == IF At(Touching, s) # {} THEN Latest(Touching, s).index ELSE -1

ShowsBlocks(s, p) ==
    /\ p.next = Cardinality(At(Started, s))
    /\ Indexes(Started, s) = 0..(p.next - 1)
    /\ Indexes(Stopped, s) \subseteq 0..(p.next - 1)
    /\ p.open = Indexes(Started, s) \ Indexes(Stopped, s)
    /\ p.touched = TouchedBy(s)
    /\ p.tools <=> ToolStarted(s)

(* its stage is that of p,                                                 *)
StageOf(s) ==
    IF s = <<>> THEN "silent"
    ELSE IF At({"error"}, s) # {} THEN "failed"
    ELSE IF At({"message_stop"}, s) # {} THEN "over"
    ELSE IF At({"message_delta"}, s) # {} THEN Latest({"message_delta"}, s).reason
    ELSE "open"

(* and its chunks come in order, up to the rank of p.                      *)
ChunkTypes == {"chunk", "tool_calls", "final", "done"}

ShowsChunks(s, p) ==
    /\ \A i \in 1..Len(s) : s[i].type \in ChunkTypes /\ Rank(s[i]) <= p.rank
    /\ p.rank = 0 <=> s = <<>>
    /\ \A i, j \in 1..Len(s) : i < j =>
           /\ Rank(s[i]) <= Rank(s[j])
           /\ s[i].type # "chunk" => Rank(s[i]) < Rank(s[j])
    /\ \A i \in 1..Len(s) : s[i].type = "chunk" => (s[i].role <=> i = 1)
    /\ p.called <=> \E j \in 1..Len(s) : s[j].type = "tool_calls" /\ s[j].calls # <<>>
    /\ \A i \in 1..Len(s) : s[i].type = "final" => (s[i].reason = "tool_calls" <=> p.called)
    /\ p.rank = 4 => s[Len(s)].type = "done"

Shows(f, s, p) ==
    /\ ShowsBlocks(s, p)
    /\ f = "anthropic" => p.stage = StageOf(s) /\ p.stage # "none"
    /\ f = "openai" => p.stage = "none" /\ ShowsChunks(s, p)

LEMMA ToolStartedMore ==
    ASSUME NEW s \in Seq(Items), NEW x \in Items
    PROVE  ToolStarted(Append(s, x)) <=>
               ToolStarted(s) \/ (x.type = "content_block_start" /\ x.block = "tool_use")
<1> DEFINE t == Append(s, x)
           n == Len(s)
<1>1. /\ At(Started, s) \subseteq 1..n /\ n \in Nat
      /\ At(Started, t) = At(Started, s) \cup (IF x.type \in Started THEN {n + 1} ELSE {})
      /\ (\A i \in At(Started, s) : t[i] = s[i]) /\ t[n + 1] = x
  BY AtMore
<1> HIDE DEF t, n
<1>2. CASE x.type = "content_block_start"
  <2>1. At(Started, t) = At(Started, s) \cup {n + 1}
    BY <1>1, <1>2 DEF Started
  <2> QED
    BY <1>1, <1>2, <2>1 DEF ToolStarted, t
<1>3. CASE x.type # "content_block_start"
  <2>1. At(Started, t) = At(Started, s)
    BY <1>1, <1>3 DEF Started
  <2> QED
    BY <1>1, <1>3, <2>1 DEF ToolStarted, t
<1> QED
  BY <1>2, <1>3

LEMMA TouchedMore ==
    ASSUME NEW s \in Seq(Items), NEW x \in Items
    PROVE  TouchedBy(Append(s, x)) = IF x.type \in Touching THEN x.index ELSE TouchedBy(s)
<1> DEFINE t == Append(s, x)
<1>1. /\ x.type \in Touching => At(Touching, t) # {} /\ Latest(Touching, t) = x
      /\ x.type \notin Touching => /\ At(Touching, t) = At(Touching, s)
                                   /\ At(Touching, s) # {} => Latest(Touching, t) = Latest(Touching, s)
  BY LatestMore
<1> HIDE DEF t
<1> QED
  BY <1>1 DEF TouchedBy, t
LEMMA StartedMore ==
    ASSUME NEW s \in Seq(Items), NEW p \in States, NEW x \in Items,
           ShowsBlocks(s, p), Allowed(p, x), x.type = "content_block_start"
    PROVE  ShowsBlocks(Append(s, x), After(p, x))
<1> DEFINE t == Append(s, x)
           n == Len(s)
           r == After(p, x)
           tool == (p.tools \/ x.block = "tool_use")
           starts == Indexes(Started, s)
           stops == Indexes(Stopped, s)
<1>1. /\ At(Started, s) \subseteq 1..n /\ n \in Nat
      /\ At(Started, t) = At(Started, s) \cup {n + 1}
  BY AtMore DEF Started
<1>2. p.open = {} /\ x.index = p.next /\ p.next \in Nat
  BY DEF Allowed, States
<1>3. Indexes(Started, t) = starts \cup {x.index}
  BY IndexesMore DEF Started
<1>4. Indexes(Stopped, t) = stops
  <2>1. x.type \notin Stopped
    BY DEF Stopped
  <2>2. Indexes(Stopped, t) = stops \cup {}
    BY <2>1, IndexesMore
  <2> QED
    BY <2>2
<1>5. ToolStarted(t) <=> ToolStarted(s) \/ x.block = "tool_use"
  BY ToolStartedMore
<1>6. TouchedBy(t) = x.index
  BY TouchedMore DEF Touching
<1>7. r = [p EXCEPT !.open = {x.index}, !.next = p.next + 1, !.touched = x.index, !.tools = tool]
  BY DEF After
<1>8. tool \in BOOLEAN
  OBVIOUS
<1> HIDE DEF t, r, tool
<1>9. r.open = {x.index} /\ r.next = p.next + 1 /\ r.touched = x.index /\ (r.tools <=> tool)
  BY <1>7 DEF States
<1>10. Cardinality(At(Started, t)) = Cardinality(At(Started, s)) + 1
  <2>1. IsFiniteSet(At(Started, s)) /\ n + 1 \notin At(Started, s)
    <3>1. IsFiniteSet(1..n)
      BY <1>1, FS_Interval
    <3>2. IsFiniteSet(At(Started, s))
      BY <1>1, <3>1, FS_Subset
    <3>3. n + 1 \notin 1..n
      BY <1>1
    <3> QED
      BY <1>1, <3>2, <3>3
  <2> QED
    BY <1>1, <2>1, FS_AddElement
<1>11. /\ p.next = Cardinality(At(Started, s))
       /\ starts = 0..(p.next - 1) /\ stops \subseteq 0..(p.next - 1)
       /\ {} = starts \ stops
       /\ p.tools <=> ToolStarted(s)
  BY <1>2 DEF ShowsBlocks
<1> HIDE DEF starts, stops
<1>12. r.next = Cardinality(At(Started, t))
  BY <1>9, <1>10, <1>11
<1>13. Indexes(Started, t) = 0..(r.next - 1)
  <2>1. 0..p.next = 0..(p.next - 1) \cup {p.next}
    BY <1>2
  <2>2. r.next - 1 = p.next
    BY <1>2, <1>9
  <2> QED
    BY <1>2, <1>3, <1>11, <2>1, <2>2
<1>14. Indexes(Stopped, t) \subseteq 0..(r.next - 1)
  <2>1. r.next - 1 = p.next /\ 0..(p.next - 1) \subseteq 0..p.next
    BY <1>2, <1>9
  <2> QED
    BY <1>4, <1>11, <2>1
<1>15. r.open = Indexes(Started, t) \ Indexes(Stopped, t)
  <2>1. p.next \notin 0..(p.next - 1)
    BY <1>2
  <2>2. x.index \notin stops
    BY <1>2, <1>11, <2>1
  <2> QED
    BY <1>3, <1>4, <1>9, <1>11, <2>2
<1>16. r.tools <=> ToolStarted(t)
  BY <1>5, <1>9, <1>11 DEF tool
<1> QED
  BY <1>6, <1>9, <1>12, <1>13, <1>14, <1>15, <1>16 DEF ShowsBlocks, t, r

LEMMA BlocksMore ==
    ASSUME NEW s \in Seq(Items), NEW p \in States, NEW x \in Items,
           ShowsBlocks(s, p), Allowed(p, x)
    PROVE  ShowsBlocks(Append(s, x), After(p, x))
<1> DEFINE t == Append(s, x)
           r == After(p, x)
<1>1. CASE x.type = "content_block_start"
  BY <1>1, StartedMore
<1>2. CASE x.type # "content_block_start"
  <2>0. x.type \notin Started
    BY <1>2 DEF Started
  <2>1. At(Started, t) = At(Started, s)
    <3>1. At(Started, t) = At(Started, s) \cup {}
      BY <2>0, AtMore
    <3> QED
      BY <3>1
  <2>2. Indexes(Started, t) = Indexes(Started, s)
    <3>1. Indexes(Started, t) = Indexes(Started, s) \cup {}
      BY <2>0, IndexesMore
    <3> QED
      BY <3>1
  <2>3. Indexes(Stopped, t) =
            Indexes(Stopped, s) \cup (IF x.type = "content_block_stop" THEN {x.index} ELSE {})
    BY IndexesMore DEF Stopped
  <2>4. ToolStarted(t) <=> ToolStarted(s)
    BY <1>2, ToolStartedMore
  <2>5. TouchedBy(t) = IF x.type \in Touching THEN x.index ELSE TouchedBy(s)
    BY TouchedMore
  <2>6. r \in States
    BY AfterType
  <2> HIDE DEF t
  <2>7. CASE x.type = "content_block_delta"
    <3>1. r = [p EXCEPT !.touched = x.index]
      BY <2>7 DEF After
    <3> HIDE DEF r
    <3>2. r.next = p.next /\ r.open = p.open /\ r.tools = p.tools /\ r.touched = x.index
      BY <3>1 DEF States
    <3>3. ShowsBlocks(t, r)
      BY <2>1, <2>2, <2>3, <2>4, <2>5, <2>7, <3>2 DEF ShowsBlocks, Touching
    <3> QED
      BY <3>3 DEF t, r
  <2>8. CASE x.type = "content_block_stop"
    <3>1. r = [p EXCEPT !.open = {}, !.touched = x.index]
      BY <2>8 DEF After
    <3>2. p.open = {x.index}
      BY <2>8 DEF Allowed
    <3> HIDE DEF r
    <3>3. r.next = p.next /\ r.open = {} /\ r.tools = p.tools /\ r.touched = x.index
      BY <3>1 DEF States
    <3>4. {x.index} = Indexes(Started, s) \ Indexes(Stopped, s)
      BY <3>2 DEF ShowsBlocks
    <3>5. Indexes(Stopped, t) = Indexes(Stopped, s) \cup {x.index}
      BY <2>3, <2>8
    <3>6. Indexes(Started, s) \ Indexes(Stopped, t) = {} /\ x.index \in Indexes(Started, s)
      BY <3>4, <3>5
    <3>7. ShowsBlocks(t, r)
      BY <2>1, <2>2, <2>4, <2>5, <2>8, <3>3, <3>5, <3>6 DEF ShowsBlocks, Touching
    <3> QED
      BY <3>7 DEF t, r
  <2>9. CASE x.type \notin {"content_block_start", "content_block_delta", "content_block_stop"}
    <3>1. r.next = p.next /\ r.open = p.open /\ r.tools = p.tools /\ r.touched = p.touched
      <4> DEFINE has == (x.calls # <<>>)
      <4>1. r \in {p, [p EXCEPT !.stage = "open"], [p EXCEPT !.stage = x.reason],
                   [p EXCEPT !.stage = "over"], [p EXCEPT !.stage = "failed"],
                   [p EXCEPT !.rank = 1], [p EXCEPT !.rank = 2, !.called = has],
                   [p EXCEPT !.rank = 3], [p EXCEPT !.rank = 4]}
        BY <2>9 DEF After
      <4> HIDE DEF r, has
      <4> QED
        BY <4>1 DEF States
    <3> HIDE DEF r
    <3>2. ShowsBlocks(t, r)
      BY <2>1, <2>2, <2>3, <2>4, <2>5, <2>9, <3>1 DEF ShowsBlocks, Touching
    <3> QED
      BY <3>2 DEF t, r
  <2> QED
    BY <1>2, <2>7, <2>8, <2>9
<1> QED
  BY <1>1, <1>2

LEMMA StageMore ==
    ASSUME NEW s \in Seq(Items), NEW p \in States, NEW x \in Items,
           x.type \notin {"save", "close"},
           p.stage = StageOf(s), p.stage # "none", Allowed(p, x)
    PROVE  LET r == After(p, x)
           IN r.stage = StageOf(Append(s, x)) /\ r.stage # "none"
<1> DEFINE t == Append(s, x)
           r == After(p, x)
           failed == At({"error"}, s)
           over == At({"message_stop"}, s)
           told == At({"message_delta"}, s)
           why == Latest({"message_delta"}, s).reason
<1>1. t # <<>>
  BY AppendProperties
<1>2. /\ x.type = "error" => At({"error"}, t) # {}
      /\ x.type # "error" => At({"error"}, t) = failed
  BY LatestMore
<1>3. /\ x.type = "message_stop" => At({"message_stop"}, t) # {}
      /\ x.type # "message_stop" => At({"message_stop"}, t) = over
  BY LatestMore
<1>4. /\ x.type = "message_delta" => /\ At({"message_delta"}, t) # {}
                                     /\ Latest({"message_delta"}, t) = x
      /\ x.type # "message_delta" =>
             /\ At({"message_delta"}, t) = told
             /\ told # {} => Latest({"message_delta"}, t).reason = why
  BY LatestMore
<1>5. p.stage = IF s = <<>> THEN "silent" ELSE IF failed # {} THEN "failed"
                ELSE IF over # {} THEN "over" ELSE IF told # {} THEN why ELSE "open"
  BY DEF StageOf
<1>6. s = <<>> => failed = {} /\ over = {} /\ told = {}
  BY DEF At
<1>7. told # {} => why \in {"end_turn", "tool_use"}
  <2> DEFINE i == Max(told)
  <2>1. ASSUME told # {}
        PROVE  i \in told
    <3>1. told \subseteq 1..Len(s) /\ Len(s) \in Nat
      BY AtMore
    <3> HIDE DEF told
    <3> QED
      BY <2>1, <3>1, MaxOf
  <2>2. ASSUME told # {}
        PROVE  why \in {"end_turn", "tool_use"}
    <3>1. i \in DOMAIN s /\ s[i].type = "message_delta"
      BY <2>1, <2>2 DEF At
    <3>2. s[i] \in Items
      BY <3>1, LenProperties, ElementOfSeq
    <3>3. Latest({"message_delta"}, s) = s[i]
      BY DEF Latest
    <3> HIDE DEF i
    <3>4. s[i].reason \in {"end_turn", "tool_use"}
      BY <3>1, <3>2 DEF Items
    <3> QED
      BY <3>3, <3>4
  <2> QED
    BY <2>2
<1>8. StageOf(t) = IF At({"error"}, t) # {} THEN "failed"
                   ELSE IF At({"message_stop"}, t) # {} THEN "over"
                   ELSE IF At({"message_delta"}, t) # {} THEN Latest({"message_delta"}, t).reason
                   ELSE "open"
  BY <1>1 DEF StageOf
<1> HIDE DEF t, failed, over, told, why
<1>9. CASE x.type = "message_start"
  <2>1. r = [p EXCEPT !.stage = "open"] /\ p.stage = "silent"
    BY <1>9 DEF After, Allowed
  <2>2. failed = {} /\ over = {} /\ told = {}
    BY <1>5, <1>6, <1>7, <2>1
  <2>3. r.stage = "open"
    BY <2>1 DEF States
  <2> HIDE DEF r
  <2> QED
    BY <1>2, <1>3, <1>4, <1>8, <1>9, <2>2, <2>3 DEF t, r
<1>10. CASE x.type \in {"content_block_start", "content_block_delta", "content_block_stop"}
  <2>1. r.stage = p.stage /\ p.stage = "open"
    <3>1. CASE x.type = "content_block_start"
      <4> DEFINE tool == (p.tools \/ x.block = "tool_use")
      <4>1. r = [p EXCEPT !.open = {x.index}, !.next = p.next + 1, !.touched = x.index,
                          !.tools = tool]
        BY <3>1 DEF After
      <4>2. p.stage = "open"
        BY <3>1 DEF Allowed
      <4> HIDE DEF r, tool
      <4> QED
        BY <4>1, <4>2 DEF States
    <3>2. CASE x.type \in {"content_block_delta", "content_block_stop"}
      BY <3>2 DEF After, Allowed, States
    <3> QED
      BY <1>10, <3>1, <3>2
  <2>2. failed = {} /\ over = {} /\ told = {}
    BY <1>5, <1>7, <2>1
  <2> HIDE DEF r
  <2> QED
    BY <1>2, <1>3, <1>4, <1>8, <1>10, <2>1, <2>2 DEF t, r
<1>11. CASE x.type = "message_delta"
  <2>1. r = [p EXCEPT !.stage = x.reason] /\ p.stage = "open"
        /\ x.reason \in {"end_turn", "tool_use"}
    BY <1>11 DEF After, Allowed
  <2>2. failed = {} /\ over = {}
    BY <1>5, <1>7, <2>1
  <2>3. r.stage = x.reason
    BY <2>1 DEF States
  <2> HIDE DEF r
  <2> QED
    BY <1>2, <1>3, <1>4, <1>8, <1>11, <2>1, <2>2, <2>3 DEF t, r
<1>12. CASE x.type = "message_stop"
  <2>1. r = [p EXCEPT !.stage = "over"] /\ p.stage \in {"end_turn", "tool_use"}
    BY <1>12 DEF After, Allowed
  <2>2. failed = {}
    BY <1>5, <1>6, <2>1
  <2>3. r.stage = "over"
    BY <2>1 DEF States
  <2> HIDE DEF r
  <2> QED
    BY <1>2, <1>3, <1>8, <1>12, <2>2, <2>3 DEF t, r
<1>13. CASE x.type = "error"
  <2>1. r = [p EXCEPT !.stage = "failed"]
    BY <1>13 DEF After
  <2>2. r.stage = "failed"
    BY <2>1 DEF States
  <2> HIDE DEF r
  <2> QED
    BY <1>2, <1>8, <1>13, <2>2 DEF t, r
<1>14. x.type \notin {"chunk", "tool_calls", "final", "done"}
  BY DEF Allowed
<1>15. x.type \in {"message_start", "message_stop", "error", "done", "close", "save",
                   "content_block_start", "content_block_delta", "content_block_stop",
                   "message_delta", "chunk", "tool_calls", "final"}
  BY DEF Items
<1> HIDE DEF r
<1> QED
  BY <1>9, <1>10, <1>11, <1>12, <1>13, <1>14, <1>15 DEF r, t

LEMMA ChunksMore ==
    ASSUME NEW s \in Seq(Items), NEW p \in States, NEW x \in Items,
           x.type \notin {"save", "close"},
           p.stage = "none", ShowsChunks(s, p), Allowed(p, x)
    PROVE  LET r == After(p, x)
           IN r.stage = "none" /\ ShowsChunks(Append(s, x), r)
<1> DEFINE t == Append(s, x)
           r == After(p, x)
           n == Len(s)
           has == (x.calls # <<>>)
<1>1. /\ t \in Seq(Items) /\ t # <<>> /\ Len(t) = n + 1 /\ n \in Nat
      /\ \A i \in 1..n : t[i] = s[i]
      /\ t[n + 1] = x /\ (s = <<>> <=> n = 0)
  BY AppendProperties, EmptySeq, LenProperties
<1>2. x.type \in {"message_start", "message_stop", "error", "done", "close", "save",
                  "content_block_start", "content_block_delta", "content_block_stop",
                  "message_delta", "chunk", "tool_calls", "final"}
  BY DEF Items
<1>3. x.type \in ChunkTypes
  BY <1>2 DEF Allowed, ChunkTypes
<1>4. /\ \A y : y.type = "chunk" => Rank(y) = 1
      /\ \A y : y.type = "tool_calls" => Rank(y) = 2
      /\ \A y : y.type = "final" => Rank(y) = 3
      /\ \A y : y.type = "done" => Rank(y) = 4
  BY DEF Rank
<1>5. p.rank \in 0..4 /\ p.called \in BOOLEAN
  BY DEF States
<1>6. /\ r.stage = "none" /\ r.rank = Rank(x) /\ p.rank <= Rank(x)
      /\ p.rank >= 2 => p.rank < Rank(x)
      /\ r.called <=> IF x.type = "tool_calls" THEN has ELSE p.called
  <2>1. CASE x.type = "chunk"
    <3>1. r = [p EXCEPT !.rank = 1] /\ p.rank <= 1
      BY <2>1 DEF After, Allowed
    <3> HIDE DEF r
    <3>2. r.stage = "none" /\ r.rank = 1 /\ (r.called <=> p.called)
      BY <3>1 DEF States
    <3> QED
      BY <1>4, <1>5, <2>1, <3>1, <3>2
  <2>2. CASE x.type = "tool_calls"
    <3>1. r = [p EXCEPT !.rank = 2, !.called = has] /\ p.rank <= 1
      BY <2>2 DEF After, Allowed
    <3> HIDE DEF r, has
    <3>2. r.stage = "none" /\ r.rank = 2 /\ (r.called <=> has)
      BY <3>1 DEF States
    <3> QED
      BY <1>4, <1>5, <2>2, <3>1, <3>2
  <2>3. CASE x.type = "final"
    <3>1. r = [p EXCEPT !.rank = 3] /\ p.rank <= 2
      BY <2>3 DEF After, Allowed
    <3> HIDE DEF r
    <3>2. r.stage = "none" /\ r.rank = 3 /\ (r.called <=> p.called)
      BY <3>1 DEF States
    <3> QED
      BY <1>4, <1>5, <2>3, <3>1, <3>2
  <2>4. CASE x.type = "done"
    <3>1. r = [p EXCEPT !.rank = 4] /\ p.rank <= 3
      BY <2>4 DEF After, Allowed
    <3> HIDE DEF r
    <3>2. r.stage = "none" /\ r.rank = 4 /\ (r.called <=> p.called)
      BY <3>1 DEF States
    <3> QED
      BY <1>4, <1>5, <2>4, <3>1, <3>2
  <2> HIDE DEF r, has
  <2> QED
    BY <1>3, <2>1, <2>2, <2>3, <2>4 DEF ChunkTypes
<1>7. Rank(x) \in 1..4
  BY <1>3, <1>4 DEF ChunkTypes
<1>8. x.type = "chunk" => (x.role <=> n = 0)
  BY <1>1 DEF Allowed, ShowsChunks
<1>9. x.type = "final" => (x.reason = "tool_calls" <=> p.called)
  BY DEF Allowed
<1>10. x.type = "tool_calls" => p.rank <= 1
  BY DEF Allowed
<1> HIDE DEF t, r, n, has
<1>11. /\ \A i \in 1..n : s[i].type \in ChunkTypes /\ Rank(s[i]) <= p.rank
       /\ \A i, j \in 1..n : i < j =>
              /\ Rank(s[i]) <= Rank(s[j])
              /\ s[i].type # "chunk" => Rank(s[i]) < Rank(s[j])
       /\ \A i \in 1..n : s[i].type = "chunk" => (s[i].role <=> i = 1)
       /\ p.called <=> \E j \in 1..n : s[j].type = "tool_calls" /\ s[j].calls # <<>>
       /\ \A i \in 1..n : s[i].type = "final" => (s[i].reason = "tool_calls" <=> p.called)
  BY DEF ShowsChunks, n
<1>12. \A i \in 1..n : Rank(s[i]) \in 1..4 /\ (s[i].type # "chunk" => Rank(s[i]) >= 2)
  BY <1>4, <1>11 DEF ChunkTypes
<1>13. \A i \in 1..(n + 1) : i \in 1..n \/ i = n + 1
  BY <1>1
<1>14. x.type = "tool_calls" => \A i \in 1..n : s[i].type = "chunk"
  BY <1>5, <1>10, <1>11, <1>12
<1>15. \A i \in 1..(n + 1) : t[i].type \in ChunkTypes /\ Rank(t[i]) <= r.rank
  BY <1>1, <1>3, <1>5, <1>6, <1>7, <1>11, <1>12, <1>13
<1>16. r.rank = 0 <=> t = <<>>
  BY <1>1, <1>6, <1>7
<1>17. ASSUME NEW i \in 1..(n + 1), NEW j \in 1..(n + 1), i < j
       PROVE  /\ Rank(t[i]) <= Rank(t[j])
              /\ t[i].type # "chunk" => Rank(t[i]) < Rank(t[j])
  <2>1. i \in 1..n
    BY <1>1, <1>17
  <2>2. CASE j \in 1..n
    BY <1>1, <1>11, <1>17, <2>1, <2>2
  <2>3. CASE j = n + 1
    <3>1. t[i] = s[i] /\ t[j] = x
      BY <1>1, <2>1, <2>3
    <3>2. Rank(s[i]) <= p.rank /\ Rank(s[i]) \in 1..4
          /\ (s[i].type # "chunk" => Rank(s[i]) >= 2)
      BY <1>11, <1>12, <2>1
    <3> QED
      BY <1>5, <1>6, <1>7, <3>1, <3>2
  <2> QED
    BY <1>13, <2>2, <2>3
<1>18. ASSUME NEW i \in 1..(n + 1), t[i].type = "chunk"
       PROVE  t[i].role <=> i = 1
  <2>1. CASE i \in 1..n
    BY <1>1, <1>11, <1>18, <2>1
  <2>2. CASE i = n + 1
    <3>1. i = 1 <=> n = 0
      BY <1>1, <2>2
    <3> QED
      BY <1>1, <1>8, <1>18, <2>2, <3>1
  <2> QED
    BY <1>13, <2>1, <2>2
<1>19. r.called <=> \E j \in 1..(n + 1) : t[j].type = "tool_calls" /\ t[j].calls # <<>>
  <2>0. n + 1 \in 1..(n + 1) /\ \A i \in 1..n : i \in 1..(n + 1)
    BY <1>1
  <2>1. CASE x.type = "tool_calls"
    <3>1. r.called <=> x.calls # <<>>
      BY <1>6, <2>1 DEF has
    <3>2. \A j \in 1..(n + 1) : t[j].type = "tool_calls" => j = n + 1
      BY <1>1, <1>13, <1>14, <2>1
    <3> QED
      BY <1>1, <2>0, <2>1, <3>1, <3>2
  <2>2. CASE x.type # "tool_calls"
    <3>1. r.called <=> p.called
      BY <1>6, <2>2
    <3>2. \A j \in 1..(n + 1) : t[j].type = "tool_calls" => j \in 1..n
      BY <1>1, <1>13, <2>2
    <3> QED
      BY <1>1, <1>11, <2>0, <3>1, <3>2
  <2> QED
    BY <2>1, <2>2
<1>20. ASSUME NEW i \in 1..(n + 1), t[i].type = "final"
       PROVE  t[i].reason = "tool_calls" <=> r.called
  <2>1. CASE i \in 1..n
    <3>1. t[i] = s[i]
      BY <1>1, <2>1
    <3>2. x.type # "tool_calls"
      BY <1>14, <1>20, <2>1, <3>1
    <3>3. r.called <=> p.called
      BY <1>6, <3>2
    <3> QED
      BY <1>11, <1>20, <2>1, <3>1, <3>3
  <2>2. CASE i = n + 1
    BY <1>1, <1>6, <1>9, <1>20, <2>2
  <2> QED
    BY <1>13, <2>1, <2>2
<1>21. r.rank = 4 => t[n + 1].type = "done"
  <2>1. x.type \in {"chunk", "tool_calls", "final"} => Rank(x) # 4
    BY <1>4
  <2> QED
    BY <1>1, <1>3, <1>6, <2>1 DEF ChunkTypes
<1>22. ShowsChunks(t, r)
  BY <1>1, <1>15, <1>16, <1>17, <1>18, <1>19, <1>20, <1>21 DEF ShowsChunks
<1> QED
  BY <1>6, <1>22 DEF t, r

LEMMA ShowsMore ==
    ASSUME NEW f, NEW s \in Seq(Items), NEW p \in States, NEW x \in Items,
           x.type \notin {"save", "close"}, Shows(f, s, p), Allowed(p, x)
    PROVE  Shows(f, Append(s, x), After(p, x))
<1>1. ShowsBlocks(s, p)
  BY DEF Shows
<1>2. ShowsBlocks(Append(s, x), After(p, x))
  BY <1>1, BlocksMore
<1>3. ASSUME f = "anthropic"
      PROVE  After(p, x).stage = StageOf(Append(s, x)) /\ After(p, x).stage # "none"
  <2>1. p.stage = StageOf(s) /\ p.stage # "none"
    BY <1>3 DEF Shows
  <2> QED
    BY <2>1, StageMore
<1>4. ASSUME f = "openai"
      PROVE  After(p, x).stage = "none" /\ ShowsChunks(Append(s, x), After(p, x))
  <2>1. p.stage = "none" /\ ShowsChunks(s, p)
    BY <1>4 DEF Shows
  <2> QED
    BY <2>1, ChunksMore
<1> QED
  BY <1>2, <1>3, <1>4 DEF Shows

-----------------------------------------------------------------------------
(* What Kiro sends                                                         *)

LEMMA KiroEvents ==
    ASSUME received \in Seq(RawEvents)
    PROVE  KiroSends \subseteq RawEvents
<1> DEFINE n == Len(received)
           ids == CallIds(received)
<1>1. n \in Nat /\ DOMAIN received = 1..n /\ \A i \in 1..n : received[i] \in RawEvents
  BY LenProperties, ElementOfSeq
<1>2. \A i \in StartsAt(received) :
          /\ i \in 1..n
          /\ received[i] \in [kind : {"tool_start"}, id : Int, name : ToolNames,
                              input : Texts, stop : BOOLEAN]
  <2> SUFFICES ASSUME NEW i \in StartsAt(received)
               PROVE  /\ i \in 1..n
                      /\ received[i] \in [kind : {"tool_start"}, id : Int, name : ToolNames,
                                          input : Texts, stop : BOOLEAN]
    OBVIOUS
  <2>1. i \in 1..n /\ received[i].kind = "tool_start" /\ received[i] \in RawEvents
    BY <1>1 DEF StartsAt
  <2> QED
    BY <2>1 DEF RawEvents
<1>3. ids \in SUBSET Int /\ Cardinality(ids) \in Nat
  <2>1. StartsAt(received) \in SUBSET (1..n)
    BY <1>2
  <2>2. IsFiniteSet(StartsAt(received))
    <3>1. IsFiniteSet(1..n)
      BY <1>1, FS_Interval
    <3> QED
      BY <2>1, <3>1, FS_Subset
  <2>3. IsFiniteSet(ids)
    <3> DEFINE S == StartsAt(received)
               f == [i \in S |-> received[i].id]
    <3>1. ids = {f[i] : i \in S}
      BY DEF CallIds
    <3> HIDE DEF ids
    <3>2. f \in Surjection(S, ids)
      BY <3>1 DEF Surjection
    <3> HIDE DEF f, S
    <3>3. IsFiniteSet(S)
      BY <2>2 DEF S
    <3> QED
      BY <3>2, <3>3, FS_Surjection
  <2> QED
    BY <1>2, <2>3, FS_CardinalityType DEF CallIds
<1>4. \A id \in ids : received[StartOf(received, id)].name \in ToolNames
  <2> SUFFICES ASSUME NEW id \in ids
               PROVE  received[StartOf(received, id)].name \in ToolNames
    OBVIOUS
  <2> DEFINE with == {i \in StartsAt(received) : received[i].id = id}
  <2>1. with # {} /\ with \in SUBSET (1..n)
    BY <1>2 DEF CallIds
  <2> HIDE DEF with
  <2>2. Min(with) \in with
    BY <1>1, <2>1, MinOf
  <2>3. StartOf(received, id) \in StartsAt(received)
    BY <2>2 DEF StartOf, with
  <2> QED
    BY <1>2, <2>3
<1>5. \A piece \in Pieces \cup InputPieces : piece \in Texts
  BY StreamAssumption DEF Texts
<1>6. ASSUME NEW id \in Int, NEW name \in ToolNames, NEW input \in Texts,
             NEW stop \in BOOLEAN
      PROVE  ToolStartEvent(id, name, input, stop) \in RawEvents
  <2>1. ToolStartEvent(id, name, input, stop)
            \in [kind : {"tool_start"}, id : Int, name : ToolNames, input : Texts,
                 stop : BOOLEAN]
    BY DEF ToolStartEvent
  <2> QED
    BY <2>1, Zenon DEF RawEvents
<1> DEFINE contents == {ContentEvent(piece) : piece \in Pieces}
           usages == {[kind |-> kind] : kind \in {k \in UsageKinds : ~Has(k, received)}}
           starts == {ToolStartEvent(Cardinality(ids) + 1, name, input, stop) :
                         name \in ToolNames, stop \in BOOLEAN,
                         input \in {<<>>} \cup {p \in InputPieces : Continues(<<>>, p)}}
           restarts == {ToolStartEvent(id, received[StartOf(received, id)].name, <<>>, TRUE) :
                           id \in ids}
           inputs == {[kind |-> "tool_input", input |-> piece] :
                         piece \in {p \in InputPieces : Continues(InputSoFar(received), p)}}
           end == [kind |-> "tool_stop", stop |-> TRUE]
<1> SUFFICES ASSUME NEW e \in KiroSends
             PROVE  e \in RawEvents
  OBVIOUS
<1>0. \/ e \in contents \/ e \in usages \/ e \in starts \/ e \in restarts
      \/ e \in inputs \/ e = end
  <2>1. KiroSends = contents \cup usages \cup starts \cup restarts \cup inputs \cup {end}
    BY DEF KiroSends
  <2> HIDE DEF contents, usages, starts, restarts, inputs, end
  <2> QED
    BY <2>1
<1> HIDE DEF ids
<1>7. CASE e \in contents
  <2>1. e \in [kind : {"content"}, text : Texts]
    BY <1>5, <1>7 DEF ContentEvent
  <2> QED
    BY <2>1, Zenon DEF RawEvents
<1>8. CASE e \in usages
  <2>1. e \in [kind : {"usage", "context_usage"}]
    BY <1>8, StreamAssumption
  <2> QED
    BY <2>1, Zenon DEF RawEvents
<1>9. CASE e \in starts
  <2>1. PICK name \in ToolNames, stop \in BOOLEAN,
             input \in {<<>>} \cup {p \in InputPieces : Continues(<<>>, p)} :
                e = ToolStartEvent(Cardinality(ids) + 1, name, input, stop)
    BY <1>9
  <2>2. Cardinality(ids) + 1 \in Int
    BY <1>3
  <2>3. input \in Texts
    BY <1>5, NothingText
  <2> QED
    BY <1>6, <2>1, <2>2, <2>3
<1>10. CASE e \in restarts
  <2>1. PICK id \in ids :
            e = ToolStartEvent(id, received[StartOf(received, id)].name, <<>>, TRUE)
    BY <1>10
  <2> QED
    BY <1>3, <1>4, <1>6, <2>1, NothingText
<1>11. CASE e \in inputs
  <2>1. e \in [kind : {"tool_input"}, input : Texts]
    BY <1>5, <1>11
  <2> QED
    BY <2>1, Zenon DEF RawEvents
<1>12. CASE e = end
  BY <1>12 DEF RawEvents
<1> HIDE DEF contents, usages, starts, restarts, inputs, end
<1> QED
  BY <1>0, <1>7, <1>8, <1>9, <1>10, <1>11, <1>12

-----------------------------------------------------------------------------
(* The invariant                                                           *)

(* What the converter takes for the state of its stream is that state once *)
(* the items that wait have been sent; an OpenAI stream that is at its end *)
(* has got its [DONE]; and nothing waits after the end.                    *)
OneOpen(c) ==
    /\ c.thinkingAt \in {None, c.next} /\ c.textAt \in {None, c.next}
    /\ None \in {c.thinkingAt, c.textAt}

Fits(f, ph, st, c, p) ==
    /\ OneOpen(c)
    /\ ph \in {"waiting", "reading"} =>
           /\ f = "anthropic" => ReadyMessage(c, p) /\ (st # "streaming" => c.textAt = None)
           /\ f = "openai" => ReadyChunks(c, p)
    /\ f = "openai" /\ ph \in {"ending", "failed", "closed"} => p.rank = 4
    /\ ph \in {"closed", "left"} => c.out = <<>>

Progress(f, ph, st, c, s) ==
    \E q, p \in States : Shows(f, s, q) /\ Reached(q, c.out, p) /\ Fits(f, ph, st, c, p)

StreamTypes ==
    /\ format \in {"anthropic", "openai"}
    /\ phase \in {"waiting", "reading", "ending", "failed", "closed", "left"}
    /\ parsing \in Parsings /\ conv \in Convs
    /\ received \in Seq(RawEvents) /\ sent \in Seq(Items)

StreamInv == StreamTypes /\ Progress(format, phase, parsing.thinking.state, conv, sent)

LEMMA NewConvType ==
    /\ NewConverter \in Convs
    /\ NewConverter.out = <<>> /\ NewConverter.thinkingAt = None /\ NewConverter.textAt = None
    /\ NewConverter.next = 0 /\ NewConverter.calls = <<>> /\ NewConverter.first = TRUE
<1>1. <<>> \in Texts /\ <<>> \in Seq(Calls) /\ <<>> \in Seq(Items)
  BY NothingText, EmptySeq
<1>2. None \in Int
  BY DEF None
<1> QED
  BY <1>1, <1>2 DEF NewConverter, Convs

(* The state of a client that has been sent nothing.                       *)
Nowhere(stage) == [stage |-> stage, open |-> {}, next |-> 0, touched |-> -1, tools |-> FALSE,
                   rank |-> 0, called |-> FALSE]

LEMMA NothingShown ==
    ASSUME NEW f \in {"anthropic", "openai"}
    PROVE  LET q == Nowhere(IF f = "anthropic" THEN "silent" ELSE "none")
           IN q \in States /\ Shows(f, <<>>, q)
<1> DEFINE q == Nowhere(IF f = "anthropic" THEN "silent" ELSE "none")
<1>1. /\ q \in States /\ q.stage = (IF f = "anthropic" THEN "silent" ELSE "none")
      /\ q.open = {} /\ q.next = 0 /\ q.touched = -1 /\ ~q.tools /\ q.rank = 0 /\ ~q.called
  BY DEF Nowhere, States
<1>2. \A types : At(types, <<>>) = {}
  BY DEF At
<1>3. Len(<<>>) = 0 /\ 1..0 = {}
  BY EmptySeq
<1> HIDE DEF q
<1>4. /\ Cardinality(At(Started, <<>>)) = 0
      /\ Indexes(Started, <<>>) = {} /\ Indexes(Stopped, <<>>) = {}
      /\ ~ToolStarted(<<>>) /\ TouchedBy(<<>>) = -1
  BY <1>2, FS_EmptySet DEF Indexes, ToolStarted, TouchedBy
<1>5. 0..(0 - 1) = {}
  OBVIOUS
<1>6. ShowsBlocks(<<>>, q)
  BY <1>1, <1>2, <1>4, <1>5 DEF ShowsBlocks
<1>7. f = "anthropic" => q.stage = StageOf(<<>>) /\ q.stage # "none"
  BY <1>1 DEF StageOf
<1>8. f = "openai" => ShowsChunks(<<>>, q)
  BY <1>1, <1>3 DEF ShowsChunks
<1>9. f = "openai" => q.stage = "none"
  BY <1>1
<1>10. Shows(f, <<>>, q)
  BY <1>6, <1>7, <1>8, <1>9 DEF Shows
<1> QED
  BY <1>1, <1>10 DEF q

LEMMA StreamStart ==
    ASSUME StreamInit
    PROVE  StreamInv
<1> DEFINE q == Nowhere(IF format = "anthropic" THEN "silent" ELSE "none")
<1>1. format \in {"anthropic", "openai"} /\ phase = "waiting"
  BY StreamAssumption DEF StreamInit
<1>2. parsing \in Parsings /\ received \in Seq(RawEvents) /\ sent \in Seq(Items) /\ sent = <<>>
  BY NewParsingType, EmptySeq DEF StreamInit
<1>3. q \in States /\ Shows(format, <<>>, q)
  BY <1>1, NothingShown
<1>4. /\ q.stage = (IF format = "anthropic" THEN "silent" ELSE "none")
      /\ q.open = {} /\ q.next = 0 /\ ~q.tools /\ q.rank = 0 /\ ~q.called
  BY DEF Nowhere
<1> HIDE DEF q
<1>5. Reached(q, <<>>, q)
  BY <1>3, ReachedNone
<1>6. CASE format = "anthropic"
  <2> DEFINE e == Emit(NewConverter, MessageStart)
             p == After(q, MessageStart)
  <2>1. MessageStart \in Items /\ MessageStart.type = "message_start"
    BY DEF MessageStart, Items
  <2>2. Allowed(q, MessageStart)
    BY <1>4, <1>6, <2>1 DEF Allowed
  <2>3. e \in Convs /\ BesideOut(NewConverter, e) /\ e.out = Append(NewConverter.out, MessageStart)
        /\ p \in States /\ Reached(q, Append(NewConverter.out, MessageStart), p)
    <3>1. NewConverter \in Convs /\ Reached(q, NewConverter.out, q)
      BY <1>5, NewConvType
    <3> QED
      BY <2>1, <2>2, <3>1, Emitted, Zenon
  <2>4. p = [q EXCEPT !.stage = "open"]
    BY <2>1 DEF After
  <2>5. conv = e
    BY <1>6 DEF StreamInit
  <2> HIDE DEF e, p
  <2>6. p.stage = "open" /\ p.open = {} /\ p.next = 0 /\ ~p.tools
    BY <1>3, <1>4, <2>4 DEF States
  <2>7. ReadyMessage(conv, p) /\ conv.textAt = None
    BY <2>3, <2>5, <2>6, NewConvType DEF ReadyMessage, BesideOut
  <2>8. Fits(format, phase, parsing.thinking.state, conv, p)
    BY <1>1, <1>6, <2>7 DEF Fits, ReadyMessage, OneOpen
  <2>9. Reached(q, conv.out, p)
    BY <2>3, <2>5
  <2>10. Progress(format, phase, parsing.thinking.state, conv, sent)
    BY <1>2, <1>3, <2>3, <2>8, <2>9 DEF Progress
  <2> QED
    BY <1>1, <1>2, <2>3, <2>5, <2>10 DEF StreamInv, StreamTypes
<1>7. CASE format = "openai"
  <2>1. conv = NewConverter
    BY <1>7 DEF StreamInit
  <2>2. ReadyChunks(conv, q)
    BY <1>4, <1>7, <2>1, NewConvType DEF ReadyChunks
  <2>3. Fits(format, phase, parsing.thinking.state, conv, q)
    BY <1>1, <1>7, <2>2 DEF Fits, ReadyChunks, OneOpen
  <2>4. Progress(format, phase, parsing.thinking.state, conv, sent)
    BY <1>2, <1>3, <1>5, <2>1, <2>3, NewConvType DEF Progress
  <2> QED
    BY <1>1, <1>2, <2>1, <2>4, NewConvType DEF StreamInv, StreamTypes
<1> QED
  BY <1>1, <1>6, <1>7

-----------------------------------------------------------------------------
(* Each action keeps it                                                    *)

(* A converter that has yielded all is where its client is.                *)
LEMMA Caught ==
    ASSUME StreamInv, Reads
    PROVE  \E q \in States :
               /\ Shows(format, sent, q) /\ Reached(q, <<>>, q)
               /\ Fits(format, phase, parsing.thinking.state, conv, q)
<1>1. PICK q \in States, p \in States :
          /\ Shows(format, sent, q) /\ Reached(q, conv.out, p)
          /\ Fits(format, phase, parsing.thinking.state, conv, p)
  BY DEF StreamInv, Progress
<1>2. p = q /\ Reached(q, <<>>, q)
  BY <1>1, ReachedNone DEF Reads
<1> QED
  BY <1>1, <1>2

LEMMA ReceiveKeeps ==
    ASSUME StreamInv, NEW event \in RawEvents, Receive(event)
    PROVE  StreamInv'
<1> DEFINE m == EventsOf(mode, parsing, event)
           quiet == Parsed(parsing, event).thinking.state # "streaming"
           was == parsing.thinking.state
<1>1. Reads
  BY DEF Receive
<1>2. PICK q \in States :
          /\ Shows(format, sent, q) /\ Reached(q, <<>>, q)
          /\ Fits(format, phase, was, conv, q)
  BY <1>1, Caught
<1>3. /\ format \in {"anthropic", "openai"} /\ phase \in {"waiting", "reading"}
      /\ conv.out = <<>> /\ parsing \in Parsings /\ conv \in Convs
      /\ received \in Seq(RawEvents) /\ sent \in Seq(Items)
  BY <1>1 DEF StreamInv, StreamTypes, Reads
<1>4. /\ format' = format /\ phase' = "reading" /\ sent' = sent
      /\ received' = Append(received, event) /\ parsing' = Parsed(parsing, event)
      /\ conv' = Steps(format, mode, conv, m)
  BY DEF Receive
<1>5. parsing' \in Parsings /\ m \in Seq(KiroEventSet)
  BY <1>3, <1>4, EventsType
<1>6. /\ \A i \in 1..Len(m) : m[i].type = "thinking" => i = 1 /\ was # "streaming"
      /\ quiet => was # "streaming" /\ \A i \in 1..Len(m) : m[i].type \in Silent
  BY <1>3, EventsOrder
<1>7. quiet \in BOOLEAN /\ (parsing'.thinking.state # "streaming" <=> quiet)
  BY <1>4
<1>8. received' \in Seq(RawEvents)
  BY <1>3, <1>4, AppendProperties
<1> HIDE DEF m, quiet, was
<1>9. CASE format = "anthropic"
  <2>1. ReadyMessage(conv, q) /\ (was # "streaming" => conv.textAt = None)
    BY <1>2, <1>3, <1>9 DEF Fits
  <2>2. conv \in MessageConvs(q)
    BY <1>2, <1>3, <2>1 DEF MessageConvs
  <2>3. conv' \in MessageConvs(q) /\ (quiet => conv'.textAt = None)
    <3>1. /\ quiet => conv.textAt = None
          /\ \A i \in 1..Len(m) :
                 /\ m[i].type = "thinking" => i = 1 /\ conv.textAt = None
                 /\ quiet => m[i].type \in Silent
      BY <1>6, <2>1
    <3>2. /\ Steps("anthropic", mode, conv, m) \in MessageConvs(q)
          /\ quiet => Steps("anthropic", mode, conv, m).textAt = None
      BY <1>5, <1>7, <2>2, <3>1, MessageSteps
    <3> QED
      BY <1>4, <1>9, <3>2
  <2>4. PICK p \in States : Reached(q, conv'.out, p) /\ ReadyMessage(conv', p)
    BY <2>3 DEF MessageConvs
  <2>5. Fits(format', phase', parsing'.thinking.state, conv', p)
    BY <1>4, <1>7, <1>9, <2>3, <2>4 DEF Fits, ReadyMessage, OneOpen
  <2>6. Progress(format', phase', parsing'.thinking.state, conv', sent')
    BY <1>2, <1>4, <2>4, <2>5 DEF Progress
  <2>7. conv' \in Convs
    BY <2>3 DEF MessageConvs
  <2> QED
    BY <1>3, <1>4, <1>5, <1>8, <2>6, <2>7 DEF StreamInv, StreamTypes
<1>10. CASE format = "openai"
  <2>1. conv \in ChunkConvs(q)
    BY <1>2, <1>3, <1>10 DEF ChunkConvs, Fits
  <2>2. conv' \in ChunkConvs(q)
    BY <1>4, <1>5, <1>10, <2>1, ChunkSteps
  <2>3. PICK p \in States : Reached(q, conv'.out, p) /\ ReadyChunks(conv', p)
    BY <2>2 DEF ChunkConvs
  <2>4. Fits(format', phase', parsing'.thinking.state, conv', p)
    BY <1>4, <1>10, <2>3 DEF Fits, ReadyChunks, OneOpen
  <2>5. Progress(format', phase', parsing'.thinking.state, conv', sent')
    BY <1>2, <1>4, <2>3, <2>4 DEF Progress
  <2>6. conv' \in Convs
    BY <2>2 DEF ChunkConvs
  <2> QED
    BY <1>3, <1>4, <1>5, <1>8, <2>5, <2>6 DEF StreamInv, StreamTypes
<1> QED
  BY <1>3, <1>9, <1>10

LEMMA EndKeeps ==
    ASSUME StreamInv, EndOfStream
    PROVE  StreamInv'
<1> DEFINE m == LastEvents(mode, parsing)
           was == parsing.thinking.state
           c == Steps(format, mode, conv, m)
<1>1. Reads
  BY DEF EndOfStream
<1>2. PICK q \in States :
          /\ Shows(format, sent, q) /\ Reached(q, <<>>, q)
          /\ Fits(format, phase, was, conv, q)
  BY <1>1, Caught
<1>3. /\ format \in {"anthropic", "openai"} /\ phase \in {"waiting", "reading"}
      /\ conv.out = <<>> /\ parsing \in Parsings /\ conv \in Convs
      /\ received \in Seq(RawEvents) /\ sent \in Seq(Items)
  BY <1>1 DEF StreamInv, StreamTypes, Reads
<1>4. /\ format' = format /\ phase' = "ending" /\ sent' = sent
      /\ received' = received /\ parsing' = parsing
      /\ conv' = Emit(End(format, c), Close)
  BY DEF EndOfStream
<1>5. m \in Seq(KiroEventSet)
  BY <1>3, LastEventsType
<1>6. \A i \in 1..Len(m) : m[i].type = "thinking" => i = 1 /\ was # "streaming"
  BY <1>3, LastOrder
<1> HIDE DEF m, was
<1>7. CASE format = "anthropic"
  <2>1. ReadyMessage(conv, q) /\ (was # "streaming" => conv.textAt = None)
    BY <1>2, <1>3, <1>7 DEF Fits
  <2>2. conv \in MessageConvs(q)
    BY <1>2, <1>3, <2>1 DEF MessageConvs
  <2>3. c \in MessageConvs(q)
    <3>1. \A i \in 1..Len(m) :
              /\ m[i].type = "thinking" => i = 1 /\ conv.textAt = None
              /\ FALSE => m[i].type \in Silent
      BY <1>6, <2>1
    <3>2. Steps("anthropic", mode, conv, m) \in MessageConvs(q)
      BY <1>5, <2>2, <3>1, MessageSteps
    <3> QED
      BY <1>7, <3>2
  <2> HIDE DEF c
  <2>4. /\ Emit(AnthropicEnd(c), Close) \in Convs
        /\ Emit(AnthropicEnd(c), Close).thinkingAt = None
        /\ Emit(AnthropicEnd(c), Close).textAt = None
        /\ \E p \in States : Reached(q, Emit(AnthropicEnd(c), Close).out, p)
    BY <2>3, MessageEnd
  <2>5. End(format, c) = AnthropicEnd(c)
    BY <1>7 DEF End
  <2>6. conv' = Emit(AnthropicEnd(c), Close)
    BY <1>4, <2>5
  <2>7. PICK p \in States : Reached(q, conv'.out, p)
    BY <2>4, <2>6
  <2>8. Fits(format', phase', parsing'.thinking.state, conv', p)
    BY <1>4, <1>7, <2>4, <2>6 DEF Fits, OneOpen
  <2>9. Progress(format', phase', parsing'.thinking.state, conv', sent')
    BY <1>2, <1>4, <2>7, <2>8 DEF Progress
  <2> QED
    BY <1>3, <1>4, <2>4, <2>6, <2>9 DEF StreamInv, StreamTypes
<1>8. CASE format = "openai"
  <2>1. conv \in ChunkConvs(q)
    BY <1>2, <1>3, <1>8 DEF ChunkConvs, Fits
  <2>2. c \in ChunkConvs(q)
    BY <1>5, <1>8, <2>1, ChunkSteps
  <2> HIDE DEF c
  <2>4. /\ Emit(OpenAIEnd(c), Close) \in Convs
        /\ Emit(OpenAIEnd(c), Close).thinkingAt = None
        /\ Emit(OpenAIEnd(c), Close).textAt = None
        /\ \E p \in States : Reached(q, Emit(OpenAIEnd(c), Close).out, p) /\ p.rank = 4
    BY <2>2, ChunksEnd
  <2>5. End(format, c) = OpenAIEnd(c)
    BY <1>8 DEF End
  <2>6. conv' = Emit(OpenAIEnd(c), Close)
    BY <1>4, <2>5
  <2>7. PICK p \in States : Reached(q, conv'.out, p) /\ p.rank = 4
    BY <2>4, <2>6
  <2>8. Fits(format', phase', parsing'.thinking.state, conv', p)
    BY <1>4, <1>8, <2>4, <2>6, <2>7 DEF Fits, OneOpen
  <2>9. Progress(format', phase', parsing'.thinking.state, conv', sent')
    BY <1>2, <1>4, <2>7, <2>8 DEF Progress
  <2> QED
    BY <1>3, <1>4, <2>4, <2>6, <2>9 DEF StreamInv, StreamTypes
<1> QED
  BY <1>3, <1>7, <1>8

(* One more item after another, from where the client is.                  *)
LEMMA ReachedOne ==
    ASSUME NEW q \in States, NEW x \in Items, Allowed(q, x)
    PROVE  <<x>> \in Seq(Items) /\ Reached(q, <<x>>, After(q, x))
<1>1. Reached(q, <<>>, q) /\ <<>> \in Seq(Items)
  BY ReachedNone, EmptySeq
<1>2. Append(<<>>, x) = <<x>>
  OBVIOUS
<1>3. Append(<<>>, x) \in Seq(Items) /\ Reached(q, Append(<<>>, x), After(q, x))
  BY <1>1, ReachedMore
<1> QED
  BY <1>2, <1>3

LEMMA ErrorsSent ==
    ASSUME NEW q \in States, q.stage = "open"
    PROVE  LET all == AfterError(FALSE)
               one == AfterError(TRUE)
           IN format = "anthropic" =>
                  /\ all \in Seq(Items) /\ one \in Seq(Items)
                  /\ \E p \in States : Reached(q, all, p)
                  /\ \E p \in States : Reached(q, one, p)
<1> SUFFICES ASSUME format = "anthropic"
             PROVE  /\ AfterError(FALSE) \in Seq(Items) /\ AfterError(TRUE) \in Seq(Items)
                    /\ \E p \in States : Reached(q, AfterError(FALSE), p)
                    /\ \E p \in States : Reached(q, AfterError(TRUE), p)
  OBVIOUS
<1> DEFINE x == ErrorEvent
           y == Close
<1>1. x \in Items /\ x.type = "error" /\ y \in Items /\ y.type = "close"
  BY DEF ErrorEvent, Close, Items
<1>2. AfterError(FALSE) = <<x>> \o <<y, x>> /\ AfterError(TRUE) = <<>> \o <<y, x>>
  BY DEF AfterError
<1>3. <<x>> \o <<y, x>> = Append(Append(<<x>>, y), x) /\ <<>> \o <<y, x>> = Append(<<y>>, x)
  OBVIOUS
<1> HIDE DEF x, y
<1> DEFINE p1 == After(q, x)
<1>4. Allowed(q, x) /\ Allowed(q, y) /\ After(q, y) = q
  BY <1>1 DEF Allowed, After
<1>5. p1 \in States /\ p1.stage = "failed"
  <2>1. p1 = [q EXCEPT !.stage = "failed"] /\ p1 \in States
    BY <1>1, AfterType DEF After
  <2> HIDE DEF p1
  <2> QED
    BY <2>1 DEF States
<1>6. <<x>> \in Seq(Items) /\ Reached(q, <<x>>, p1)
  BY <1>1, <1>4, ReachedOne
<1>7. <<y>> \in Seq(Items) /\ Reached(q, <<y>>, q)
  <2>1. <<y>> \in Seq(Items) /\ Reached(q, <<y>>, After(q, y))
    BY <1>1, <1>4, ReachedOne
  <2> QED
    BY <1>4, <2>1
<1>8. Append(<<y>>, x) \in Seq(Items) /\ Reached(q, Append(<<y>>, x), p1)
  BY <1>1, <1>4, <1>7, ReachedMore
<1> HIDE DEF p1
<1>9. Allowed(p1, y) /\ After(p1, y) = p1 /\ Allowed(p1, x)
  BY <1>1, <1>5 DEF Allowed, After
<1>10. Append(<<x>>, y) \in Seq(Items) /\ Reached(q, Append(<<x>>, y), p1)
  <2>1. /\ Append(<<x>>, y) \in Seq(Items)
        /\ Reached(q, Append(<<x>>, y), After(p1, y))
    BY <1>1, <1>6, <1>9, ReachedMore
  <2> QED
    BY <1>9, <2>1
<1>11. /\ Append(Append(<<x>>, y), x) \in Seq(Items)
       /\ Reached(q, Append(Append(<<x>>, y), x), After(p1, x))
  BY <1>1, <1>9, <1>10, ReachedMore
<1>12. After(p1, x) \in States
  BY <1>1, <1>5, AfterType
<1> QED
  BY <1>2, <1>3, <1>5, <1>8, <1>11, <1>12

LEMMA DoneSent ==
    ASSUME NEW q \in States, q.stage = "none", q.rank <= 1, NEW timeout \in BOOLEAN,
           format = "openai"
    PROVE  /\ AfterError(timeout) \in Seq(Items)
           /\ \E p \in States : Reached(q, AfterError(timeout), p) /\ p.rank = 4
<1> DEFINE y == Close
           z == [type |-> "done"]
           p == After(q, z)
<1>1. y \in Items /\ y.type = "close" /\ z \in Items /\ z.type = "done"
  BY DEF Close, Items
<1>2. AfterError(timeout) = <<y, z>>
  BY DEF AfterError
<1>3. <<y, z>> = Append(<<y>>, z)
  OBVIOUS
<1> HIDE DEF y, z
<1>4. Allowed(q, y) /\ After(q, y) = q /\ Allowed(q, z)
  BY <1>1 DEF Allowed, After, States
<1>5. <<y>> \in Seq(Items) /\ Reached(q, <<y>>, q)
  <2>1. <<y>> \in Seq(Items) /\ Reached(q, <<y>>, After(q, y))
    BY <1>1, <1>4, ReachedOne
  <2> QED
    BY <1>4, <2>1
<1>6. Append(<<y>>, z) \in Seq(Items) /\ Reached(q, Append(<<y>>, z), p)
  BY <1>1, <1>4, <1>5, ReachedMore
<1>7. p \in States /\ p.rank = 4
  <2>1. p = [q EXCEPT !.rank = 4] /\ p \in States
    BY <1>1, AfterType DEF After
  <2> HIDE DEF p
  <2> QED
    BY <2>1 DEF States
<1> QED
  BY <1>2, <1>3, <1>6, <1>7

LEMMA RaiseKeeps ==
    ASSUME StreamInv, Reads, NEW timeout \in BOOLEAN, Raise(timeout)
    PROVE  StreamInv'
<1> DEFINE was == parsing.thinking.state
           out == AfterError(timeout)
<1>1. PICK q \in States :
          /\ Shows(format, sent, q) /\ Reached(q, <<>>, q)
          /\ Fits(format, phase, was, conv, q)
  BY Caught
<1>2. /\ format \in {"anthropic", "openai"} /\ phase \in {"waiting", "reading"}
      /\ parsing \in Parsings /\ conv \in Convs
      /\ received \in Seq(RawEvents) /\ sent \in Seq(Items)
  BY DEF StreamInv, StreamTypes, Reads
<1>3. /\ format' = format /\ phase' = "failed" /\ sent' = sent
      /\ received' = received /\ parsing' = parsing
      /\ conv' = [conv EXCEPT !.out = out]
  BY DEF Raise
<1>4. PICK p \in States :
          out \in Seq(Items) /\ Reached(q, out, p) /\ (format = "openai" => p.rank = 4)
  <2>1. CASE format = "anthropic"
    <3>1. q.stage = "open"
      BY <1>1, <1>2, <2>1 DEF Fits, ReadyMessage
    <3>2. timeout = TRUE \/ timeout = FALSE
      OBVIOUS
    <3> QED
      BY <2>1, <3>1, <3>2, ErrorsSent
  <2>2. CASE format = "openai"
    <3>1. q.stage = "none" /\ q.rank <= 1
      BY <1>1, <1>2, <2>2 DEF Fits, ReadyChunks
    <3> QED
      BY <2>2, <3>1, DoneSent
  <2> QED
    BY <1>2, <2>1, <2>2
<1> HIDE DEF out, was
<1>5. conv' \in Convs /\ conv'.out = out /\ BesideOut(conv, conv')
  BY <1>2, <1>3, <1>4 DEF Convs, BesideOut
<1>6. Fits(format', phase', parsing'.thinking.state, conv', p)
  BY <1>1, <1>3, <1>4, <1>5 DEF Fits, OneOpen, BesideOut
<1>7. Progress(format', phase', parsing'.thinking.state, conv', sent')
  BY <1>1, <1>3, <1>4, <1>5, <1>6 DEF Progress
<1> QED
  BY <1>2, <1>3, <1>5, <1>7 DEF StreamInv, StreamTypes

(* The next item taken from those that wait.                               *)
LEMMA TakenRest ==
    ASSUME StreamInv, conv.out # <<>>, Taken,
           format' = format, phase' = phase, parsing' = parsing
    PROVE  /\ Next1 \in Items /\ conv' \in Convs
           /\ \E q, p \in States :
                  /\ Shows(format, sent, q) /\ Allowed(q, Next1)
                  /\ After(q, Next1) \in States
                  /\ Reached(After(q, Next1), conv'.out, p)
                  /\ Fits(format', phase', parsing'.thinking.state, conv', p)
<1>1. PICK q \in States, p \in States :
          /\ Shows(format, sent, q) /\ Reached(q, conv.out, p)
          /\ Fits(format, phase, parsing.thinking.state, conv, p)
  BY DEF StreamInv, Progress
<1>2. conv \in Convs /\ conv.out \in Seq(Items)
  BY ConvParts DEF StreamInv, StreamTypes
<1>3. /\ Next1 \in Items /\ Tail(conv.out) \in Seq(Items)
      /\ Allowed(q, Next1) /\ Reached(After(q, Next1), Tail(conv.out), p)
  BY <1>1, <1>2, ReachedRest DEF Next1
<1>4. conv' = [conv EXCEPT !.out = Tail(conv.out)]
  BY <1>2 DEF Taken, Convs
<1>5. conv' \in Convs /\ BesideOut(conv, conv') /\ conv'.out = Tail(conv.out)
  BY <1>2, <1>3, <1>4 DEF Convs, BesideOut
<1>6. After(q, Next1) \in States
  BY <1>3, AfterType
<1>7. phase \notin {"closed", "left"}
  BY <1>1 DEF Fits
<1>8. Fits(format', phase', parsing'.thinking.state, conv', p)
  <2>1. ReadyMessage(conv, p) => ReadyMessage(conv', p)
    BY <1>5 DEF ReadyMessage, BesideOut
  <2>2. ReadyChunks(conv, p) => ReadyChunks(conv', p)
    BY <1>5 DEF ReadyChunks, BesideOut
  <2>3. conv'.textAt = conv.textAt /\ (OneOpen(conv) => OneOpen(conv'))
    BY <1>5 DEF BesideOut, OneOpen
  <2> QED
    BY <1>1, <1>7, <2>1, <2>2, <2>3 DEF Fits
<1> QED
  BY <1>1, <1>3, <1>5, <1>6, <1>8

LEMMA YieldKeeps ==
    ASSUME StreamInv, Yield
    PROVE  StreamInv'
<1>1. /\ conv.out # <<>> /\ Next1.type \notin {"save", "close"}
      /\ sent' = Append(sent, Next1) /\ Taken
      /\ format' = format /\ phase' = phase /\ parsing' = parsing /\ received' = received
  BY DEF Yield
<1>2. Next1 \in Items /\ conv' \in Convs
  BY <1>1, TakenRest
<1>3. PICK q, p \in States :
          /\ Shows(format, sent, q) /\ Allowed(q, Next1)
          /\ After(q, Next1) \in States
          /\ Reached(After(q, Next1), conv'.out, p)
          /\ Fits(format', phase', parsing'.thinking.state, conv', p)
  BY <1>1, TakenRest
<1>4. sent \in Seq(Items)
  BY DEF StreamInv, StreamTypes
<1>5. Shows(format, Append(sent, Next1), After(q, Next1))
  BY <1>1, <1>2, <1>3, <1>4, ShowsMore
<1>6. Progress(format', phase', parsing'.thinking.state, conv', sent')
  BY <1>1, <1>3, <1>5 DEF Progress
<1>7. sent' \in Seq(Items)
  BY <1>1, <1>2, <1>4, AppendProperties
<1> QED
  BY <1>1, <1>2, <1>6, <1>7 DEF StreamInv, StreamTypes

LEMMA UnsentKeeps ==
    ASSUME StreamInv, SaveTruncations \/ CloseResponse
    PROVE  StreamInv'
<1>1. /\ conv.out # <<>> /\ Next1.type \in {"save", "close"}
      /\ sent' = sent /\ Taken
      /\ format' = format /\ phase' = phase /\ parsing' = parsing /\ received' = received
  BY DEF SaveTruncations, CloseResponse
<1>2. Next1 \in Items /\ conv' \in Convs
  BY <1>1, TakenRest
<1>3. PICK q, p \in States :
          /\ Shows(format, sent, q) /\ Allowed(q, Next1)
          /\ After(q, Next1) \in States
          /\ Reached(After(q, Next1), conv'.out, p)
          /\ Fits(format', phase', parsing'.thinking.state, conv', p)
  BY <1>1, TakenRest
<1>4. After(q, Next1) = q
  BY <1>1 DEF After
<1>5. Progress(format', phase', parsing'.thinking.state, conv', sent')
  BY <1>1, <1>3, <1>4 DEF Progress
<1> QED
  BY <1>1, <1>2, <1>5 DEF StreamInv, StreamTypes

LEMMA ReturnKeeps ==
    ASSUME StreamInv, Return
    PROVE  StreamInv'
<1>1. PICK q \in States, p \in States :
          /\ Shows(format, sent, q) /\ Reached(q, conv.out, p)
          /\ Fits(format, phase, parsing.thinking.state, conv, p)
  BY DEF StreamInv, Progress
<1>2. /\ phase \in {"ending", "failed"} /\ conv.out = <<>> /\ phase' = "closed"
      /\ format' = format /\ parsing' = parsing /\ conv' = conv
      /\ received' = received /\ sent' = sent
  BY DEF Return
<1>3. Fits(format', phase', parsing'.thinking.state, conv', p)
  BY <1>1, <1>2 DEF Fits
<1>4. Progress(format', phase', parsing'.thinking.state, conv', sent')
  BY <1>1, <1>2, <1>3 DEF Progress
<1> QED
  BY <1>2, <1>4 DEF StreamInv, StreamTypes

LEMMA LeaveKeeps ==
    ASSUME StreamInv, ClientLeaves
    PROVE  StreamInv'
<1>1. PICK q \in States : Shows(format, sent, q)
  BY DEF StreamInv, Progress
<1>2. /\ phase' = "left" /\ parsing' = NewParsing
      /\ conv' = [NewConverter EXCEPT !.full = conv.full]
      /\ format' = format /\ received' = received /\ sent' = sent
  BY DEF ClientLeaves
<1>3. conv.full \in Texts
  BY ConvParts DEF StreamInv, StreamTypes
<1>4. conv' \in Convs /\ conv'.out = <<>> /\ conv'.thinkingAt = None /\ conv'.textAt = None
  BY <1>2, <1>3, NewConvType DEF Convs
<1>5. Fits(format', phase', parsing'.thinking.state, conv', q)
  BY <1>2, <1>4 DEF Fits, OneOpen
<1>6. Reached(q, conv'.out, q)
  BY <1>4, ReachedNone
<1>7. Progress(format', phase', parsing'.thinking.state, conv', sent')
  BY <1>1, <1>2, <1>5, <1>6 DEF Progress
<1> QED
  BY <1>2, <1>4, <1>7, NewParsingType DEF StreamInv, StreamTypes

LEMMA StutterKeeps ==
    ASSUME StreamInv, UNCHANGED streamVars
    PROVE  StreamInv'
<1>1. /\ format' = format /\ phase' = phase /\ parsing' = parsing /\ conv' = conv
      /\ received' = received /\ sent' = sent
  BY DEF streamVars
<1> QED
  BY <1>1 DEF StreamInv, StreamTypes, Progress

LEMMA StreamStep ==
    ASSUME StreamInv, [StreamNext]_streamVars
    PROVE  StreamInv'
<1>1. CASE FirstTokenTimeout
  <2>1. Reads /\ Raise(TRUE)
    BY <1>1 DEF FirstTokenTimeout, Reads
  <2> QED
    BY <2>1, RaiseKeeps
<1>2. CASE Break
  BY <1>2, RaiseKeeps DEF Break
<1>3. CASE EndOfStream
  BY <1>3, EndKeeps
<1>4. CASE Yield
  BY <1>4, YieldKeeps
<1>5. CASE SaveTruncations \/ CloseResponse
  BY <1>5, UnsentKeeps
<1>6. CASE Return
  BY <1>6, ReturnKeeps
<1>7. CASE ClientLeaves
  BY <1>7, LeaveKeeps
<1>8. CASE \E event \in KiroSends : Receive(event)
  <2>1. received \in Seq(RawEvents)
    BY DEF StreamInv, StreamTypes
  <2>2. PICK event \in RawEvents : Receive(event)
    BY <1>8, <2>1, KiroEvents
  <2> QED
    BY <2>2, ReceiveKeeps
<1>9. CASE UNCHANGED streamVars
  BY <1>9, StutterKeeps
<1> QED
  BY <1>1, <1>2, <1>3, <1>4, <1>5, <1>6, <1>7, <1>8, <1>9 DEF StreamNext, Ends, Proceed

LEMMA Streaming == StreamSpec => []StreamInv
<1>1. StreamInit => StreamInv
  BY StreamStart
<1>2. StreamInv /\ [StreamNext]_streamVars => StreamInv'
  BY StreamStep
<1> QED
  BY <1>1, <1>2, PTL DEF StreamSpec

-----------------------------------------------------------------------------
(* What the client is promised                                             *)

(* In whatever order Kiro sends text, calls and usage, wherever its chunks *)
(* cut them, and however the response ends (it breaks off, nothing comes   *)
(* in time, the client leaves), stream_kiro_to_openai and stream_wrapper   *)
(* send the chunks of a completion in order, the role in the first one     *)
(* alone, one chunk of calls and one final chunk at most, whose reason     *)
(* names calls just when calls have been sent, and [DONE] as the last.     *)
THEOREM ChunksInOrder == StreamSpec => []ChunkProtocol
<1>1. ASSUME StreamInv
      PROVE  ChunkProtocol
  <2> SUFFICES ASSUME format = "openai"
               PROVE  /\ \A i, j \in DOMAIN sent : i < j => Rank(sent[i]) <= Rank(sent[j])
                      /\ \A i \in DOMAIN sent : sent[i].type = "chunk" => (sent[i].role <=> i = 1)
                      /\ \A i, j \in DOMAIN sent :
                             i < j /\ sent[i].type # "chunk" => sent[i].type # sent[j].type
                      /\ \A i \in DOMAIN sent :
                             sent[i].type = "final" =>
                                 (sent[i].reason = "tool_calls" <=>
                                     \E j \in SentAt({"tool_calls"}) : sent[j].calls # <<>>)
                      /\ phase = "closed" => Last(sent).type = "done"
    BY DEF ChunkProtocol
  <2>1. PICK q \in States, p \in States :
            /\ Shows("openai", sent, q) /\ Reached(q, conv.out, p)
            /\ Fits("openai", phase, parsing.thinking.state, conv, p)
    BY <1>1 DEF StreamInv, Progress
  <2>2. ShowsChunks(sent, q)
    BY <2>1 DEF Shows
  <2>3. sent \in Seq(Items) /\ DOMAIN sent = 1..Len(sent)
    BY <1>1, LenProperties DEF StreamInv, StreamTypes
  <2>4. phase = "closed" => Last(sent).type = "done"
    <3> SUFFICES ASSUME phase = "closed"
                 PROVE  Last(sent).type = "done"
      OBVIOUS
    <3>1. conv.out = <<>> /\ p.rank = 4
      BY <2>1 DEF Fits
    <3>2. p = q
      BY <2>1, <3>1, ReachedNone
    <3> QED
      BY <2>2, <3>1, <3>2 DEF ShowsChunks, Last
  <2>5. \A i, j \in DOMAIN sent :
            i < j /\ sent[i].type # "chunk" => sent[i].type # sent[j].type
    <3> SUFFICES ASSUME NEW i \in DOMAIN sent, NEW j \in DOMAIN sent, i < j,
                        sent[i].type # "chunk", sent[i].type = sent[j].type
                 PROVE  FALSE
      OBVIOUS
    <3>1. Rank(sent[i]) < Rank(sent[j])
      BY <2>2, <2>3 DEF ShowsChunks
    <3>2. Rank(sent[i]) = Rank(sent[j]) /\ Rank(sent[i]) \in Int
      BY DEF Rank
    <3> QED
      BY <3>1, <3>2
  <2>6. ASSUME NEW i \in DOMAIN sent, sent[i].type = "final"
        PROVE  sent[i].reason = "tool_calls" <=>
                   \E j \in SentAt({"tool_calls"}) : sent[j].calls # <<>>
    <3>1. sent[i].reason = "tool_calls" <=> q.called
      BY <2>2, <2>3, <2>6 DEF ShowsChunks
    <3>2. q.called <=> \E j \in 1..Len(sent) : sent[j].type = "tool_calls" /\ sent[j].calls # <<>>
      BY <2>2 DEF ShowsChunks
    <3> QED
      BY <2>3, <3>1, <3>2 DEF SentAt
  <2> QED
    BY <2>2, <2>3, <2>4, <2>5, <2>6 DEF ShowsChunks
<1> QED
  BY <1>1, Streaming, PTL

(* What the variables of MessageStream stand for, for a client that has    *)
(* been sent s and is at p.                                                *)
MappedTo(stage, open, next, touched, tools, f, p) ==
    /\ stage = (IF f = "anthropic" THEN p.stage ELSE "silent")
    /\ open = p.open /\ next = p.next /\ touched = p.touched /\ (tools <=> p.tools)

MapsTo(p) ==
    MappedTo(MappedStage, StartedIndexes \ StoppedIndexes, Cardinality(BlocksAt),
             IF SentAt(Touching) # {} THEN LatestOf(Touching).index ELSE -1,
             \E i \in BlocksAt : sent[i].block = "tool_use", format, p)

LEMMA MappedNow ==
    ASSUME NEW p \in States, Shows(format, sent, p)
    PROVE  MapsTo(p)
<1>1. MappedStage = IF format = "anthropic" THEN StageOf(sent) ELSE "silent"
  BY DEF MappedStage, StageOf, SentAt, At, LatestOf, Latest
<1>2. /\ StartedIndexes = Indexes(Started, sent) /\ StoppedIndexes = Indexes(Stopped, sent)
      /\ BlocksAt = At(Started, sent)
      /\ (IF SentAt(Touching) # {} THEN LatestOf(Touching).index ELSE -1) = TouchedBy(sent)
      /\ (\E i \in BlocksAt : sent[i].block = "tool_use") <=> ToolStarted(sent)
  BY DEF StartedIndexes, StoppedIndexes, BlocksAt, SentAt, LatestOf, TouchedBy, ToolStarted,
         At, Latest, Indexes, Started, Stopped
<1> QED
  BY <1>1, <1>2 DEF MapsTo, MappedTo, Shows, ShowsBlocks

LEMMA MappedNext ==
    ASSUME NEW p \in States, Shows(format', sent', p)
    PROVE  MapsTo(p)'
<1>1. MappedStage' = IF format' = "anthropic" THEN StageOf(sent') ELSE "silent"
  BY DEF MappedStage, StageOf, SentAt, At, LatestOf, Latest
<1>2. /\ StartedIndexes' = Indexes(Started, sent') /\ StoppedIndexes' = Indexes(Stopped, sent')
      /\ BlocksAt' = At(Started, sent')
      /\ (IF SentAt(Touching) # {} THEN LatestOf(Touching).index ELSE -1)' = TouchedBy(sent')
      /\ (\E i \in BlocksAt : sent[i].block = "tool_use")' <=> ToolStarted(sent')
  BY DEF StartedIndexes, StoppedIndexes, BlocksAt, SentAt, LatestOf, TouchedBy, ToolStarted,
         At, Latest, Indexes, Started, Stopped
<1> QED
  BY <1>1, <1>2 DEF MapsTo, MappedTo, Shows, ShowsBlocks

(* How one item takes the client of a message on.                          *)
StageMoves(q, r) ==
    /\ r.open = q.open /\ r.next = q.next /\ r.touched = q.touched /\ r.tools = q.tools
    /\ \/ q.stage = "silent" /\ r.stage = "open"
       \/ /\ q.stage = "open" /\ q.open = {}
          /\ r.stage = (IF q.tools THEN "tool_use" ELSE "end_turn")
       \/ q.stage \in {"tool_use", "end_turn"} /\ r.stage = "over"
       \/ q.stage = "open" /\ r.stage = "failed"
       \/ r.stage = q.stage

BlockMoves(q, r) ==
    /\ q.stage = "open" /\ r.stage = "open"
    /\ \/ /\ q.open = {} /\ r.open = {q.next} /\ r.next = q.next + 1 /\ r.touched = q.next
          /\ r.tools \in {q.tools, TRUE}
       \/ /\ q.open = {r.touched} /\ r.open \in {{}, q.open}
          /\ r.next = q.next /\ r.tools = q.tools

LEMMA Moves ==
    ASSUME NEW q \in States, NEW x \in Items, Allowed(q, x), q.stage # "none"
    PROVE  StageMoves(q, After(q, x)) \/ BlockMoves(q, After(q, x))
<1> DEFINE r == After(q, x)
<1>1. r \in States
  BY AfterType
<1>2. x.type \in {"message_start", "message_stop", "error", "done", "close", "save",
                   "content_block_start", "content_block_delta", "content_block_stop",
                   "message_delta", "chunk", "tool_calls", "final"}
  BY DEF Items
<1>3. x.type \notin {"chunk", "tool_calls", "final", "done"}
  BY DEF Allowed
<1>4. CASE x.type = "content_block_start"
  <2> DEFINE tool == (q.tools \/ x.block = "tool_use")
  <2>1. r = [q EXCEPT !.open = {x.index}, !.next = q.next + 1, !.touched = x.index, !.tools = tool]
    BY <1>4 DEF After
  <2>2. q.stage = "open" /\ q.open = {} /\ x.index = q.next
    BY <1>4 DEF Allowed
  <2>3. tool \in {q.tools, TRUE}
    BY DEF States
  <2> HIDE DEF r, tool
  <2>4. /\ r.stage = q.stage /\ r.open = {x.index} /\ r.next = q.next + 1
        /\ r.touched = x.index /\ r.tools = tool
    BY <2>1 DEF States
  <2>5. BlockMoves(q, r)
    BY <2>2, <2>3, <2>4 DEF BlockMoves
  <2> QED
    BY <2>5 DEF r
<1>5. CASE x.type = "content_block_delta"
  <2>1. r = [q EXCEPT !.touched = x.index]
    BY <1>5 DEF After
  <2>2. q.stage = "open" /\ q.open = {x.index}
    BY <1>5 DEF Allowed
  <2> HIDE DEF r
  <2>3. /\ r.stage = q.stage /\ r.open = q.open /\ r.next = q.next
        /\ r.touched = x.index /\ r.tools = q.tools
    BY <2>1 DEF States
  <2>4. BlockMoves(q, r)
    BY <2>2, <2>3 DEF BlockMoves
  <2> QED
    BY <2>4 DEF r
<1>6. CASE x.type = "content_block_stop"
  <2>1. r = [q EXCEPT !.open = {}, !.touched = x.index]
    BY <1>6 DEF After
  <2>2. q.stage = "open" /\ q.open = {x.index}
    BY <1>6 DEF Allowed
  <2> HIDE DEF r
  <2>3. /\ r.stage = q.stage /\ r.open = {} /\ r.next = q.next
        /\ r.touched = x.index /\ r.tools = q.tools
    BY <2>1 DEF States
  <2>4. BlockMoves(q, r)
    BY <2>2, <2>3 DEF BlockMoves
  <2> QED
    BY <2>4 DEF r
<1>7. ASSUME x.type \in {"message_start", "message_stop", "error", "close", "save", "message_delta"}
      PROVE  StageMoves(q, r)
  <2> DEFINE stage == IF x.type = "message_start" THEN "open"
                      ELSE IF x.type = "message_delta" THEN x.reason
                      ELSE IF x.type = "message_stop" THEN "over"
                      ELSE IF x.type = "error" THEN "failed" ELSE q.stage
  <2>1. r = [q EXCEPT !.stage = stage]
    <3>1. q = [q EXCEPT !.stage = q.stage]
      BY DEF States
    <3> QED
      BY <1>7, <3>1 DEF After
  <2>2. \/ q.stage = "silent" /\ stage = "open"
        \/ /\ q.stage = "open" /\ q.open = {}
           /\ stage = (IF q.tools THEN "tool_use" ELSE "end_turn")
        \/ q.stage \in {"tool_use", "end_turn"} /\ stage = "over"
        \/ q.stage = "open" /\ stage = "failed"
        \/ stage = q.stage
    BY <1>7 DEF Allowed
  <2> HIDE DEF r, stage
  <2>3. /\ r.stage = stage /\ r.open = q.open /\ r.next = q.next
        /\ r.touched = q.touched /\ r.tools = q.tools
    BY <2>1 DEF States
  <2> QED
    BY <2>2, <2>3 DEF StageMoves
<1> QED
  BY <1>2, <1>3, <1>4, <1>5, <1>6, <1>7

(* For a client of the OpenAI format the blocks stay what they are.        *)
LEMMA NoMoves ==
    ASSUME NEW q \in States, NEW x \in Items, Allowed(q, x), q.stage = "none"
    PROVE  LET r == After(q, x)
           IN r.open = q.open /\ r.next = q.next /\ r.touched = q.touched /\ r.tools = q.tools
<1> DEFINE r == After(q, x)
           has == (x.calls # <<>>)
<1>1. x.type \in {"message_start", "message_stop", "error", "done", "close", "save",
                   "content_block_start", "content_block_delta", "content_block_stop",
                   "message_delta", "chunk", "tool_calls", "final"}
  BY DEF Items
<1>2. x.type \in {"chunk", "tool_calls", "final", "done", "close", "save"}
  BY <1>1 DEF Allowed
<1>3. r \in {q, [q EXCEPT !.rank = 1], [q EXCEPT !.rank = 2, !.called = has],
             [q EXCEPT !.rank = 3], [q EXCEPT !.rank = 4]}
  BY <1>2 DEF After
<1> HIDE DEF r, has
<1>4. r.open = q.open /\ r.next = q.next /\ r.touched = q.touched /\ r.tools = q.tools
  BY <1>3 DEF States
<1> QED
  BY <1>4 DEF r

LEMMA MovesMapped ==
    ASSUME NEW q \in States, NEW r \in States, MapsTo(q), MapsTo(r)',
           format' = format, format \in {"anthropic", "openai"},
           format = "anthropic" => StageMoves(q, r) \/ BlockMoves(q, r),
           format = "openai" => /\ r.open = q.open /\ r.next = q.next
                                /\ r.touched = q.touched /\ r.tools = q.tools
    PROVE  [Message!Change]_Message!messageVars
<1> DEFINE open == StartedIndexes \ StoppedIndexes
           next == Cardinality(BlocksAt)
           touched == IF SentAt(Touching) # {} THEN LatestOf(Touching).index ELSE -1
           tools == \E i \in BlocksAt : sent[i].block = "tool_use"
<1>1. /\ open = q.open /\ next = q.next /\ touched = q.touched
      /\ open' = r.open /\ next' = r.next /\ touched' = r.touched
  BY DEF MapsTo, MappedTo
<1>2. tools = q.tools /\ tools' = r.tools /\ q.tools \in BOOLEAN /\ r.tools \in BOOLEAN
  <2>1. (tools <=> q.tools) /\ (tools' <=> r.tools)
    BY DEF MapsTo, MappedTo
  <2>2. q.tools \in BOOLEAN /\ r.tools \in BOOLEAN /\ tools \in BOOLEAN /\ tools' \in BOOLEAN
    BY DEF States
  <2> QED
    BY <2>1, <2>2
<1>3. /\ MappedStage = (IF format = "anthropic" THEN q.stage ELSE "silent")
      /\ MappedStage' = (IF format = "anthropic" THEN r.stage ELSE "silent")
  BY DEF MapsTo, MappedTo
<1> HIDE DEF open, next, touched, tools
<1>4. CASE format = "openai" \/ (r.stage = q.stage /\ StageMoves(q, r))
  <2>1. /\ MappedStage' = MappedStage /\ open' = open /\ next' = next
        /\ touched' = touched /\ tools' = tools
    BY <1>1, <1>2, <1>3, <1>4 DEF StageMoves
  <2> QED
    BY <2>1 DEF Message!messageVars, open, next, touched, tools
<1>5. CASE format = "anthropic" /\ StageMoves(q, r) /\ r.stage # q.stage
  <2>1. open' = open /\ next' = next /\ touched' = touched /\ tools' = tools
    BY <1>1, <1>2, <1>5 DEF StageMoves
  <2>2. MappedStage = q.stage /\ MappedStage' = r.stage
    BY <1>3, <1>5
  <2>3. CASE q.stage = "silent" /\ r.stage = "open"
    <3>1. Message!Begin
      BY <2>1, <2>2, <2>3 DEF Message!Begin, open, next, touched, tools
    <3> QED
      BY <3>1 DEF Message!Change
  <2>4. CASE q.stage = "open" /\ q.open = {} /\ r.stage = (IF q.tools THEN "tool_use" ELSE "end_turn")
    <3>1. open = {} /\ MappedStage = "open" /\ MappedStage' = (IF tools THEN "tool_use" ELSE "end_turn")
      BY <1>1, <1>2, <2>2, <2>4
    <3>2. Message!Conclude
      BY <2>1, <3>1 DEF Message!Conclude, open, next, touched, tools
    <3> QED
      BY <3>2 DEF Message!Change
  <2>5. CASE q.stage \in {"tool_use", "end_turn"} /\ r.stage = "over"
    <3>1. Message!Finish
      BY <2>1, <2>2, <2>5 DEF Message!Finish, open, next, touched, tools
    <3> QED
      BY <3>1 DEF Message!Change
  <2>6. CASE q.stage = "open" /\ r.stage = "failed"
    <3>1. Message!Fail
      BY <2>1, <2>2, <2>6 DEF Message!Fail, open, next, touched, tools
    <3> QED
      BY <3>1 DEF Message!Change
  <2> QED
    BY <1>5, <2>3, <2>4, <2>5, <2>6 DEF StageMoves
<1>6. CASE format = "anthropic" /\ BlockMoves(q, r)
  <2>1. MappedStage = "open" /\ MappedStage' = MappedStage
    BY <1>3, <1>6 DEF BlockMoves
  <2>2. CASE q.open = {} /\ r.open = {q.next} /\ r.next = q.next + 1 /\ r.touched = q.next
             /\ r.tools \in {q.tools, TRUE}
    <3>1. open = {} /\ open' = {next} /\ next' = next + 1 /\ touched' = next
      BY <1>1, <2>2
    <3>2. PICK tool \in BOOLEAN : tools' = (tools \/ tool)
      <4>1. tools' = (tools \/ FALSE) \/ tools' = (tools \/ TRUE)
        BY <1>2, <2>2
      <4> QED
        BY <4>1
    <3>3. Message!OpenBlock(tool)
      BY <2>1, <3>1, <3>2 DEF Message!OpenBlock, open, next, touched, tools
    <3> QED
      BY <3>3 DEF Message!Change
  <2>3. CASE q.open = {r.touched} /\ r.open \in {{}, q.open} /\ r.next = q.next /\ r.tools = q.tools
    <3>1. /\ open # {} /\ touched' \in open /\ next' = next /\ tools' = tools
          /\ open' \in {{}, open}
      BY <1>1, <1>2, <2>3
    <3>2. CASE open' = {}
      <4>1. Message!CloseBlock
        BY <2>1, <3>1, <3>2 DEF Message!CloseBlock, open, next, touched, tools
      <4> QED
        BY <4>1 DEF Message!Change
    <3>3. CASE open' = open
      <4>1. Message!WriteBlock
        BY <2>1, <3>1, <3>3 DEF Message!WriteBlock, open, next, touched, tools
      <4> QED
        BY <4>1 DEF Message!Change
    <3> QED
      BY <3>1, <3>2, <3>3
  <2> QED
    BY <1>6, <2>2, <2>3 DEF BlockMoves
<1> QED
  BY <1>4, <1>5, <1>6

LEMMA MessageStep ==
    ASSUME StreamInv, [StreamNext]_streamVars
    PROVE  [Message!Change]_Message!messageVars
<1>1. CASE Yield
  <2>1. /\ conv.out # <<>> /\ Next1.type \notin {"save", "close"}
        /\ sent' = Append(sent, Next1) /\ Taken
        /\ format' = format /\ phase' = phase /\ parsing' = parsing
    BY <1>1 DEF Yield
  <2>2. Next1 \in Items /\ sent \in Seq(Items) /\ format \in {"anthropic", "openai"}
    BY <2>1, TakenRest DEF StreamInv, StreamTypes
  <2>3. PICK q \in States :
            Shows(format, sent, q) /\ Allowed(q, Next1) /\ After(q, Next1) \in States
    BY <2>1, TakenRest
  <2>4. PICK r \in States : r = After(q, Next1)
    BY <2>3
  <2>5. Shows(format', sent', r)
    BY <2>1, <2>2, <2>3, <2>4, ShowsMore
  <2>6. MapsTo(q) /\ MapsTo(r)'
    BY <2>3, <2>5, MappedNow, MappedNext
  <2>7. format = "anthropic" => StageMoves(q, r) \/ BlockMoves(q, r)
    BY <2>2, <2>3, <2>4, Moves DEF Shows
  <2>8. format = "openai" => /\ r.open = q.open /\ r.next = q.next
                             /\ r.touched = q.touched /\ r.tools = q.tools
    BY <2>2, <2>3, <2>4, NoMoves DEF Shows
  <2> QED
    BY <2>1, <2>2, <2>6, <2>7, <2>8, MovesMapped
<1>2. CASE format' = format /\ sent' = sent
  BY <1>2 DEF Message!messageVars, MappedStage, StartedIndexes, StoppedIndexes, BlocksAt,
              SentAt, LatestOf
<1>3. Yield \/ (format' = format /\ sent' = sent)
  BY DEF StreamNext, Ends, Proceed, FirstTokenTimeout, Break, Raise, EndOfStream,
         SaveTruncations, CloseResponse, Return, ClientLeaves, Receive, streamVars
<1> QED
  BY <1>1, <1>2, <1>3

LEMMA MessageStarts ==
    ASSUME StreamInit
    PROVE  Message!Start
<1>1. sent = <<>>
  BY DEF StreamInit
<1>2. \A types : SentAt(types) = {}
  BY <1>1 DEF SentAt
<1>3. BlocksAt = {} /\ StartedIndexes = {} /\ Cardinality(BlocksAt) = 0
  BY <1>2, FS_EmptySet DEF BlocksAt, StartedIndexes
<1>4. MappedStage = "silent"
  BY <1>1 DEF MappedStage
<1> QED
  BY <1>2, <1>3, <1>4 DEF Message!Start

(* Whatever Kiro sends, and however it ends, stream_kiro_to_anthropic and  *)
(* stream_wrapper implement MessageStream: the blocks a client is shown    *)
(* are numbered without a gap, one is open at a time, deltas go to it, the *)
(* message ends when all are closed and for the right reason, and after an *)
(* error come only errors.                                                 *)
THEOREM MessagesWellFormed == StreamSpec => BlockProtocol
<1>1. StreamInit => Message!Start
  BY MessageStarts
<1>2. StreamInv /\ [StreamNext]_streamVars => [Message!Change]_Message!messageVars
  BY MessageStep
<1>3. StreamSpec => []StreamInv
  BY Streaming
<1> QED
  BY <1>1, <1>2, <1>3, PTL DEF StreamSpec, BlockProtocol, Message!Protocol

(* The variables of a stream keep their types, no more is read than the    *)
(* model allows, and the Anthropic converter never takes two blocks for    *)
(* open, nor one that is not the one it has numbered last.                 *)
THEOREM StreamTypeCorrect == StreamSpec => []TypeOK
<1> DEFINE Rest == /\ format \in Formats /\ mode \in HandlingModes
                   /\ response \in {"open", "closed"} /\ Len(received) <= MaxEvents
<1>1. StreamInit => Rest
  BY StreamAssumption, EmptySeq DEF StreamInit
<1>2. ASSUME StreamInv, Rest, [StreamNext]_streamVars
      PROVE  Rest'
  <2>1. format' = format /\ mode' = mode
    BY <1>2 DEF StreamNext, Ends, Proceed, FirstTokenTimeout, Break, Raise, EndOfStream, Yield,
                SaveTruncations, CloseResponse, Return, ClientLeaves, Receive, streamVars
  <2>2. response' \in {response, "closed"}
    BY <1>2 DEF StreamNext, Ends, Proceed, FirstTokenTimeout, Break, Raise, EndOfStream, Yield,
                SaveTruncations, CloseResponse, Return, ClientLeaves, Receive, streamVars
  <2>3. Len(received') <= MaxEvents
    <3>1. CASE received' = received
      BY <1>2, <3>1
    <3>2. CASE \E event \in KiroSends : Receive(event)
      <4>1. PICK event : Len(received) < MaxEvents /\ received' = Append(received, event)
        BY <3>2 DEF Receive
      <4>2. Len(received) \in Nat /\ Len(received') = Len(received) + 1
        BY <1>2, <4>1, LenProperties DEF StreamInv, StreamTypes
      <4> QED
        BY <4>1, <4>2, StreamAssumption
    <3> QED
      BY <1>2, <3>1, <3>2
         DEF StreamNext, Ends, Proceed, FirstTokenTimeout, Break, Raise, EndOfStream, Yield,
             SaveTruncations, CloseResponse, Return, ClientLeaves, streamVars
  <2> QED
    BY <1>2, <2>1, <2>2, <2>3
<1>3. ASSUME StreamInv, Rest
      PROVE  TypeOK
  <2>1. OneOpen(conv)
    BY <1>3 DEF StreamInv, Progress, Fits
  <2>2. parsing.thinking.state \in {"pre_content", "in_thinking", "streaming"}
    BY <1>3 DEF StreamInv, StreamTypes, Parsings, Parsers
  <2> QED
    BY <1>3, <2>1, <2>2 DEF TypeOK, StreamInv, StreamTypes, OneOpen
<1> HIDE DEF Rest
<1> QED
  BY <1>1, <1>2, <1>3, Streaming, PTL DEF StreamSpec
-----------------------------------------------------------------------------
(* How a text is split                                                     *)

(* A text is the beginning of another as far as their symbols agree, and   *)
(* of any it is continued to.                                              *)
LEMMA Beginning ==
    ASSUME NEW s \in Texts, NEW t \in Texts
    PROVE  IsPrefix(s, t) <=> Len(s) <= Len(t) /\ \A i \in 1..Len(s) : s[i] = t[i]
<1>1. Len(s) \in Nat /\ Len(t) \in Nat /\ 1 \in Nat \ {0} /\ Len(s) \in Int /\ Len(s) <= Len(s)
  BY TextParts
<1>2. CASE Len(s) <= Len(t)
  <2>1. /\ SubSeq(s, 1, Len(s)) \in Texts
        /\ Len(SubSeq(s, 1, Len(s))) = IF 1 <= Len(s) THEN Len(s) - 1 + 1 ELSE 0
        /\ \A i \in 1..(Len(s) - 1 + 1) : SubSeq(s, 1, Len(s))[i] = s[1 + i - 1]
    BY <1>1, PartOf
  <2>2. /\ SubSeq(t, 1, Len(s)) \in Texts
        /\ Len(SubSeq(t, 1, Len(s))) = IF 1 <= Len(s) THEN Len(s) - 1 + 1 ELSE 0
        /\ \A i \in 1..(Len(s) - 1 + 1) : SubSeq(t, 1, Len(s))[i] = t[1 + i - 1]
    BY <1>1, <1>2, PartOf
  <2> DEFINE a == SubSeq(s, 1, Len(s))
             b == SubSeq(t, 1, Len(s))
  <2>3. /\ Len(a) = Len(s) /\ Len(b) = Len(s)
        /\ \A i \in 1..Len(s) : a[i] = s[i] /\ b[i] = t[i]
    <3>1. Len(s) - 1 + 1 = Len(s) /\ (IF 1 <= Len(s) THEN Len(s) - 1 + 1 ELSE 0) = Len(s)
      BY <1>1
    <3>2. \A i \in 1..Len(s) : 1 + i - 1 = i
      BY <1>1
    <3> HIDE DEF a, b
    <3> USE <2>1, <2>2 DEF a, b
    <3> QED
      BY <3>1, <3>2
  <2>4. IsPrefix(s, t) <=> a = b
    BY <1>2 DEF IsPrefix
  <2> HIDE DEF a, b
  <2>5. a \in Seq(Symbols) /\ b \in Seq(Symbols)
    BY <2>1, <2>2 DEF a, b, Texts
  <2>6. (\A i \in 1..Len(a) : a[i] = b[i]) => a = b
    BY <2>3, <2>5, SeqEqual
  <2> QED
    BY <1>2, <2>3, <2>4, <2>6
<1>3. CASE ~ Len(s) <= Len(t)
  BY <1>3 DEF IsPrefix
<1> QED
  BY <1>2, <1>3

LEMMA Continued ==
    ASSUME NEW s \in Texts, NEW u \in Texts
    PROVE  IsPrefix(s, s \o u)
<1>1. /\ s \o u \in Texts /\ Len(s \o u) = Len(s) + Len(u)
      /\ \A i \in 1..Len(s) : (s \o u)[i] = s[i]
      /\ Len(s) \in Nat /\ Len(u) \in Nat
  BY JoinedText, TextParts
<1> DEFINE t == s \o u
<1> HIDE DEF t
<1>2. t \in Texts /\ Len(s) <= Len(t) /\ \A i \in 1..Len(s) : s[i] = t[i]
  BY <1>1 DEF t
<1>3. IsPrefix(s, t)
  BY <1>2, Beginning
<1> QED
  BY <1>3 DEF t

LEMMA SameText ==
    ASSUME NEW s \in Texts, NEW t \in Texts, Len(s) = Len(t),
           \A i \in 1..Len(s) : s[i] = t[i]
    PROVE  s = t
BY SeqEqual DEF Texts

LEMMA JoinedThree ==
    ASSUME NEW s \in Texts, NEW t \in Texts, NEW u \in Texts
    PROVE  (s \o t) \o u = s \o (t \o u)
BY ConcatAssociative DEF Texts

LEMMA JoinedNone ==
    ASSUME NEW s \in Texts
    PROVE  s \o <<>> = s /\ <<>> \o s = s
BY ConcatEmptySeq DEF Texts

(* What a text is from a position on, when it is continued.                *)
LEMMA BehindMore ==
    ASSUME NEW t \in Texts, NEW u \in Texts, NEW k \in 0..Len(t)
    PROVE  SubSeq(t \o u, k + 1, Len(t \o u)) = SubSeq(t, k + 1, Len(t)) \o u
<1>1. /\ t \o u \in Texts /\ Len(t \o u) = Len(t) + Len(u)
      /\ \A i \in 1..Len(t) : (t \o u)[i] = t[i]
      /\ \A i \in 1..Len(u) : (t \o u)[Len(t) + i] = u[i]
      /\ Len(t) \in Nat /\ Len(u) \in Nat
  BY JoinedText, TextParts
<1> DEFINE v == t \o u
           a == SubSeq(v, k + 1, Len(v))
           b == SubSeq(t, k + 1, Len(t))
<1> HIDE DEF v
<1>2. /\ v \in Texts /\ Len(v) = Len(t) + Len(u)
      /\ \A i \in 1..Len(t) : v[i] = t[i]
      /\ \A i \in 1..Len(u) : v[Len(t) + i] = u[i]
  BY <1>1 DEF v
<1>3. /\ k + 1 \in Nat \ {0} /\ Len(v) \in Int /\ Len(v) <= Len(v)
      /\ Len(t) \in Int /\ Len(t) <= Len(t)
  BY <1>1, <1>2
<1>4. /\ a \in Texts /\ Len(a) = IF k + 1 <= Len(v) THEN Len(v) - (k + 1) + 1 ELSE 0
      /\ \A i \in 1..(Len(v) - (k + 1) + 1) : a[i] = v[k + 1 + i - 1]
  BY <1>2, <1>3, PartOf
<1>5. /\ b \in Texts /\ Len(b) = IF k + 1 <= Len(t) THEN Len(t) - (k + 1) + 1 ELSE 0
      /\ \A i \in 1..(Len(t) - (k + 1) + 1) : b[i] = t[k + 1 + i - 1]
  BY <1>3, PartOf
<1> HIDE DEF a, b
<1>6. Len(a) = Len(v) - k /\ \A i \in 1..(Len(v) - k) : a[i] = v[k + i]
  <2>1. Len(v) - (k + 1) + 1 = Len(v) - k /\ \A i \in 1..(Len(v) - k) : k + 1 + i - 1 = k + i
    BY <1>1, <1>2
  <2> QED
    BY <1>1, <1>2, <1>4, <2>1
<1>7. Len(b) = Len(t) - k /\ \A i \in 1..(Len(t) - k) : b[i] = t[k + i]
  <2>1. Len(t) - (k + 1) + 1 = Len(t) - k /\ \A i \in 1..(Len(t) - k) : k + 1 + i - 1 = k + i
    BY <1>1
  <2>2. Len(b) = Len(t) - k
    BY <1>1, <1>5
  <2>3. \A i \in 1..(Len(t) - k) : b[i] = t[k + 1 + i - 1]
    BY <1>5, <2>1
  <2> QED
    BY <2>1, <2>2, <2>3
<1>8. /\ b \o u \in Texts /\ Len(b \o u) = Len(b) + Len(u)
      /\ \A i \in 1..Len(b) : (b \o u)[i] = b[i]
      /\ \A i \in 1..Len(u) : (b \o u)[Len(b) + i] = u[i]
  BY <1>5, JoinedText
<1> DEFINE w == b \o u
<1> HIDE DEF w
<1>9. Len(a) = Len(w)
  BY <1>1, <1>2, <1>6, <1>7, <1>8 DEF w
<1>10. ASSUME NEW i \in 1..Len(a)
       PROVE  a[i] = w[i]
  <2>1. CASE i <= Len(b)
    <3>1. i \in 1..Len(b) /\ k + i \in 1..Len(t)
      BY <1>1, <1>7, <2>1
    <3> QED
      BY <1>2, <1>6, <1>7, <1>8, <3>1 DEF w
  <2>2. CASE i > Len(b)
    <3>1. /\ i - Len(b) \in 1..Len(u) /\ Len(b) + (i - Len(b)) = i
          /\ Len(t) + (i - Len(b)) = k + i
      BY <1>1, <1>2, <1>6, <1>7, <2>2
    <3> QED
      BY <1>2, <1>6, <1>8, <3>1 DEF w
  <2> QED
    BY <2>1, <2>2, <1>1, <1>7
<1>11. a = w
  BY <1>4, <1>8, <1>9, <1>10, SameText DEF w
<1> QED
  BY <1>11 DEF a, b, w, v

-----------------------------------------------------------------------------
(* Space                                                                   *)

(* The first k symbols of a text are space, and the next, if any, is not.  *)
Spaces(t, k) ==
    /\ k \in 0..Len(t)
    /\ \A i \in 1..k : t[i] = " "
    /\ k < Len(t) => t[k + 1] # " "

(* What of a text comes behind its first k symbols.                        *)
Behind(t, k) == SubSeq(t, k + 1, Len(t))

LEMMA BehindType ==
    ASSUME NEW t \in Texts, NEW k \in 0..Len(t)
    PROVE  /\ Behind(t, k) \in Texts /\ Len(Behind(t, k)) = Len(t) - k
           /\ \A i \in 1..(Len(t) - k) : Behind(t, k)[i] = t[k + i]
<1>1. /\ Len(t) \in Nat /\ k + 1 \in Nat \ {0} /\ Len(t) \in Int /\ Len(t) <= Len(t)
  BY TextParts
<1>2. /\ Behind(t, k) \in Texts
      /\ Len(Behind(t, k)) = IF k + 1 <= Len(t) THEN Len(t) - (k + 1) + 1 ELSE 0
      /\ \A i \in 1..(Len(t) - (k + 1) + 1) : Behind(t, k)[i] = t[k + 1 + i - 1]
  BY <1>1, PartOf DEF Behind
<1>3. Len(t) - (k + 1) + 1 = Len(t) - k /\ \A i \in 1..(Len(t) - k) : k + 1 + i - 1 = k + i
  BY <1>1
<1>4. Len(Behind(t, k)) = Len(t) - k
  BY <1>1, <1>2
<1>5. \A i \in 1..(Len(t) - k) : Behind(t, k)[i] = t[k + 1 + i - 1]
  BY <1>2, <1>3
<1> QED
  BY <1>2, <1>3, <1>4, <1>5

LEMMA NothingBehind ==
    ASSUME NEW t \in Texts
    PROVE  Behind(t, 0) = t /\ Behind(t, Len(t)) = <<>>
<1>1. Len(t) \in Nat
  BY TextParts
<1>2. Behind(t, 0) = t
  BY SubSeqFull DEF Behind, Texts
<1>3. Behind(t, Len(t)) \in Texts /\ Len(Behind(t, Len(t))) = 0
  BY <1>1, BehindType
<1>4. Behind(t, Len(t)) = <<>>
  BY <1>3, TextParts
<1> QED
  BY <1>2, <1>4

(* LStrip drops just the space a text begins with.                         *)
LEMMA StripsSpaces ==
    ASSUME NEW t \in Texts
    PROVE  \E k \in 0..Len(t) : Spaces(t, k) /\ LStrip(t) = Behind(t, k)
<1>0. Solid(t) \subseteq DOMAIN t
  BY Zenon DEF Solid
<1>1. /\ Solid(t) \in SUBSET Nat /\ \A i \in Solid(t) : i \in 1..Len(t)
      /\ Len(t) \in Nat /\ DOMAIN t = 1..Len(t)
  BY <1>0, TextParts
<1>2. LStrip(t) = IF Solid(t) = {} THEN <<>> ELSE SubSeq(t, Min(Solid(t)), Len(t))
  BY Zenon DEF LStrip, Solid
<1>3. \A i \in 1..Len(t) : i \in Solid(t) <=> t[i] # " "
  BY <1>1, Zenon DEF Solid
<1>4. CASE Solid(t) = {}
  <2>1. Spaces(t, Len(t))
    <3>1. Len(t) \in 0..Len(t) /\ ~ Len(t) < Len(t)
      BY <1>1
    <3>2. \A i \in 1..Len(t) : t[i] = " "
      BY <1>3, <1>4, Zenon
    <3> QED
      BY <3>1, <3>2, Zenon DEF Spaces
  <2>2. LStrip(t) = Behind(t, Len(t))
    BY <1>2, <1>4, NothingBehind
  <2>3. Len(t) \in 0..Len(t)
    BY <1>1
  <2> QED
    BY <2>1, <2>2, <2>3
<1>5. CASE Solid(t) # {}
  <2> DEFINE m == Min(Solid(t))
  <2>1. m \in Solid(t) /\ \A i \in Solid(t) : m <= i
    BY <1>1, <1>5, MinOf
  <2>2. m \in 1..Len(t) /\ m - 1 \in 0..Len(t) /\ m - 1 + 1 = m
    BY <1>1, <2>1
  <2> HIDE DEF m
  <2>3. \A i \in 1..(m - 1) : i \in 1..Len(t) /\ i \notin Solid(t)
    BY <1>1, <2>1, <2>2
  <2>4. \A i \in 1..(m - 1) : t[i] = " "
    BY <1>3, <2>3, Zenon
  <2>5. t[m - 1 + 1] # " "
    BY <1>3, <2>1, <2>2, Zenon
  <2>6. Spaces(t, m - 1)
    BY <2>2, <2>4, <2>5, Zenon DEF Spaces
  <2>7. LStrip(t) = Behind(t, m - 1)
    BY <1>2, <1>5, <2>2 DEF Behind, m
  <2> QED
    BY <2>2, <2>6, <2>7, Zenon
<1> QED
  BY <1>4, <1>5

LEMMA SpacesOnce ==
    ASSUME NEW t \in Texts, NEW k \in Nat, NEW m \in Nat, Spaces(t, k), Spaces(t, m)
    PROVE  k = m
<1>1. Len(t) \in Nat /\ k \in 0..Len(t) /\ m \in 0..Len(t)
  BY TextParts DEF Spaces
<1>2. CASE k < m
  <2>1. k < Len(t) /\ k + 1 \in 1..m
    BY <1>1, <1>2
  <2> QED
    BY <2>1, Zenon DEF Spaces
<1>3. CASE m < k
  <2>1. m < Len(t) /\ m + 1 \in 1..k
    BY <1>1, <1>3
  <2> QED
    BY <2>1, Zenon DEF Spaces
<1> QED
  BY <1>1, <1>2, <1>3

LEMMA StripsBy ==
    ASSUME NEW t \in Texts, NEW k \in Nat, Spaces(t, k)
    PROVE  LStrip(t) = Behind(t, k)
<1>1. PICK m \in 0..Len(t) : Spaces(t, m) /\ LStrip(t) = Behind(t, m)
  BY StripsSpaces
<1>2. m \in Nat
  BY TextParts
<1>3. k = m
  BY <1>1, <1>2, SpacesOnce
<1> QED
  BY <1>1, <1>3

(* What is left of a text begins with no space; what begins with none is   *)
(* all left.                                                               *)
LEMMA StrippedHead ==
    ASSUME NEW t \in Texts
    PROVE  /\ LStrip(t) # <<>> => LStrip(t)[1] # " "
           /\ t # <<>> /\ t[1] # " " => LStrip(t) = t
<1>1. PICK k \in 0..Len(t) : Spaces(t, k) /\ LStrip(t) = Behind(t, k)
  BY StripsSpaces
<1>2. /\ Behind(t, k) \in Texts /\ Len(Behind(t, k)) = Len(t) - k /\ Len(t) \in Nat
      /\ \A i \in 1..(Len(t) - k) : Behind(t, k)[i] = t[k + i]
  BY BehindType, TextParts
<1>3. ASSUME LStrip(t) # <<>>
      PROVE  LStrip(t)[1] # " "
  <2>1. Len(Behind(t, k)) # 0
    BY <1>1, <1>2, <1>3, TextParts
  <2>2. k < Len(t) /\ 1 \in 1..(Len(t) - k)
    BY <1>2, <2>1
  <2>3. t[k + 1] # " " /\ LStrip(t)[1] = t[k + 1]
    BY <1>1, <1>2, <2>2, Zenon DEF Spaces
  <2> QED
    BY <2>3, Zenon
<1>4. ASSUME t # <<>>, t[1] # " "
      PROVE  LStrip(t) = t
  <2>0. Len(t) # 0
    BY <1>4, TextParts, Zenon
  <2>1. 0 < Len(t) /\ 0 \in 0..Len(t) /\ 0 + 1 = 1 /\ 1..0 = {}
    BY <1>2, <2>0
  <2>2. \A i \in 1..0 : t[i] = " "
    BY <2>1, Zenon
  <2>3. Spaces(t, 0)
    BY <1>4, <2>1, <2>2, Zenon DEF Spaces
  <2>4. LStrip(t) = Behind(t, 0)
    BY <2>3, StripsBy
  <2> QED
    BY <2>4, NothingBehind
<1> QED
  BY <1>3, <1>4, Zenon

(* A text and what it is continued by.                                     *)
LEMMA StripMore ==
    ASSUME NEW t \in Texts, NEW u \in Texts
    PROVE  /\ LStrip(t) # <<>> => LStrip(t \o u) = LStrip(t) \o u
           /\ LStrip(t) = <<>> => LStrip(t \o u) = LStrip(u)
<1>1. PICK k \in 0..Len(t) : Spaces(t, k) /\ LStrip(t) = Behind(t, k)
  BY StripsSpaces
<1>2. Len(t) \in Nat /\ Len(u) \in Nat /\ k \in Nat /\ Len(Behind(t, k)) = Len(t) - k
  BY BehindType, TextParts
<1> DEFINE v == t \o u
<1>3. /\ v \in Texts /\ Len(v) = Len(t) + Len(u)
      /\ \A i \in 1..Len(t) : v[i] = t[i]
      /\ \A i \in 1..Len(u) : v[Len(t) + i] = u[i]
  BY JoinedText
<1> HIDE DEF v
<1>4. ASSUME LStrip(t) # <<>>
      PROVE  LStrip(v) = LStrip(t) \o u
  <2>1. k # Len(t)
    BY <1>1, <1>4, NothingBehind
  <2>2. k < Len(t) /\ k \in 0..Len(v) /\ k + 1 \in 1..Len(t) /\ \A i \in 1..k : i \in 1..Len(t)
    BY <1>2, <1>3, <2>1
  <2>3. v[k + 1] = t[k + 1] /\ \A i \in 1..k : v[i] = t[i]
    BY <1>3, <2>2
  <2>4. Spaces(v, k)
    BY <1>1, <2>2, <2>3, Zenon DEF Spaces
  <2>5. LStrip(v) = Behind(v, k)
    BY <1>2, <1>3, <2>4, StripsBy
  <2>6. Behind(v, k) = Behind(t, k) \o u
    BY BehindMore DEF Behind, v
  <2> QED
    BY <1>1, <2>5, <2>6
<1>5. ASSUME LStrip(t) = <<>>
      PROVE  LStrip(v) = LStrip(u)
  <2>1. k = Len(t)
    BY <1>1, <1>2, <1>5, EmptySeq
  <2>2. PICK m \in 0..Len(u) : Spaces(u, m) /\ LStrip(u) = Behind(u, m)
    BY StripsSpaces
  <2>3. m \in Nat /\ k + m \in Nat /\ k + m \in 0..Len(v)
    BY <1>2, <1>3, <2>1
  <2>4. \A i \in 1..k : v[i] = " "
    BY <1>1, <1>3, <2>1, Zenon DEF Spaces
  <2>5. \A i \in 1..m : v[Len(t) + i] = " "
    <3>1. \A i \in 1..m : i \in 1..Len(u)
      BY <1>2
    <3> QED
      BY <1>3, <2>2, <3>1, Zenon DEF Spaces
  <2>6. ASSUME NEW i \in 1..(k + m)
        PROVE  v[i] = " "
    <3>1. CASE i <= k
      <4>1. i \in 1..k
        BY <1>2, <3>1
      <4> QED
        BY <2>4, <4>1, Zenon
    <3>2. CASE i > k
      <4>1. i - Len(t) \in 1..m /\ Len(t) + (i - Len(t)) = i
        BY <1>2, <2>1, <3>2
      <4> QED
        BY <2>5, <4>1, Zenon
    <3>3. i <= k \/ i > k
      BY <1>2, <2>3
    <3> QED
      BY <3>1, <3>2, <3>3, Zenon
  <2>7. ASSUME k + m < Len(v)
        PROVE  v[k + m + 1] # " "
    <3>1. m < Len(u) /\ m + 1 \in 1..Len(u) /\ Len(t) + (m + 1) = k + m + 1
      BY <1>2, <1>3, <2>1, <2>7
    <3>2. v[k + m + 1] = u[m + 1]
      BY <1>3, <3>1
    <3>3. u[m + 1] # " "
      BY <2>2, <3>1, Zenon DEF Spaces
    <3> QED
      BY <3>2, <3>3, Zenon
  <2>8. Spaces(v, k + m)
    BY <2>3, <2>6, <2>7, Zenon DEF Spaces
  <2>9. LStrip(v) = Behind(v, k + m)
    BY <1>3, <2>3, <2>8, StripsBy
  <2>10. /\ Behind(v, k + m) \in Texts /\ Len(Behind(v, k + m)) = Len(v) - (k + m)
         /\ \A i \in 1..(Len(v) - (k + m)) : Behind(v, k + m)[i] = v[k + m + i]
    BY <1>3, <2>3, BehindType
  <2>11. /\ Behind(u, m) \in Texts /\ Len(Behind(u, m)) = Len(u) - m
         /\ \A i \in 1..(Len(u) - m) : Behind(u, m)[i] = u[m + i]
    BY BehindType
  <2>12. Len(v) - (k + m) = Len(u) - m
    BY <1>2, <1>3, <2>1, <2>3
  <2>13. ASSUME NEW i \in 1..(Len(u) - m)
         PROVE  v[k + m + i] = u[m + i]
    <3>1. m + i \in 1..Len(u) /\ Len(t) + (m + i) = k + m + i
      BY <1>2, <2>1, <2>3
    <3> QED
      BY <1>3, <3>1
  <2>14. \A i \in 1..(Len(u) - m) : Behind(v, k + m)[i] = Behind(u, m)[i]
    BY <2>10, <2>11, <2>12, <2>13
  <2>15. Behind(v, k + m) = Behind(u, m)
    BY <2>10, <2>11, <2>12, <2>14, SameText
  <2> QED
    BY <2>2, <2>9, <2>15
<1> QED
  BY <1>4, <1>5 DEF v

(* Space dropped early is dropped all the same.                            *)
LEMMA StripTwice ==
    ASSUME NEW t \in Texts, NEW u \in Texts
    PROVE  LStrip(LStrip(t) \o u) = LStrip(t \o u)
<1>1. LStrip(t) \in Texts
  BY StrippedText
<1>2. CASE LStrip(t) = <<>>
  BY <1>2, StripMore, JoinedNone
<1>3. CASE LStrip(t) # <<>>
  <2>1. LStrip(t)[1] # " "
    BY <1>3, StrippedHead, Zenon
  <2>2. LStrip(LStrip(t)) = LStrip(t)
    BY <1>1, <1>3, <2>1, StrippedHead, Zenon
  <2>3. LStrip(LStrip(t) \o u) = LStrip(t) \o u
    BY <1>1, <1>3, <2>2, StripMore
  <2> QED
    BY <1>3, <2>3, StripMore
<1> QED
  BY <1>2, <1>3

LEMMA StripBegins ==
    ASSUME NEW t \in Texts, NEW u \in Texts
    PROVE  IsPrefix(LStrip(t), LStrip(t \o u))
<1>1. LStrip(t) \in Texts /\ LStrip(u) \in Texts
  BY StrippedText
<1>2. CASE LStrip(t) = <<>>
  <2>1. IsPrefix(<<>>, <<>> \o LStrip(u))
    BY <1>1, NothingText, Continued
  <2> QED
    BY <1>1, <1>2, <2>1, StripMore, JoinedNone
<1>3. CASE LStrip(t) # <<>>
  BY <1>1, <1>3, StripMore, Continued
<1> QED
  BY <1>2, <1>3

-----------------------------------------------------------------------------
(* Tags in a text that goes on                                             *)

LEMMA TagsAt ==
    ASSUME NEW t \in Texts
    PROVE  /\ TagsAtStart(t) \subseteq DOMAIN OpenTags
           /\ \A i \in DOMAIN OpenTags : i \in TagsAtStart(t) <=>
                  /\ Len(OpenTags[i]) <= Len(t)
                  /\ \A j \in 1..Len(OpenTags[i]) : OpenTags[i][j] = t[j]
<1>1. \A i \in DOMAIN OpenTags : OpenTags[i] \in Texts
  BY TagParts
<1>2. \A i \in DOMAIN OpenTags : i \in TagsAtStart(t) <=> IsPrefix(OpenTags[i], t)
  BY DEF TagsAtStart
<1> QED
  BY <1>1, <1>2, Beginning DEF TagsAtStart

(* One tag at most is at the start of a text, and stays there.             *)
LEMMA OneTag ==
    ASSUME NEW t \in Texts, NEW i \in TagsAtStart(t), NEW j \in TagsAtStart(t)
    PROVE  i = j
<1>1. /\ i \in DOMAIN OpenTags /\ j \in DOMAIN OpenTags
      /\ OpenTags[i] \in Texts /\ OpenTags[j] \in Texts
      /\ Len(OpenTags[i]) \in Nat /\ Len(OpenTags[j]) \in Nat
  BY TagsAt, TagParts
<1>2. /\ Len(OpenTags[i]) <= Len(t) /\ Len(OpenTags[j]) <= Len(t)
      /\ \A k \in 1..Len(OpenTags[i]) : OpenTags[i][k] = t[k]
      /\ \A k \in 1..Len(OpenTags[j]) : OpenTags[j][k] = t[k]
  BY <1>1, TagsAt
<1>3. i # j => ~IsPrefix(OpenTags[i], OpenTags[j]) /\ ~IsPrefix(OpenTags[j], OpenTags[i])
  BY <1>1, TagsAssumption, Zenon
<1>4. CASE Len(OpenTags[i]) <= Len(OpenTags[j])
  <2>1. \A k \in 1..Len(OpenTags[i]) : OpenTags[i][k] = OpenTags[j][k]
    BY <1>1, <1>2, <1>4
  <2>2. IsPrefix(OpenTags[i], OpenTags[j])
    BY <1>1, <1>4, <2>1, Beginning
  <2> QED
    BY <1>3, <2>2
<1>5. CASE Len(OpenTags[j]) <= Len(OpenTags[i])
  <2>1. \A k \in 1..Len(OpenTags[j]) : OpenTags[j][k] = OpenTags[i][k]
    BY <1>1, <1>2, <1>5
  <2>2. IsPrefix(OpenTags[j], OpenTags[i])
    BY <1>1, <1>5, <2>1, Beginning
  <2> QED
    BY <1>3, <2>2
<1> QED
  BY <1>1, <1>4, <1>5

LEMMA TagStays ==
    ASSUME NEW t \in Texts, NEW u \in Texts, TagsAtStart(t) # {}
    PROVE  TagsAtStart(t \o u) # {} /\ TagAtStart(t \o u) = TagAtStart(t)
<1>1. PICK i \in TagsAtStart(t) : TRUE
  OBVIOUS
<1> DEFINE v == t \o u
<1>2. /\ v \in Texts /\ Len(v) = Len(t) + Len(u) /\ Len(t) \in Nat /\ Len(u) \in Nat
      /\ \A k \in 1..Len(t) : v[k] = t[k]
  BY JoinedText, TextParts
<1> HIDE DEF v
<1>3. /\ i \in DOMAIN OpenTags /\ Len(OpenTags[i]) \in Nat /\ Len(OpenTags[i]) <= Len(t)
      /\ \A k \in 1..Len(OpenTags[i]) : OpenTags[i][k] = t[k]
  BY TagsAt, TagParts
<1>4. Len(OpenTags[i]) <= Len(v) /\ \A k \in 1..Len(OpenTags[i]) : OpenTags[i][k] = v[k]
  BY <1>2, <1>3
<1>5. i \in TagsAtStart(v)
  BY <1>2, <1>3, <1>4, TagsAt
<1>6. Min(TagsAtStart(v)) \in TagsAtStart(v) /\ Min(TagsAtStart(t)) \in TagsAtStart(t)
  BY <1>2, <1>5, TagFound
<1>7. Min(TagsAtStart(v)) = i /\ Min(TagsAtStart(t)) = i
  BY <1>2, <1>5, <1>6, OneTag
<1> QED
  BY <1>5, <1>7 DEF TagAtStart, v

(* A text that no tag can start with stays one.                            *)
LEMMA NoTagStays ==
    ASSUME NEW t \in Texts, NEW u \in Texts,
           TagsAtStart(t) = {}, ~CouldBeTagPrefix(t)
    PROVE  TagsAtStart(t \o u) = {} /\ ~CouldBeTagPrefix(t \o u) /\ t # <<>>
<1> DEFINE v == t \o u
<1>1. /\ v \in Texts /\ Len(v) = Len(t) + Len(u) /\ Len(t) \in Nat /\ Len(u) \in Nat
      /\ \A k \in 1..Len(t) : v[k] = t[k]
  BY JoinedText, TextParts
<1> HIDE DEF v
<1>2. \A i \in DOMAIN OpenTags : OpenTags[i] \in Texts /\ Len(OpenTags[i]) \in Nat
  BY TagParts
<1>3. \A i \in DOMAIN OpenTags : ~IsPrefix(t, OpenTags[i])
  BY DEF CouldBeTagPrefix
<1>4. ASSUME NEW i \in TagsAtStart(v)
      PROVE  FALSE
  <2>1. /\ i \in DOMAIN OpenTags /\ Len(OpenTags[i]) <= Len(v)
        /\ \A k \in 1..Len(OpenTags[i]) : OpenTags[i][k] = v[k]
    BY <1>1, TagsAt
  <2>2. CASE Len(OpenTags[i]) <= Len(t)
    <3>1. \A k \in 1..Len(OpenTags[i]) : OpenTags[i][k] = t[k]
      BY <1>1, <1>2, <2>1, <2>2
    <3>2. i \in TagsAtStart(t)
      BY <2>1, <2>2, <3>1, TagsAt
    <3> QED
      BY <3>2
  <2>3. CASE Len(t) <= Len(OpenTags[i])
    <3>1. \A k \in 1..Len(t) : t[k] = OpenTags[i][k]
      BY <1>1, <1>2, <2>1, <2>3
    <3> QED
      BY <1>2, <1>3, <2>1, <2>3, <3>1, Beginning
  <2> QED
    BY <1>1, <1>2, <2>1, <2>2, <2>3
<1>5. ASSUME NEW i \in DOMAIN OpenTags, IsPrefix(v, OpenTags[i])
      PROVE  FALSE
  <2>1. Len(v) <= Len(OpenTags[i]) /\ \A k \in 1..Len(v) : v[k] = OpenTags[i][k]
    BY <1>1, <1>2, <1>5, Beginning
  <2>2. Len(t) <= Len(OpenTags[i]) /\ \A k \in 1..Len(t) : t[k] = OpenTags[i][k]
    BY <1>1, <1>2, <2>1
  <2> QED
    BY <1>2, <1>3, <2>2, Beginning
<1>6. t # <<>>
  <2> SUFFICES ASSUME t = <<>> PROVE FALSE
    OBVIOUS
  <2>1. 1 \in DOMAIN OpenTags
    BY TagsListed
  <2>2. Len(t) = 0
    BY EmptySeq
  <2>3. Len(t) <= Len(OpenTags[1]) /\ \A k \in 1..Len(t) : t[k] = OpenTags[1][k]
    BY <1>2, <2>1, <2>2
  <2> QED
    BY <1>2, <1>3, <2>1, <2>3, Beginning
<1> QED
  BY <1>4, <1>5, <1>6 DEF CouldBeTagPrefix, v

(* No tag is at the start of nothing, and any may come.                    *)
LEMMA NoTagYet == TagsAtStart(<<>>) = {} /\ CouldBeTagPrefix(<<>>)
<1>1. <<>> \in Texts /\ Len(<<>>) = 0
  BY NothingText, EmptySeq
<1>2. \A i \in DOMAIN OpenTags : OpenTags[i] \in Texts /\ Len(OpenTags[i]) \in Nat \ {0}
  BY TagParts
<1>3. TagsAtStart(<<>>) = {}
  BY <1>1, <1>2, TagsAt
<1>4. 1 \in DOMAIN OpenTags
  BY TagsListed
<1>5. Len(<<>>) <= Len(OpenTags[1]) /\ \A k \in 1..Len(<<>>) : <<>>[k] = OpenTags[1][k]
  BY <1>1, <1>2, <1>4
<1>6. IsPrefix(<<>>, OpenTags[1])
  BY <1>1, <1>2, <1>4, <1>5, Beginning
<1> QED
  BY <1>3, <1>4, <1>6 DEF CouldBeTagPrefix

-----------------------------------------------------------------------------
(* Where a pattern occurs                                                  *)

LEMMA OccursAt ==
    ASSUME NEW t \in Texts, NEW pattern \in Texts, pattern # <<>>, NEW p \in Nat
    PROVE  p \in Occurrences(pattern, t) <=>
               /\ 1 <= p /\ p + Len(pattern) - 1 <= Len(t)
               /\ \A i \in 1..Len(pattern) : t[p + i - 1] = pattern[i]
<1>1. Len(t) \in Nat /\ DOMAIN t = 1..Len(t) /\ Len(pattern) \in Nat \ {0}
  BY TextParts
<1>2. p \in Occurrences(pattern, t) <=> p \in 1..Len(t) /\ IsPrefix(pattern, SubSeq(t, p, Len(t)))
  BY <1>1 DEF Occurrences
<1>3. CASE p \in 1..Len(t)
  <2> DEFINE a == SubSeq(t, p, Len(t))
  <2>1. /\ a \in Texts /\ Len(a) = Len(t) - p + 1
        /\ \A i \in 1..(Len(t) - p + 1) : a[i] = t[p + i - 1]
    <3>1. p \in Nat \ {0} /\ Len(t) \in Int /\ Len(t) <= Len(t) /\ p <= Len(t)
      BY <1>1, <1>3
    <3>2. /\ a \in Texts /\ Len(a) = IF p <= Len(t) THEN Len(t) - p + 1 ELSE 0
          /\ \A i \in 1..(Len(t) - p + 1) : a[i] = t[p + i - 1]
      BY <3>1, PartOf
    <3> HIDE DEF a
    <3> QED
      BY <3>1, <3>2
  <2> HIDE DEF a
  <2>2. IsPrefix(pattern, a) <=>
            Len(pattern) <= Len(a) /\ \A i \in 1..Len(pattern) : pattern[i] = a[i]
    BY <2>1, Beginning
  <2>3. Len(pattern) <= Len(a) <=> p + Len(pattern) - 1 <= Len(t)
    BY <1>1, <1>3, <2>1
  <2>4. Len(pattern) <= Len(a) => \A i \in 1..Len(pattern) : a[i] = t[p + i - 1]
    BY <1>1, <1>3, <2>1
  <2>5. IsPrefix(pattern, a) <=>
            /\ p + Len(pattern) - 1 <= Len(t)
            /\ \A i \in 1..Len(pattern) : t[p + i - 1] = pattern[i]
    BY <2>2, <2>3, <2>4
  <2> QED
    BY <1>1, <1>2, <1>3, <2>5 DEF a
<1>4. CASE p \notin 1..Len(t)
  <2>1. p < 1 \/ p > Len(t)
    BY <1>1, <1>4
  <2>2. ~ (1 <= p /\ p + Len(pattern) - 1 <= Len(t))
    BY <1>1, <2>1
  <2> QED
    BY <1>2, <1>4, <2>2
<1> QED
  BY <1>3, <1>4

(* In a text that goes on a pattern still occurs where it did; and where   *)
(* there was room for it, it does not occur anew.                          *)
LEMMA OccursMore ==
    ASSUME NEW t \in Texts, NEW u \in Texts, NEW pattern \in Texts, pattern # <<>>, NEW p \in Nat
    PROVE  /\ p \in Occurrences(pattern, t) => p \in Occurrences(pattern, t \o u)
           /\ p \in Occurrences(pattern, t \o u) /\ p + Len(pattern) - 1 <= Len(t)
                  => p \in Occurrences(pattern, t)
<1> DEFINE v == t \o u
<1>1. /\ v \in Texts /\ Len(v) = Len(t) + Len(u) /\ Len(t) \in Nat /\ Len(u) \in Nat
      /\ Len(pattern) \in Nat /\ \A i \in 1..Len(t) : v[i] = t[i]
  BY JoinedText, TextParts
<1> HIDE DEF v
<1>2. 1 <= p /\ p + Len(pattern) - 1 <= Len(t) =>
          \A i \in 1..Len(pattern) : v[p + i - 1] = t[p + i - 1]
  <2> SUFFICES ASSUME 1 <= p, p + Len(pattern) - 1 <= Len(t), NEW i \in 1..Len(pattern)
               PROVE  v[p + i - 1] = t[p + i - 1]
    OBVIOUS
  <2>1. p + i - 1 \in 1..Len(t)
    BY <1>1
  <2> QED
    BY <1>1, <2>1
<1>3. /\ p \in Occurrences(pattern, t) <=>
             /\ 1 <= p /\ p + Len(pattern) - 1 <= Len(t)
             /\ \A i \in 1..Len(pattern) : t[p + i - 1] = pattern[i]
      /\ p \in Occurrences(pattern, v) <=>
             /\ 1 <= p /\ p + Len(pattern) - 1 <= Len(v)
             /\ \A i \in 1..Len(pattern) : v[p + i - 1] = pattern[i]
  BY <1>1, OccursAt
<1>4. p + Len(pattern) - 1 <= Len(t) => p + Len(pattern) - 1 <= Len(v)
  BY <1>1
<1>5. p \in Occurrences(pattern, t) => p \in Occurrences(pattern, v)
  <2> HAVE p \in Occurrences(pattern, t)
  <2> QED
    BY <1>2, <1>3, <1>4
<1>6. p \in Occurrences(pattern, v) /\ p + Len(pattern) - 1 <= Len(t)
          => p \in Occurrences(pattern, t)
  <2> HAVE p \in Occurrences(pattern, v) /\ p + Len(pattern) - 1 <= Len(t)
  <2> QED
    BY <1>2, <1>3
<1> QED
  BY <1>5, <1>6 DEF v

(* The first occurrence stays the first.                                   *)
LEMMA FirstStays ==
    ASSUME NEW t \in Texts, NEW u \in Texts, NEW pattern \in Texts, pattern # <<>>,
           Occurrences(pattern, t) # {}
    PROVE  /\ Occurrences(pattern, t \o u) # {}
           /\ Min(Occurrences(pattern, t \o u)) = Min(Occurrences(pattern, t))
<1> DEFINE v == t \o u
           m == Min(Occurrences(pattern, t))
           n == Min(Occurrences(pattern, v))
<1>1. v \in Texts /\ Len(t) \in Nat /\ Len(pattern) \in Nat
  BY JoinedText, TextParts
<1>2. m \in Occurrences(pattern, t) /\ m \in Nat /\ \A p \in Occurrences(pattern, t) : m <= p
  BY OccurrencesAt, MinOf
<1>3. m \in Occurrences(pattern, v)
  BY <1>2, OccursMore
<1>4. n \in Occurrences(pattern, v) /\ n \in Nat /\ n <= m
  BY <1>1, <1>3, OccurrencesAt, MinOf
<1>5. m + Len(pattern) - 1 <= Len(t)
  BY <1>2, OccursAt
<1> HIDE DEF m, n
<1>6. n + Len(pattern) - 1 <= Len(t)
  BY <1>1, <1>2, <1>4, <1>5
<1>7. n \in Occurrences(pattern, t)
  BY <1>4, <1>6, OccursMore DEF v
<1>8. m = n
  BY <1>2, <1>4, <1>7
<1> QED
  BY <1>3, <1>8 DEF m, n, v

(* A pattern that does not begin in the first of two texts occurs in both  *)
(* where it occurs in the second.                                          *)
LEMMA OccursLater ==
    ASSUME NEW s \in Texts, NEW b \in Texts, NEW pattern \in Texts, pattern # <<>>,
           \A p \in Occurrences(pattern, s \o b) : p > Len(s)
    PROVE  /\ Occurrences(pattern, s \o b) = {} <=> Occurrences(pattern, b) = {}
           /\ Occurrences(pattern, b) # {} =>
                  Min(Occurrences(pattern, s \o b)) = Len(s) + Min(Occurrences(pattern, b))
<1> DEFINE v == s \o b
<1>1. /\ v \in Texts /\ Len(v) = Len(s) + Len(b) /\ Len(s) \in Nat /\ Len(b) \in Nat
      /\ Len(pattern) \in Nat \ {0} /\ \A i \in 1..Len(b) : v[Len(s) + i] = b[i]
  BY JoinedText, TextParts
<1> HIDE DEF v
<1>2. ASSUME NEW p \in Nat
      PROVE  p \in Occurrences(pattern, b) <=> 1 <= p /\ Len(s) + p \in Occurrences(pattern, v)
  <2>0. Len(s) + p \in Nat
    BY <1>1
  <2>1. p \in Occurrences(pattern, b) <=>
            /\ 1 <= p /\ p + Len(pattern) - 1 <= Len(b)
            /\ \A i \in 1..Len(pattern) : b[p + i - 1] = pattern[i]
    BY OccursAt
  <2>2. Len(s) + p \in Occurrences(pattern, v) <=>
            /\ 1 <= Len(s) + p /\ Len(s) + p + Len(pattern) - 1 <= Len(v)
            /\ \A i \in 1..Len(pattern) : v[Len(s) + p + i - 1] = pattern[i]
    BY <1>1, <2>0, OccursAt
  <2>3. Len(s) + p + Len(pattern) - 1 <= Len(v) <=> p + Len(pattern) - 1 <= Len(b)
    BY <1>1
  <2>4. 1 <= p => 1 <= Len(s) + p
    BY <1>1
  <2>5. 1 <= p /\ p + Len(pattern) - 1 <= Len(b) =>
            \A i \in 1..Len(pattern) : v[Len(s) + p + i - 1] = b[p + i - 1]
    <3> SUFFICES ASSUME 1 <= p, p + Len(pattern) - 1 <= Len(b), NEW i \in 1..Len(pattern)
                 PROVE  v[Len(s) + p + i - 1] = b[p + i - 1]
      OBVIOUS
    <3>1. p + i - 1 \in 1..Len(b) /\ Len(s) + (p + i - 1) = Len(s) + p + i - 1
      BY <1>1
    <3> QED
      BY <1>1, <3>1
  <2>6. ASSUME p \in Occurrences(pattern, b)
        PROVE  1 <= p /\ Len(s) + p \in Occurrences(pattern, v)
    BY <2>1, <2>2, <2>3, <2>4, <2>5, <2>6
  <2>7. ASSUME 1 <= p, Len(s) + p \in Occurrences(pattern, v)
        PROVE  p \in Occurrences(pattern, b)
    BY <2>1, <2>2, <2>3, <2>5, <2>7
  <2> QED
    BY <2>6, <2>7
<1>3. /\ Occurrences(pattern, b) \in SUBSET Nat /\ Occurrences(pattern, v) \in SUBSET Nat
      /\ \A p \in Occurrences(pattern, b) : 1 <= p
  BY <1>1, OccurrencesAt
<1>4. ASSUME NEW p \in Occurrences(pattern, v)
      PROVE  p - Len(s) \in Occurrences(pattern, b)
  <2>1. p - Len(s) \in Nat /\ 1 <= p - Len(s) /\ Len(s) + (p - Len(s)) = p
    BY <1>1, <1>3 DEF v
  <2> QED
    BY <1>2, <1>4, <2>1
<1>5. \A p \in Occurrences(pattern, b) : Len(s) + p \in Occurrences(pattern, v)
  BY <1>2, <1>3
<1>6. ASSUME Occurrences(pattern, b) # {}
      PROVE  Min(Occurrences(pattern, v)) = Len(s) + Min(Occurrences(pattern, b))
  <2> DEFINE m == Min(Occurrences(pattern, b))
             n == Min(Occurrences(pattern, v))
  <2>1. m \in Occurrences(pattern, b) /\ \A p \in Occurrences(pattern, b) : m <= p
    BY <1>3, <1>6, MinOf
  <2>2. n \in Occurrences(pattern, v) /\ \A p \in Occurrences(pattern, v) : n <= p
    BY <1>3, <1>5, <2>1, MinOf
  <2> HIDE DEF m, n
  <2>3. Len(s) + m \in Occurrences(pattern, v) /\ n - Len(s) \in Occurrences(pattern, b)
    BY <1>4, <1>5, <2>1, <2>2
  <2>4. n <= Len(s) + m /\ m <= n - Len(s) /\ m \in Nat /\ n \in Nat
    BY <1>3, <2>1, <2>2, <2>3
  <2>5. n = Len(s) + m
    BY <1>1, <2>4
  <2> QED
    BY <2>5 DEF m, n
<1>7. Occurrences(pattern, v) = {} <=> Occurrences(pattern, b) = {}
  BY <1>4, <1>5
<1> QED
  BY <1>6, <1>7 DEF v

-----------------------------------------------------------------------------
(* What a text that goes on is split into                                  *)

LEMMA OpensMore ==
    ASSUME NEW t \in Texts, NEW u \in Texts, Opens(t)
    PROVE  /\ OpeningTag(t) \in Texts /\ OpeningTag(t) # <<>> /\ Body(t) \in Texts
           /\ Opens(t \o u) /\ OpeningTag(t \o u) = OpeningTag(t)
           /\ Body(t \o u) = Body(t) \o u
<1> DEFINE v == t \o u
           s == LStrip(t)
           tag == TagAtStart(s)
<1>1. v \in Texts /\ s \in Texts /\ Len(s) \in Nat
  BY JoinedText, StrippedText, TextParts
<1>2. TagsAtStart(s) # {}
  BY DEF Opens
<1>3. s # <<>>
  BY <1>2, NoTagYet
<1>4. LStrip(v) = s \o u
  BY <1>3, StripMore
<1>5. TagsAtStart(s \o u) # {} /\ TagAtStart(s \o u) = tag
  BY <1>1, <1>2, TagStays
<1>6. tag \in Texts /\ tag # <<>> /\ IsPrefix(tag, s)
  BY <1>1, <1>2, TagFound
<1> HIDE DEF v, s
<1>7. Len(tag) \in 0..Len(s)
  BY <1>1, <1>6, TextParts, Beginning
<1> HIDE DEF tag
<1>8. SubSeq(s \o u, Len(tag) + 1, Len(s \o u)) = SubSeq(s, Len(tag) + 1, Len(s)) \o u
  BY <1>1, <1>7, BehindMore
<1>9. Behind(s, Len(tag)) \in Texts
  BY <1>1, <1>7, BehindType
<1>10. /\ OpeningTag(t) = tag /\ OpeningTag(v) = tag
       /\ Body(t) = SubSeq(s, Len(tag) + 1, Len(s))
       /\ Body(v) = SubSeq(s \o u, Len(tag) + 1, Len(s \o u))
  BY <1>4, <1>5 DEF OpeningTag, Body, s, tag
<1>11. Opens(v)
  BY <1>4, <1>5 DEF Opens
<1> QED
  BY <1>6, <1>8, <1>9, <1>10, <1>11 DEF Behind, v

LEMMA PlainMore ==
    ASSUME NEW t \in Texts, NEW u \in Texts, ~Opens(t), ~CouldBeTagPrefix(LStrip(t))
    PROVE  ~Opens(t \o u) /\ ~CouldBeTagPrefix(LStrip(t \o u))
<1>1. LStrip(t) \in Texts
  BY StrippedText
<1>2. /\ TagsAtStart(LStrip(t) \o u) = {} /\ ~CouldBeTagPrefix(LStrip(t) \o u)
      /\ LStrip(t) # <<>>
  BY <1>1, NoTagStays DEF Opens
<1> QED
  BY <1>2, StripMore DEF Opens

(* Once a block is closed the thinking is known, and the rest is answer.   *)
LEMMA ClosedMore ==
    ASSUME NEW t \in Texts, NEW u \in Texts, NEW how, Opens(t), Closings(t) # {}
    PROVE  /\ Closings(t \o u) # {} /\ Shown(how, t \o u) = Shown(how, t)
           /\ AnswerOf(t) \in Texts /\ AnswerOf(t \o u) = AnswerOf(t) \o u
<1> DEFINE v == t \o u
           close == CloseTag(OpeningTag(t))
           b == Body(t)
           m == Min(Closings(t))
<1>1. /\ OpeningTag(t) \in Texts /\ OpeningTag(t) # <<>> /\ b \in Texts /\ Len(b) \in Nat
      /\ Opens(v) /\ OpeningTag(v) = OpeningTag(t) /\ Body(v) = b \o u /\ v \in Texts
  BY OpensMore, TextParts, JoinedText
<1>2. close \in Texts /\ close # <<>> /\ Len(close) \in Nat \ {0}
  <2>1. close \in Texts /\ Len(close) = Len(OpeningTag(t)) + 1
    BY <1>1, Closing
  <2>2. Len(OpeningTag(t)) \in Nat
    BY <1>1, TextParts
  <2> QED
    BY <2>1, <2>2, TextParts
<1>3. Closings(t) = Occurrences(close, b) /\ Closings(v) = Occurrences(close, b \o u)
  BY <1>1 DEF Closings
<1> HIDE DEF v, close, b
<1>4. Closings(v) # {} /\ Min(Closings(v)) = m
  BY <1>1, <1>2, <1>3, FirstStays
<1>5. m \in Closings(t) /\ m \in Nat
  BY <1>1, <1>3, OccurrencesAt, MinOf
<1>6. 1 <= m /\ m + Len(close) - 1 <= Len(b)
  BY <1>1, <1>2, <1>3, <1>5, OccursAt
<1> DEFINE k == m + Len(close) - 1
<1>7. k \in 0..Len(b) /\ m + Len(close) = k + 1 /\ m - 1 \in 0..Len(b)
  BY <1>1, <1>2, <1>5, <1>6
<1>8. /\ Len(b \o u) \in Nat /\ Len(b) <= Len(b \o u) /\ b \o u \in Texts
      /\ \A i \in 1..Len(b) : (b \o u)[i] = b[i]
  <2>1. /\ b \o u \in Texts /\ Len(b \o u) = Len(b) + Len(u)
        /\ \A i \in 1..Len(b) : (b \o u)[i] = b[i]
    BY <1>1, JoinedText
  <2>2. Len(u) \in Nat
    BY TextParts
  <2>3. Len(b \o u) \in Nat /\ Len(b) <= Len(b \o u)
    BY <1>1, <2>1, <2>2
  <2> QED
    BY <2>1, <2>3
<1> HIDE DEF k, m
<1>9. SubSeq(b \o u, k + 1, Len(b \o u)) = SubSeq(b, k + 1, Len(b)) \o u
  BY <1>1, <1>7, BehindMore
<1>10. SubSeq(b, k + 1, Len(b)) \in Texts
  BY <1>1, <1>7, BehindType DEF Behind
<1>11. SubSeq(b \o u, 1, m - 1) = SubSeq(b, 1, m - 1)
  <2> DEFINE x == b \o u
             n == m - 1
  <2>0. n \in 0..Len(b)
    BY <1>7
  <2> HIDE DEF x, n
  <2>1. /\ x \in Texts /\ n \in Int /\ n <= Len(x) /\ n <= Len(b) /\ 1 \in Nat \ {0}
        /\ \A i \in 1..n : x[i] = b[i]
    BY <1>1, <1>8, <2>0 DEF x
  <2>2. /\ SubSeq(x, 1, n) \in Texts
        /\ Len(SubSeq(x, 1, n)) = IF 1 <= n THEN n - 1 + 1 ELSE 0
        /\ \A i \in 1..(n - 1 + 1) : SubSeq(x, 1, n)[i] = x[1 + i - 1]
    BY <2>1, PartOf
  <2>3. /\ SubSeq(b, 1, n) \in Texts
        /\ Len(SubSeq(b, 1, n)) = IF 1 <= n THEN n - 1 + 1 ELSE 0
        /\ \A i \in 1..(n - 1 + 1) : SubSeq(b, 1, n)[i] = b[1 + i - 1]
    BY <1>1, <2>1, PartOf
  <2>4. n - 1 + 1 = n /\ \A i \in 1..n : 1 + i - 1 = i
    BY <2>1
  <2>5. \A i \in 1..n : SubSeq(x, 1, n)[i] = SubSeq(b, 1, n)[i]
    BY <2>1, <2>2, <2>3, <2>4
  <2>6. Len(SubSeq(b, 1, n)) = Len(SubSeq(x, 1, n)) /\ Len(SubSeq(x, 1, n)) = n
    BY <1>1, <2>0, <2>1, <2>2, <2>3
  <2>7. SubSeq(x, 1, n) = SubSeq(b, 1, n)
    BY <2>2, <2>3, <2>5, <2>6, SameText
  <2> QED
    BY <2>7 DEF x, n
<1>12. ThoughtOf(v) = SubSeq(b \o u, 1, m - 1) /\ ThoughtOf(t) = SubSeq(b, 1, m - 1)
  BY <1>1, <1>4 DEF ThoughtOf, b, m
<1>13. ThoughtOf(v) = ThoughtOf(t)
  BY <1>11, <1>12
<1>14. Shown(how, v) = Shown(how, t)
  BY <1>1, <1>13, Zenon DEF Shown, Tagged
<1>15. /\ AnswerOf(v) = SubSeq(b \o u, k + 1, Len(b \o u))
       /\ AnswerOf(t) = SubSeq(b, k + 1, Len(b))
  <2>1. /\ AnswerOf(v) = SubSeq(b \o u, m + Len(close), Len(b \o u))
        /\ AnswerOf(t) = SubSeq(b, m + Len(close), Len(b))
    BY <1>1, <1>4 DEF AnswerOf, b, m, close
  <2> QED
    BY <1>7, <2>1
<1> QED
  BY <1>4, <1>9, <1>10, <1>14, <1>15 DEF v

(* While a block is open, s of its body has been shown and b is held back. *)
(* What comes closes it after s, and if anything has been shown, not right *)
(* after it.                                                               *)
LEMMA ClosesLater ==
    ASSUME NEW s \in Texts, NEW b \in Texts, NEW u \in Texts, NEW pattern \in Texts,
           pattern # <<>>, Occurrences(pattern, s \o b) = {},
           s # <<>> => Len(pattern) <= Len(b),
           NEW p \in Occurrences(pattern, s \o (b \o u))
    PROVE  p \in Nat /\ p > Len(s) /\ (s # <<>> => p > Len(s) + 1)
<1>1. /\ Len(s) \in Nat /\ Len(b) \in Nat /\ Len(pattern) \in Nat \ {0}
      /\ s \o b \in Texts /\ Len(s \o b) = Len(s) + Len(b)
      /\ s = <<>> <=> Len(s) = 0
  BY JoinedText, TextParts
<1>2. (s \o b) \o u = s \o (b \o u)
  BY JoinedThree
<1>3. (s \o b) \o u \in Texts
  BY <1>1, JoinedText
<1>4. p \in Occurrences(pattern, (s \o b) \o u)
  BY <1>2
<1>5. p \in Nat
  BY <1>3, <1>4, OccurrencesAt
<1>6. p \in Occurrences(pattern, (s \o b) \o u) /\ p + Len(pattern) - 1 <= Len(s \o b)
          => p \in Occurrences(pattern, s \o b)
  BY <1>1, <1>5, OccursMore
<1>7. ~ p + Len(pattern) - 1 <= Len(s \o b)
  BY <1>4, <1>6
<1>8. 1 <= p
  BY <1>3, <1>4, <1>5, OccursAt
<1>9. CASE s = <<>>
  BY <1>1, <1>5, <1>8, <1>9
<1>10. CASE s # <<>>
  <2>1. p + Len(pattern) - 1 > Len(s) + Len(b) /\ Len(pattern) <= Len(b)
    BY <1>1, <1>5, <1>7, <1>10
  <2> QED
    BY <1>1, <1>5, <2>1
<1> QED
  BY <1>9, <1>10

(* What is shown of s, the beginning of a block's thinking, before and     *)
(* after the block has ended.                                              *)
Told(how, tag, s) ==
    IF s = <<>> \/ how = "remove" THEN <<>>
    ELSE IF how = "pass" THEN tag \o s
    ELSE s

ToldAll(how, tag, s) ==
    IF s = <<>> \/ how = "remove" THEN <<>>
    ELSE IF how = "pass" THEN tag \o s \o CloseTag(tag)
    ELSE s

LEMMA ShownAll ==
    ASSUME NEW t, NEW how
    PROVE  Shown(how, t) = ToldAll(how, OpeningTag(t), ThoughtOf(t))
BY DEF Shown, Tagged, ToldAll

LEMMA Nonempty ==
    ASSUME NEW s \in Texts, NEW x \in Texts
    PROVE  s \o x \in Texts /\ (s \o x = <<>> <=> s = <<>> /\ x = <<>>)
<1>1. /\ s \o x \in Texts /\ Len(s \o x) = Len(s) + Len(x)
      /\ Len(s) \in Nat /\ Len(x) \in Nat
  BY JoinedText, TextParts
<1>2. /\ s \o x = <<>> <=> Len(s \o x) = 0
      /\ s = <<>> <=> Len(s) = 0
      /\ x = <<>> <=> Len(x) = 0
  BY <1>1, TextParts
<1> QED
  BY <1>1, <1>2

LEMMA ToldBegins ==
    ASSUME NEW how, NEW tag \in Texts, tag # <<>>, NEW s \in Texts, NEW x \in Texts
    PROVE  IsPrefix(Told(how, tag, s), ToldAll(how, tag, s \o x))
<1>1. s \o x \in Texts /\ (s \o x = <<>> <=> s = <<>> /\ x = <<>>)
  BY Nonempty
<1>2. CloseTag(tag) \in Texts
  BY Closing
<1>3. CASE s = <<>> \/ how = "remove"
  <2>1. Told(how, tag, s) = <<>>
    BY <1>3 DEF Told
  <2>2. ToldAll(how, tag, s \o x) \in Texts
    <3>1. tag \o (s \o x) \in Texts
      BY <1>1, JoinedText
    <3>2. tag \o (s \o x) \o CloseTag(tag) \in Texts
      BY <1>2, <3>1, JoinedText
    <3> QED
      BY <1>1, <3>2, NothingText DEF ToldAll
  <2> HIDE DEF ToldAll
  <2>3. IsPrefix(<<>>, <<>> \o ToldAll(how, tag, s \o x))
    BY <2>2, NothingText, Continued
  <2> QED
    BY <2>1, <2>2, <2>3, JoinedNone
<1>4. CASE s # <<>> /\ how = "pass"
  <2>1. Told(how, tag, s) = tag \o s /\ ToldAll(how, tag, s \o x) = tag \o (s \o x) \o CloseTag(tag)
    BY <1>1, <1>4 DEF Told, ToldAll
  <2>2. tag \o s \in Texts /\ x \o CloseTag(tag) \in Texts /\ tag \o (s \o x) \in Texts
    BY <1>1, <1>2, JoinedText
  <2>3. tag \o (s \o x) \o CloseTag(tag) = (tag \o s) \o (x \o CloseTag(tag))
    <3>1. tag \o (s \o x) = (tag \o s) \o x
      BY JoinedThree
    <3>2. ((tag \o s) \o x) \o CloseTag(tag) = (tag \o s) \o (x \o CloseTag(tag))
      <4> DEFINE a == tag \o s
                 z == CloseTag(tag)
      <4>1. a \in Texts /\ z \in Texts
        BY <1>2, <2>2
      <4> HIDE DEF a, z
      <4>2. (a \o x) \o z = a \o (x \o z)
        BY <4>1, JoinedThree
      <4> QED
        BY <4>2 DEF a, z
    <3> QED
      BY <3>1, <3>2
  <2> QED
    BY <2>1, <2>2, <2>3, Continued
<1>5. CASE s # <<>> /\ how # "pass" /\ how # "remove"
  BY <1>1, <1>5, Continued DEF Told, ToldAll
<1> QED
  BY <1>3, <1>4, <1>5

(* What the body of a block is split into, when its closing tag begins     *)
(* after s.                                                                *)
LEMMA BodySplit ==
    ASSUME NEW t \in Texts, Opens(t), NEW s \in Texts, NEW b \in Texts, Body(t) = s \o b,
           \A p \in Closings(t) : p > Len(s)
    PROVE  LET close == CloseTag(OpeningTag(t))
               m == Min(Occurrences(close, b))
           IN /\ Closings(t) = {} <=> Occurrences(close, b) = {}
              /\ Closings(t) = {} => ThoughtOf(t) = s \o b /\ AnswerOf(t) = <<>>
              /\ Closings(t) # {} =>
                     /\ m \in 1..Len(b) /\ m + Len(close) - 1 <= Len(b)
                     /\ Min(Closings(t)) = Len(s) + m
                     /\ ThoughtOf(t) = s \o SubSeq(b, 1, m - 1)
                     /\ AnswerOf(t) = SubSeq(b, m + Len(close), Len(b))
<1> DEFINE close == CloseTag(OpeningTag(t))
           m == Min(Occurrences(close, b))
<1>1. /\ OpeningTag(t) \in Texts /\ OpeningTag(t) # <<>>
      /\ Len(s) \in Nat /\ Len(b) \in Nat
  BY OpensMore, TextParts
<1>2. close \in Texts /\ close # <<>> /\ Len(close) \in Nat \ {0}
  <2>1. close \in Texts /\ Len(close) = Len(OpeningTag(t)) + 1
    BY <1>1, Closing
  <2>2. Len(OpeningTag(t)) \in Nat
    BY <1>1, TextParts
  <2> QED
    BY <2>1, <2>2, TextParts
<1>3. Closings(t) = Occurrences(close, s \o b)
  BY DEF Closings
<1> HIDE DEF close
<1>4. /\ Closings(t) = {} <=> Occurrences(close, b) = {}
      /\ Occurrences(close, b) # {} => Min(Closings(t)) = Len(s) + m
  BY <1>2, <1>3, OccursLater
<1>5. Closings(t) = {} => ThoughtOf(t) = s \o b /\ AnswerOf(t) = <<>>
  BY DEF ThoughtOf, AnswerOf
<1>6. ASSUME Closings(t) # {}
      PROVE  /\ m \in 1..Len(b) /\ m + Len(close) - 1 <= Len(b)
             /\ Min(Closings(t)) = Len(s) + m
             /\ ThoughtOf(t) = s \o SubSeq(b, 1, m - 1)
             /\ AnswerOf(t) = SubSeq(b, m + Len(close), Len(b))
  <2>1. m \in Occurrences(close, b)
    BY <1>4, <1>6, OccurrencesAt, MinOf
  <2>2. m \in 1..Len(b) /\ m \in Nat
    BY <1>1, <2>1, OccurrencesAt
  <2>3. m + Len(close) - 1 <= Len(b)
    BY <1>2, <2>1, <2>2, OccursAt
  <2> DEFINE v == s \o b
             n == Min(Closings(t))
  <2>4. n = Len(s) + m
    BY <1>4, <1>6
  <2>5. ThoughtOf(t) = SubSeq(v, 1, n - 1) /\ AnswerOf(t) = SubSeq(v, n + Len(close), Len(v))
    BY <1>6 DEF ThoughtOf, AnswerOf, close
  <2> HIDE DEF n, m
  <2>6. /\ v \in Texts /\ Len(v) = Len(s) + Len(b)
        /\ \A i \in 1..Len(s) : v[i] = s[i]
        /\ \A i \in 1..Len(b) : v[Len(s) + i] = b[i]
    BY JoinedText
  <2> HIDE DEF v
  <2>7. SubSeq(v, 1, n - 1) = s \o SubSeq(b, 1, m - 1)
    <3> DEFINE k == n - 1
               j == m - 1
               x == SubSeq(v, 1, k)
               y == SubSeq(b, 1, j)
    <3>1. k \in Nat /\ k <= Len(v) /\ k = Len(s) + j /\ j \in Nat /\ j <= Len(b)
      BY <1>1, <2>2, <2>4, <2>6
    <3> HIDE DEF k, j
    <3>2. /\ x \in Texts /\ Len(x) = IF 1 <= k THEN k - 1 + 1 ELSE 0
          /\ \A i \in 1..(k - 1 + 1) : x[i] = v[1 + i - 1]
      <4>1. v \in Texts /\ k \in Int /\ k <= Len(v) /\ 1 \in Nat \ {0}
        BY <2>6, <3>1
      <4> QED
        BY <4>1, PartOf
    <3>3. /\ y \in Texts /\ Len(y) = IF 1 <= j THEN j - 1 + 1 ELSE 0
          /\ \A i \in 1..(j - 1 + 1) : y[i] = b[1 + i - 1]
      BY <3>1, PartOf
    <3> HIDE DEF x, y
    <3>4. Len(x) = k /\ Len(y) = j
      BY <3>1, <3>2, <3>3
    <3>5. \A i \in 1..k : x[i] = v[i]
      <4>1. k - 1 + 1 = k /\ \A i \in 1..k : 1 + i - 1 = i
        BY <3>1
      <4> QED
        BY <3>2, <4>1
    <3>6. \A i \in 1..j : y[i] = b[i]
      <4>1. j - 1 + 1 = j /\ \A i \in 1..j : 1 + i - 1 = i
        BY <3>1
      <4> QED
        BY <3>3, <4>1
    <3>7. /\ s \o y \in Texts /\ Len(s \o y) = Len(s) + Len(y)
          /\ \A i \in 1..Len(s) : (s \o y)[i] = s[i]
          /\ \A i \in 1..Len(y) : (s \o y)[Len(s) + i] = y[i]
      BY <3>3, JoinedText
    <3> DEFINE w == s \o y
    <3> HIDE DEF w
    <3>8. w \in Texts /\ Len(w) = k
      BY <3>1, <3>4, <3>7 DEF w
    <3>9. ASSUME NEW i \in 1..k
          PROVE  x[i] = w[i]
      <4>1. CASE i <= Len(s)
        <5>1. i \in 1..Len(s)
          BY <1>1, <4>1
        <5>2. w[i] = s[i] /\ v[i] = s[i]
          BY <2>6, <3>7, <5>1 DEF w
        <5> QED
          BY <3>5, <5>2
      <4>2. CASE i > Len(s)
        <5>1. i - Len(s) \in 1..j /\ i - Len(s) \in 1..Len(b) /\ Len(s) + (i - Len(s)) = i
          BY <1>1, <3>1, <4>2
        <5>2. w[i] = y[i - Len(s)] /\ v[i] = b[i - Len(s)]
          BY <2>6, <3>4, <3>7, <5>1 DEF w
        <5> QED
          BY <3>5, <3>6, <5>1, <5>2
      <4> QED
        BY <1>1, <3>1, <4>1, <4>2
    <3>10. x = w
      BY <3>2, <3>4, <3>8, <3>9, SameText
    <3> QED
      BY <3>10 DEF x, w, y, k, j
  <2>8. SubSeq(v, n + Len(close), Len(v)) = SubSeq(b, m + Len(close), Len(b))
    <3> DEFINE k == n + Len(close) - 1
               j == m + Len(close) - 1
    <3>1. /\ k \in 0..Len(v) /\ j \in 0..Len(b) /\ k = Len(s) + j
          /\ k + 1 = n + Len(close) /\ j + 1 = m + Len(close)
      BY <1>1, <1>2, <2>2, <2>3, <2>4, <2>6
    <3> HIDE DEF k, j
    <3>2. /\ Behind(v, k) \in Texts /\ Len(Behind(v, k)) = Len(v) - k
          /\ \A i \in 1..(Len(v) - k) : Behind(v, k)[i] = v[k + i]
      BY <2>6, <3>1, BehindType
    <3>3. /\ Behind(b, j) \in Texts /\ Len(Behind(b, j)) = Len(b) - j
          /\ \A i \in 1..(Len(b) - j) : Behind(b, j)[i] = b[j + i]
      BY <3>1, BehindType
    <3>4. Len(v) - k = Len(b) - j
      BY <1>1, <2>6, <3>1
    <3>5. ASSUME NEW i \in 1..(Len(b) - j)
          PROVE  v[k + i] = b[j + i]
      <4>1. j + i \in 1..Len(b) /\ k + i = Len(s) + (j + i)
        BY <1>1, <3>1
      <4> QED
        BY <2>6, <4>1
    <3>6. \A i \in 1..(Len(b) - j) : Behind(v, k)[i] = Behind(b, j)[i]
      BY <3>2, <3>3, <3>4, <3>5
    <3>7. Behind(v, k) = Behind(b, j)
      BY <3>2, <3>3, <3>4, <3>6, SameText
    <3> QED
      BY <3>1, <3>7 DEF Behind
  <2> QED
    BY <2>2, <2>3, <2>4, <2>5, <2>7, <2>8 DEF n, v, m
<1> QED
  BY <1>4, <1>5, <1>6 DEF close

-----------------------------------------------------------------------------
(* What is shown of a step                                                 *)

(* The events of a result say what it is.                                  *)
LEMMA EventTexts ==
    ASSUME NEW how, NEW r \in Results
    PROVE  /\ TextOf("thinking", ContentEvents(how, r)) = ProcessForOutput(how, r)
           /\ TextOf("content", ContentEvents(how, r)) = r.regular
<1> DEFINE thought == ProcessForOutput(how, r)
           a == [type |-> "thinking", text |-> thought]
           b == [type |-> "content", text |-> r.regular]
           events == (IF thought = <<>> THEN <<>> ELSE <<a>>)
                     \o (IF r.regular = <<>> THEN <<>> ELSE <<b>>)
           T(type) == [i \in DOMAIN events |->
                           IF events[i].type = type THEN events[i].text ELSE <<>>]
           k == T("thinking")
           l == T("content")
<1>1. /\ <<>> \in Seq(Symbols) /\ thought \in Seq(Symbols) /\ r.regular \in Seq(Symbols)
      /\ \A x \in Seq(Symbols) : x \o <<>> = x /\ <<>> \o x = x
  BY OutputType, ConcatEmptySeq, EmptySeq DEF Results, Texts
<1>2. ContentEvents(how, r) = events
  BY DEF ContentEvents
<1>3. /\ TextOf("thinking", events) = FlattenSeq(k)
      /\ TextOf("content", events) = FlattenSeq(l)
  BY DEF TextOf
<1>4. CASE thought = <<>> /\ r.regular = <<>>
  <2>1. events = <<>>
    BY <1>4
  <2>2. k = <<>> /\ l = <<>>
    BY <2>1
  <2> QED
    BY <1>2, <1>3, <1>4, <2>2, FlattenedNone
<1> HIDE DEF thought
<1>5. /\ a.type = "thinking" /\ a.text = thought
      /\ b.type = "content" /\ b.text = r.regular
  OBVIOUS
<1>6. CASE thought # <<>> /\ r.regular = <<>>
  <2>1. DOMAIN events = 1..1 /\ events[1] = a
    BY <1>6
  <2> HIDE DEF events, a, b
  <2>2. k = [i \in 1..1 |-> k[i]] /\ k[1] = thought /\ l = [i \in 1..1 |-> l[i]] /\ l[1] = <<>>
    BY <1>5, <2>1
  <2> HIDE DEF k, l
  <2>3. k \in Seq(Seq(Symbols)) /\ Len(k) = 1 /\ l \in Seq(Seq(Symbols)) /\ Len(l) = 1
    <3>1. 1 \in Nat /\ \A i \in 1..1 : i = 1
      OBVIOUS
    <3>2. \A i \in 1..1 : k[i] \in Seq(Symbols) /\ l[i] \in Seq(Symbols)
      BY <1>1, <2>2, <3>1
    <3> QED
      BY <2>2, <3>1, <3>2, IsSequence
  <2>4. FlattenSeq(k) = thought /\ FlattenSeq(l) = <<>>
    BY <2>2, <2>3, FlattenedFew
  <2> QED
    BY <1>2, <1>3, <1>6, <2>4 DEF thought
<1>7. CASE thought = <<>> /\ r.regular # <<>>
  <2>1. DOMAIN events = 1..1 /\ events[1] = b
    BY <1>7
  <2> HIDE DEF events, a, b
  <2>2. /\ k = [i \in 1..1 |-> k[i]] /\ k[1] = <<>>
        /\ l = [i \in 1..1 |-> l[i]] /\ l[1] = r.regular
    BY <1>5, <2>1
  <2> HIDE DEF k, l
  <2>3. k \in Seq(Seq(Symbols)) /\ Len(k) = 1 /\ l \in Seq(Seq(Symbols)) /\ Len(l) = 1
    <3>1. 1 \in Nat /\ \A i \in 1..1 : i = 1
      OBVIOUS
    <3>2. \A i \in 1..1 : k[i] \in Seq(Symbols) /\ l[i] \in Seq(Symbols)
      BY <1>1, <2>2, <3>1
    <3> QED
      BY <2>2, <3>1, <3>2, IsSequence
  <2>4. FlattenSeq(k) = <<>> /\ FlattenSeq(l) = r.regular
    BY <2>2, <2>3, FlattenedFew
  <2> QED
    BY <1>2, <1>3, <1>7, <2>4 DEF thought
<1>8. CASE thought # <<>> /\ r.regular # <<>>
  <2>1. events = <<a>> \o <<b>>
    BY <1>8, Zenon
  <2>2. DOMAIN events = 1..2 /\ events[1] = a /\ events[2] = b
    <3> HIDE DEF a, b, events
    <3>1. <<a>> \in Seq({a, b}) /\ <<b>> \in Seq({a, b}) /\ Len(<<a>>) = 1 /\ Len(<<b>>) = 1
          /\ <<a>>[1] = a /\ <<b>>[1] = b
      OBVIOUS
    <3>2. /\ <<a>> \o <<b>> \in Seq({a, b}) /\ Len(<<a>> \o <<b>>) = 2
          /\ \A i \in 1..2 : (<<a>> \o <<b>>)[i] =
                 IF i <= 1 THEN <<a>>[i] ELSE <<b>>[i - 1]
      BY <3>1, ConcatProperties
    <3>3. DOMAIN (<<a>> \o <<b>>) = 1..2
      BY <3>2, LenProperties
    <3> QED
      BY <2>1, <3>1, <3>2, <3>3
  <2> HIDE DEF events, a, b
  <2>3. /\ k = [i \in 1..2 |-> k[i]] /\ k[1] = thought /\ k[2] = <<>>
        /\ l = [i \in 1..2 |-> l[i]] /\ l[1] = <<>> /\ l[2] = r.regular
    BY <1>5, <2>2
  <2> HIDE DEF k, l
  <2>4. k \in Seq(Seq(Symbols)) /\ Len(k) = 2 /\ l \in Seq(Seq(Symbols)) /\ Len(l) = 2
    <3>1. 2 \in Nat /\ \A i \in 1..2 : i = 1 \/ i = 2
      OBVIOUS
    <3>2. \A i \in 1..2 : k[i] \in Seq(Symbols) /\ l[i] \in Seq(Symbols)
      BY <1>1, <2>3, <3>1
    <3> QED
      BY <2>3, <3>1, <3>2, IsSequence
  <2>5. FlattenSeq(k) = k[1] \o k[2] /\ FlattenSeq(l) = l[1] \o l[2]
    BY <2>4, FlattenedFew
  <2>6. FlattenSeq(k) = thought /\ FlattenSeq(l) = r.regular
    BY <1>1, <2>3, <2>5
  <2> QED
    BY <1>2, <1>3, <2>6 DEF thought
<1> QED
  BY <1>4, <1>6, <1>7, <1>8

LEMMA NothingOut ==
    ASSUME NEW how, NEW r, r.thinking = <<>>
    PROVE  ProcessForOutput(how, r) = <<>>
BY DEF ProcessForOutput

LEMMA ToldMore ==
    ASSUME NEW how, NEW s \in Texts, NEW r \in Results, r.parser.openTag \in Texts,
           r.isFirst = (s = <<>> /\ r.thinking # <<>>), ~r.isLast
    PROVE  Told(how, r.parser.openTag, s) \o ProcessForOutput(how, r)
               = Told(how, r.parser.openTag, s \o r.thinking)
<1> DEFINE tag == r.parser.openTag
           x == r.thinking
<1>1. x \in Texts /\ tag \in Texts
  BY DEF Results
<1>2. s \o x \in Texts /\ (s \o x = <<>> <=> s = <<>> /\ x = <<>>)
  BY <1>1, Nonempty
<1>3. <<>> \in Texts /\ \A y \in Texts : y \o <<>> = y /\ <<>> \o y = y
  BY JoinedNone, NothingText
<1>4. ProcessForOutput(how, r) =
          IF x = <<>> \/ how = "remove" THEN <<>>
          ELSE IF how = "pass" THEN (IF s = <<>> THEN tag ELSE <<>>) \o x \o <<>>
          ELSE x
  BY DEF ProcessForOutput
<1> HIDE DEF tag, x
<1>5. Told(how, tag, s) \in Texts
  BY <1>1, <1>3, JoinedText DEF Told
<1>6. CASE x = <<>> \/ how = "remove"
  <2>1. ProcessForOutput(how, r) = <<>>
    BY <1>4, <1>6
  <2>2. Told(how, tag, s \o x) = Told(how, tag, s)
    BY <1>3, <1>6 DEF Told
  <2> QED
    BY <1>3, <1>5, <2>1, <2>2 DEF tag, x
<1>7. CASE x # <<>> /\ how = "pass" /\ s = <<>>
  <2>1. tag \o x \in Texts
    BY <1>1, JoinedText
  <2>2. ProcessForOutput(how, r) = tag \o x
    BY <1>3, <1>4, <1>7, <2>1
  <2>3. Told(how, tag, s) = <<>> /\ Told(how, tag, s \o x) = tag \o (s \o x) /\ s \o x = x
    BY <1>1, <1>2, <1>3, <1>7 DEF Told
  <2> QED
    BY <1>3, <2>1, <2>2, <2>3 DEF tag, x
<1>8. CASE x # <<>> /\ how = "pass" /\ s # <<>>
  <2>1. ProcessForOutput(how, r) = x
    BY <1>1, <1>3, <1>4, <1>8
  <2>2. Told(how, tag, s) = tag \o s /\ Told(how, tag, s \o x) = tag \o (s \o x)
    BY <1>2, <1>8 DEF Told
  <2>3. (tag \o s) \o x = tag \o (s \o x)
    BY <1>1, JoinedThree
  <2> QED
    BY <2>1, <2>2, <2>3 DEF tag, x
<1>9. CASE x # <<>> /\ how # "pass" /\ how # "remove"
  <2>1. ProcessForOutput(how, r) = x
    BY <1>4, <1>9
  <2>2. Told(how, tag, s) = s /\ Told(how, tag, s \o x) = s \o x
    BY <1>2, <1>9 DEF Told
  <2> QED
    BY <2>1, <2>2 DEF tag, x
<1> QED
  BY <1>6, <1>7, <1>8, <1>9

LEMMA ToldEnd ==
    ASSUME NEW how, NEW s \in Texts, NEW r \in Results, r.parser.openTag \in Texts,
           r.parser.openTag # <<>>,
           r.isFirst = (s = <<>> /\ r.thinking # <<>>),
           r.thinking # <<>> => r.isLast, r.thinking = <<>> => s = <<>>
    PROVE  Told(how, r.parser.openTag, s) \o ProcessForOutput(how, r)
               = ToldAll(how, r.parser.openTag, s \o r.thinking)
<1> DEFINE tag == r.parser.openTag
           x == r.thinking
           z == CloseTag(tag)
<1>1. x \in Texts /\ tag \in Texts /\ z \in Texts
  BY Closing DEF Results
<1>2. s \o x \in Texts /\ (s \o x = <<>> <=> s = <<>> /\ x = <<>>)
  BY <1>1, Nonempty
<1>3. <<>> \in Texts /\ \A y \in Texts : y \o <<>> = y /\ <<>> \o y = y
  BY JoinedNone, NothingText
<1>4. ProcessForOutput(how, r) =
          IF x = <<>> \/ how = "remove" THEN <<>>
          ELSE IF how = "pass" THEN (IF s = <<>> THEN tag ELSE <<>>) \o x \o z
          ELSE x
  BY DEF ProcessForOutput
<1>5. x = <<>> => s = <<>>
  OBVIOUS
<1>6. ToldAll(how, tag, s \o x) =
          IF s \o x = <<>> \/ how = "remove" THEN <<>>
          ELSE IF how = "pass" THEN tag \o (s \o x) \o z ELSE s \o x
  BY DEF ToldAll
<1> HIDE DEF tag, x, z
<1>7. CASE x = <<>> \/ how = "remove"
  <2>1. ProcessForOutput(how, r) = <<>> /\ Told(how, tag, s) = <<>>
    BY <1>4, <1>5, <1>7 DEF Told
  <2>2. ToldAll(how, tag, s \o x) = <<>>
    BY <1>2, <1>5, <1>6, <1>7
  <2> QED
    BY <1>3, <2>1, <2>2 DEF tag, x
<1>8. CASE x # <<>> /\ how = "pass" /\ s = <<>>
  <2>1. tag \o x \in Texts /\ tag \o x \o z \in Texts
    <3>1. tag \o x \in Texts
      BY <1>1, JoinedText
    <3> QED
      BY <1>1, <3>1, JoinedText
  <2>2. ProcessForOutput(how, r) = tag \o x \o z
    BY <1>4, <1>8
  <2>3. Told(how, tag, s) = <<>> /\ s \o x = x
    BY <1>1, <1>3, <1>8 DEF Told
  <2>4. ToldAll(how, tag, s \o x) = tag \o x \o z
    BY <1>2, <1>6, <1>8, <2>3
  <2> QED
    BY <1>3, <2>1, <2>2, <2>3, <2>4 DEF tag, x
<1>9. CASE x # <<>> /\ how = "pass" /\ s # <<>>
  <2>1. ProcessForOutput(how, r) = x \o z
    BY <1>1, <1>3, <1>4, <1>9
  <2>2. Told(how, tag, s) = tag \o s /\ ToldAll(how, tag, s \o x) = tag \o (s \o x) \o z
    BY <1>2, <1>6, <1>9 DEF Told
  <2>3. tag \o (s \o x) = (tag \o s) \o x /\ tag \o s \in Texts
    <3>1. tag \o (s \o x) = (tag \o s) \o x
      BY <1>1, JoinedThree
    <3>2. tag \o s \in Texts
      BY <1>1, JoinedText
    <3> QED
      BY <3>1, <3>2
  <2> DEFINE a == tag \o s
  <2>4. a \in Texts
    BY <2>3
  <2> HIDE DEF a
  <2>5. (a \o x) \o z = a \o (x \o z)
    BY <1>1, <2>4, JoinedThree
  <2> QED
    BY <2>1, <2>2, <2>3, <2>5 DEF tag, x, a
<1>10. CASE x # <<>> /\ how # "pass" /\ how # "remove"
  <2>1. ProcessForOutput(how, r) = x
    BY <1>4, <1>10
  <2>2. Told(how, tag, s) = s /\ ToldAll(how, tag, s \o x) = s \o x
    BY <1>2, <1>6, <1>10 DEF Told
  <2> QED
    BY <2>1, <2>2 DEF tag, x
<1> QED
  BY <1>7, <1>8, <1>9, <1>10

-----------------------------------------------------------------------------
(* The parser over a whole text                                            *)

(* Inside a block: s of its body has been shown, the rest is held back.    *)
Holding(p, t, s) ==
    /\ p.state = "in_thinking" /\ p.initialBuffer = <<>>
    /\ Opens(t) /\ p.openTag = OpeningTag(t) /\ Body(t) = s \o p.thinkingBuffer
    /\ p.first = (s = <<>>)

(* What the parser p has made of the text t, by its states: nothing yet;   *)
(* part of a block, held back far enough that no closing tag is cut; an    *)
(* answer without a block; a block and an answer.                          *)
Waiting(p, t, shown, told) ==
    /\ p.state = "pre_content" /\ p.initialBuffer = t /\ p.first
    /\ ~Opens(t) /\ shown = <<>> /\ told = <<>>

Thinking(how, p, t, shown, told) ==
    \E s \in Texts :
        /\ Holding(p, t, s) /\ Closings(t) = {}
        /\ s # <<>> => MaxTagLength <= Len(p.thinkingBuffer)
        /\ shown = Told(how, OpeningTag(t), s) /\ told = <<>>

Answering(p, t, shown, told) ==
    /\ p.state = "streaming" /\ p.initialBuffer = <<>>
    /\ ~Opens(t) /\ ~CouldBeTagPrefix(LStrip(t)) /\ shown = <<>> /\ told = t

Thought(how, p, t, shown, told) ==
    /\ p.state = "streaming" /\ p.initialBuffer = <<>>
    /\ Opens(t) /\ Closings(t) # {}
    /\ shown = Shown(how, t) /\ LStrip(told) = LStrip(AnswerOf(t))

Split(how, p, t, shown, told) ==
    \/ Waiting(p, t, shown, told)
    \/ Thinking(how, p, t, shown, told)
    \/ Answering(p, t, shown, told)
    \/ Thought(how, p, t, shown, told)

(* A closing tag is not longer than what is held back.                     *)
LEMMA ClosingFits ==
    ASSUME NEW t \in Texts, Opens(t)
    PROVE  /\ CloseTag(OpeningTag(t)) \in Texts /\ CloseTag(OpeningTag(t)) # <<>>
           /\ Len(CloseTag(OpeningTag(t))) \in Nat \ {0}
           /\ MaxTagLength \in Nat \ {0} /\ Len(CloseTag(OpeningTag(t))) <= MaxTagLength
<1> DEFINE m == Min(TagsAtStart(LStrip(t)))
<1>1. m \in DOMAIN OpenTags /\ OpeningTag(t) = OpenTags[m]
  BY StrippedText, TagFound DEF Opens, OpeningTag, TagAtStart
<1> HIDE DEF m
<1>2. /\ OpenTags[m] \in Texts /\ Len(OpenTags[m]) \in Nat \ {0} /\ OpenTags[m] # <<>>
      /\ 2 * Len(OpenTags[m]) <= MaxTagLength /\ MaxTagLength \in Nat
  BY <1>1, TagParts, HeldBack
<1>3. CloseTag(OpenTags[m]) \in Texts /\ Len(CloseTag(OpenTags[m])) = Len(OpenTags[m]) + 1
  BY <1>2, Closing
<1>4. /\ Len(CloseTag(OpenTags[m])) \in Nat \ {0} /\ MaxTagLength \in Nat \ {0}
      /\ Len(CloseTag(OpenTags[m])) <= MaxTagLength
  BY <1>2, <1>3
<1>5. CloseTag(OpenTags[m]) # <<>>
  BY <1>3, <1>4, TextParts
<1> QED
  BY <1>1, <1>3, <1>4, <1>5

(* In a block, what is left of the buffer and what is shown of it.         *)
LEMMA BlockStep ==
    ASSUME NEW how, NEW p \in Parsers, NEW t \in Texts, NEW s \in Texts, Holding(p, t, s),
           \A q \in Closings(t) : q > Len(s) /\ (s # <<>> => q > Len(s) + 1),
           s # <<>> => MaxTagLength <= Len(p.thinkingBuffer)
    PROVE  LET r == ProcessThinkingBuffer(p)
           IN Split(how, r.parser, t,
                    Told(how, OpeningTag(t), s) \o ProcessForOutput(how, r), r.regular)
<1> DEFINE b == p.thinkingBuffer
           tag == OpeningTag(t)
           close == CloseTag(tag)
           m == Min(Occurrences(close, b))
           held == Len(b) - MaxTagLength
           r == ProcessThinkingBuffer(p)
<1>1. /\ b \in Texts /\ Len(b) \in Nat /\ Len(s) \in Nat /\ MaxTagLength \in Nat \ {0}
      /\ Opens(t) /\ p.openTag = tag /\ tag \in Texts /\ tag # <<>> /\ Body(t) = s \o b
      /\ p.first = (s = <<>>) /\ p.state = "in_thinking" /\ p.initialBuffer = <<>>
      /\ s = <<>> <=> Len(s) = 0
  BY ParserParts, TextParts, OpensMore, ClosingFits DEF Holding
<1>2. close \in Texts /\ close # <<>> /\ Len(close) \in Nat \ {0}
  BY <1>1, ClosingFits
<1>3. r \in Results
  BY <1>1, ProcessType
<1>4. \A q \in Closings(t) : q > Len(s)
  OBVIOUS
<1>5. /\ Closings(t) = {} <=> Occurrences(close, b) = {}
      /\ Closings(t) = {} => ThoughtOf(t) = s \o b /\ AnswerOf(t) = <<>>
      /\ Closings(t) # {} =>
             /\ m \in 1..Len(b) /\ m + Len(close) - 1 <= Len(b)
             /\ Min(Closings(t)) = Len(s) + m
             /\ ThoughtOf(t) = s \o SubSeq(b, 1, m - 1)
             /\ AnswerOf(t) = SubSeq(b, m + Len(close), Len(b))
  <2> HIDE DEF b, r
  <2> QED
    BY <1>1, <1>4, BodySplit
<1>6. CASE Closings(t) # {}
  <2>1. r = ClosedAt(p, m)
    BY <1>1, <1>5, <1>6 DEF ProcessThinkingBuffer
  <2> DEFINE x == SubSeq(b, 1, m - 1)
  <2>2. /\ r.thinking = x /\ r.isLast = TRUE /\ r.isFirst = (p.first /\ m > 1)
        /\ r.regular = LStrip(SubSeq(b, m + Len(close), Len(b)))
        /\ r.parser.state = "streaming" /\ r.parser.initialBuffer = <<>>
        /\ r.parser.openTag = tag
    <3> DEFINE left == [p EXCEPT !.state = "streaming", !.thinkingBuffer = <<>>,
                                 !.first = @ /\ m = 1]
    <3>1. r = [parser |-> left, thinking |-> x,
               regular |-> LStrip(SubSeq(b, m + Len(close), Len(b))),
               isFirst |-> p.first /\ m > 1, isLast |-> TRUE]
      BY <1>1, <2>1 DEF ClosedAt
    <3> HIDE DEF m
    <3>2. left.state = "streaming" /\ left.initialBuffer = <<>> /\ left.openTag = tag
      <4> HIDE DEF tag
      <4> QED
        BY <1>1 DEF Parsers
    <3> HIDE DEF left, x, r, tag
    <3> QED
      BY <3>1, <3>2
  <2>3. m \in 1..Len(b) /\ m \in Nat /\ m - 1 \in Nat /\ m - 1 <= Len(b)
    <3> HIDE DEF m, b
    <3> QED
      BY <1>1, <1>5, <1>6
  <2>4. x \in Texts /\ (x = <<>> <=> m = 1)
    <3> HIDE DEF b, m
    <3> DEFINE n == m - 1
    <3>0. n \in Nat /\ n \in Int /\ n <= Len(b) /\ 1 \in Nat \ {0}
      BY <2>3
    <3> HIDE DEF n
    <3>1. SubSeq(b, 1, n) \in Texts /\ Len(SubSeq(b, 1, n)) = IF 1 <= n THEN n - 1 + 1 ELSE 0
      <4>1. b \in Texts
        BY <1>1
      <4> QED
        BY <3>0, <4>1, PartOf
    <3>2. SubSeq(b, 1, n) = <<>> <=> n = 0
      BY <3>0, <3>1, TextParts
    <3> QED
      BY <2>3, <3>1, <3>2 DEF n
  <2>5. x = <<>> => s = <<>>
    <3> SUFFICES ASSUME m = 1, s # <<>> PROVE FALSE
      BY <2>4
    <3>1. Min(Closings(t)) = Len(s) + 1
      BY <1>5, <1>6
    <3>2. Min(Closings(t)) \in Closings(t)
      <4>1. Closings(t) = Occurrences(close, s \o b)
        BY <1>1 DEF Closings
      <4>2. s \o b \in Texts
        BY <1>1, JoinedText
      <4>3. Closings(t) \in SUBSET Nat
        BY <4>1, <4>2, OccurrencesAt
      <4> QED
        BY <1>6, <4>3, MinOf
    <3> QED
      BY <1>1, <3>1, <3>2
  <2>6. r.isFirst = (s = <<>> /\ r.thinking # <<>>)
    <3>1. (m > 1) = (x # <<>>)
      BY <2>3, <2>4
    <3> HIDE DEF x, m, r
    <3> QED
      BY <1>1, <2>2, <3>1
  <2> HIDE DEF r, b, close
  <2>7. Told(how, tag, s) \o ProcessForOutput(how, r) = ToldAll(how, tag, s \o x)
    <3> HIDE DEF x, tag
    <3>1. /\ r.parser.openTag \in Texts /\ r.parser.openTag # <<>>
          /\ r.thinking # <<>> => r.isLast
          /\ r.thinking = <<>> => s = <<>>
      BY <1>1, <2>2, <2>5
    <3>2. Told(how, r.parser.openTag, s) \o ProcessForOutput(how, r)
              = ToldAll(how, r.parser.openTag, s \o r.thinking)
      BY <1>3, <2>6, <3>1, ToldEnd
    <3> QED
      BY <2>2, <3>2
  <2>8. Shown(how, t) = ToldAll(how, tag, s \o x)
    BY <1>5, <1>6, ShownAll
  <2>9. LStrip(r.regular) = LStrip(AnswerOf(t))
    <3> DEFINE k == m + Len(close) - 1
    <3>1. k \in 0..Len(b) /\ k + 1 = m + Len(close)
      BY <1>1, <1>2, <1>5, <1>6, <2>3
    <3>2. Behind(b, k) \in Texts
      BY <1>1, <3>1, BehindType
    <3>3. AnswerOf(t) = Behind(b, k) /\ r.regular = LStrip(Behind(b, k))
      BY <1>5, <1>6, <2>2, <3>1 DEF Behind
    <3> DEFINE y == Behind(b, k)
    <3> HIDE DEF y
    <3>4. LStrip(LStrip(y) \o <<>>) = LStrip(y \o <<>>) /\ LStrip(y) \in Texts /\ y \in Texts
      BY <3>2, NothingText, StripTwice, StrippedText DEF y
    <3>5. LStrip(LStrip(y)) = LStrip(y)
      BY <3>4, JoinedNone
    <3> QED
      BY <3>3, <3>5 DEF y
  <2>10. Thought(how, r.parser, t, Told(how, tag, s) \o ProcessForOutput(how, r), r.regular)
    BY <1>1, <1>6, <2>2, <2>7, <2>8, <2>9, Zenon DEF Thought
  <2> QED
    BY <2>10 DEF Split, r
<1>7. CASE Closings(t) = {} /\ held > 0
  <2> DEFINE x == SubSeq(b, 1, held)
             y == SubSeq(b, held + 1, Len(b))
             left == [p EXCEPT !.thinkingBuffer = y, !.first = FALSE]
  <2>1. r = [parser |-> left, thinking |-> x, regular |-> <<>>,
             isFirst |-> p.first, isLast |-> FALSE]
    BY <1>1, <1>5, <1>7 DEF ProcessThinkingBuffer
  <2>2. /\ left.state = "in_thinking" /\ left.initialBuffer = <<>> /\ left.openTag = tag
        /\ left.thinkingBuffer = y /\ left.first = FALSE
    <3> HIDE DEF y, tag
    <3> QED
      BY <1>1 DEF Parsers
  <2>3. /\ r.parser = left /\ r.thinking = x /\ r.regular = <<>> /\ r.isFirst = p.first
        /\ r.isLast = FALSE
    <3> HIDE DEF left, x, r
    <3> QED
      BY <2>1
  <2> HIDE DEF r, left, b, tag, close
  <2>4. /\ held \in Nat /\ held \in 0..Len(b) /\ held # 0 /\ Len(b) - held = MaxTagLength
        /\ held <= Len(b) /\ held \in Int /\ 1 \in Nat \ {0}
    BY <1>1, <1>7
  <2> HIDE DEF held
  <2>5. x \in Texts /\ x # <<>>
    <3>1. SubSeq(b, 1, held) \in Texts /\ Len(SubSeq(b, 1, held)) = IF 1 <= held THEN held - 1 + 1 ELSE 0
      BY <1>1, <2>4, PartOf
    <3>2. Len(x) # 0
      BY <2>4, <3>1
    <3> QED
      BY <3>1, <3>2, TextParts
  <2>6. y \in Texts /\ Len(y) = MaxTagLength
    <3>1. Behind(b, held) \in Texts /\ Len(Behind(b, held)) = Len(b) - held
      BY <1>1, <2>4, BehindType
    <3> QED
      BY <2>4, <3>1 DEF Behind
  <2>7. x \o y = b
    <3>1. /\ 1 \in 1..(Len(b) + 1) /\ held \in (1 - 1)..Len(b) /\ Len(b) \in held..Len(b)
          /\ b \in Seq(Symbols)
      BY <1>1, <2>4 DEF Texts
    <3>2. SubSeq(b, 1, held) \o SubSeq(b, held + 1, Len(b)) = SubSeq(b, 1, Len(b))
      BY <3>1, ConcatAdjacentSubSeq
    <3>3. SubSeq(b, 1, Len(b)) = b
      BY <3>1, SubSeqFull
    <3> QED
      BY <3>2, <3>3
  <2> HIDE DEF x, y
  <2>8. s \o x \in Texts /\ s \o x # <<>>
    BY <2>5, Nonempty
  <2>9. Told(how, tag, s) \o ProcessForOutput(how, r) = Told(how, tag, s \o x)
    <3>1. r.isFirst = (s = <<>> /\ r.thinking # <<>>) /\ ~r.isLast /\ r.parser.openTag = tag
      BY <1>1, <2>2, <2>3, <2>5
    <3>2. r.parser.openTag \in Texts
      BY <1>1, <3>1
    <3>3. Told(how, r.parser.openTag, s) \o ProcessForOutput(how, r)
              = Told(how, r.parser.openTag, s \o r.thinking)
      BY <1>3, <3>1, <3>2, ToldMore
    <3> QED
      BY <2>3, <3>1, <3>3
  <2>10. Body(t) = (s \o x) \o y
    BY <1>1, <2>5, <2>6, <2>7, JoinedThree
  <2>11. Holding(left, t, s \o x)
    <3>1. (s \o x = <<>>) = FALSE
      BY <2>8
    <3> QED
      BY <1>1, <2>2, <2>10, <3>1, Zenon DEF Holding, tag
  <2>12. MaxTagLength <= Len(left.thinkingBuffer)
    BY <1>1, <2>2, <2>6
  <2>13. Thinking(how, left, t, Told(how, tag, s) \o ProcessForOutput(how, r), <<>>)
    BY <1>7, <2>8, <2>9, <2>11, <2>12, Zenon DEF Thinking, tag
  <2>14. Split(how, r.parser, t, Told(how, tag, s) \o ProcessForOutput(how, r), r.regular)
    BY <2>3, <2>13, Zenon DEF Split
  <2> QED
    BY <2>14 DEF tag, r
<1>8. CASE Closings(t) = {} /\ ~ held > 0
  <2>1. r = Nothing(p)
    BY <1>1, <1>5, <1>8 DEF ProcessThinkingBuffer
  <2>2. r.parser = p /\ r.thinking = <<>> /\ r.regular = <<>>
    BY <2>1 DEF Nothing
  <2> HIDE DEF r
  <2>3. ProcessForOutput(how, r) = <<>>
    BY <2>2, NothingOut
  <2>4. Told(how, tag, s) \in Texts
    BY <1>1, NothingText, JoinedText DEF Told
  <2>5. Told(how, tag, s) \o <<>> = Told(how, tag, s)
    <3> HIDE DEF Told, tag
    <3> QED
      BY <2>4, JoinedNone
  <2>6. Thinking(how, p, t, Told(how, tag, s), <<>>)
    BY <1>8, Zenon DEF Thinking
  <2>7. Split(how, r.parser, t, Told(how, tag, s) \o ProcessForOutput(how, r), r.regular)
    BY <2>2, <2>3, <2>5, <2>6, Zenon DEF Split
  <2> QED
    BY <2>7 DEF r
<1>9. Closings(t) # {} \/ (Closings(t) = {} /\ held > 0) \/ (Closings(t) = {} /\ ~ held > 0)
  OBVIOUS
<1> QED
  BY <1>6, <1>7, <1>8, <1>9

(* One piece more.                                                         *)
LEMMA FeedSplit ==
    ASSUME NEW how, NEW p \in Parsers, NEW t \in Texts, NEW u \in Texts,
           NEW shown \in Texts, NEW told \in Texts, Split(how, p, t, shown, told)
    PROVE  LET r == Feed(p, u)
           IN Split(how, r.parser, t \o u, shown \o ProcessForOutput(how, r), told \o r.regular)
<1> DEFINE r == Feed(p, u)
           v == t \o u
<1>0. v \in Texts /\ shown \o <<>> = shown /\ told \o <<>> = told /\ t \o <<>> = t /\ <<>> \o u = u
  BY JoinedText, JoinedNone
<1>1. CASE u = <<>>
  <2>1. r.parser = p /\ r.thinking = <<>> /\ r.regular = <<>>
    BY <1>1 DEF Feed, Nothing
  <2>2. ProcessForOutput(how, r) = <<>>
    BY <2>1, NothingOut
  <2> HIDE DEF r, Split
  <2>3. Split(how, r.parser, v, shown \o ProcessForOutput(how, r), told \o r.regular)
    BY <1>0, <1>1, <2>1, <2>2
  <2> QED
    BY <2>3 DEF r, v
<1>2. CASE u # <<>> /\ Waiting(p, t, shown, told)
  <2> DEFINE stripped == LStrip(v)
             tag == TagAtStart(stripped)
  <2>1. /\ p.state = "pre_content" /\ p.initialBuffer = t /\ p.first
        /\ ~Opens(t) /\ shown = <<>> /\ told = <<>>
    BY <1>2 DEF Waiting
  <2>2. r = HandlePreContent(p, u)
    BY <1>2, <2>1 DEF Feed
  <2>3. stripped \in Texts
    BY <1>0, StrippedText
  <2>4. CASE TagsAtStart(stripped) # {}
    <3> DEFINE b == SubSeq(stripped, Len(tag) + 1, Len(stripped))
               inside == [p EXCEPT !.state = "in_thinking", !.openTag = tag,
                                   !.initialBuffer = <<>>, !.thinkingBuffer = b]
    <3>1. r = ProcessThinkingBuffer(inside)
      BY <2>1, <2>2, <2>4 DEF HandlePreContent
    <3>2. Opens(v) /\ tag = OpeningTag(v) /\ b = Body(v)
      BY <2>4 DEF Opens, OpeningTag, Body
    <3>3. tag \in Texts /\ tag # <<>> /\ b \in Texts
      BY <1>0, <3>2, OpensMore, NothingText
    <3> HIDE DEF r, b, tag, stripped
    <3>4. /\ inside \in Parsers /\ inside.state = "in_thinking" /\ inside.openTag = tag
          /\ inside.initialBuffer = <<>> /\ inside.thinkingBuffer = b /\ inside.first = p.first
      BY <3>3, NothingText DEF Parsers
    <3> HIDE DEF inside
    <3>5. Holding(inside, v, <<>>)
      <4>1. (<<>> = <<>>) = TRUE /\ <<>> \o b = b
        BY <3>3, JoinedNone
      <4>2. inside.first = (<<>> = <<>>)
        BY <2>1, <3>4, <4>1, ParserParts
      <4> QED
        BY <3>2, <3>4, <4>1, <4>2, Zenon DEF Holding
    <3>6. \A q \in Closings(v) : q > Len(<<>>) /\ (<<>> # <<>> => q > Len(<<>>) + 1)
      <4>1. \A q \in Closings(v) : q \in 1..Len(b)
        BY <3>2, <3>3, OccurrencesAt DEF Closings
      <4>2. Len(<<>>) = 0 /\ Len(b) \in Nat
        BY <3>3, TextParts, EmptySeq
      <4> QED
        BY <4>1, <4>2
    <3>7. Split(how, r.parser, v,
                Told(how, OpeningTag(v), <<>>) \o ProcessForOutput(how, r), r.regular)
      <4> HIDE DEF Split
      <4>1. <<>> \in Texts /\ (<<>> # <<>> => MaxTagLength <= Len(inside.thinkingBuffer))
        BY NothingText
      <4> QED
        BY <1>0, <3>1, <3>4, <3>5, <3>6, <4>1, BlockStep
    <3>8. Told(how, OpeningTag(v), <<>>) = <<>> /\ <<>> \o r.regular = r.regular
      <4>1. r \in Results
        BY <3>1, <3>4, ProcessType
      <4>2. r.regular \in Texts
        BY <4>1 DEF Results
      <4> QED
        BY <4>2, JoinedNone DEF Told
    <3> HIDE DEF Split, v
    <3> QED
      BY <2>1, <3>7, <3>8 DEF r, v
  <2>5. CASE TagsAtStart(stripped) = {} /\ CouldBeTagPrefix(stripped)
    <3> DEFINE left == [p EXCEPT !.initialBuffer = v]
    <3>1. r = Nothing(left)
      BY <2>1, <2>2, <2>5 DEF HandlePreContent
    <3>2. /\ left.state = "pre_content" /\ left.initialBuffer = v /\ left.first = p.first
      <4> HIDE DEF v
      <4> QED
        BY <2>1 DEF Parsers
    <3> HIDE DEF left
    <3>3. r.parser = left /\ r.thinking = <<>> /\ r.regular = <<>>
      BY <3>1 DEF Nothing
    <3> HIDE DEF r
    <3>4. ProcessForOutput(how, r) = <<>>
      BY <3>3, NothingOut
    <3>5. ~Opens(v)
      BY <2>5 DEF Opens
    <3>6. shown \o <<>> = <<>> /\ told \o <<>> = <<>>
      BY <1>0, <2>1
    <3>7. Waiting(r.parser, v, shown \o ProcessForOutput(how, r), told \o r.regular)
      BY <2>1, <3>2, <3>3, <3>4, <3>5, <3>6, Zenon DEF Waiting
    <3> QED
      BY <3>7, Zenon DEF Split, r, v
  <2>6. CASE TagsAtStart(stripped) = {} /\ ~CouldBeTagPrefix(stripped)
    <3> DEFINE left == [p EXCEPT !.state = "streaming", !.initialBuffer = <<>>]
    <3>1. r = [Nothing(left) EXCEPT !.regular = v]
      BY <2>1, <2>2, <2>6 DEF HandlePreContent
    <3>2. left.state = "streaming" /\ left.initialBuffer = <<>>
      BY DEF Parsers
    <3> HIDE DEF left, v
    <3>3. r.parser = left /\ r.thinking = <<>> /\ r.regular = v
      BY <3>1 DEF Nothing
    <3> HIDE DEF r
    <3>4. ProcessForOutput(how, r) = <<>>
      BY <3>3, NothingOut
    <3>5. ~Opens(v) /\ ~CouldBeTagPrefix(LStrip(v))
      BY <2>6 DEF Opens
    <3>6. shown \o <<>> = <<>> /\ told \o v = v
      BY <1>0, <2>1, JoinedNone
    <3>7. Answering(r.parser, v, shown \o ProcessForOutput(how, r), told \o r.regular)
      BY <3>2, <3>3, <3>4, <3>5, <3>6, Zenon DEF Answering
    <3> QED
      BY <3>7, Zenon DEF Split, r, v
  <2> QED
    BY <2>4, <2>5, <2>6
<1>3. CASE u # <<>> /\ Thinking(how, p, t, shown, told)
  <2>1. PICK s \in Texts :
            /\ Holding(p, t, s) /\ Closings(t) = {}
            /\ s # <<>> => MaxTagLength <= Len(p.thinkingBuffer)
            /\ shown = Told(how, OpeningTag(t), s) /\ told = <<>>
    BY <1>3 DEF Thinking
  <2> DEFINE b == p.thinkingBuffer
             tag == OpeningTag(t)
             close == CloseTag(tag)
             more == [p EXCEPT !.thinkingBuffer = b \o u]
  <2>2. /\ p.state = "in_thinking" /\ p.initialBuffer = <<>>
        /\ Opens(t) /\ p.openTag = tag /\ Body(t) = s \o b /\ p.first = (s = <<>>)
        /\ b \in Texts /\ Len(b) \in Nat /\ b \o u \in Texts /\ Len(b) <= Len(b \o u)
    <3>1. b \in Texts /\ Len(b) \in Nat /\ Len(u) \in Nat
      BY ParserParts, TextParts
    <3>2. b \o u \in Texts /\ Len(b \o u) = Len(b) + Len(u)
      BY <3>1, JoinedText
    <3> QED
      BY <2>1, <3>1, <3>2 DEF Holding
  <2>3. r = ProcessThinkingBuffer(more)
    BY <1>3, <2>2 DEF Feed, HandleInThinking
  <2>4. Opens(v) /\ OpeningTag(v) = tag /\ Body(v) = (s \o b) \o u
    BY <2>2, OpensMore
  <2>5. Body(v) = s \o (b \o u)
    BY <2>2, <2>4, JoinedThree
  <2>6. /\ close \in Texts /\ close # <<>> /\ Len(close) \in Nat
        /\ MaxTagLength \in Nat /\ Len(close) <= MaxTagLength
    BY <2>2, ClosingFits
  <2> HIDE DEF r, b, tag, v
  <2>7. /\ more \in Parsers /\ more.state = "in_thinking" /\ more.openTag = tag
        /\ more.initialBuffer = <<>> /\ more.thinkingBuffer = b \o u /\ more.first = p.first
    <3> DEFINE x == b \o u
    <3>1. x \in Texts
      BY <2>2
    <3> HIDE DEF x
    <3> QED
      BY <2>2, <3>1 DEF Parsers
  <2> HIDE DEF more
  <2>8. Holding(more, v, s)
    BY <2>2, <2>4, <2>5, <2>7, Zenon DEF Holding
  <2>9. Occurrences(close, s \o b) = {} /\ Closings(v) = Occurrences(close, s \o (b \o u))
    BY <2>1, <2>2, <2>4, <2>5 DEF Closings, tag
  <2> HIDE DEF close
  <2>10. s # <<>> => Len(close) <= Len(b)
    BY <2>1, <2>2, <2>6 DEF b
  <2>11. \A q \in Closings(v) : q > Len(s) /\ (s # <<>> => q > Len(s) + 1)
    BY <2>2, <2>6, <2>9, <2>10, ClosesLater
  <2>12. s # <<>> => MaxTagLength <= Len(more.thinkingBuffer)
    <3> DEFINE x == b \o u
    <3>1. Len(b) <= Len(x) /\ Len(x) \in Nat
      BY <2>2, TextParts
    <3> HIDE DEF x
    <3>2. more.thinkingBuffer = x
      BY <2>7 DEF x
    <3> QED
      BY <2>1, <2>2, <2>6, <3>1, <3>2 DEF b
  <2>13. Split(how, r.parser, v, Told(how, OpeningTag(v), s) \o ProcessForOutput(how, r), r.regular)
    <3> HIDE DEF Split
    <3> QED
      BY <1>0, <2>3, <2>7, <2>8, <2>11, <2>12, BlockStep DEF v
  <2>14. Told(how, OpeningTag(v), s) = shown
    BY <2>1, <2>4 DEF tag
  <2>15. told \o r.regular = r.regular
    <3>1. r \in Results
      BY <2>3, <2>7, ProcessType
    <3>2. r.regular \in Texts
      BY <3>1 DEF Results
    <3> QED
      BY <2>1, <3>2, JoinedNone
  <2> HIDE DEF Split
  <2>16. Split(how, r.parser, v, shown \o ProcessForOutput(how, r), told \o r.regular)
    BY <2>13, <2>14, <2>15
  <2> QED
    BY <2>16 DEF r, v
<1>4. ASSUME u # <<>>, p.state = "streaming"
      PROVE  /\ r.parser = p /\ r.thinking = <<>> /\ r.regular = u
             /\ ProcessForOutput(how, r) = <<>>
  <2>1. r.parser = p /\ r.thinking = <<>> /\ r.regular = u
    BY <1>4 DEF Feed, Nothing
  <2> HIDE DEF r
  <2> QED
    BY <2>1, NothingOut
<1>5. CASE u # <<>> /\ Answering(p, t, shown, told)
  <2>1. /\ p.state = "streaming" /\ p.initialBuffer = <<>>
        /\ ~Opens(t) /\ ~CouldBeTagPrefix(LStrip(t)) /\ shown = <<>> /\ told = t
    BY <1>5 DEF Answering
  <2>2. ~Opens(v) /\ ~CouldBeTagPrefix(LStrip(v))
    BY <2>1, PlainMore
  <2>3. /\ r.parser = p /\ r.regular = u /\ ProcessForOutput(how, r) = <<>>
    BY <1>4, <1>5, <2>1
  <2> HIDE DEF r
  <2>4. shown \o <<>> = <<>> /\ told \o u = v
    BY <1>0, <2>1
  <2> HIDE DEF v
  <2>5. Answering(r.parser, v, shown \o ProcessForOutput(how, r), told \o r.regular)
    BY <2>1, <2>2, <2>3, <2>4, Zenon DEF Answering
  <2> QED
    BY <2>5, Zenon DEF Split, r, v
<1>6. CASE u # <<>> /\ Thought(how, p, t, shown, told)
  <2>1. /\ p.state = "streaming" /\ p.initialBuffer = <<>>
        /\ Opens(t) /\ Closings(t) # {}
        /\ shown = Shown(how, t) /\ LStrip(told) = LStrip(AnswerOf(t))
    BY <1>6 DEF Thought
  <2>2. /\ Closings(v) # {} /\ Shown(how, v) = Shown(how, t)
        /\ AnswerOf(t) \in Texts /\ AnswerOf(v) = AnswerOf(t) \o u /\ Opens(v)
    BY <2>1, ClosedMore, OpensMore
  <2>3. /\ r.parser = p /\ r.regular = u /\ ProcessForOutput(how, r) = <<>>
    BY <1>4, <1>6, <2>1
  <2> HIDE DEF r, v
  <2>4. LStrip(told \o u) = LStrip(AnswerOf(v))
    <3>1. LStrip(LStrip(told) \o u) = LStrip(told \o u)
      BY StripTwice
    <3>2. LStrip(LStrip(AnswerOf(t)) \o u) = LStrip(AnswerOf(t) \o u)
      BY <2>2, StripTwice
    <3> QED
      BY <2>1, <2>2, <3>1, <3>2
  <2>5. Thought(how, r.parser, v, shown \o ProcessForOutput(how, r), told \o r.regular)
    BY <1>0, <2>1, <2>2, <2>3, <2>4, Zenon DEF Thought
  <2> QED
    BY <2>5, Zenon DEF Split, r, v
<1> QED
  BY <1>1, <1>2, <1>3, <1>5, <1>6, Zenon DEF Split

LEMMA PartsOfText ==
    ASSUME NEW t \in Texts, NEW how
    PROVE  ThoughtOf(t) \in Texts /\ AnswerOf(t) \in Texts /\ Shown(how, t) \in Texts
<1>1. CASE ~Opens(t)
  <2>1. ThoughtOf(t) = <<>> /\ AnswerOf(t) = t
    BY <1>1 DEF ThoughtOf, AnswerOf
  <2> QED
    BY <2>1, NothingText DEF Shown
<1>2. CASE Opens(t)
  <2> DEFINE b == Body(t)
             tag == OpeningTag(t)
             close == CloseTag(tag)
             m == Min(Occurrences(close, b))
  <2>1. b \in Texts /\ Len(b) \in Nat /\ tag \in Texts /\ tag # <<>>
    BY <1>2, OpensMore, NothingText, TextParts
  <2>2. close \in Texts /\ Len(close) \in Nat \ {0}
    BY <1>2, ClosingFits
  <2>3. \A q \in Closings(t) : q > Len(<<>>)
    <3>1. \A q \in Closings(t) : q \in 1..Len(b)
      BY <2>1, OccurrencesAt DEF Closings
    <3>2. Len(<<>>) = 0
      BY EmptySeq
    <3> QED
      BY <2>1, <3>1, <3>2
  <2>4. <<>> \in Texts /\ Body(t) = <<>> \o b
    BY <2>1, NothingText, JoinedNone
  <2>5. /\ Closings(t) = {} => ThoughtOf(t) = <<>> \o b /\ AnswerOf(t) = <<>>
        /\ Closings(t) # {} =>
               /\ m \in 1..Len(b) /\ m + Len(close) - 1 <= Len(b)
               /\ ThoughtOf(t) = <<>> \o SubSeq(b, 1, m - 1)
               /\ AnswerOf(t) = SubSeq(b, m + Len(close), Len(b))
    <3> HIDE DEF b
    <3> QED
      BY <1>2, <2>1, <2>3, <2>4, BodySplit
  <2> HIDE DEF m, b, close
  <2>6. ThoughtOf(t) \in Texts /\ AnswerOf(t) \in Texts
    <3>1. CASE Closings(t) = {}
      BY <2>1, <2>4, <2>5, <3>1, JoinedNone
    <3>2. CASE Closings(t) # {}
      <4> DEFINE n == m - 1
                 k == m + Len(close) - 1
      <4>1. /\ n \in Int /\ n <= Len(b) /\ 1 \in Nat \ {0}
            /\ k \in 0..Len(b) /\ k + 1 = m + Len(close)
        BY <2>1, <2>2, <2>5, <3>2
      <4> HIDE DEF n
      <4>2. SubSeq(b, 1, n) \in Texts
        BY <2>1, <4>1, PartOf
      <4>3. Behind(b, k) \in Texts
        BY <2>1, <4>1, BehindType
      <4>4. <<>> \o SubSeq(b, 1, n) = SubSeq(b, 1, n)
        BY <4>2, JoinedNone
      <4>5. ThoughtOf(t) = SubSeq(b, 1, n)
        BY <2>5, <3>2, <4>4 DEF n
      <4>6. AnswerOf(t) = Behind(b, k)
        BY <2>5, <3>2, <4>1 DEF Behind
      <4> QED
        BY <4>2, <4>3, <4>5, <4>6
    <3> QED
      BY <3>1, <3>2
  <2>7. Tagged(t) \in Texts
    <3>1. tag \o ThoughtOf(t) \in Texts
      BY <2>1, <2>6, JoinedText
    <3> DEFINE x == tag \o ThoughtOf(t)
    <3>2. x \in Texts /\ Tagged(t) = x \o close
      BY <3>1 DEF Tagged, close
    <3> HIDE DEF x
    <3> QED
      BY <2>2, <3>2, JoinedText
  <2> QED
    BY <2>6, <2>7, NothingText DEF Shown
<1> QED
  BY <1>1, <1>2

(* When the text ends, it has been split as the whole of it is.            *)
LEMMA FinalizeSplit ==
    ASSUME NEW how, NEW p \in Parsers, NEW t \in Texts,
           NEW shown \in Texts, NEW told \in Texts, Split(how, p, t, shown, told)
    PROVE  LET r == Finalize(p)
           IN /\ shown \o ProcessForOutput(how, r) = Shown(how, t)
              /\ LStrip(told \o r.regular) = LStrip(AnswerOf(t))
<1> DEFINE r == Finalize(p)
           thought == p.state = "in_thinking" /\ p.thinkingBuffer # <<>>
<1>0. shown \o <<>> = shown /\ told \o <<>> = told /\ <<>> \o t = t
  BY JoinedNone
<1>1. /\ r \in Results /\ r.regular = p.initialBuffer
      /\ r.thinking = IF thought THEN p.thinkingBuffer ELSE <<>>
      /\ r.isFirst = (thought /\ p.first) /\ r.isLast = thought
      /\ r.parser.openTag = p.openTag
  BY FinalizeType DEF Finalize, Parsers
<1> HIDE DEF r
<1>2. p.state # "in_thinking" => ProcessForOutput(how, r) = <<>>
  BY <1>1, NothingOut
<1>3. CASE Waiting(p, t, shown, told)
  <2>1. /\ p.state # "in_thinking" /\ p.initialBuffer = t
        /\ ~Opens(t) /\ shown = <<>> /\ told = <<>>
    BY <1>3 DEF Waiting
  <2>2. ThoughtOf(t) = <<>> /\ AnswerOf(t) = t
    BY <2>1 DEF ThoughtOf, AnswerOf
  <2>3. Shown(how, t) = <<>>
    BY <2>2 DEF Shown
  <2> QED
    BY <1>0, <1>1, <1>2, <2>1, <2>2, <2>3 DEF r
<1>4. CASE Thinking(how, p, t, shown, told)
  <2>1. PICK s \in Texts :
            /\ Holding(p, t, s) /\ Closings(t) = {}
            /\ s # <<>> => MaxTagLength <= Len(p.thinkingBuffer)
            /\ shown = Told(how, OpeningTag(t), s) /\ told = <<>>
    BY <1>4 DEF Thinking
  <2> DEFINE b == p.thinkingBuffer
             tag == OpeningTag(t)
  <2>2. /\ p.state = "in_thinking" /\ p.initialBuffer = <<>>
        /\ Opens(t) /\ p.openTag = tag /\ Body(t) = s \o b /\ p.first = (s = <<>>)
    BY <2>1 DEF Holding
  <2>3. /\ b \in Texts /\ Len(b) \in Nat /\ tag \in Texts /\ tag # <<>>
        /\ MaxTagLength \in Nat \ {0} /\ (b = <<>> <=> Len(b) = 0)
    BY <2>2, ParserParts, TextParts, OpensMore, ClosingFits
  <2>4. b = <<>> => s = <<>>
    BY <2>1, <2>3
  <2>5. r.thinking = b /\ r.isLast = (b # <<>>) /\ r.isFirst = ((b # <<>>) /\ p.first)
    BY <1>1, <2>2
  <2>6. ThoughtOf(t) = s \o b /\ AnswerOf(t) = <<>>
    BY <2>1, <2>2 DEF ThoughtOf, AnswerOf
  <2> HIDE DEF b, tag
  <2>7. /\ r.parser.openTag \in Texts /\ r.parser.openTag # <<>> /\ r.parser.openTag = tag
        /\ r.isFirst = (s = <<>> /\ r.thinking # <<>>)
        /\ r.thinking # <<>> => r.isLast
        /\ r.thinking = <<>> => s = <<>>
    BY <1>1, <2>2, <2>3, <2>4, <2>5
  <2>8. Told(how, r.parser.openTag, s) \o ProcessForOutput(how, r)
            = ToldAll(how, r.parser.openTag, s \o r.thinking)
    BY <1>1, <2>7, ToldEnd
  <2>9. Shown(how, t) = ToldAll(how, tag, s \o b)
    BY <2>6, ShownAll DEF tag
  <2>10. shown \o ProcessForOutput(how, r) = Shown(how, t)
    BY <2>1, <2>5, <2>7, <2>8, <2>9 DEF tag
  <2>11. told \o r.regular = AnswerOf(t)
    BY <1>0, <1>1, <2>1, <2>2, <2>6
  <2> QED
    BY <2>10, <2>11 DEF r
<1>5. CASE Answering(p, t, shown, told)
  <2>1. /\ p.state # "in_thinking" /\ p.initialBuffer = <<>>
        /\ ~Opens(t) /\ shown = <<>> /\ told = t
    BY <1>5 DEF Answering
  <2>2. ThoughtOf(t) = <<>> /\ AnswerOf(t) = t
    BY <2>1 DEF ThoughtOf, AnswerOf
  <2>3. Shown(how, t) = <<>>
    BY <2>2 DEF Shown
  <2> QED
    BY <1>0, <1>1, <1>2, <2>1, <2>2, <2>3 DEF r
<1>6. CASE Thought(how, p, t, shown, told)
  <2>1. /\ p.state # "in_thinking" /\ p.initialBuffer = <<>>
        /\ shown = Shown(how, t) /\ LStrip(told) = LStrip(AnswerOf(t))
    BY <1>6 DEF Thought
  <2> QED
    BY <1>0, <1>1, <1>2, <2>1 DEF r
<1> QED
  BY <1>3, <1>4, <1>5, <1>6, Zenon DEF Split

(* Before that, whatever comes, it has begun like it.                      *)
LEMMA SplitBegins ==
    ASSUME NEW how, NEW p \in Parsers, NEW t \in Texts, NEW u \in Texts,
           NEW shown \in Texts, NEW told \in Texts, Split(how, p, t, shown, told)
    PROVE  /\ IsPrefix(shown, Shown(how, t \o u))
           /\ IsPrefix(LStrip(told), LStrip(AnswerOf(t \o u)))
<1> DEFINE v == t \o u
<1>0. v \in Texts
  BY JoinedText
<1>1. /\ AnswerOf(v) \in Texts /\ Shown(how, v) \in Texts
      /\ AnswerOf(t) \in Texts /\ Shown(how, t) \in Texts
  BY <1>0, PartsOfText
<1>2. LStrip(AnswerOf(v)) \in Texts /\ LStrip(AnswerOf(t)) \in Texts
  BY <1>1, StrippedText
<1>3. \A x \in Texts : IsPrefix(<<>>, x) /\ IsPrefix(x, x)
  <2> TAKE x \in Texts
  <2>1. IsPrefix(<<>>, <<>> \o x) /\ IsPrefix(x, x \o <<>>)
    BY NothingText, Continued
  <2> QED
    BY <2>1, JoinedNone
<1>4. LStrip(<<>>) = <<>>
  <2>1. PICK k \in 0..Len(<<>>) : LStrip(<<>>) = Behind(<<>>, k)
    BY NothingText, StripsSpaces
  <2>2. k = 0 /\ <<>> \in Texts
    BY <2>1, NothingText, EmptySeq
  <2> QED
    BY <2>1, <2>2, NothingBehind
<1>5. CASE Waiting(p, t, shown, told)
  <2>1. shown = <<>> /\ told = <<>>
    BY <1>5 DEF Waiting
  <2> HIDE DEF v
  <2> QED
    BY <1>1, <1>2, <1>3, <1>4, <2>1 DEF v
<1>6. CASE Thinking(how, p, t, shown, told)
  <2>1. PICK s \in Texts :
            /\ Holding(p, t, s) /\ Closings(t) = {}
            /\ s # <<>> => MaxTagLength <= Len(p.thinkingBuffer)
            /\ shown = Told(how, OpeningTag(t), s) /\ told = <<>>
    BY <1>6 DEF Thinking
  <2> DEFINE b == p.thinkingBuffer
             tag == OpeningTag(t)
             close == CloseTag(tag)
  <2>2. /\ Opens(t) /\ Body(t) = s \o b /\ b \in Texts /\ Len(b) \in Nat
    BY <2>1, ParserParts, TextParts DEF Holding
  <2>3. /\ Opens(v) /\ OpeningTag(v) = tag /\ Body(v) = s \o (b \o u)
        /\ tag \in Texts /\ tag # <<>>
    <3>1. /\ Opens(v) /\ OpeningTag(v) = tag /\ Body(v) = Body(t) \o u
          /\ tag \in Texts /\ tag # <<>>
      BY <2>2, OpensMore
    <3> HIDE DEF b, v, tag
    <3>2. (s \o b) \o u = s \o (b \o u)
      BY <2>2, JoinedThree
    <3> QED
      BY <2>2, <3>1, <3>2
  <2>4. /\ close \in Texts /\ close # <<>> /\ Len(close) \in Nat
        /\ MaxTagLength \in Nat /\ Len(close) <= MaxTagLength
    BY <2>2, ClosingFits
  <2>5. Occurrences(close, s \o b) = {} /\ Closings(v) = Occurrences(close, s \o (b \o u))
    BY <2>1, <2>2, <2>3 DEF Closings
  <2>6. s # <<>> => Len(close) <= Len(b)
    BY <2>1, <2>2, <2>4
  <2> HIDE DEF close, b, v, tag
  <2>7. \A q \in Closings(v) : q > Len(s)
    BY <2>2, <2>4, <2>5, <2>6, ClosesLater
  <2> DEFINE c == b \o u
             m == Min(Occurrences(CloseTag(OpeningTag(v)), c))
  <2>8. c \in Texts /\ Len(c) \in Nat /\ Body(v) = s \o c
    BY <2>2, <2>3, JoinedText, TextParts
  <2> HIDE DEF c
  <2>9. /\ Closings(v) = {} => ThoughtOf(v) = s \o c
        /\ Closings(v) # {} => m \in 1..Len(c) /\ ThoughtOf(v) = s \o SubSeq(c, 1, m - 1)
    <3>1. v \in Texts /\ Opens(v) /\ Body(v) = s \o c /\ c \in Texts
      BY <1>0, <2>3, <2>8 DEF v
    <3> DEFINE end == CloseTag(OpeningTag(v))
    <3>2. /\ Closings(v) = {} <=> Occurrences(end, c) = {}
          /\ Closings(v) = {} => ThoughtOf(v) = s \o c /\ AnswerOf(v) = <<>>
          /\ Closings(v) # {} =>
                 /\ m \in 1..Len(c) /\ m + Len(end) - 1 <= Len(c)
                 /\ Min(Closings(v)) = Len(s) + m
                 /\ ThoughtOf(v) = s \o SubSeq(c, 1, m - 1)
                 /\ AnswerOf(v) = SubSeq(c, m + Len(end), Len(c))
      BY <2>7, <3>1, BodySplit
    <3> HIDE DEF m
    <3> QED
      BY <3>2
  <2> HIDE DEF m
  <2>10. \E x \in Texts : ThoughtOf(v) = s \o x
    <3>1. CASE Closings(v) = {}
      BY <2>8, <2>9, <3>1
    <3>2. CASE Closings(v) # {}
      <4> DEFINE n == m - 1
      <4>1. n \in Int /\ n <= Len(c) /\ 1 \in Nat \ {0}
        BY <2>8, <2>9, <3>2
      <4> HIDE DEF n
      <4>2. SubSeq(c, 1, n) \in Texts
        BY <2>8, <4>1, PartOf
      <4> QED
        BY <2>9, <3>2, <4>2 DEF n
    <3> QED
      BY <3>1, <3>2
  <2>11. PICK x \in Texts : ThoughtOf(v) = s \o x
    BY <2>10
  <2>12. IsPrefix(Told(how, tag, s), ToldAll(how, tag, s \o x))
    BY <2>3, ToldBegins
  <2>13. IsPrefix(shown, Shown(how, v))
    BY <2>1, <2>3, <2>11, <2>12, ShownAll DEF tag
  <2>14. IsPrefix(LStrip(told), LStrip(AnswerOf(v)))
    BY <1>2, <1>3, <1>4, <2>1 DEF v
  <2> QED
    BY <2>13, <2>14 DEF v
<1>7. CASE Answering(p, t, shown, told)
  <2>1. /\ ~Opens(t) /\ ~CouldBeTagPrefix(LStrip(t)) /\ shown = <<>> /\ told = t
    BY <1>7 DEF Answering
  <2>2. ~Opens(v)
    BY <2>1, PlainMore
  <2>3. AnswerOf(v) = v
    BY <2>2 DEF AnswerOf
  <2>4. IsPrefix(LStrip(t), LStrip(v))
    BY StripBegins
  <2>5. IsPrefix(shown, Shown(how, v))
    <3> HIDE DEF v
    <3> QED
      BY <1>1, <1>3, <2>1 DEF v
  <2> QED
    BY <2>1, <2>3, <2>4, <2>5
<1>8. CASE Thought(how, p, t, shown, told)
  <2>1. /\ Opens(t) /\ Closings(t) # {}
        /\ shown = Shown(how, t) /\ LStrip(told) = LStrip(AnswerOf(t))
    BY <1>8 DEF Thought
  <2>2. Shown(how, v) = Shown(how, t) /\ AnswerOf(v) = AnswerOf(t) \o u
    BY <2>1, ClosedMore
  <2>3. IsPrefix(LStrip(AnswerOf(t)), LStrip(AnswerOf(t) \o u))
    BY <1>1, StripBegins
  <2>4. IsPrefix(shown, Shown(how, v))
    BY <1>1, <1>3, <2>1, <2>2
  <2> QED
    BY <2>1, <2>2, <2>3, <2>4
<1> QED
  BY <1>5, <1>6, <1>7, <1>8, Zenon DEF Split
-----------------------------------------------------------------------------
(* The parser's fields and what has been yielded, at each state of a text. *)
SplitInv ==
    LET text == FlattenSeq(fed)
    IN /\ thinkingParser \in Parsers /\ fed \in Seq(Texts)
       /\ thoughts \in Texts /\ answer \in Texts
       /\ IF ended
          THEN thoughts = Shown(handling, text) /\ LStrip(answer) = LStrip(AnswerOf(text))
          ELSE Split(handling, thinkingParser, text, thoughts, answer)

LEMMA FedText ==
    ASSUME NEW f \in Seq(Texts), NEW u \in Texts
    PROVE  /\ FlattenSeq(f) \in Texts /\ Append(f, u) \in Seq(Texts)
           /\ FlattenSeq(Append(f, u)) = FlattenSeq(f) \o u
<1>1. f \in Seq(Seq(Symbols)) /\ u \in Seq(Symbols)
  BY DEF Texts
<1>2. FlattenSeq(f) \in Seq(Symbols) /\ FlattenSeq(Append(f, u)) = FlattenSeq(f) \o u
  BY <1>1, Flattened, FlattenedMore
<1>3. Append(f, u) \in Seq(Texts)
  BY AppendProperties
<1> QED
  BY <1>2, <1>3 DEF Texts

LEMMA InitSplit == ThinkingInit => SplitInv
<1> SUFFICES ASSUME ThinkingInit PROVE SplitInv
  OBVIOUS
<1>1. /\ thinkingParser = NewThinkingParser
      /\ fed = <<>> /\ thoughts = <<>> /\ answer = <<>> /\ ended = FALSE
  BY DEF ThinkingInit
<1>2. thinkingParser \in Parsers /\ thinkingParser.state = "pre_content"
      /\ thinkingParser.initialBuffer = <<>> /\ thinkingParser.first = TRUE
  BY <1>1, NothingText DEF NewThinkingParser, Parsers
<1>3. fed \in Seq(Texts) /\ FlattenSeq(fed) = <<>>
  BY <1>1, FlattenedNone, EmptySeq
<1>4. LStrip(<<>>) = <<>>
  <2>1. PICK k \in 0..Len(<<>>) : LStrip(<<>>) = Behind(<<>>, k)
    BY NothingText, StripsSpaces
  <2>2. k = 0 /\ <<>> \in Texts
    BY <2>1, NothingText, EmptySeq
  <2> QED
    BY <2>1, <2>2, NothingBehind
<1>5. ~Opens(<<>>)
  BY <1>4, NoTagYet DEF Opens
<1>6. Waiting(thinkingParser, <<>>, thoughts, answer)
  BY <1>1, <1>2, <1>5 DEF Waiting
<1> QED
  BY <1>1, <1>2, <1>3, <1>6, NothingText DEF SplitInv, Split

(* What is yielded for a result.                                           *)
LEMMA YieldedEvents ==
    ASSUME NEW r \in Results, YieldEvents(r), thoughts \in Texts, answer \in Texts
    PROVE  /\ thinkingParser' = r.parser /\ thinkingParser' \in Parsers
           /\ thoughts' = thoughts \o ProcessForOutput(handling, r) /\ thoughts' \in Texts
           /\ answer' = answer \o r.regular /\ answer' \in Texts
           /\ handling' = handling
<1>1. /\ thinkingParser' = r.parser /\ handling' = handling
      /\ thoughts' = thoughts \o ProcessForOutput(handling, r)
      /\ answer' = answer \o r.regular
  BY EventTexts DEF YieldEvents
<1>2. ProcessForOutput(handling, r) \in Texts /\ r.regular \in Texts /\ r.parser \in Parsers
  BY OutputType DEF Results
<1>3. /\ thoughts \o ProcessForOutput(handling, r) \in Texts
      /\ answer \o r.regular \in Texts
  BY <1>2, JoinedText
<1> QED
  BY <1>1, <1>2, <1>3

LEMMA NextSplit == SplitInv /\ [ThinkingNext]_thinkingVars => SplitInv'
<1> SUFFICES ASSUME SplitInv, [ThinkingNext]_thinkingVars
             PROVE  SplitInv'
  OBVIOUS
<1>1. /\ thinkingParser \in Parsers /\ fed \in Seq(Texts)
      /\ thoughts \in Texts /\ answer \in Texts
      /\ ~ended => Split(handling, thinkingParser, FlattenSeq(fed), thoughts, answer)
      /\ FlattenSeq(fed) \in Texts
  <2>1. FlattenSeq(fed) \in Texts
    BY FedText, NothingText DEF SplitInv
  <2> QED
    BY <2>1 DEF SplitInv
<1>2. ASSUME NEW piece \in Cuts, Content(piece)
      PROVE  SplitInv'
  <2> DEFINE r == Feed(thinkingParser, piece)
             text == FlattenSeq(fed)
  <2>1. piece \in Texts
    BY CutsAssumption DEF Texts
  <2>2. ~ended /\ fed' = Append(fed, piece) /\ YieldEvents(r) /\ ended' = ended
    BY <1>2 DEF Content
  <2>3. r \in Results
    BY <1>1, <2>1, FeedType
  <2>4. Split(handling, r.parser, text \o piece,
              thoughts \o ProcessForOutput(handling, r), answer \o r.regular)
    BY <1>1, <2>1, <2>2, FeedSplit
  <2> HIDE DEF r, text
  <2>5. /\ thinkingParser' = r.parser /\ thinkingParser' \in Parsers
        /\ thoughts' = thoughts \o ProcessForOutput(handling, r) /\ thoughts' \in Texts
        /\ answer' = answer \o r.regular /\ answer' \in Texts
        /\ handling' = handling
    BY <1>1, <2>2, <2>3, YieldedEvents
  <2>6. fed' \in Seq(Texts) /\ FlattenSeq(fed') = text \o piece
    BY <1>1, <2>1, <2>2, FedText DEF text
  <2>7. Split(handling', thinkingParser', FlattenSeq(fed'), thoughts', answer')
    BY <2>4, <2>5, <2>6
  <2> QED
    BY <2>2, <2>5, <2>6, <2>7 DEF SplitInv
<1>3. ASSUME EndOfText
      PROVE  SplitInv'
  <2> DEFINE r == Finalize(thinkingParser)
             text == FlattenSeq(fed)
  <2>1. ~ended /\ ended' = TRUE /\ YieldEvents(r) /\ fed' = fed
    BY <1>3 DEF EndOfText
  <2>2. r \in Results
    BY <1>1, FinalizeType
  <2>3. /\ thoughts \o ProcessForOutput(handling, r) = Shown(handling, text)
        /\ LStrip(answer \o r.regular) = LStrip(AnswerOf(text))
    BY <1>1, <2>1, FinalizeSplit
  <2> HIDE DEF r, text
  <2>4. /\ thinkingParser' = r.parser /\ thinkingParser' \in Parsers
        /\ thoughts' = thoughts \o ProcessForOutput(handling, r) /\ thoughts' \in Texts
        /\ answer' = answer \o r.regular /\ answer' \in Texts
        /\ handling' = handling
    BY <1>1, <2>1, <2>2, YieldedEvents
  <2>5. fed' \in Seq(Texts) /\ FlattenSeq(fed') = text
    BY <1>1, <2>1 DEF text
  <2>6. thoughts' = Shown(handling', FlattenSeq(fed'))
        /\ LStrip(answer') = LStrip(AnswerOf(FlattenSeq(fed')))
    BY <2>3, <2>4, <2>5
  <2> QED
    BY <2>1, <2>4, <2>5, <2>6 DEF SplitInv
<1>4. CASE UNCHANGED thinkingVars
  BY <1>4 DEF thinkingVars, SplitInv
<1> QED
  BY <1>2, <1>3, <1>4 DEF ThinkingNext

(* SplitAnywhere: wherever the text of a response is cut, and whatever the *)
(* tags and the mode are, the thinking parser splits it as the whole is    *)
(* split, and takes nothing back of what it has sent before.               *)
THEOREM SplitHolds == ThinkingSpec => []SplitAnywhere
<1>1. ThinkingSpec => []SplitInv
  BY InitSplit, NextSplit, PTL DEF ThinkingSpec
<1>2. SplitInv => SplitAnywhere
  <2> SUFFICES ASSUME SplitInv PROVE SplitAnywhere
    OBVIOUS
  <2> DEFINE text == FlattenSeq(fed)
  <2>1. text \in Texts
    BY FedText, NothingText DEF SplitInv
  <2>2. CASE ended
    BY <2>2 DEF SplitInv, SplitAnywhere
  <2>3. CASE ~ended
    <3>1. /\ thinkingParser \in Parsers /\ thoughts \in Texts /\ answer \in Texts
          /\ Split(handling, thinkingParser, text, thoughts, answer)
      BY <2>3 DEF SplitInv
    <3>2. \A rest \in {<<>>} \cup Cuts : rest \in Texts
      BY CutsAssumption, NothingText DEF Texts
    <3> HIDE DEF text
    <3>3. \A rest \in {<<>>} \cup Cuts :
              /\ IsPrefix(thoughts, Shown(handling, text \o rest))
              /\ IsPrefix(LStrip(answer), LStrip(AnswerOf(text \o rest)))
      BY <2>1, <3>1, <3>2, SplitBegins
    <3> QED
      BY <2>3, <3>3 DEF SplitAnywhere, text
  <2> QED
    BY <2>2, <2>3
<1> QED
  BY <1>1, <1>2, PTL
=============================================================================
