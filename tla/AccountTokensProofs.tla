------------------------ MODULE AccountTokensProofs ------------------------
(***************************************************************************)
(* Theorems about AccountTokens: type correctness in general, and, without *)
(* administrators' edits and bans, that the live refresh token is kept     *)
(* unless the answer that carried it was lost, for any number of requests  *)
(* and of tokens.                                                          *)
(***************************************************************************)
EXTENDS AccountTokens, FiniteSetTheorems, TLAPS

-----------------------------------------------------------------------------
(* Types                                                                   *)

CallState == [step : {"idle", "taken", "sent", "pool", "config"},
              held : Slices, sent : Tokens, got : Answers]
JobState == [step : {"idle", "sent", "config", "pool", "info", "edit", "reload"},
             snapshot : Accounts, sent : Tokens, got : Answers,
             retried : BOOLEAN]

(* The literal records are of their types.                                 *)
LEMMA LiteralTypes ==
    /\ 1 \in Tokens /\ 1 \in Slices
    /\ NoAnswer \in Answers
    /\ Gone \in Accounts /\ FirstAccount \in Accounts
    /\ NoCall \in CallState /\ NoJob \in JobState
<1>1. 1 \in Tokens
  BY TokensAssumption DEF Tokens
<1>2. 1 \in Slices
  <2>1. Cardinality(Requests) \in Nat
    BY TokensAssumption, FS_CardinalityType
  <2> QED
    BY <2>1 DEF Slices
<1>3. NoAnswer \in Answers
  BY <1>1, TokensAssumption DEF NoAnswer, Answers
<1>4. Gone \in Accounts /\ FirstAccount \in Accounts
  BY <1>1 DEF Gone, FirstAccount, Accounts
<1>5. NoCall \in CallState
  BY <1>1, <1>2, <1>3 DEF NoCall, CallState
<1>6. NoJob \in JobState
  BY <1>1, <1>3, <1>4 DEF NoJob, JobState
<1> QED
  BY <1>1, <1>2, <1>3, <1>4, <1>5, <1>6

(* A record that is given the tokens of an answer is still a record; it    *)
(* has the answer's access token, and its refresh token if there is one.   *)
LEMMA WithTokensType ==
    ASSUME NEW account \in Accounts, NEW got \in Answers
    PROVE  /\ WithTokens(account, got) \in Accounts
           /\ WithTokens(account, got).ban = account.ban
           /\ WithTokens(account, got).access = got.access
           /\ got.refresh = 0 =>
                 WithTokens(account, got).refresh = account.refresh
           /\ got.refresh # 0 => WithTokens(account, got).refresh = got.refresh
<1> DEFINE kept == IF got.refresh # 0 THEN got.refresh ELSE account.refresh
<1>1. kept \in Tokens
  <2>1. got.refresh \in 0..MaxTokens /\ account.refresh \in Tokens
    BY DEF Answers, Accounts
  <2>2. MaxTokens \in Nat
    BY TokensAssumption
  <2>3. got.refresh # 0 => got.refresh \in Tokens
    BY <2>1, <2>2 DEF Tokens
  <2> QED
    BY <2>1, <2>3
<1>2. WithTokens(account, got) =
          [account EXCEPT !.access = got.access, !.refresh = kept]
  BY DEF WithTokens, Accounts
<1>3. got.access \in Tokens
  BY DEF Answers
<1> HIDE DEF kept
<1>4. [account EXCEPT !.access = got.access, !.refresh = kept] \in Accounts
  BY <1>1, <1>3 DEF Accounts
<1>5. /\ WithTokens(account, got).ban = account.ban
      /\ WithTokens(account, got).access = got.access
      /\ WithTokens(account, got).refresh = kept
  BY <1>2 DEF Accounts
<1> QED
  BY <1>2, <1>4, <1>5 DEF kept

(* What the provider answers: a new access token, and a new refresh token  *)
(* that is the live one from then on, or none.                             *)
LEMMA RefreshesType ==
    ASSUME live \in Tokens, issued \in Tokens, NEW sent, NEW got \in Answers,
           NEW rotates \in BOOLEAN, Refreshes(sent, got, rotates)
    PROVE  /\ sent = live
           /\ issued' = issued + 1 /\ issued' \in Tokens /\ live' \in Tokens
           /\ got.access = issued'
           /\ \/ got.refresh = 0 /\ live' = live
              \/ got.refresh = issued' /\ live' = issued'
BY TokensAssumption DEF Refreshes, Tokens

(* A refresh whose answer is lost: either the new refresh token is lost,   *)
(* and nobody has the live one, or there was none in it.                   *)
LEMMA GrantLostType ==
    ASSUME live \in Tokens, issued \in Tokens, lost \in 0..MaxTokens,
           NEW sent, NEW rotates \in BOOLEAN, GrantLost(sent, rotates)
    PROVE  /\ sent = live
           /\ issued' = issued + 1
           /\ issued' \in Tokens /\ live' \in Tokens /\ lost' \in 0..MaxTokens
           /\ \/ live' = issued' /\ lost' = issued'
              \/ live' = live /\ lost' = lost
BY TokensAssumption DEF GrantLost, Tokens

-----------------------------------------------------------------------------
(* The conjuncts of TypeOK that a step of one request, or of one job, may  *)
(* disturb.                                                                *)
RecordTypes == config \in Accounts /\ slices \in [Slices -> Accounts]
ProviderTypes ==
    current \in Slices /\ live \in Tokens /\ issued \in Tokens
        /\ lost \in 0..MaxTokens /\ expired \in 0..MaxTokens
CallTypes == call \in [Requests -> CallState]
JobTypes == job \in [Jobs -> JobState]

LEMMA TypesSplit == TypeOK <=> RecordTypes /\ ProviderTypes /\ CallTypes /\ JobTypes
BY DEF TypeOK, RecordTypes, ProviderTypes, CallTypes, JobTypes, CallState, JobState

LEMMA NextTypes ==
    TypeOK' <=> RecordTypes' /\ ProviderTypes' /\ CallTypes' /\ JobTypes'
BY DEF TypeOK, RecordTypes, ProviderTypes, CallTypes, JobTypes, CallState, JobState

LEMMA InitTypes == TokenInit => TypeOK
<1> SUFFICES ASSUME TokenInit PROVE TypeOK
  OBVIOUS
<1>1. RecordTypes
  BY LiteralTypes DEF TokenInit, RecordTypes
<1>2. ProviderTypes
  BY LiteralTypes, TokensAssumption DEF TokenInit, ProviderTypes
<1>3. CallTypes
  BY LiteralTypes DEF TokenInit, CallTypes
<1>4. JobTypes
  BY LiteralTypes DEF TokenInit, JobTypes
<1> QED
  BY <1>1, <1>2, <1>3, <1>4, TypesSplit

(* A request's steps keep the types.                                       *)
LEMMA RequestTypes ==
    ASSUME TypeOK, NEW r \in Requests, RequestNext(r)
    PROVE  TypeOK'
<1>0. RecordTypes /\ ProviderTypes /\ CallTypes /\ JobTypes
  BY TypesSplit
<1>a. call[r] \in CallState /\ call[r].got \in Answers /\ call[r].held \in Slices
  BY <1>0 DEF CallTypes, CallState
<1> USE <1>0 DEF RecordTypes, ProviderTypes, CallTypes, JobTypes
<1>1. CASE Take(r)
  <2>1. [NoCall EXCEPT !.step = "taken", !.held = current] \in CallState
    BY LiteralTypes DEF CallState, NoCall
  <2> QED
    BY <1>1, <2>1, NextTypes DEF Take
<1>2. CASE UseToken(r)
  BY <1>2, LiteralTypes, NextTypes DEF UseToken
<1>3. CASE SendRefresh(r)
  <2>1. slices[call[r].held].refresh \in Tokens
    BY <1>a DEF Accounts
  <2>2. [call[r] EXCEPT !.step = "sent", !.sent = slices[call[r].held].refresh]
            \in CallState
    BY <1>a, <2>1 DEF CallState
  <2>3. call' = [call EXCEPT ![r] =
            [@ EXCEPT !.step = "sent", !.sent = slices[call[r].held].refresh]]
    BY <1>3, <1>a DEF SendRefresh
  <2> QED
    BY <1>3, <2>2, <2>3, NextTypes DEF SendRefresh
<1>4. ASSUME NEW rotates \in BOOLEAN, Refreshed(r, rotates)
      PROVE  TypeOK'
  <2>1. PICK got \in Answers :
            /\ Refreshes(call[r].sent, got, rotates)
            /\ call' = [call EXCEPT ![r].step = "pool", ![r].sent = 1,
                                    ![r].got = got]
    BY <1>4 DEF Refreshed
  <2>2. live' \in Tokens /\ issued' \in Tokens
    BY <2>1, RefreshesType
  <2>3. [call[r] EXCEPT !.step = "pool", !.sent = 1, !.got = got] \in CallState
    BY <1>a, <2>1, LiteralTypes DEF CallState
  <2>4. call' = [call EXCEPT ![r] =
            [@ EXCEPT !.step = "pool", !.sent = 1, !.got = got]]
    BY <2>1, <1>a
  <2> QED
    BY <1>4, <2>2, <2>3, <2>4, NextTypes DEF Refreshed
<1>5. CASE RefreshFails(r)
  BY <1>5, LiteralTypes, NextTypes DEF RefreshFails
<1>6. CASE StoreInPool(r)
  <2>1. \A s \in Slices : WithTokens(slices[s], call[r].got) \in Accounts
    BY <1>a, WithTokensType
  <2>2. slices' \in [Slices -> Accounts]
    BY <1>6, <2>1 DEF StoreInPool
  <2>3. [call[r] EXCEPT !.step = "config"] \in CallState
    BY <1>a DEF CallState
  <2> QED
    BY <1>6, <2>2, <2>3, NextTypes DEF StoreInPool
<1>7. CASE StoreInConfig(r)
  <2>1. WithTokens(config, call[r].got) \in Accounts
    BY <1>a, WithTokensType
  <2> QED
    BY <1>7, <2>1, LiteralTypes, NextTypes DEF StoreInConfig
<1>8. ASSUME NEW rotates \in BOOLEAN, AnswerLost(r, rotates)
      PROVE  TypeOK'
  <2>1. live' \in Tokens /\ issued' \in Tokens /\ lost' \in 0..MaxTokens
    BY <1>8, GrantLostType DEF AnswerLost
  <2> QED
    BY <1>8, <2>1, LiteralTypes, NextTypes DEF AnswerLost
<1> QED
  BY <1>1, <1>2, <1>3, <1>4, <1>5, <1>6, <1>7, <1>8 DEF RequestNext

(* A job's steps keep the types.                                           *)
LEMMA FinishTypes ==
    ASSUME JobTypes, NEW p \in Jobs, Finish(p)
    PROVE  JobTypes'
<1>1. [NoJob EXCEPT !.step = IF p = Background THEN "reload" ELSE "idle"]
          \in JobState
  BY LiteralTypes DEF JobState, NoJob
<1> QED
  BY <1>1 DEF Finish, JobTypes

LEMMA ReloadTypes ==
    ASSUME RecordTypes, ReloadPool
    PROVE  /\ current' \in Slices \ HeldSlices
           /\ slices' \in [Slices -> Accounts]
           /\ \A t \in Slices : slices'[t] \in {slices[t], config, Gone}
<1>1. PICK s \in Slices \ HeldSlices :
          /\ current' = s
          /\ slices' = [t \in Slices |->
                 IF t = s THEN IF config.enabled THEN config ELSE Gone
                 ELSE IF t \in HeldSlices THEN slices[t] ELSE Gone]
  BY DEF ReloadPool
<1> QED
  BY <1>1, LiteralTypes DEF RecordTypes

LEMMA JobTypesKept ==
    ASSUME TypeOK, NEW p \in Jobs, JobNext(p)
    PROVE  TypeOK'
<1>0. RecordTypes /\ ProviderTypes /\ CallTypes /\ JobTypes
  BY TypesSplit
<1>a. /\ job[p] \in JobState /\ job[p].got \in Answers
      /\ job[p].snapshot \in Accounts
  BY <1>0 DEF JobTypes, JobState
<1>b. config.refresh \in Tokens /\ job[p].snapshot.refresh \in Tokens
  BY <1>0, <1>a DEF RecordTypes, Accounts
<1>c. TRUE \in BOOLEAN /\ FALSE \in BOOLEAN
  OBVIOUS
<1> USE <1>0 DEF RecordTypes, ProviderTypes, CallTypes, JobTypes
<1>1. CASE StartRefresh(p)
  <2> DEFINE step == FirstStep(p)
             sent == IF step = "sent" THEN config.refresh ELSE 1
  <2>1. step \in {"reload", "sent", "info"} /\ sent \in Tokens
    BY <1>b, LiteralTypes DEF FirstStep
  <2>2. job' = [job EXCEPT ![p] = [NoJob EXCEPT
            !.snapshot = config, !.step = step, !.sent = sent]]
    BY <1>1 DEF StartRefresh
  <2> HIDE DEF step, sent
  <2>3. [NoJob EXCEPT !.snapshot = config, !.step = step, !.sent = sent]
            \in JobState
    BY <2>1, LiteralTypes DEF JobState, NoJob
  <2> QED
    BY <1>1, <2>2, <2>3, NextTypes DEF StartRefresh
<1>2. ASSUME NEW rotates \in BOOLEAN, JobRefreshed(p, rotates)
      PROVE  TypeOK'
  <2>1. PICK got \in Answers :
            /\ Refreshes(job[p].sent, got, rotates)
            /\ job' = [job EXCEPT ![p].step = "config", ![p].sent = 1,
                                  ![p].got = got,
                                  ![p].snapshot = WithTokens(@, got)]
    BY <1>2 DEF JobRefreshed
  <2>2. live' \in Tokens /\ issued' \in Tokens
    BY <2>1, RefreshesType
  <2>3. WithTokens(job[p].snapshot, got) \in Accounts
    BY <1>a, WithTokensType
  <2>4. [job[p] EXCEPT !.step = "config", !.sent = 1, !.got = got,
                       !.snapshot = WithTokens(job[p].snapshot, got)] \in JobState
    BY <1>a, <2>3, LiteralTypes DEF JobState
  <2>5. job' = [job EXCEPT ![p] =
            [job[p] EXCEPT !.step = "config", !.sent = 1, !.got = got,
                           !.snapshot = WithTokens(job[p].snapshot, got)]]
    BY <2>1, <1>a DEF JobState
  <2> QED
    BY <1>2, <2>2, <2>4, <2>5, NextTypes DEF JobRefreshed
<1>3. CASE JobRefreshFails(p)
  BY <1>3, FinishTypes, NextTypes DEF JobRefreshFails
<1>4. CASE JobStoreInConfig(p)
  <2>1. WithTokens(config, job[p].got) \in Accounts
    BY <1>a, WithTokensType
  <2>2. [job[p] EXCEPT !.step = "pool"] \in JobState
    BY <1>a DEF JobState
  <2> QED
    BY <1>4, <2>1, <2>2, NextTypes DEF JobStoreInConfig
<1>5. CASE JobStoreInPool(p)
  <2>1. WithTokens(slices[current], job[p].got) \in Accounts
    BY <1>a, WithTokensType
  <2>2. slices' \in [Slices -> Accounts]
    BY <1>5, <2>1 DEF JobStoreInPool
  <2>3. [job[p] EXCEPT !.step = "info", !.got = NoAnswer] \in JobState
    BY <1>a, LiteralTypes DEF JobState
  <2>4. job' = [job EXCEPT ![p] = [job[p] EXCEPT !.step = "info", !.got = NoAnswer]]
    BY <1>5, <1>a DEF JobStoreInPool, JobState
  <2> QED
    BY <1>5, <2>2, <2>3, <2>4, NextTypes DEF JobStoreInPool
<1>6. CASE Info(p)
  <2>1. [job[p].snapshot EXCEPT !.ban = "ACTIVE"] \in Accounts
    BY <1>a DEF Accounts
  <2>2. [job[p].snapshot EXCEPT !.enabled = FALSE, !.ban = "BANNED"] \in Accounts
    BY <1>a, <1>c DEF Accounts
  <2>3. CASE InfoRead(p)
    BY <2>1, <2>3, FinishTypes, NextTypes DEF InfoRead
  <2>4. CASE InfoSuspended(p)
    BY <2>2, <2>4, FinishTypes, NextTypes DEF InfoSuspended, Ban
  <2>5. CASE InfoDenied(p)
    <3>1. [job[p] EXCEPT !.step = "sent", !.retried = TRUE,
                         !.sent = job[p].snapshot.refresh] \in JobState
      BY <1>a, <1>b, <1>c DEF JobState
    <3>2. ASSUME job' = [job EXCEPT ![p].step = "sent", ![p].retried = TRUE,
                                    ![p].sent = job[p].snapshot.refresh]
          PROVE  JobTypes'
      <4>1. job' = [job EXCEPT ![p] =
                [job[p] EXCEPT !.step = "sent", !.retried = TRUE,
                               !.sent = job[p].snapshot.refresh]]
        BY <3>2, <1>a DEF JobState
      <4> QED
        BY <3>1, <4>1
    <3>3. JobTypes'
      BY <2>5, <3>2, FinishTypes DEF InfoDenied
    <3> QED
      BY <2>2, <2>5, <3>3, NextTypes DEF InfoDenied, Ban
  <2>6. CASE InfoFails(p)
    BY <2>6, FinishTypes, NextTypes DEF InfoFails
  <2> QED
    BY <1>6, <2>3, <2>4, <2>5, <2>6 DEF Info
<1>7. CASE StartEdit(p)
  <2>1. [NoJob EXCEPT !.step = "edit", !.snapshot = config] \in JobState
    BY LiteralTypes DEF JobState, NoJob
  <2> QED
    BY <1>7, <2>1, NextTypes DEF StartEdit
<1>8. ASSUME NEW enabled \in BOOLEAN, UpdateAccount(p, enabled)
      PROVE  TypeOK'
  <2>1. [job[p].snapshot EXCEPT !.enabled = enabled] \in Accounts
    BY <1>a DEF Accounts
  <2>2. [job[p] EXCEPT !.step = "reload"] \in JobState
    BY <1>a DEF JobState
  <2> QED
    BY <1>8, <2>1, <2>2, NextTypes DEF UpdateAccount
<1>9. CASE Reload(p)
  BY <1>9, ReloadTypes, LiteralTypes, NextTypes DEF Reload
<1>10. ASSUME NEW rotates \in BOOLEAN, JobAnswerLost(p, rotates)
       PROVE  TypeOK'
  <2>1. live' \in Tokens /\ issued' \in Tokens /\ lost' \in 0..MaxTokens
    BY <1>10, GrantLostType DEF JobAnswerLost
  <2> QED
    BY <1>10, <2>1, FinishTypes, NextTypes DEF JobAnswerLost
<1> QED
  BY <1>1, <1>2, <1>3, <1>4, <1>5, <1>6, <1>7, <1>8, <1>9, <1>10 DEF JobNext

LEMMA TypesInductive == TypeOK /\ [TokenNext]_tokenVars => TypeOK'
<1> SUFFICES ASSUME TypeOK, [TokenNext]_tokenVars PROVE TypeOK'
  OBVIOUS
<1>1. ASSUME NEW r \in Requests, RequestNext(r) PROVE TypeOK'
  BY <1>1, RequestTypes
<1>2. ASSUME NEW p \in Jobs, JobNext(p) PROVE TypeOK'
  BY <1>2, JobTypesKept
<1>3. CASE Expire
  <2>1. issued \in 0..MaxTokens
    BY TypesSplit, TokensAssumption DEF ProviderTypes, Tokens
  <2> QED
    BY <1>3, <2>1, TypesSplit, NextTypes
       DEF Expire, RecordTypes, ProviderTypes, CallTypes, JobTypes
<1>4. CASE UNCHANGED tokenVars
  BY <1>4, TypesSplit, NextTypes
     DEF tokenVars, RecordTypes, ProviderTypes, CallTypes, JobTypes
<1> QED
  BY <1>1, <1>2, <1>3, <1>4 DEF TokenNext

(* Slices, calls and jobs keep their types whatever requests, refreshers,  *)
(* administrators and the provider do (config/config.go:444).              *)
THEOREM TokensTypeCorrect == TokenSpec => []TypeOK
<1> QED
  BY InitTypes, TypesInductive, PTL DEF TokenSpec

-----------------------------------------------------------------------------
(* The inductive invariant of TokenStored                                  *)

(* TokenStored says nothing while an answer is on its way, and that is     *)
(* when the token could be lost.  What protects it: an answer with a new   *)
(* refresh token ("rotated") can only be given to a holder of the live     *)
(* one, and until it is saved nobody sends the new one again, because      *)
(* every copy that has it also has an access token that is not due.        *)
RotatedCalls == {r \in StoringRequests : call[r].got.refresh # 0}
RotatedJobs == {p \in Jobs : job[p].step = "config" /\ job[p].got.refresh # 0}
Rotating == RotatedCalls # {} \/ RotatedJobs # {}

(* An answer that is being stored has an access token that is not due.     *)
AnswersFresh ==
    /\ \A r \in StoringRequests : call[r].got.access > expired
    /\ \A p \in StoringJobs : job[p].got.access > expired

(* Nobody has a token the provider has not issued.                         *)
OnlyIssued ==
    /\ expired <= issued /\ live <= issued /\ config.refresh <= issued
    /\ \A s \in Slices : slices[s].refresh <= issued
    /\ \A r \in Requests :
          call[r].sent <= issued /\ call[r].got.refresh <= issued
    /\ \A p \in Jobs : job[p].sent <= issued /\ job[p].got.refresh <= issued

(* What awaits being saved is the live token.                              *)
RotatedIsLive ==
    /\ \A r \in RotatedCalls : call[r].got.refresh = live
    /\ \A p \in RotatedJobs : job[p].got.refresh = live

SavedUnlessRotating == ~Rotating /\ live # lost => config.refresh = live

(* Until then it is not sent, and no copy that holds it is due.            *)
NewTokenUnused ==
    Rotating =>
        /\ live # 1
        /\ config.refresh = live => ~Due(config)
        /\ \A s \in Slices : slices[s].refresh = live => ~Due(slices[s])
        /\ \A r \in Requests : call[r].step = "sent" => call[r].sent # live
        /\ \A p \in Jobs : job[p].step = "sent" => job[p].sent # live

(* Nothing is written back from a snapshot.                                *)
NoWriteBack ==
    /\ config.ban = ""
    /\ \A p \in Jobs : job[p].snapshot.ban = "" /\ job[p].step # "edit"

TokenInv ==
    /\ TypeOK /\ AnswersFresh /\ OnlyIssued /\ RotatedIsLive
    /\ SavedUnlessRotating /\ NewTokenUnused /\ NoWriteBack

(* No administrator works on the account, and it is never banned.          *)
Undisturbed == Admins = {} /\ Outcomes \subseteq {"ok", "failed"}

LEMMA InitTokenInv == TokenInit => TokenInv
<1> SUFFICES ASSUME TokenInit PROVE TokenInv
  OBVIOUS
<1>1. RotatedCalls = {} /\ RotatedJobs = {} /\ StoringRequests = {} /\ StoringJobs = {}
  BY DEF TokenInit, NoCall, NoJob, RotatedCalls, RotatedJobs, StoringRequests,
         StoringJobs
<1>2. OnlyIssued
  <2>1. /\ NoCall.sent <= 1 /\ NoCall.got.refresh <= 1
        /\ NoJob.sent <= 1 /\ NoJob.got.refresh <= 1
        /\ FirstAccount.refresh = 1
    BY DEF NoCall, NoJob, NoAnswer, FirstAccount
  <2> QED
    BY <2>1 DEF TokenInit, OnlyIssued
<1>3. NoWriteBack
  BY DEF TokenInit, NoWriteBack, NoJob, Gone, FirstAccount
<1>4. SavedUnlessRotating
  BY DEF TokenInit, SavedUnlessRotating, FirstAccount
<1> QED
  BY <1>1, <1>2, <1>3, <1>4, InitTypes
     DEF TokenInv, AnswersFresh, RotatedIsLive, NewTokenUnused, Rotating

(* What the types say of the numbers compared.                             *)
LEMMA TokenNumbers ==
    ASSUME TypeOK
    PROVE  /\ live \in Nat /\ issued \in Nat /\ expired \in Nat /\ issued >= 1
           /\ config.refresh \in Nat /\ config.access \in Nat
           /\ \A s \in Slices : slices[s] \in Accounts
                /\ slices[s].refresh \in Nat /\ slices[s].access \in Nat
           /\ \A r \in Requests : call[r] \in CallState
                /\ call[r].got \in Answers
                /\ call[r].held \in Slices
                /\ call[r].sent \in Nat
                /\ call[r].got.refresh \in Nat /\ call[r].got.access \in Nat
           /\ \A p \in Jobs : job[p] \in JobState
                /\ job[p].got \in Answers
                /\ job[p].snapshot \in Accounts
                /\ job[p].sent \in Nat
                /\ job[p].got.refresh \in Nat /\ job[p].got.access \in Nat
<1>0. RecordTypes /\ ProviderTypes /\ CallTypes /\ JobTypes
  BY TypesSplit
<1>1. Tokens \subseteq Nat /\ 0..MaxTokens \subseteq Nat /\ \A t \in Tokens : t >= 1
  BY TokensAssumption DEF Tokens
<1>2. \A a \in Accounts : a.refresh \in Nat /\ a.access \in Nat
  BY <1>1 DEF Accounts
<1>3. \A g \in Answers : g.refresh \in Nat /\ g.access \in Nat
  BY <1>1 DEF Answers
<1>4. \A r \in Requests : call[r] \in CallState
  BY <1>0 DEF CallTypes
<1>5. \A c \in CallState : c.got \in Answers /\ c.held \in Slices /\ c.sent \in Tokens
  BY DEF CallState
<1>6. \A p \in Jobs : job[p] \in JobState
  BY <1>0 DEF JobTypes
<1>7. \A j \in JobState : j.got \in Answers /\ j.snapshot \in Accounts
                          /\ j.sent \in Tokens
  BY DEF JobState
<1> QED
  BY <1>0, <1>1, <1>2, <1>3, <1>4, <1>5, <1>6, <1>7
     DEF RecordTypes, ProviderTypes

(* A request that starts, ends or sends its refresh.                       *)
LEMMA CallWithoutAnswer ==
    ASSUME TokenInv, TypeOK', NEW r \in Requests,
           UNCHANGED <<config, slices, live, issued, lost, expired, job>>,
           call[r].step \in {"idle", "taken", "sent"},
           call' = [call EXCEPT ![r] = call'[r]],
           call'[r].step \in {"idle", "taken", "sent"},
           call'[r].sent <= issued, call'[r].got.refresh <= issued,
           call'[r].step = "sent" /\ Rotating => call'[r].sent # live
    PROVE  TokenInv'
<1>1. \A q \in Requests : q # r => call'[q] = call[q]
  BY DEF TokenInv, TypeOK
<1>2. StoringRequests' = StoringRequests /\ StoringJobs' = StoringJobs
      /\ r \notin StoringRequests
  BY <1>1 DEF StoringRequests, StoringJobs
<1>3. RotatedCalls' = RotatedCalls /\ RotatedJobs' = RotatedJobs
      /\ r \notin RotatedCalls
  BY <1>1, <1>2 DEF RotatedCalls, RotatedJobs, StoringRequests
<1>4. AnswersFresh'
  BY <1>1, <1>2 DEF TokenInv, AnswersFresh, StoringRequests
<1>5. OnlyIssued'
  BY <1>1 DEF TokenInv, OnlyIssued
<1>6. RotatedIsLive'
  BY <1>1, <1>3 DEF TokenInv, RotatedIsLive, RotatedCalls, StoringRequests
<1>7. SavedUnlessRotating'
  BY <1>3 DEF TokenInv, SavedUnlessRotating, Rotating
<1>8. NewTokenUnused'
  BY <1>1, <1>3 DEF TokenInv, NewTokenUnused, Rotating, Due
<1>9. NoWriteBack'
  BY DEF TokenInv, NoWriteBack
<1> QED
  BY <1>4, <1>5, <1>6, <1>7, <1>8, <1>9 DEF TokenInv

(* The state Finish leaves a job in.                                       *)
EndedJob(p) == [NoJob EXCEPT !.step = IF p = Background THEN "reload" ELSE "idle"]

LEMMA EndedJobFields ==
    ASSUME NEW p
    PROVE  /\ EndedJob(p).step \in {"reload", "idle"} /\ EndedJob(p).sent = 1
           /\ EndedJob(p).got.refresh = 0 /\ EndedJob(p).snapshot.ban = ""
BY DEF EndedJob, NoJob, NoAnswer, Gone

(* A refresh that is granted, and its answer lost, ends with nothing       *)
(* stored: while a new token awaits being saved it cannot happen, since    *)
(* the live one is not sent then.                                          *)
LEMMA GrantLostKeeps ==
    ASSUME TokenInv, TypeOK', config' = config, slices' = slices,
           expired' = expired, issued' = issued + 1,
           \/ live' = issued' /\ lost' = issued'
           \/ live' = live /\ lost' = lost,
           \/ \E r \in Requests : call[r].step = "sent" /\ call[r].sent = live
           \/ \E p \in Jobs : job[p].step = "sent" /\ job[p].sent = live,
           \A r \in Requests :
              call'[r] # call[r] => call[r].step = "sent" /\ call'[r] = NoCall,
           \A p \in Jobs :
              job'[p] # job[p] => job[p].step = "sent" /\ job'[p] = EndedJob(p)
    PROVE  TokenInv'
<1>1. ~Rotating
  BY DEF TokenInv, NewTokenUnused
<1>2. StoringRequests' = StoringRequests /\ StoringJobs' = StoringJobs
  <2>1. NoCall.step = "idle"
    BY DEF NoCall
  <2>2. \A p \in Jobs : job'[p].step # job[p].step =>
            job[p].step = "sent" /\ job'[p].step \in {"reload", "idle"}
    BY EndedJobFields
  <2> QED
    BY <2>1, <2>2 DEF StoringRequests, StoringJobs
<1>3. RotatedCalls' = {} /\ RotatedJobs' = {}
  <2>1. \A r \in StoringRequests : call'[r] = call[r]
    <3>1. \A r \in StoringRequests : r \in Requests /\ call[r].step # "sent"
      BY DEF StoringRequests
    <3> QED
      BY <3>1
  <2>2. RotatedCalls' = RotatedCalls
    <3>1. RotatedCalls' = {r \in StoringRequests' : call'[r].got.refresh # 0}
      BY DEF RotatedCalls
    <3>2. RotatedCalls' = {r \in StoringRequests : call[r].got.refresh # 0}
      BY <1>2, <2>1, <3>1, Zenon
    <3> QED
      BY <3>2, Zenon DEF RotatedCalls
  <2>3. \A p \in Jobs : job'[p].step = "config" => job'[p] = job[p]
    BY EndedJobFields
  <2>4. RotatedJobs' \subseteq RotatedJobs
    BY <2>3 DEF RotatedJobs
  <2> QED
    BY <1>1, <2>2, <2>4 DEF Rotating
<1>4. AnswersFresh'
  BY <1>2 DEF TokenInv, AnswersFresh, StoringRequests, StoringJobs
<1>5. OnlyIssued'
  <2>1. /\ TypeOK /\ OnlyIssued /\ live' <= issued'
        /\ NoCall.sent = 1 /\ NoCall.got.refresh = 0
    BY TokenNumbers DEF TokenInv, OnlyIssued, NoCall, NoAnswer
  <2>2. \A r \in Requests :
            call'[r].sent <= issued' /\ call'[r].got.refresh <= issued'
    BY <2>1, TokenNumbers DEF OnlyIssued
  <2>3. ASSUME NEW p \in Jobs
        PROVE  job'[p].sent <= issued' /\ job'[p].got.refresh <= issued'
    <3>1. CASE job'[p] = job[p]
      BY <2>1, <3>1, TokenNumbers DEF OnlyIssued
    <3>2. CASE job'[p] = EndedJob(p)
      <4>1. 1 <= issued' /\ 0 <= issued'
        BY <2>1, TokenNumbers
      <4>2. job'[p].sent = 1 /\ job'[p].got.refresh = 0
        BY <3>2, EndedJobFields
      <4> QED
        BY <4>1, <4>2
    <3> QED
      BY <3>1, <3>2
  <2>4. /\ expired' <= issued' /\ config'.refresh <= issued'
        /\ \A s \in Slices : slices'[s].refresh <= issued'
    BY <2>1, TokenNumbers DEF OnlyIssued
  <2> QED
    BY <2>1, <2>2, <2>3, <2>4, Zenon DEF OnlyIssued
<1>6. RotatedIsLive' /\ NewTokenUnused'
  BY <1>3 DEF RotatedIsLive, NewTokenUnused, Rotating
<1>7. SavedUnlessRotating'
  <2>1. live # lost => config.refresh = live
    BY <1>1 DEF TokenInv, SavedUnlessRotating
  <2>2. live' # lost' => config'.refresh = live'
    BY <2>1
  <2> QED
    BY <2>2 DEF SavedUnlessRotating
<1>8. NoWriteBack'
  BY EndedJobFields DEF TokenInv, NoWriteBack
<1> QED
  BY <1>4, <1>5, <1>6, <1>7, <1>8 DEF TokenInv

LEMMA RequestKeepsTokens ==
    ASSUME TokenInv, NEW r \in Requests, RequestNext(r)
    PROVE  TokenInv'
<1>s. StoringRequests \subseteq Requests /\ RotatedCalls \subseteq StoringRequests
  BY DEF StoringRequests, RotatedCalls
<1>0. TypeOK /\ TypeOK'
  BY RequestTypes DEF TokenInv
<1>a. /\ NoCall.step = "idle" /\ NoCall.sent <= issued
      /\ NoCall.got.refresh <= issued
  BY <1>0, TokenNumbers DEF NoCall, NoAnswer
<1>b. /\ \A c : (call' = [call EXCEPT ![r] = c]) => call'[r] = c
      /\ call[r].got.refresh <= issued /\ call[r].sent <= issued
  BY <1>0 DEF TypeOK, TokenInv, OnlyIssued
<1>1. CASE Take(r)
  <2> DEFINE taken == [NoCall EXCEPT !.step = "taken", !.held = current]
  <2>1. /\ taken.step = "taken" /\ taken.sent <= issued
        /\ taken.got.refresh <= issued
    BY <1>a DEF NoCall
  <2>2. call' = [call EXCEPT ![r] = taken] /\ call'[r] = taken
    BY <1>1, <1>b DEF Take
  <2> HIDE DEF taken
  <2> QED
    BY <1>0, <1>1, <2>1, <2>2, CallWithoutAnswer DEF Take
<1>2. CASE UseToken(r) \/ RefreshFails(r)
  <2>1. call' = [call EXCEPT ![r] = NoCall] /\ call'[r] = NoCall
    BY <1>2, <1>b DEF UseToken, RefreshFails
  <2> QED
    BY <1>0, <1>2, <1>a, <2>1, CallWithoutAnswer DEF UseToken, RefreshFails
<1>3. CASE SendRefresh(r)
  <2> DEFINE held == slices[call[r].held]
             c == [call[r] EXCEPT !.step = "sent", !.sent = held.refresh]
  <2>1. call' = [call EXCEPT ![r] = c] /\ call'[r] = c
    BY <1>0, <1>3 DEF SendRefresh, TypeOK
  <2>2. c.step = "sent" /\ c.sent = held.refresh /\ c.got = call[r].got
    BY <1>0, TokenNumbers DEF CallState
  <2>3. held.refresh <= issued
    BY <1>0, TokenNumbers DEF TokenInv, OnlyIssued
  <2>4. Rotating => held.refresh # live
    BY <1>0, <1>3, TokenNumbers DEF SendRefresh, TokenInv, NewTokenUnused
  <2> HIDE DEF held, c
  <2> QED
    BY <1>0, <1>3, <1>b, <2>1, <2>2, <2>3, <2>4, CallWithoutAnswer
       DEF SendRefresh
<1>4. ASSUME NEW rotates \in BOOLEAN, Refreshed(r, rotates)
      PROVE  TokenInv'
  <2>1. PICK got \in Answers :
            /\ Refreshes(call[r].sent, got, rotates)
            /\ call' = [call EXCEPT ![r].step = "pool", ![r].sent = 1,
                                    ![r].got = got]
    BY <1>4 DEF Refreshed
  <2>2. /\ call[r].sent = live /\ issued' = issued + 1 /\ got.access = issued'
        /\ \/ got.refresh = 0 /\ live' = live
           \/ got.refresh = issued' /\ live' = issued'
    BY <1>0, <2>1, RefreshesType DEF TypeOK
  <2>3. UNCHANGED <<config, slices, current, lost, expired, job>>
    BY <1>4 DEF Refreshed
  <2>4. /\ \A q \in Requests : q # r => call'[q] = call[q]
        /\ call'[r].step = "pool" /\ call'[r].sent = 1 /\ call'[r].got = got
    BY <1>0, <2>1, TokenNumbers DEF CallState, TypeOK
  <2>5. call[r].step = "sent" /\ ~Rotating
    BY <1>4, <2>2 DEF Refreshed, TokenInv, NewTokenUnused
  <2>6. /\ StoringRequests' = StoringRequests \cup {r}
        /\ StoringJobs' = StoringJobs /\ r \notin StoringRequests
    BY <2>3, <2>4, <2>5 DEF StoringRequests, StoringJobs
  <2>7. /\ RotatedJobs' = {}
        /\ RotatedCalls' = IF got.refresh # 0 THEN {r} ELSE {}
    BY <1>s, <2>3, <2>4, <2>5, <2>6 DEF Rotating, RotatedJobs, RotatedCalls
  <2> USE <1>0, TokenNumbers
  <2>8. AnswersFresh'
    BY <1>s, <2>2, <2>3, <2>4, <2>6 DEF TokenInv, AnswersFresh, OnlyIssued
  <2>9. OnlyIssued'
    BY <2>2, <2>3, <2>4 DEF TokenInv, OnlyIssued
  <2>10. RotatedIsLive'
    BY <2>2, <2>4, <2>7 DEF RotatedIsLive
  <2>11. SavedUnlessRotating'
    BY <2>2, <2>3, <2>5, <2>7 DEF TokenInv, SavedUnlessRotating, Rotating
  <2>12. NewTokenUnused'
    BY <2>2, <2>3, <2>4, <2>7 DEF TokenInv, OnlyIssued, NewTokenUnused, Rotating
  <2>13. NoWriteBack'
    BY <2>3 DEF TokenInv, NoWriteBack
  <2> QED
    BY <2>8, <2>9, <2>10, <2>11, <2>12, <2>13 DEF TokenInv
<1>5. CASE StoreInPool(r)
  <2> DEFINE got == call[r].got
  <2>1. UNCHANGED <<config, current, live, issued, lost, expired, job>>
    BY <1>5 DEF StoreInPool
  <2>2. /\ \A q \in Requests : q # r => call'[q] = call[q]
        /\ call'[r].step = "config" /\ call'[r].sent = call[r].sent
        /\ call'[r].got = got /\ call[r].step = "pool"
    BY <1>0, <1>5, TokenNumbers DEF StoreInPool, CallState, TypeOK
  <2>3. StoringRequests' = StoringRequests /\ StoringJobs' = StoringJobs
        /\ r \in StoringRequests
    BY <2>1, <2>2 DEF StoringRequests, StoringJobs
  <2>4. RotatedCalls' = RotatedCalls /\ RotatedJobs' = RotatedJobs
    BY <1>s, <2>1, <2>2, <2>3 DEF RotatedCalls, RotatedJobs
  <2>5. \A s \in Slices : \/ slices'[s] = slices[s]
                          \/ slices'[s] = WithTokens(slices[s], got)
    BY <1>5 DEF StoreInPool
  <2>6. \A s \in Slices :
            \/ slices'[s] = slices[s]
            \/ /\ slices'[s].access = got.access
               /\ slices'[s].refresh \in {slices[s].refresh, got.refresh}
    BY <1>0, <2>5, TokenNumbers, WithTokensType
  <2>7. got.access > expired /\ got.refresh <= issued
    BY <2>3 DEF TokenInv, AnswersFresh, OnlyIssued
  <2> HIDE DEF got
  <2> USE <1>0, TokenNumbers
  <2>8. AnswersFresh'
    BY <1>s, <2>1, <2>2, <2>3, <2>7 DEF TokenInv, AnswersFresh
  <2>9. OnlyIssued'
    BY <2>1, <2>2, <2>6, <2>7 DEF TokenInv, OnlyIssued
  <2>10. RotatedIsLive'
    BY <2>1, <2>2, <2>4 DEF TokenInv, RotatedIsLive, RotatedCalls, StoringRequests, got
  <2>11. SavedUnlessRotating'
    BY <2>1, <2>4 DEF TokenInv, SavedUnlessRotating, Rotating
  <2>12. NewTokenUnused'
    <3>1. \A s \in Slices : Rotating /\ slices'[s].refresh = live
              => slices'[s].access > expired
      BY <2>6, <2>7 DEF TokenInv, NewTokenUnused, Due
    <3>2. \A s \in Slices : Rotating /\ slices'[s].refresh = live
              => ~(slices'[s].access <= expired)
      <4>1. \A s \in Slices : slices'[s].access \in Nat
        <5>1. \A a \in Accounts : a.access \in Nat
          <6>1. Tokens \subseteq Nat
            BY TokensAssumption DEF Tokens
          <6> QED
            BY <6>1 DEF Accounts
        <5>2. slices' \in [Slices -> Accounts]
          BY DEF TypeOK
        <5> QED
          BY <5>1, <5>2
      <4> QED
        BY <3>1, <4>1
    <3> QED
      BY <2>1, <2>2, <2>4, <3>2 DEF TokenInv, NewTokenUnused, Rotating, Due
  <2>13. NoWriteBack'
    BY <2>1 DEF TokenInv, NoWriteBack
  <2> QED
    BY <2>8, <2>9, <2>10, <2>11, <2>12, <2>13 DEF TokenInv
<1>6. CASE StoreInConfig(r)
  <2> DEFINE got == call[r].got
  <2>1. UNCHANGED <<slices, current, live, issued, lost, expired, job>>
    BY <1>6 DEF StoreInConfig
  <2>2. /\ \A q \in Requests : q # r => call'[q] = call[q]
        /\ call'[r] = NoCall /\ call[r].step = "config"
    BY <1>0, <1>6 DEF StoreInConfig, TypeOK
  <2>3. /\ StoringRequests' = StoringRequests \ {r} /\ StoringJobs' = StoringJobs
        /\ r \in StoringRequests
    BY <1>a, <2>1, <2>2 DEF StoringRequests, StoringJobs
  <2>4. RotatedCalls' = RotatedCalls \ {r} /\ RotatedJobs' = RotatedJobs
    BY <1>s, <2>1, <2>2, <2>3 DEF RotatedCalls, RotatedJobs
  <2>5. /\ config'.ban = config.ban /\ config'.access = got.access
        /\ got.refresh = 0 => config'.refresh = config.refresh
        /\ got.refresh # 0 => config'.refresh = got.refresh
    <3>1. config \in Accounts /\ got \in Answers
      BY <1>0, TokenNumbers DEF TypeOK
    <3> QED
      BY <1>6, <3>1, WithTokensType DEF StoreInConfig
  <2>6. got.access > expired /\ got.refresh <= issued
    BY <2>3 DEF TokenInv, AnswersFresh, OnlyIssued
  <2>7. got.refresh # 0 => got.refresh = live
    BY <2>3 DEF TokenInv, RotatedIsLive, RotatedCalls
  <2>8. got.refresh = 0 => RotatedCalls' = RotatedCalls
    BY <2>4 DEF RotatedCalls
  <2>9. got.access \in Nat
    BY <1>0, TokenNumbers
  <2> HIDE DEF got
  <2> USE <1>0, TokenNumbers
  <2>10. AnswersFresh'
    BY <1>s, <2>1, <2>2, <2>3 DEF TokenInv, AnswersFresh
  <2>11. OnlyIssued'
    BY <1>a, <2>1, <2>2, <2>5, <2>6 DEF TokenInv, OnlyIssued
  <2>12. RotatedIsLive'
    BY <1>s, <2>1, <2>2, <2>4 DEF TokenInv, RotatedIsLive
  <2>13. SavedUnlessRotating'
    BY <2>1, <2>4, <2>5, <2>7, <2>8 DEF TokenInv, SavedUnlessRotating, Rotating
  <2>14. NewTokenUnused'
    BY <1>a, <2>1, <2>2, <2>4, <2>5, <2>6, <2>9
       DEF TokenInv, NewTokenUnused, Rotating, Due
  <2>15. NoWriteBack'
    BY <2>1, <2>5 DEF TokenInv, NoWriteBack
  <2> QED
    BY <2>10, <2>11, <2>12, <2>13, <2>14, <2>15 DEF TokenInv
<1>7. ASSUME NEW rotates \in BOOLEAN, AnswerLost(r, rotates)
      PROVE  TokenInv'
  <2>1. /\ call[r].sent = live /\ issued' = issued + 1
        /\ \/ live' = issued' /\ lost' = issued'
           \/ live' = live /\ lost' = lost
    BY <1>0, <1>7, GrantLostType DEF AnswerLost, TypeOK
  <2>2. /\ UNCHANGED <<config, slices, current, expired, job>>
        /\ call[r].step = "sent"
        /\ \A q \in Requests : q # r => call'[q] = call[q]
        /\ call'[r] = NoCall
    BY <1>0, <1>7 DEF AnswerLost, TypeOK
  <2> QED
    BY <1>0, <1>a, <2>1, <2>2, GrantLostKeeps
<1> QED
  BY <1>1, <1>2, <1>3, <1>4, <1>5, <1>6, <1>7 DEF RequestNext

(* A job that starts, ends, or reads the usage of the account.             *)
LEMMA JobWithoutAnswer ==
    ASSUME TokenInv, TypeOK', NEW p \in Jobs,
           UNCHANGED <<config, slices, live, issued, lost, expired, call>>,
           job[p].step \in {"idle", "sent", "info"},
           job' = [job EXCEPT ![p] = job'[p]],
           job'[p].step \in {"idle", "sent", "info", "reload"},
           job'[p].sent <= issued, job'[p].got.refresh <= issued,
           job'[p].snapshot.ban = "",
           job'[p].step = "sent" /\ Rotating => job'[p].sent # live
    PROVE  TokenInv'
<1>1. \A q \in Jobs : q # p => job'[q] = job[q]
  BY DEF TokenInv, TypeOK
<1>2. /\ StoringRequests' = StoringRequests /\ StoringJobs' = StoringJobs
      /\ p \notin StoringJobs /\ StoringJobs \subseteq Jobs
  BY <1>1 DEF StoringRequests, StoringJobs
<1>3. /\ RotatedCalls' = RotatedCalls /\ RotatedJobs' = RotatedJobs
      /\ p \notin RotatedJobs /\ RotatedJobs \subseteq Jobs
  BY <1>1, <1>2 DEF RotatedCalls, RotatedJobs
<1>4. AnswersFresh'
  BY <1>1, <1>2 DEF TokenInv, AnswersFresh
<1>5. OnlyIssued'
  BY <1>1 DEF TokenInv, OnlyIssued
<1>6. RotatedIsLive'
  BY <1>1, <1>3 DEF TokenInv, RotatedIsLive
<1>7. SavedUnlessRotating'
  BY <1>3 DEF TokenInv, SavedUnlessRotating, Rotating
<1>8. NewTokenUnused'
  BY <1>1, <1>3 DEF TokenInv, NewTokenUnused, Rotating, Due
<1>9. NoWriteBack'
  BY <1>1 DEF TokenInv, NoWriteBack
<1> QED
  BY <1>4, <1>5, <1>6, <1>7, <1>8, <1>9 DEF TokenInv

LEMMA JobKeepsTokens ==
    ASSUME Undisturbed, TokenInv, NEW p \in Jobs, JobNext(p)
    PROVE  TokenInv'
<1>0. TypeOK /\ TypeOK'
  BY JobTypesKept DEF TokenInv
<1>s. StoringJobs \subseteq Jobs /\ RotatedJobs \subseteq StoringJobs
  BY DEF StoringJobs, RotatedJobs
<1>a. /\ NoJob.step = "idle" /\ NoJob.sent <= issued
      /\ NoJob.got.refresh <= issued /\ NoJob.snapshot.ban = ""
  <2>1. issued \in Nat /\ issued >= 1
    BY <1>0, TokenNumbers
  <2>2. /\ NoJob.step = "idle" /\ NoJob.sent = 1 /\ NoJob.got = NoAnswer
        /\ NoJob.snapshot = Gone
    BY DEF NoJob
  <2>3. NoAnswer.refresh = 0 /\ Gone.ban = ""
    BY DEF NoAnswer, Gone
  <2>4. NoJob.sent <= issued
    BY <2>1, <2>2
  <2>5. NoJob.got.refresh <= issued
    <3>1. NoJob.got.refresh = 0
      BY <2>2, <2>3
    <3> QED
      BY <2>1, <3>1
  <2> QED
    BY <2>2, <2>3, <2>4, <2>5
<1>b. job[p].got.refresh <= issued /\ job[p].sent <= issued
      /\ job[p].snapshot.ban = "" /\ job[p].step # "edit" /\ config.ban = ""
  BY DEF TokenInv, OnlyIssued, NoWriteBack
<1>f. ASSUME Finish(p),
             UNCHANGED <<config, slices, live, issued, lost, expired, call>>,
             job[p].step \in {"sent", "info"}
      PROVE  TokenInv'
  <2> DEFINE step == IF p = Background THEN "reload" ELSE "idle"
             j == [NoJob EXCEPT !.step = step]
  <2>1. job' = [job EXCEPT ![p] = j] /\ job'[p] = j
    BY <1>0, <1>f DEF Finish, TypeOK
  <2>2. /\ j.step \in {"reload", "idle"} /\ j.sent = NoJob.sent
        /\ j.got = NoJob.got /\ j.snapshot = NoJob.snapshot
    BY DEF NoJob
  <2> HIDE DEF step, j
  <2> QED
    BY <1>0, <1>a, <1>f, <2>1, <2>2, JobWithoutAnswer
<1>1. CASE StartRefresh(p)
  <2> DEFINE step == FirstStep(p)
             sent == IF step = "sent" THEN config.refresh ELSE 1
             j == [NoJob EXCEPT !.snapshot = config, !.step = step, !.sent = sent]
  <2>1. job' = [job EXCEPT ![p] = j] /\ job'[p] = j
    BY <1>0, <1>1 DEF StartRefresh, TypeOK
  <2>2. /\ j.step = step /\ j.sent = sent /\ j.got = NoJob.got
        /\ j.snapshot = config
    BY DEF NoJob
  <2>3. sent <= issued /\ step \in {"reload", "sent", "info"}
    BY <1>0, TokenNumbers DEF TokenInv, OnlyIssued, FirstStep
  <2>4. step = "sent" /\ Rotating => sent # live
    BY DEF FirstStep, TokenInv, NewTokenUnused
  <2> HIDE DEF step, sent, j
  <2> QED
    BY <1>0, <1>1, <1>a, <1>b, <2>1, <2>2, <2>3, <2>4, JobWithoutAnswer
       DEF StartRefresh
<1>2. ASSUME NEW rotates \in BOOLEAN, JobRefreshed(p, rotates)
      PROVE  TokenInv'
  <2>1. PICK got \in Answers :
            /\ Refreshes(job[p].sent, got, rotates)
            /\ job' = [job EXCEPT ![p].step = "config", ![p].sent = 1,
                                  ![p].got = got,
                                  ![p].snapshot = WithTokens(@, got)]
    BY <1>2 DEF JobRefreshed
  <2>2. /\ job[p].sent = live /\ issued' = issued + 1 /\ got.access = issued'
        /\ \/ got.refresh = 0 /\ live' = live
           \/ got.refresh = issued' /\ live' = issued'
    BY <1>0, <2>1, RefreshesType DEF TypeOK
  <2>3. UNCHANGED <<config, slices, current, lost, expired, call>>
    BY <1>2 DEF JobRefreshed
  <2>4. /\ \A q \in Jobs : q # p => job'[q] = job[q]
        /\ job'[p].step = "config" /\ job'[p].sent = 1 /\ job'[p].got = got
        /\ job'[p].snapshot = WithTokens(job[p].snapshot, got)
    BY <1>0, <2>1, TokenNumbers DEF JobState, TypeOK
  <2>5. job[p].step = "sent" /\ ~Rotating
    BY <1>2, <2>2 DEF JobRefreshed, TokenInv, NewTokenUnused
  <2>6. /\ StoringJobs' = StoringJobs \cup {p}
        /\ StoringRequests' = StoringRequests /\ p \notin StoringJobs
    BY <2>3, <2>4, <2>5 DEF StoringRequests, StoringJobs
  <2>7. /\ RotatedCalls' = {}
        /\ RotatedJobs' = IF got.refresh # 0 THEN {p} ELSE {}
    BY <1>s, <2>3, <2>4, <2>5, <2>6 DEF Rotating, RotatedJobs, RotatedCalls
  <2>8. job'[p].snapshot.ban = ""
    <3>1. job[p].snapshot \in Accounts
      BY <1>0, TokenNumbers
    <3>2. WithTokens(job[p].snapshot, got).ban = job[p].snapshot.ban
      BY <3>1, WithTokensType
    <3> QED
      BY <1>b, <2>4, <3>2
  <2> USE <1>0, TokenNumbers
  <2>9. AnswersFresh'
    BY <1>s, <2>2, <2>3, <2>4, <2>6 DEF TokenInv, AnswersFresh, OnlyIssued
  <2>10. OnlyIssued'
    BY <2>2, <2>3, <2>4 DEF TokenInv, OnlyIssued
  <2>11. RotatedIsLive'
    BY <2>2, <2>4, <2>7 DEF RotatedIsLive
  <2>12. SavedUnlessRotating'
    BY <2>2, <2>3, <2>5, <2>7 DEF TokenInv, SavedUnlessRotating, Rotating
  <2>13. NewTokenUnused'
    BY <2>2, <2>3, <2>4, <2>7 DEF TokenInv, OnlyIssued, NewTokenUnused, Rotating
  <2>14. NoWriteBack'
    BY <2>3, <2>4, <2>8 DEF TokenInv, NoWriteBack
  <2> QED
    BY <2>9, <2>10, <2>11, <2>12, <2>13, <2>14 DEF TokenInv
<1>3. CASE JobRefreshFails(p)
  BY <1>3, <1>f DEF JobRefreshFails
<1>4. CASE JobStoreInConfig(p)
  <2> DEFINE got == job[p].got
  <2>1. UNCHANGED <<slices, current, live, issued, lost, expired, call>>
    BY <1>4 DEF JobStoreInConfig
  <2>2. /\ \A q \in Jobs : q # p => job'[q] = job[q]
        /\ job'[p].step = "pool" /\ job'[p].sent = job[p].sent
        /\ job'[p].got = got /\ job'[p].snapshot = job[p].snapshot
        /\ job[p].step = "config"
    BY <1>0, <1>4, TokenNumbers DEF JobStoreInConfig, JobState, TypeOK
  <2>3. /\ StoringRequests' = StoringRequests /\ StoringJobs' = StoringJobs
        /\ p \in StoringJobs
    BY <2>1, <2>2 DEF StoringRequests, StoringJobs
  <2>4. RotatedCalls' = RotatedCalls /\ RotatedJobs' = RotatedJobs \ {p}
    BY <1>s, <2>1, <2>2, <2>3 DEF RotatedCalls, RotatedJobs
  <2>5. /\ config'.ban = config.ban /\ config'.access = got.access
        /\ got.refresh = 0 => config'.refresh = config.refresh
        /\ got.refresh # 0 => config'.refresh = got.refresh
    <3>1. config \in Accounts /\ got \in Answers
      BY <1>0, TokenNumbers DEF TypeOK
    <3> QED
      BY <1>4, <3>1, WithTokensType DEF JobStoreInConfig
  <2>6. got.access > expired /\ got.refresh <= issued
    BY <2>3 DEF TokenInv, AnswersFresh, OnlyIssued
  <2>7. got.refresh # 0 => got.refresh = live
    BY <2>2 DEF TokenInv, RotatedIsLive, RotatedJobs
  <2>8. got.refresh = 0 => RotatedJobs' = RotatedJobs
    BY <2>4 DEF RotatedJobs
  <2>9. got.access \in Nat
    BY <1>0, TokenNumbers
  <2> HIDE DEF got
  <2> USE <1>0, TokenNumbers
  <2>10. AnswersFresh'
    BY <1>s, <2>1, <2>2, <2>3, <2>6 DEF TokenInv, AnswersFresh
  <2>11. OnlyIssued'
    BY <2>1, <2>2, <2>5, <2>6 DEF TokenInv, OnlyIssued
  <2>12. RotatedIsLive'
    BY <1>s, <2>1, <2>2, <2>4 DEF TokenInv, RotatedIsLive
  <2>13. SavedUnlessRotating'
    BY <2>1, <2>4, <2>5, <2>7, <2>8 DEF TokenInv, SavedUnlessRotating, Rotating
  <2>14. NewTokenUnused'
    BY <2>1, <2>2, <2>4, <2>5, <2>6, <2>9
       DEF TokenInv, NewTokenUnused, Rotating, Due
  <2>15. NoWriteBack'
    BY <2>1, <2>2, <2>5 DEF TokenInv, NoWriteBack
  <2> QED
    BY <2>10, <2>11, <2>12, <2>13, <2>14, <2>15 DEF TokenInv
<1>5. CASE JobStoreInPool(p)
  <2> DEFINE got == job[p].got
  <2>1. UNCHANGED <<config, current, live, issued, lost, expired, call>>
    BY <1>5 DEF JobStoreInPool
  <2>2. /\ \A q \in Jobs : q # p => job'[q] = job[q]
        /\ job'[p].step = "info" /\ job'[p].sent = job[p].sent
        /\ job'[p].got = NoAnswer /\ job'[p].snapshot = job[p].snapshot
        /\ job[p].step = "pool"
    BY <1>0, <1>5, TokenNumbers DEF JobStoreInPool, JobState, TypeOK
  <2>3. /\ StoringRequests' = StoringRequests
        /\ StoringJobs' = StoringJobs \ {p} /\ p \in StoringJobs
    BY <2>1, <2>2 DEF StoringRequests, StoringJobs
  <2>4. RotatedCalls' = RotatedCalls /\ RotatedJobs' = RotatedJobs
        /\ p \notin RotatedJobs
    BY <1>s, <2>1, <2>2, <2>3 DEF RotatedCalls, RotatedJobs
  <2>5. \A s \in Slices : \/ slices'[s] = slices[s]
                          \/ slices'[s] = WithTokens(slices[s], got)
    BY <1>0, <1>5 DEF JobStoreInPool, TypeOK
  <2>6. \A s \in Slices :
            \/ slices'[s] = slices[s]
            \/ /\ slices'[s].access = got.access
               /\ slices'[s].refresh \in {slices[s].refresh, got.refresh}
    BY <1>0, <2>5, TokenNumbers, WithTokensType
  <2>7. got.access > expired /\ got.refresh <= issued
    BY <2>3 DEF TokenInv, AnswersFresh, OnlyIssued
  <2>8. NoAnswer.refresh = 0 /\ 0 <= issued
    BY <1>0, TokenNumbers DEF NoAnswer
  <2>9. got.access \in Nat
    BY <1>0, TokenNumbers
  <2> HIDE DEF got
  <2> USE <1>0, TokenNumbers
  <2>10. AnswersFresh'
    BY <1>s, <2>1, <2>2, <2>3, <2>7 DEF TokenInv, AnswersFresh
  <2>11. OnlyIssued'
    BY <2>1, <2>2, <2>6, <2>7, <2>8 DEF TokenInv, OnlyIssued
  <2>12. RotatedIsLive'
    BY <1>s, <2>1, <2>2, <2>4 DEF TokenInv, RotatedIsLive
  <2>13. SavedUnlessRotating'
    BY <2>1, <2>4 DEF TokenInv, SavedUnlessRotating, Rotating
  <2>14. NewTokenUnused'
    <3>1. \A s \in Slices : Rotating /\ slices'[s].refresh = live
              => ~(slices'[s].access <= expired)
      BY <2>6, <2>7, <2>9 DEF TokenInv, NewTokenUnused, Due
    <3> QED
      BY <2>1, <2>2, <2>4, <3>1 DEF TokenInv, NewTokenUnused, Rotating, Due
  <2>15. NoWriteBack'
    BY <2>1, <2>2 DEF TokenInv, NoWriteBack
  <2> QED
    BY <2>10, <2>11, <2>12, <2>13, <2>14, <2>15 DEF TokenInv
<1>6. CASE Info(p)
  <2>1. InfoRead(p) \/ InfoFails(p)
    BY <1>6 DEF Undisturbed, Info
  <2>2. UNCHANGED <<config, slices, live, issued, lost, expired, call>>
        /\ Finish(p) /\ job[p].step = "info"
    BY <1>b, <2>1 DEF InfoRead, InfoFails, Banned
  <2> QED
    BY <1>f, <2>2
<1>7. CASE StartEdit(p)
  BY <1>7 DEF StartEdit, Undisturbed, Jobs
<1>8. ASSUME NEW enabled \in BOOLEAN, UpdateAccount(p, enabled)
      PROVE  TokenInv'
  BY <1>8, <1>b DEF UpdateAccount
<1>9. CASE Reload(p)
  <2>1. UNCHANGED <<config, live, issued, lost, expired, call>>
    BY <1>9 DEF Reload
  <2>2. /\ \A q \in Jobs : q # p => job'[q] = job[q]
        /\ job'[p] = NoJob /\ job[p].step = "reload"
    BY <1>0, <1>9 DEF Reload, TypeOK
  <2>3. StoringRequests' = StoringRequests /\ StoringJobs' = StoringJobs
    BY <1>a, <2>1, <2>2 DEF StoringRequests, StoringJobs
  <2>4. /\ RotatedCalls' = RotatedCalls /\ RotatedJobs' = RotatedJobs
        /\ p \notin StoringJobs /\ p \notin RotatedJobs
    BY <1>a, <1>s, <2>1, <2>2, <2>3 DEF RotatedCalls, RotatedJobs, StoringJobs
  <2>5. \A s \in Slices : slices'[s] \in {slices[s], config, Gone}
    BY <1>0, <1>9, ReloadTypes, TypesSplit DEF Reload
  <2>6. Gone.refresh = 1
    BY DEF Gone
  <2> USE <1>0, TokenNumbers
  <2>10. AnswersFresh'
    BY <1>s, <2>1, <2>2, <2>3, <2>4 DEF TokenInv, AnswersFresh
  <2>11. OnlyIssued'
    BY <1>a, <2>1, <2>2, <2>5, <2>6 DEF TokenInv, OnlyIssued
  <2>12. RotatedIsLive'
    BY <1>s, <2>1, <2>2, <2>4 DEF TokenInv, RotatedIsLive
  <2>13. SavedUnlessRotating'
    BY <2>1, <2>4 DEF TokenInv, SavedUnlessRotating, Rotating
  <2>14. NewTokenUnused'
    BY <1>a, <2>1, <2>2, <2>4, <2>5, <2>6
       DEF TokenInv, NewTokenUnused, Rotating, Due
  <2>15. NoWriteBack'
    BY <1>a, <2>1, <2>2 DEF TokenInv, NoWriteBack
  <2> QED
    BY <2>10, <2>11, <2>12, <2>13, <2>14, <2>15 DEF TokenInv
<1>10. ASSUME NEW rotates \in BOOLEAN, JobAnswerLost(p, rotates)
       PROVE  TokenInv'
  <2>1. /\ job[p].sent = live /\ issued' = issued + 1
        /\ \/ live' = issued' /\ lost' = issued'
           \/ live' = live /\ lost' = lost
    BY <1>0, <1>10, GrantLostType DEF JobAnswerLost, TypeOK
  <2>2. /\ UNCHANGED <<config, slices, current, expired, call>>
        /\ job[p].step = "sent"
        /\ \A q \in Jobs : q # p => job'[q] = job[q]
        /\ job'[p] = EndedJob(p)
    BY <1>0, <1>10 DEF JobAnswerLost, Finish, EndedJob, TypeOK
  <2> QED
    BY <1>0, <2>1, <2>2, GrantLostKeeps
<1> QED
  BY <1>1, <1>2, <1>3, <1>4, <1>5, <1>6, <1>7, <1>8, <1>9, <1>10 DEF JobNext

LEMMA TokenInvInductive ==
    Undisturbed /\ TokenInv /\ [TokenNext]_tokenVars => TokenInv'
<1> SUFFICES ASSUME Undisturbed, TokenInv, [TokenNext]_tokenVars
             PROVE  TokenInv'
  OBVIOUS
<1>1. ASSUME NEW r \in Requests, RequestNext(r) PROVE TokenInv'
  BY <1>1, RequestKeepsTokens
<1>2. ASSUME NEW p \in Jobs, JobNext(p) PROVE TokenInv'
  BY <1>2, JobKeepsTokens
<1>3. CASE Expire
  <2>1. UNCHANGED <<config, slices, current, live, issued, lost, call, job>>
        /\ StoringRequests = {} /\ StoringJobs = {} /\ expired' = issued
    BY <1>3 DEF Expire
  <2>2. StoringRequests' = {} /\ StoringJobs' = {}
    BY <2>1 DEF StoringRequests, StoringJobs
  <2>3. /\ RotatedCalls = {} /\ RotatedJobs = {}
        /\ RotatedCalls' = {} /\ RotatedJobs' = {}
    BY <2>1, <2>2 DEF RotatedCalls, RotatedJobs, StoringJobs
  <2>4. OnlyIssued'
    BY <2>1, TokenNumbers DEF TokenInv, OnlyIssued
  <2>5. SavedUnlessRotating'
    BY <2>1, <2>3 DEF TokenInv, SavedUnlessRotating, Rotating
  <2>6. NoWriteBack'
    BY <2>1 DEF TokenInv, NoWriteBack
  <2> QED
    BY <2>2, <2>3, <2>4, <2>5, <2>6, TypesInductive
       DEF TokenInv, AnswersFresh, RotatedIsLive, NewTokenUnused, Rotating
<1>4. CASE UNCHANGED tokenVars
  <2>1. StoringRequests' = StoringRequests /\ StoringJobs' = StoringJobs
        /\ RotatedCalls' = RotatedCalls /\ RotatedJobs' = RotatedJobs
    BY <1>4 DEF tokenVars, StoringRequests, StoringJobs, RotatedCalls, RotatedJobs
  <2> QED
    BY <1>4, <2>1, TypesInductive
       DEF tokenVars, TokenInv, AnswersFresh, OnlyIssued, RotatedIsLive,
           SavedUnlessRotating, NewTokenUnused, NoWriteBack, Rotating, Due
<1> QED
  BY <1>1, <1>2, <1>3, <1>4 DEF TokenNext

LEMMA SavedWhenQuiet == TokenInv => TokenStored
<1> SUFFICES ASSUME TokenInv, AwaitingSave = {}, live # lost
             PROVE  config.refresh = live
  BY DEF TokenStored
<1>1. RotatedCalls = {} /\ RotatedJobs = {}
  BY DEF AwaitingSave, RotatedCalls, RotatedJobs, StoringRequests
<1> QED
  BY <1>1 DEF TokenInv, SavedUnlessRotating, Rotating

(* Among any number of requests and the background refresher, whatever     *)
(* order their refreshes, stores and reloads come in, the configuration    *)
(* ends up with the refresh token the provider accepts, unless the         *)
(* provider rotated it in an answer that was lost (oidc.go:42, oidc.go:59, *)
(* oidc.go:82, oidc.go:97): refreshes that fail, and granted ones whose    *)
(* answer is lost without a new refresh token in it, lose nothing.         *)
(* Administrators' edits and bans are excluded, and have to be: they write *)
(* back a copy of the whole record (handler.go:2435, kiro_api.go:154).     *)
THEOREM LiveTokenKept ==
    ASSUME Undisturbed
    PROVE  TokenSpec => []TokenStored
<1>1. TokenInv /\ [TokenNext]_tokenVars => TokenInv'
  BY TokenInvInductive
<1> QED
  BY <1>1, InitTokenInv, SavedWhenQuiet, PTL DEF TokenSpec

=============================================================================
