-------------------------- MODULE CredentialsProofs --------------------------
(***************************************************************************)
(* Theorems about Credentials, for any number of requests, tokens and      *)
(* ticks: its types, that the account is not lost, that what is served is  *)
(* fresh, and that a refusal is for stale credentials only.                *)
(***************************************************************************)
EXTENDS Credentials, SequenceTheorems, TLAPS

(* The facts about records that the steps use.                             *)
LEMMA LiteralTypes ==
    /\ NoCredential \in Credential /\ NoCall \in CallState /\ NoResult \in Outcome
    /\ NoCall.stage = "none"
<1>1. NoCredential \in Credential
  BY DEF NoCredential, Credential, None
<1> QED
  BY <1>1 DEF NoCall, CallState, NoResult, Outcome, None

LEMMA LoadedType ==
    ASSUME NEW held \in Credential, store \in Credential
    PROVE  LoadCredentials(held) \in Credential
BY DEF LoadCredentials

LEMMA SavedType ==
    ASSUME NEW held \in Credential, NEW works, store \in Credential
    PROVE  SaveCredentials(held, works) \in Credential
BY DEF SaveCredentials

LEMMA ReloadedType ==
    ASSUME TypeOK
    PROVE  Reloaded \in Credential
BY LoadedType DEF Reloaded, TypeOK

LEMMA AskingType ==
    ASSUME NEW token \in Nat, NEW again \in BOOLEAN
    PROVE  /\ Asking(token, again) \in CallState
           /\ Asking(token, again).stage = "asked"
           /\ Asking(token, again).sent = token
           /\ Asking(token, again).again = again
           /\ Asking(token, again).moved = FALSE
BY LiteralTypes DEF Asking, NoCall, CallState

(* A call that ends leaves the lock to the next one.                       *)
LEMMA FinishType ==
    ASSUME TypeOK, queue # <<>>, NEW status \in {"served", "failed", "refused"},
           NEW token \in Credential, Finish(status, token)
    PROVE  /\ queue' \in Seq(Ticket) /\ call' \in CallState /\ call'.stage = "none"
           /\ result' \in [Requests -> Outcome]
<1>1. Head(queue) \in Ticket /\ Tail(queue) \in Seq(Ticket)
  BY HeadTailProperties DEF TypeOK
<1>2. Head(queue).by \in Requests
  BY <1>1 DEF Ticket
<1>3. [status |-> status, token |-> token] \in Outcome
  BY DEF Outcome
<1>4. result' \in [Requests -> Outcome]
  BY <1>2, <1>3 DEF Finish, TypeOK
<1> QED
  BY <1>1, <1>4, LiteralTypes DEF Finish
-----------------------------------------------------------------------------
(* Types                                                                   *)

LEMMA InitTypeOK == Init => TypeOK
<1> SUFFICES ASSUME Init PROVE TypeOK
  OBVIOUS
<1>1. [access |-> 1, refresh |-> 1, expires |-> Lifetime] \in Credential
  BY DEF Credential, Lifetime
<1>2. queue \in Seq(Ticket)
  BY DEF Init
<1>3. result \in [Requests -> Outcome]
  BY LiteralTypes DEF Init
<1> QED
  BY <1>1, <1>2, <1>3, LiteralTypes DEF Init, TypeOK

LEMMA NextTypeOK ==
    ASSUME TypeOK, [Next]_vars
    PROVE  TypeOK'
<1>1. ASSUME NEW r \in Requests, NEW op \in {"get", "force"}, Ask(r, op)
      PROVE  TypeOK'
  <2>1. [by |-> r, op |-> op] \in Ticket
    BY DEF Ticket
  <2>2. queue' \in Seq(Ticket) /\ queue' # <<>>
    BY <1>1, <2>1, AppendProperties DEF Ask, TypeOK
  <2>3. result' \in [Requests -> Outcome]
    BY <1>1, LiteralTypes DEF Ask, TypeOK
  <2> QED
    BY <1>1, <2>2, <2>3 DEF Ask, TypeOK, external
<1>2. CASE Return
  <2>1. memory' \in Credential /\ Reloaded \in Credential
    BY <1>2, ReloadedType DEF Return
  <2>2. queue # <<>>
    BY <1>2 DEF Return, Entering
  <2>3. Finish("served", Reloaded)
    BY <1>2 DEF Return
  <2>4. /\ queue' \in Seq(Ticket) /\ call' \in CallState /\ call'.stage = "none"
        /\ result' \in [Requests -> Outcome]
    BY <2>1, <2>2, <2>3, FinishType
  <2> QED
    BY <1>2, <2>1, <2>4 DEF Return, TypeOK, external
<1>3. CASE Refresh
  <2>1. Reloaded \in Credential
    BY ReloadedType
  <2>2. call' \in CallState
    <3>1. Reloaded.refresh \in Nat
      BY <2>1 DEF Credential
    <3> QED
      BY <1>3, <3>1, AskingType DEF Refresh
  <2>3. queue # <<>>
    BY <1>3 DEF Refresh, Entering
  <2> QED
    BY <1>3, <2>1, <2>2, <2>3 DEF Refresh, TypeOK, external
<1>4. CASE NoRefreshToken
  <2>1. Reloaded \in Credential
    BY ReloadedType
  <2>2. queue # <<>> /\ Finish("failed", NoCredential)
    BY <1>4 DEF NoRefreshToken, Entering
  <2>3. /\ queue' \in Seq(Ticket) /\ call' \in CallState /\ call'.stage = "none"
        /\ result' \in [Requests -> Outcome]
    BY <2>2, FinishType, LiteralTypes
  <2> QED
    BY <1>4, <2>1, <2>3 DEF NoRefreshToken, TypeOK, external
<1>5. ASSUME NEW works \in Saves, Receive(works)
      PROVE  TypeOK'
  <2>1. call.grant \in Credential /\ queue # <<>>
    BY <1>5 DEF Receive, TypeOK, CallState
  <2>2. store' \in Credential
    BY <1>5, <2>1, SavedType DEF Receive, TypeOK
  <2>3. Finish("served", call.grant)
    BY <1>5 DEF Receive
  <2>4. /\ queue' \in Seq(Ticket) /\ call' \in CallState /\ call'.stage = "none"
        /\ result' \in [Requests -> Outcome]
    BY <2>1, <2>3, FinishType
  <2> QED
    BY <1>5, <2>1, <2>2, <2>4 DEF Receive, TypeOK, external
<1>6. CASE RetryReloaded
  <2>1. memory' \in Credential /\ queue # <<>>
    BY <1>6, LoadedType DEF RetryReloaded, TypeOK
  <2>2. call' \in CallState
    <3>1. memory'.refresh \in Nat
      BY <2>1 DEF Credential
    <3> QED
      BY <1>6, <3>1, AskingType DEF RetryReloaded
  <2> QED
    BY <1>6, <2>1, <2>2 DEF RetryReloaded, TypeOK, external
<1>7. CASE Refused
  <2>1. queue # <<>> /\ memory \in Credential
    BY <1>7 DEF Refused, TypeOK
  <2>2. Finish("served", memory) \/ Finish("refused", NoCredential)
    BY <1>7 DEF Refused
  <2>3. /\ queue' \in Seq(Ticket) /\ call' \in CallState /\ call'.stage = "none"
        /\ result' \in [Requests -> Outcome]
    BY <2>1, <2>2, FinishType, LiteralTypes
  <2> QED
    BY <1>7, <2>3 DEF Refused, TypeOK, external
<1>8. CASE RequestFails
  <2>1. queue # <<>> /\ Finish("failed", NoCredential)
    BY <1>8 DEF RequestFails, TypeOK
  <2>2. /\ queue' \in Seq(Ticket) /\ call' \in CallState /\ call'.stage = "none"
        /\ result' \in [Requests -> Outcome]
    BY <2>1, FinishType, LiteralTypes
  <2> QED
    BY <1>8, <2>2 DEF RequestFails, TypeOK, external
<1>9. ASSUME NEW writing \in BOOLEAN, Restart(writing)
      PROVE  TypeOK'
  <2>1. store' \in Credential /\ memory' = store'
    BY <1>9, LiteralTypes DEF Restart, TypeOK
  <2>2. queue' \in Seq(Ticket)
    BY <1>9 DEF Restart
  <2>3. result' \in [Requests -> Outcome]
    BY <1>9, LiteralTypes DEF Restart
  <2> QED
    BY <1>9, <2>1, <2>2, <2>3, LiteralTypes DEF Restart, TypeOK, external
<1>10. ASSUME NEW rotates \in BOOLEAN, Grant(rotates)
       PROVE  TypeOK'
  <2> DEFINE token == IF rotates THEN issued + 1 ELSE call.sent
  <2>1. token \in Nat
    BY DEF TypeOK, CallState
  <2> HIDE DEF token
  <2>2. NewCredential(token) \in Credential
    BY <2>1 DEF NewCredential, Credential, Lifetime, TypeOK
  <2>3. call' = [call EXCEPT !.stage = "granted", !.grant = NewCredential(token)]
    BY <1>10 DEF Grant, token
  <2>4. call' \in CallState /\ queue # <<>>
    BY <1>10, <2>2, <2>3 DEF Grant, TypeOK, CallState
  <2>5. issued' \in Nat /\ live' \subseteq 1..issued'
    BY <1>10 DEF Grant, TypeOK
  <2> QED
    BY <1>10, <2>4, <2>5 DEF Grant, TypeOK
<1>11. CASE Refuse
  <2>1. call' \in CallState /\ queue # <<>>
    BY <1>11 DEF Refuse, TypeOK, CallState
  <2> QED
    BY <1>11, <2>1 DEF Refuse, TypeOK, external
<1>12. ASSUME NEW keeps \in BOOLEAN, NEW writes \in BOOLEAN, CliRenews(keeps, writes)
       PROVE  TypeOK'
  <2>1. NewCredential(issued + 1) \in Credential
    BY DEF NewCredential, Credential, Lifetime, TypeOK
  <2>2. call' \in CallState /\ call'.stage = call.stage
    BY <1>12 DEF CliRenews, TypeOK, CallState
  <2>3. issued' \in Nat /\ live' \subseteq 1..issued'
    BY <1>12 DEF CliRenews, TypeOK
  <2> QED
    BY <1>12, <2>1, <2>2, <2>3 DEF CliRenews, TypeOK
<1>13. CASE Tick
  BY <1>13 DEF Tick, TypeOK
<1>14. CASE UNCHANGED vars
  BY <1>14 DEF vars, TypeOK
<1> QED
  BY <1>1, <1>2, <1>3, <1>4, <1>5, <1>6, <1>7, <1>8, <1>9, <1>10, <1>11, <1>12,
     <1>13, <1>14 DEF Next, Enter, Answer

(* Every variable keeps its type, and a refresh is only ever under way for *)
(* a request that has the lock.                                            *)
THEOREM CredentialsTypeCorrect == Spec => []TypeOK
<1>1. Init => TypeOK
  BY InitTypeOK
<1>2. TypeOK /\ [Next]_vars => TypeOK'
  BY NextTypeOK
<1> QED
  BY <1>1, <1>2, PTL DEF Spec
-----------------------------------------------------------------------------
(* The account is not lost                                                 *)

LEMMA InitNotLost == Init => NotLost
BY DEF Init, NotLost, NoCall

(* The steps that end a refresh without an answer leave the store alone.   *)
LEMMA NextNotLost ==
    ASSUME TypeOK, NotLost, [Next]_vars
    PROVE  NotLost'
<1>1. ASSUME NEW r \in Requests, NEW op \in {"get", "force"}, Ask(r, op)
      PROVE  NotLost'
  BY <1>1 DEF Ask, NotLost, external
<1>2. CASE Return
  BY <1>2, LiteralTypes DEF Return, Entering, Finish, NotLost, external
<1>3. CASE Refresh
  <2>1. Reloaded.refresh \in Nat
    BY ReloadedType DEF Credential
  <2>2. call'.stage = "asked"
    BY <1>3, <2>1, AskingType DEF Refresh
  <2> QED
    BY <1>3, <2>2 DEF Refresh, Entering, NotLost, external
<1>4. CASE NoRefreshToken
  BY <1>4, LiteralTypes DEF NoRefreshToken, Entering, Finish, NotLost, external
<1>5. ASSUME NEW works \in Saves, Receive(works)
      PROVE  NotLost'
  <2>1. call'.stage = "none"
    BY <1>5, LiteralTypes DEF Receive, Finish
  <2>2. faults' = {} => faults = {} /\ store' = call.grant
    BY <1>5 DEF Receive, SaveCredentials
  <2> QED
    BY <1>5, <2>1, <2>2 DEF Receive, NotLost, external
<1>6. CASE RetryReloaded
  <2>1. memory'.refresh \in Nat
    BY <1>6, LoadedType DEF RetryReloaded, TypeOK, Credential
  <2>2. call'.stage = "asked"
    BY <1>6, <2>1, AskingType DEF RetryReloaded
  <2> QED
    BY <1>6, <2>2 DEF RetryReloaded, NotLost, external
<1>7. CASE Refused
  BY <1>7, LiteralTypes DEF Refused, Finish, NotLost, external
<1>8. CASE RequestFails
  <2>1. call'.stage = "none" /\ (faults' = {} => faults = {} /\ call.stage = "asked")
    BY <1>8, LiteralTypes DEF RequestFails, Finish
  <2> QED
    BY <1>8, <2>1 DEF RequestFails, NotLost, external
<1>9. ASSUME NEW writing \in BOOLEAN, Restart(writing)
      PROVE  NotLost'
  <2>1. call'.stage = "none"
    BY <1>9, LiteralTypes DEF Restart
  <2>2. faults' = {} => faults = {} /\ call.stage # "granted" /\ store' = store
    BY <1>9 DEF Restart
  <2> QED
    BY <1>9, <2>1, <2>2 DEF Restart, NotLost, external
<1>10. ASSUME NEW rotates \in BOOLEAN, Grant(rotates)
       PROVE  NotLost'
  <2>1. call'.grant = NewCredential(IF rotates THEN issued + 1 ELSE call.sent)
    BY <1>10 DEF Grant, TypeOK, CallState
  <2>2. call'.grant.refresh = IF rotates THEN issued + 1 ELSE call.sent
    BY <2>1 DEF NewCredential
  <2>3. call'.grant.refresh \in live' /\ call'.stage = "granted"
    BY <1>10, <2>2 DEF Grant, TypeOK, CallState
  <2> QED
    BY <2>3 DEF NotLost
<1>11. CASE Refuse
  <2>1. call'.stage = "refused" /\ call.stage = "asked"
    BY <1>11 DEF Refuse, TypeOK, CallState
  <2> QED
    BY <1>11, <2>1 DEF Refuse, NotLost, external
<1>12. ASSUME NEW keeps \in BOOLEAN, NEW writes \in BOOLEAN, CliRenews(keeps, writes)
       PROVE  NotLost'
  <2>1. faults' = {} => writes /\ call.stage = "none" /\ call' = call
    BY <1>12 DEF CliRenews
  <2>2. writes => store'.refresh = issued + 1
    BY <1>12 DEF CliRenews, NewCredential
  <2>3. issued + 1 \in live'
    BY <1>12 DEF CliRenews
  <2> QED
    BY <2>1, <2>2, <2>3 DEF NotLost
<1>13. CASE Tick
  BY <1>13 DEF Tick, NotLost
<1>14. CASE UNCHANGED vars
  BY <1>14 DEF vars, NotLost
<1> QED
  BY <1>1, <1>2, <1>3, <1>4, <1>5, <1>6, <1>7, <1>8, <1>9, <1>10, <1>11, <1>12,
     <1>13, <1>14 DEF Next, Enter, Answer

(* Without faults the store has a refresh token that the provider takes,   *)
(* or is about to be given it: rotation, waiting requests, refusals,       *)
(* restarts and logins do not lose the account.                            *)
THEOREM AccountNotLost == Spec => []NotLost
<1>1. Init => TypeOK /\ NotLost
  BY InitTypeOK, InitNotLost
<1>2. TypeOK /\ NotLost /\ [Next]_vars => TypeOK' /\ NotLost'
  BY NextTypeOK, NextNotLost
<1> QED
  BY <1>1, <1>2, PTL DEF Spec
-----------------------------------------------------------------------------
(* What is served and what is refused                                      *)

(* A refresh is asked for with the token of the store, if it is for a      *)
(* request that has had it read, and unless kiro-cli changes it meanwhile; *)
(* a refusal stands as long, and what is granted is new.                   *)
AskedWithStored ==
    /\ call.stage \in {"asked", "refused"} /\ source = "sqlite" /\ ~ call.moved
       /\ (call.again \/ Head(queue).op = "get")
           => store.refresh \in {call.sent, None}
    /\ call.stage = "refused" /\ ~ call.moved => call.sent \notin live
    /\ call.stage = "granted" => call.grant.expires = clock + Lifetime

LEMMA InitAsked == Init => AskedWithStored
BY DEF Init, AskedWithStored, NoCall

(* Between two refreshes it says nothing.                                  *)
LEMMA NoneAsked ==
    ASSUME call'.stage = "none"
    PROVE  AskedWithStored'
BY DEF AskedWithStored

LEMMA NextAsked ==
    ASSUME TypeOK, AskedWithStored, [Next]_vars
    PROVE  AskedWithStored'
<1>1. ASSUME NEW r \in Requests, NEW op \in {"get", "force"}, Ask(r, op)
      PROVE  AskedWithStored'
  <2>1. call.stage # "none" => Head(queue') = Head(queue)
    <3>1. [by |-> r, op |-> op] \in Ticket
      BY DEF Ticket
    <3> QED
      BY <1>1, <3>1, HeadTailAppend DEF Ask, TypeOK
  <2> QED
    BY <1>1, <2>1 DEF Ask, AskedWithStored, external
<1>2. CASE Return
  BY <1>2, NoneAsked, LiteralTypes DEF Return, Finish
<1>3. CASE Refresh
  <2>1. Reloaded.refresh \in Nat
    BY ReloadedType DEF Credential
  <2>2. /\ call'.stage = "asked" /\ call'.sent = Reloaded.refresh
        /\ call'.again = FALSE
    BY <1>3, <2>1, AskingType DEF Refresh
  <2>3. source = "sqlite" /\ Head(queue).op = "get" => Reloaded = LoadCredentials(memory)
    BY <1>3 DEF Refresh, StillGood, Reloaded
  <2>4. source = "sqlite" /\ Head(queue).op = "get" => store.refresh \in {Reloaded.refresh, None}
    BY <2>3 DEF LoadCredentials, NoCredential
  <2> QED
    BY <1>3, <2>2, <2>4 DEF Refresh, AskedWithStored, external
<1>4. CASE NoRefreshToken
  BY <1>4, NoneAsked, LiteralTypes DEF NoRefreshToken, Finish
<1>5. ASSUME NEW works \in Saves, Receive(works)
      PROVE  AskedWithStored'
  BY <1>5, NoneAsked, LiteralTypes DEF Receive, Finish
<1>6. CASE RetryReloaded
  <2>1. memory'.refresh \in Nat
    BY <1>6, LoadedType DEF RetryReloaded, TypeOK, Credential
  <2>2. call'.stage = "asked" /\ call'.sent = memory'.refresh
    BY <1>6, <2>1, AskingType DEF RetryReloaded
  <2>3. store.refresh \in {memory'.refresh, None}
    BY <1>6 DEF RetryReloaded, LoadCredentials, NoCredential
  <2> QED
    BY <1>6, <2>2, <2>3 DEF RetryReloaded, AskedWithStored, external
<1>7. CASE Refused
  BY <1>7, NoneAsked, LiteralTypes DEF Refused, Finish
<1>8. CASE RequestFails
  BY <1>8, NoneAsked, LiteralTypes DEF RequestFails, Finish
<1>9. ASSUME NEW writing \in BOOLEAN, Restart(writing)
      PROVE  AskedWithStored'
  BY <1>9, NoneAsked, LiteralTypes DEF Restart
<1>10. ASSUME NEW rotates \in BOOLEAN, Grant(rotates)
       PROVE  AskedWithStored'
  <2>1. call'.stage = "granted" /\ clock' = clock
        /\ call'.grant = NewCredential(IF rotates THEN issued + 1 ELSE call.sent)
    BY <1>10 DEF Grant, TypeOK, CallState
  <2> QED
    BY <2>1 DEF AskedWithStored, NewCredential
<1>11. CASE Refuse
  <2>1. /\ call.stage = "asked" /\ call.sent \notin live
        /\ call'.stage = "refused" /\ call'.sent = call.sent
        /\ call'.again = call.again /\ call'.moved = call.moved
    BY <1>11 DEF Refuse, TypeOK, CallState
  <2> QED
    BY <1>11, <2>1 DEF Refuse, AskedWithStored, external
<1>12. ASSUME NEW keeps \in BOOLEAN, NEW writes \in BOOLEAN, CliRenews(keeps, writes)
       PROVE  AskedWithStored'
  <2>1. CASE call.stage = "none"
    BY <1>12, <2>1, NoneAsked DEF CliRenews
  <2>2. CASE call.stage # "none"
    <3>1. call'.moved = TRUE /\ call'.stage = call.stage /\ call'.grant = call.grant
          /\ clock' = clock
      BY <1>12, <2>2 DEF CliRenews, TypeOK, CallState
    <3> QED
      BY <3>1 DEF AskedWithStored
  <2> QED
    BY <2>1, <2>2
<1>13. CASE Tick
  BY <1>13, NoneAsked DEF Tick
<1>14. CASE UNCHANGED vars
  BY <1>14 DEF vars, AskedWithStored
<1> QED
  BY <1>1, <1>2, <1>3, <1>4, <1>5, <1>6, <1>7, <1>8, <1>9, <1>10, <1>11, <1>12,
     <1>13, <1>14 DEF Next, Enter, Answer

(* Only the end of a call changes results, and to the one it says.         *)
LEMMA FinishResult ==
    ASSUME TypeOK, NEW status, NEW token, Finish(status, token),
           NEW r \in Requests, result'[r] # result[r]
    PROVE  result'[r].status = status /\ result'[r].token = token
<1>1. result' = [result EXCEPT ![Head(queue).by] = [status |-> status, token |-> token]]
  BY DEF Finish
<1>2. result'[r] = [status |-> status, token |-> token]
  BY <1>1 DEF TypeOK
<1> QED
  BY <1>2

LEMMA OthersKeepResults ==
    ASSUME TypeOK, NEW r \in Requests, result'[r] # result[r],
           \/ \E q \in Requests, op \in {"get", "force"} : Ask(q, op)
           \/ Refresh \/ RetryReloaded \/ Refuse \/ Tick \/ UNCHANGED vars
           \/ \E rotates \in BOOLEAN : Grant(rotates)
           \/ \E writing \in BOOLEAN : Restart(writing)
           \/ \E keeps, writes \in BOOLEAN : CliRenews(keeps, writes)
    PROVE  result'[r].status = "none"
<1>1. ASSUME NEW q \in Requests, NEW op \in {"get", "force"}, Ask(q, op)
      PROVE  result'[r] = NoResult
  BY <1>1 DEF Ask, TypeOK
<1>2. ASSUME NEW writing \in BOOLEAN, Restart(writing)
      PROVE  result'[r] = NoResult
  BY <1>2 DEF Restart
<1>3. \/ result'[r] = NoResult
      \/ result' = result
  BY <1>1, <1>2 DEF Refresh, RetryReloaded, Refuse, Tick, vars, Grant, CliRenews
<1> QED
  BY <1>3 DEF NoResult

LEMMA ServesFresh ==
    ASSUME TypeOK, AskedWithStored, [Next]_vars, NEW r \in Requests,
           result'[r] # result[r], result'[r].status = "served"
    PROVE  /\ result'[r].token.expires > clock
           /\ call.stage = "refused" \/ result'[r].token.expires > clock + 1
<1>1. CASE Return
  <2>1. result'[r].token = Reloaded
    BY <1>1, FinishResult DEF Return
  <2>2. ~ IsExpiringSoon(Reloaded)
    BY <1>1 DEF Return, StillGood
  <2>3. Reloaded.expires \in Nat /\ clock \in Nat
    BY ReloadedType DEF Credential, TypeOK
  <2> QED
    BY <2>1, <2>2, <2>3 DEF IsExpiringSoon
<1>2. ASSUME NEW works \in Saves, Receive(works)
      PROVE  result'[r].token.expires > clock + 1
  <2>1. result'[r].token = call.grant
    BY <1>2, FinishResult DEF Receive
  <2>2. call.grant.expires = clock + 2 /\ clock \in Nat
    BY <1>2 DEF Receive, AskedWithStored, Lifetime, TypeOK
  <2> QED
    BY <2>1, <2>2
<1>3. CASE Refused
  <2>1. CASE Degrades
    <3>1. result'[r].token = memory /\ call.stage = "refused"
      BY <1>3, <2>1, FinishResult DEF Refused
    <3>2. memory.expires > clock
      BY <2>1 DEF Degrades, IsExpired, TypeOK, Credential
    <3> QED
      BY <3>1, <3>2
  <2>2. CASE ~ Degrades
    <3>1. result'[r].status = "refused"
      BY <1>3, <2>2, FinishResult DEF Refused
    <3> QED
      BY <3>1
  <2> QED
    BY <2>1, <2>2
<1>4. CASE NoRefreshToken \/ RequestFails
  <2>1. result'[r].status = "failed"
    BY <1>4, FinishResult DEF NoRefreshToken, RequestFails
  <2> QED
    BY <2>1
<1>5. clock \in Nat
  BY DEF TypeOK
<1>6. CASE ~ (Return \/ Refused \/ NoRefreshToken \/ RequestFails)
           /\ ~ \E works \in Saves : Receive(works)
  <2>1. result'[r].status = "none"
    BY <1>6, OthersKeepResults DEF Next, Enter, Answer
  <2> QED
    BY <2>1
<1>7. ASSUME NEW works \in Saves, Receive(works)
      PROVE  result'[r].token.expires > clock
  <2>1. result'[r].token.expires > clock + 1
    BY <1>7, <1>2
  <2>2. result'[r].token.expires \in Nat
    <3>1. result'[r].token = call.grant
      BY <1>7, FinishResult DEF Receive
    <3> QED
      BY <3>1 DEF TypeOK, CallState, Credential
  <2> QED
    BY <2>1, <2>2, <1>5
<1> QED
  BY <1>1, <1>2, <1>3, <1>4, <1>6, <1>7

LEMMA RefusesIfStale ==
    ASSUME TypeOK, AskedWithStored, [Next]_vars, NEW r \in Requests,
           result'[r] # result[r], result'[r].status = "refused",
           source = "sqlite", authType = "aws_sso_oidc" \/ Head(queue).op = "get"
    PROVE  store.refresh \notin live \/ call.moved
<1>1. CASE Refused
  <2>1. call.stage = "refused" /\ (call.again \/ Head(queue).op = "get")
    BY <1>1 DEF Refused, TriesAgain
  <2>2. None \notin live
    BY DEF TypeOK, None
  <2> QED
    BY <2>1, <2>2 DEF AskedWithStored
<1>2. ASSUME Return \/ NoRefreshToken \/ RequestFails \/ \E works \in Saves : Receive(works)
      PROVE  result'[r].status # "refused"
  <2>1. result'[r].status \in {"served", "failed"}
    BY <1>2, FinishResult DEF Return, NoRefreshToken, RequestFails, Receive
  <2> QED
    BY <2>1
<1>3. CASE ~ (Return \/ Refused \/ NoRefreshToken \/ RequestFails)
           /\ ~ \E works \in Saves : Receive(works)
  <2>1. result'[r].status = "none"
    BY <1>3, OthersKeepResults DEF Next, Enter, Answer
  <2> QED
    BY <2>1
<1> QED
  BY <1>1, <1>2, <1>3

(* A request is never served a token known to be expired, nor one that     *)
(* soon will be while the provider gives out better ones.                  *)
THEOREM FreshlyServed == Spec => ServedFresh
<1>1. Init => TypeOK /\ AskedWithStored
  BY InitTypeOK, InitAsked
<1>2. TypeOK /\ AskedWithStored /\ [Next]_vars => TypeOK' /\ AskedWithStored'
  BY NextTypeOK, NextAsked
<1>3. TypeOK /\ AskedWithStored /\ [Next]_vars =>
          [\A r \in Requests :
              result'[r] # result[r] /\ result'[r].status = "served" =>
                  /\ result'[r].token.expires > clock
                  /\ call.stage = "refused" \/ result'[r].token.expires > clock + 1]_vars
  BY ServesFresh
<1> QED
  BY <1>1, <1>2, <1>3, PTL DEF Spec, ServedFresh

(* With the credentials of a database a request is refused only when those *)
(* stored are refused as well, or have just changed.                       *)
THEOREM RefusedForStale == Spec => RefusedOnlyIfStale
<1>1. Init => TypeOK /\ AskedWithStored
  BY InitTypeOK, InitAsked
<1>2. TypeOK /\ AskedWithStored /\ [Next]_vars => TypeOK' /\ AskedWithStored'
  BY NextTypeOK, NextAsked
<1>3. TypeOK /\ AskedWithStored /\ [Next]_vars =>
          [\A r \in Requests :
              result'[r] # result[r] /\ result'[r].status = "refused"
              /\ source = "sqlite"
              /\ (authType = "aws_sso_oidc" \/ Head(queue).op = "get")
                  => store.refresh \notin live \/ call.moved]_vars
  BY RefusesIfStale
<1> QED
  BY <1>1, <1>2, <1>3, PTL DEF Spec, RefusedOnlyIfStale
-----------------------------------------------------------------------------
(* A refresh serves those who waited for it                                *)

(* While nothing is lost, what the gateway holds and what is stored are as *)
(* young as the last refresh, which is the life of a token away from their *)
(* end.                                                                    *)
Young(cred) == cred.expires >= refreshed + Lifetime

KeptYoung ==
    /\ refreshed <= clock
    /\ faults = {} => Young(memory) /\ Young(store)

LEMMA InitKeptYoung == Init => KeptYoung
BY DEF Init, KeptYoung, Young, Lifetime

LEMMA LoadedYoung ==
    ASSUME KeptYoung, faults = {}
    PROVE  Young(LoadCredentials(memory)) /\ Young(Reloaded)
BY DEF KeptYoung, LoadCredentials, Reloaded

(* A step that leaves the store alone, and memory too or has it loaded.    *)
LEMMA LoadingKeepsYoung ==
    ASSUME KeptYoung, memory' \in {memory, LoadCredentials(memory), Reloaded},
           store' = store, clock' = clock, refreshed' = refreshed,
           faults \subseteq faults'
    PROVE  KeptYoung'
<1>1. faults' = {} => Young(memory') /\ Young(store)
  BY LoadedYoung DEF KeptYoung
<1> QED
  BY <1>1 DEF KeptYoung, Young

LEMMA NextKeptYoung ==
    ASSUME TypeOK, AskedWithStored, KeptYoung, [Next]_vars
    PROVE  KeptYoung'
<1>1. ASSUME NEW works \in Saves, Receive(works)
      PROVE  KeptYoung'
  <2>1. /\ call.grant.expires = clock + 2 /\ clock \in Nat
        /\ refreshed' = clock /\ clock' = clock /\ memory' = call.grant
    BY <1>1 DEF Receive, AskedWithStored, Lifetime, TypeOK, external
  <2>2. faults' = {} => store' = call.grant
    BY <1>1 DEF Receive, SaveCredentials
  <2> QED
    BY <2>1, <2>2 DEF KeptYoung, Young, Lifetime
<1>2. ASSUME NEW writing \in BOOLEAN, Restart(writing)
      PROVE  KeptYoung'
  <2>1. faults' = {} => faults = {} /\ store' = store /\ memory' = store
    BY <1>2 DEF Restart
  <2>2. clock' = clock /\ refreshed' = refreshed
    BY <1>2 DEF Restart, external
  <2> QED
    BY <2>1, <2>2 DEF KeptYoung, Young
<1>3. ASSUME NEW keeps \in BOOLEAN, NEW writes \in BOOLEAN, CliRenews(keeps, writes)
      PROVE  KeptYoung'
  <2>1. /\ faults' = {} => faults = {} /\ store' = NewCredential(issued + 1)
        /\ memory' = memory /\ clock' = clock /\ refreshed' = refreshed
    BY <1>3 DEF CliRenews
  <2>2. NewCredential(issued + 1).expires = clock + 2
    BY DEF NewCredential, Lifetime
  <2>3. clock \in Nat /\ refreshed \in Int
    BY DEF TypeOK
  <2> QED
    BY <2>1, <2>2, <2>3 DEF KeptYoung, Young, Lifetime
<1>4. CASE Tick
  <2>1. clock' = clock + 1 /\ clock \in Nat /\ refreshed \in Int
    BY <1>4 DEF Tick, TypeOK
  <2> QED
    BY <1>4, <2>1 DEF Tick, KeptYoung, Young
<1>5. ASSUME \/ Enter \/ RequestFails \/ RetryReloaded \/ Refused \/ Refuse
             \/ UNCHANGED vars
             \/ \E r \in Requests, op \in {"get", "force"} : Ask(r, op)
             \/ \E rotates \in BOOLEAN : Grant(rotates)
      PROVE  KeptYoung'
  <2>1. /\ memory' \in {memory, LoadCredentials(memory), Reloaded}
        /\ store' = store /\ clock' = clock /\ refreshed' = refreshed
        /\ faults \subseteq faults'
    BY <1>5 DEF Enter, Return, Refresh, NoRefreshToken, RequestFails, RetryReloaded,
                Refused, Refuse, vars, Ask, Grant, external
  <2> QED
    BY <2>1, LoadingKeepsYoung
<1> QED
  BY <1>1, <1>2, <1>3, <1>4, <1>5 DEF Next, Answer

LEMMA RefreshesWhenOld ==
    ASSUME TypeOK, KeptYoung, [Next]_vars,
           call.stage = "none", call'.stage = "asked", faults = {},
           Head(queue).op = "get"
    PROVE  refreshed < clock
<1>1. Refresh
  <2>1. ASSUME NEW status, NEW token, Finish(status, token)
        PROVE  call'.stage = "none"
    BY <2>1, LiteralTypes DEF Finish
  <2>2. ASSUME Return \/ NoRefreshToken \/ RequestFails \/ Refused
               \/ \E works \in Saves : Receive(works)
        PROVE  FALSE
    BY <2>1, <2>2 DEF Return, NoRefreshToken, RequestFails, Refused, Receive
  <2>3. ASSUME \/ \E r \in Requests, op \in {"get", "force"} : Ask(r, op)
               \/ RetryReloaded \/ Refuse \/ Tick \/ UNCHANGED vars
               \/ \E rotates \in BOOLEAN : Grant(rotates)
               \/ \E writing \in BOOLEAN : Restart(writing)
               \/ \E keeps, writes \in BOOLEAN : CliRenews(keeps, writes)
        PROVE  FALSE
    BY <2>3, LiteralTypes
       DEF Ask, RetryReloaded, Refuse, Tick, vars, Grant, Restart, CliRenews
  <2> QED
    BY <2>2, <2>3 DEF Next, Enter, Answer
<1>2. IsExpiringSoon(Reloaded) /\ Young(Reloaded)
  BY <1>1, LoadedYoung DEF Refresh, StillGood
<1>3. Reloaded.expires \in Nat /\ clock \in Nat /\ refreshed \in Int
  BY ReloadedType DEF Credential, TypeOK
<1> QED
  BY <1>2, <1>3 DEF IsExpiringSoon, Young, Lifetime

(* Those that waited at the lock for a refresh use what it brought: none   *)
(* asks for another within the same tick, unless a fault lost the token.   *)
THEOREM OneRefreshServesAll == Spec => RefreshedOnce
<1>1. Init => TypeOK /\ AskedWithStored /\ KeptYoung
  BY InitTypeOK, InitAsked, InitKeptYoung
<1>2. TypeOK /\ AskedWithStored /\ KeptYoung /\ [Next]_vars
          => TypeOK' /\ AskedWithStored' /\ KeptYoung'
  BY NextTypeOK, NextAsked, NextKeptYoung
<1>3. TypeOK /\ AskedWithStored /\ KeptYoung /\ [Next]_vars =>
          [call.stage = "none" /\ call'.stage = "asked" /\ faults = {}
           /\ Head(queue).op = "get" => refreshed < clock]_vars
  BY RefreshesWhenOld
<1> QED
  BY <1>1, <1>2, <1>3, PTL DEF Spec, RefreshedOnce
=============================================================================
