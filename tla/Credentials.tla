----------------------------- MODULE Credentials -----------------------------
(***************************************************************************)
(* kiro/auth.py, KiroAuthManager: the credentials of one Kiro account, in  *)
(* the memory of the gateway and in the store they were loaded from, which *)
(* kiro-cli (or the IDE) writes as well.  Requests ask for an access       *)
(* token, or force a refresh after a 403; the lock lets them in one at a   *)
(* time, in the order they came, and is kept while the provider is asked.  *)
(* The provider may give a new refresh token and then no longer takes the  *)
(* one before.  Tokens are numbered as they are issued.                    *)
(***************************************************************************)
EXTENDS Integers, Sequences

CONSTANTS
    Requests,
    Saves,        \* of BOOLEAN: whether writing the store can succeed, fail
    MaxTokens,    \* bound: tokens issued
    MaxClock,     \* bound: ticks of the clock
    MaxCalls      \* bound: requests at the lock

ASSUME SavesAssumption == Saves \subseteq BOOLEAN
ASSUME BoundsAssumption == MaxTokens \in Nat /\ MaxClock \in Nat /\ MaxCalls \in Nat

None == 0

VARIABLES
    source,       \* "sqlite" (_sqlite_db) or "file" (_creds_file)
    authType,     \* AuthType: "kiro_desktop" or "aws_sso_oidc"
    memory,       \* _access_token, _refresh_token, _expires_at
    store,        \* the same in the database or file
    queue,        \* _lock: the requests at it, the first one may hold it
    call,         \* the refresh under way
    result,       \* history: how each request's last call ended
    clock,
    issued, live, \* external: the last token, the refresh tokens accepted
    faults,       \* history: what has gone wrong that may lose a token
    refreshed     \* history: when a token was last granted to the gateway

vars == <<source, authType, memory, store, queue, call, result,
          clock, issued, live, faults, refreshed>>

external == <<clock, issued, live>>

Credential == [access : Nat, refresh : Nat, expires : Nat]
NoCredential == [access |-> None, refresh |-> None, expires |-> 0]

(* A tick is TOKEN_REFRESH_THRESHOLD, a token lives for two of them.       *)
Lifetime == 2

(* Defect: the threshold is as long as the life of a token.                *)
IsExpiringSooner(cred) == cred.expires <= clock + Lifetime

IsExpiringSoon(cred) == cred.expires <= clock + 1

IsExpired(cred) == cred.expires <= clock

(* What loading does to the credentials in memory: a store that cannot be  *)
(* read leaves them as they are.                                           *)
LoadCredentials(held) == IF store = NoCredential THEN held ELSE store

(* Defect: a new refresh token is not written.                             *)
SaveAccessToken(held, works) ==
    IF works /\ store # NoCredential THEN [held EXCEPT !.refresh = store.refresh] ELSE store

(* And saving to those in the store: one that cannot be read is not        *)
(* written, and an error is only logged.                                   *)
SaveCredentials(held, works) ==
    IF works /\ store # NoCredential THEN held ELSE store

NoCall == [stage |-> "none", sent |-> None, again |-> FALSE, moved |-> FALSE,
           grant |-> NoCredential]
Asking(token, again) ==
    [NoCall EXCEPT !.stage = "asked", !.sent = token, !.again = again]

NoResult == [status |-> "none", token |-> NoCredential]

Init ==
    /\ source \in {"sqlite", "file"} /\ authType \in {"kiro_desktop", "aws_sso_oidc"}
    /\ store = [access |-> 1, refresh |-> 1, expires |-> Lifetime]
    /\ memory = store
    /\ queue = <<>> /\ call = NoCall
    /\ result = [r \in Requests |-> NoResult]
    /\ clock = 0 /\ issued = 1 /\ live = {1}
    /\ faults = {} /\ refreshed = -1
-----------------------------------------------------------------------------
(* Requests                                                                *)

Waiting(r) == \E i \in DOMAIN queue : queue[i].by = r

(* A call of get_access_token or force_refresh comes to the lock.          *)
Ask(r, op) ==
    /\ ~ Waiting(r) /\ Len(queue) < MaxCalls
    /\ queue' = Append(queue, [by |-> r, op |-> op])
    /\ result' = [result EXCEPT ![r] = NoResult]
    /\ UNCHANGED <<source, authType, memory, store, call, external, faults, refreshed>>

(* Defect: a call that ends keeps the lock.                                *)
FinishLocked(status, token) ==
    /\ call' = NoCall
    /\ result' = [result EXCEPT ![Head(queue).by] = [status |-> status, token |-> token]]
    /\ UNCHANGED queue

(* The call at the lock ends and lets the next one in.                     *)
Finish(status, token) ==
    /\ call' = NoCall
    /\ queue' = Tail(queue)
    /\ result' = [result EXCEPT ![Head(queue).by] = [status |-> status, token |-> token]]

Entering == queue # <<>> /\ call.stage = "none"

(* Defect: the database is not read again.                                 *)
NotReloaded == memory

(* get_access_token looks at the credentials only once it has the lock,    *)
(* and reads the database again before it refreshes.                       *)
Reloaded ==
    IF Head(queue).op = "get" /\ source = "sqlite" /\ IsExpiringSoon(memory)
    THEN LoadCredentials(memory) ELSE memory

(* Defect: a token is used up to its last moment.                          *)
StillValid == Head(queue).op = "get" /\ ~ IsExpired(Reloaded)

StillGood == Head(queue).op = "get" /\ ~ IsExpiringSoon(Reloaded)

Return ==
    /\ Entering /\ StillGood
    /\ memory' = Reloaded
    /\ Finish("served", Reloaded)
    /\ UNCHANGED <<source, authType, store, external, faults, refreshed>>

Refresh ==
    /\ Entering /\ ~ StillGood
    /\ Reloaded.refresh # None
    /\ memory' = Reloaded
    /\ call' = Asking(Reloaded.refresh, FALSE)
    /\ UNCHANGED <<source, authType, store, queue, result, external, faults, refreshed>>

(* ValueError: refresh token is not set.                                   *)
NoRefreshToken ==
    /\ Entering /\ ~ StillGood
    /\ Reloaded.refresh = None
    /\ memory' = Reloaded
    /\ Finish("failed", NoCredential)
    /\ UNCHANGED <<source, authType, store, external, faults, refreshed>>

(* The new tokens: into memory, into the store, and to the request.        *)
Receive(works) ==
    /\ call.stage = "granted"
    /\ memory' = call.grant
    /\ store' = SaveCredentials(call.grant, works)
    /\ faults' = IF works /\ store # NoCredential THEN faults ELSE faults \cup {"save"}
    /\ refreshed' = clock
    /\ Finish("served", call.grant)
    /\ UNCHANGED <<source, authType, external>>

(* 400: credentials of a database are read again and tried once more, ...  *)
TriesAgain == authType = "aws_sso_oidc" /\ source = "sqlite" /\ ~ call.again

RetryReloaded ==
    /\ call.stage = "refused" /\ TriesAgain
    /\ memory' = LoadCredentials(memory)
    /\ call' = Asking(memory'.refresh, TRUE)
    /\ UNCHANGED <<source, authType, store, queue, result, external, faults, refreshed>>

(* ... and then the access token is used for as long as it lasts.          *)
Degrades == Head(queue).op = "get" /\ source = "sqlite" /\ ~ IsExpired(memory)

Refused ==
    /\ call.stage = "refused" /\ ~ TriesAgain
    /\ IF Degrades THEN Finish("served", memory) ELSE Finish("refused", NoCredential)
    /\ UNCHANGED <<source, authType, memory, store, external, faults, refreshed>>

(* Another status, or no answer: the exception goes to the request.        *)
RequestFails ==
    /\ call.stage \in {"asked", "granted"}
    /\ faults' = IF call.stage = "granted" THEN faults \cup {"answer"} ELSE faults
    /\ Finish("failed", NoCredential)
    /\ UNCHANGED <<source, authType, memory, store, external, refreshed>>

(* The gateway stops and starts again; a file that was being written when  *)
(* it stopped is left cut off.                                             *)
Restart(writing) ==
    /\ writing => source = "file" /\ call.stage = "granted"
    /\ store' = IF writing THEN NoCredential ELSE store
    /\ memory' = store'
    /\ queue' = <<>> /\ call' = NoCall
    /\ result' = [r \in Requests |-> NoResult]
    /\ faults' = IF call.stage = "granted" THEN faults \cup {"answer"} ELSE faults
    /\ UNCHANGED <<source, authType, external, refreshed>>
-----------------------------------------------------------------------------
(* External: the provider, kiro-cli, and time                              *)

NewCredential(refresh) ==
    [access |-> issued + 1, refresh |-> refresh, expires |-> clock + Lifetime]

Grant(rotates) ==
    /\ call.stage = "asked" /\ call.sent \in live
    /\ issued < MaxTokens
    /\ issued' = issued + 1
    /\ live' = IF rotates THEN (live \ {call.sent}) \cup {issued + 1} ELSE live
    /\ call' = [call EXCEPT !.stage = "granted",
                            !.grant = NewCredential(IF rotates THEN issued + 1 ELSE call.sent)]
    /\ UNCHANGED <<source, authType, memory, store, queue, result, clock, faults, refreshed>>

Refuse ==
    /\ call.stage = "asked" /\ call.sent \notin live
    /\ call' = [call EXCEPT !.stage = "refused"]
    /\ UNCHANGED <<source, authType, memory, store, queue, result, external, faults, refreshed>>

(* kiro-cli logs in or refreshes; it may keep the result to itself.  While *)
(* the gateway has a refresh under way, either may overwrite the other's.  *)
CliRenews(keeps, writes) ==
    /\ issued < MaxTokens
    /\ issued' = issued + 1
    /\ live' = (IF keeps THEN live ELSE {}) \cup {issued + 1}
    /\ store' = IF writes THEN NewCredential(issued + 1) ELSE store
    /\ call' = IF call.stage = "none" THEN call ELSE [call EXCEPT !.moved = TRUE]
    /\ faults' = IF writes /\ call.stage = "none" THEN faults ELSE faults \cup {"cli"}
    /\ UNCHANGED <<source, authType, memory, queue, result, clock, refreshed>>

Tick ==
    /\ clock < MaxClock
    /\ call.stage = "none"     \* an answer takes less than a tick
    /\ clock' = clock + 1
    /\ UNCHANGED <<source, authType, memory, store, queue, call, result,
                   issued, live, faults, refreshed>>
-----------------------------------------------------------------------------
Enter == Return \/ Refresh \/ NoRefreshToken
Answer == RequestFails \/ RetryReloaded \/ Refused \/ \E works \in Saves : Receive(works)

Next ==
    \/ \E r \in Requests, op \in {"get", "force"} : Ask(r, op)
    \/ Enter \/ Answer \/ Refuse \/ Tick
    \/ \E rotates \in BOOLEAN : Grant(rotates)
    \/ \E writing \in BOOLEAN : Restart(writing)
    \/ \E keeps, writes \in BOOLEAN : CliRenews(keeps, writes)

Spec == Init /\ [][Next]_vars

(* Requests to the provider have a timeout of 30 seconds.                  *)
FairSpec == Spec /\ WF_vars(Enter) /\ WF_vars(Answer \/ Refuse)
-----------------------------------------------------------------------------
Ticket == [by : Requests, op : {"get", "force"}]
CallState == [stage : {"none", "asked", "granted", "refused"}, sent : Nat,
              again : BOOLEAN, moved : BOOLEAN, grant : Credential]
Outcome == [status : {"none", "served", "failed", "refused"}, token : Credential]

(* The types of the variables; and only the request that has the lock can  *)
(* have a refresh under way.                                               *)
TypeOK ==
    /\ source \in {"sqlite", "file"} /\ authType \in {"kiro_desktop", "aws_sso_oidc"}
    /\ memory \in Credential /\ store \in Credential
    /\ queue \in Seq(Ticket)
    /\ call \in CallState
    /\ call.stage # "none" => queue # <<>>
    /\ result \in [Requests -> Outcome]
    /\ clock \in Nat /\ issued \in Nat /\ live \subseteq 1..issued
    /\ faults \subseteq {"save", "answer", "cli"}
    /\ refreshed \in Int

(* As long as writes of the store work, no answer of the provider is lost  *)
(* and kiro-cli writes what it gets, and not during a refresh, a refresh   *)
(* token that the provider takes is in the store, or about to be: neither  *)
(* requests, nor rotation, nor restarts lose the account.                  *)
NotLost ==
    faults = {} => IF call.stage = "granted" THEN call.grant.refresh \in live
                                             ELSE store.refresh \in live

(* A request is never given a token known to be expired, and one that soon *)
(* will be only when the provider takes no refresh token for a better one. *)
ServedFresh ==
    [][\A r \in Requests :
          result'[r] # result[r] /\ result'[r].status = "served" =>
              /\ result'[r].token.expires > clock
              /\ call.stage = "refused" \/ result'[r].token.expires > clock + 1]_vars

(* With the credentials of a database, a request is refused only when those*)
(* stored are of no use either, or have changed while it was under way:    *)
(* after a login of kiro-cli the next request works.  A forced refresh of  *)
(* the desktop kind does not look.                                         *)
RefusedOnlyIfStale ==
    [][\A r \in Requests :
          result'[r] # result[r] /\ result'[r].status = "refused"
          /\ source = "sqlite"
          /\ (authType = "aws_sso_oidc" \/ Head(queue).op = "get")
              => store.refresh \notin live \/ call.moved]_vars

(* Requests that wait for a refresh use its result: one that asks for a    *)
(* token does not refresh it within the tick it was refreshed in, unless   *)
(* the gateway has lost it.                                                *)
RefreshedOnce ==
    [][call.stage = "none" /\ call'.stage = "asked" /\ faults = {} /\ Head(queue).op = "get"
          => refreshed < clock]_vars

(* Every call comes to an end: none keeps the lock, or waits for ever.     *)
CallsEnd == \A r \in Requests : Waiting(r) ~> ~ Waiting(r)

(* "This approach handles both scenarios: 1. Container successfully        *)
(* refreshed token (uses in-memory token)" (auth.py:643): tokens in memory *)
(* that the provider takes are not given up for stale ones of the store.   *)
UsesInMemoryToken ==
    [][call.stage = "none" /\ call'.stage = "asked" /\ authType = "aws_sso_oidc"
       /\ memory.refresh \in live => memory'.refresh \in live]_vars
=============================================================================
