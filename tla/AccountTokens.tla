--------------------------- MODULE AccountTokens ---------------------------
(***************************************************************************)
(* The tokens of one kiro-go account and the copies of its record.  The    *)
(* configuration (config/config.go) holds the record that is saved; the    *)
(* pool (pool/account.go) serves requests from a slice that Reload         *)
(* replaces by a copy of the configuration's, and hands out pointers into  *)
(* it, so a request may still hold a slice that was replaced.  Requests    *)
(* refresh an expiring token themselves (ensureValidToken), beside the     *)
(* background refresher and the administrators' handlers, which work on a  *)
(* copy of the record taken when they start and write some of it back.     *)
(*                                                                         *)
(* The provider is external.  A refresh gives an access token and,         *)
(* sometimes, a new refresh token, which ends the one it was given for.    *)
(* Tokens are numbered in the order the provider issues them.              *)
(***************************************************************************)
EXTENDS Integers, FiniteSets

CONSTANTS
    Requests,    \* requests that can be served at once
    Background,  \* the goroutine of backgroundRefresh
    Admins,      \* administrators' calls that can run at once
    Outcomes,    \* what GetUsageLimits may answer in RefreshAccountInfo
    MaxTokens    \* bound on the tokens the provider issues

ASSUME TokensAssumption ==
    /\ IsFiniteSet(Requests)
    /\ Background \notin Requests /\ Background \notin Admins
    /\ Requests \cap Admins = {}
    /\ Outcomes \subseteq {"ok", "suspended", "denied", "failed"}
    /\ MaxTokens \in Nat \ {0}

Jobs == {Background} \cup Admins

(* No answer of the provider carries a refresh token numbered 0: it stands *)
(* for the empty one.                                                      *)
Tokens == 1..MaxTokens
Answers == [access : Tokens, refresh : 0..MaxTokens]
Accounts == [enabled : BOOLEAN, ban : {"", "BANNED", "ACTIVE"},
             access : Tokens, refresh : Tokens]
Gone == [enabled |-> FALSE, ban |-> "", access |-> 1, refresh |-> 1]

(* One slice per request, for the ones still held, and the pool's own.     *)
Slices == 1..(Cardinality(Requests) + 1)

VARIABLES
    config,   \* the account in cfg.Accounts
    slices,   \* the account in each slice of accounts; Gone: it is not there
    current,  \* the slice that is p.accounts
    live,     \* provider: the refresh token it accepts
    issued,   \* provider: tokens issued
    lost,     \* the newest refresh token in an answer that was lost; 0: none
    expired,  \* access tokens up to this one are within 300 s of their end
    call,     \* per request: its step, slice, token sent and answer
    job       \* per refresher or admin call: the same, with its snapshot

tokenVars ==
    <<config, slices, current, live, issued, lost, expired, call, job>>

NoAnswer == [access |-> 1, refresh |-> 0]
NoCall == [step |-> "idle", held |-> 1, sent |-> 1, got |-> NoAnswer]
NoJob == [step |-> "idle", snapshot |-> Gone, sent |-> 1, got |-> NoAnswer,
          retried |-> FALSE]
FirstAccount == [enabled |-> TRUE, ban |-> "", access |-> 1, refresh |-> 1]

TokenInit ==
    /\ config = FirstAccount
    /\ current = 1
    /\ slices = [s \in Slices |-> FirstAccount]
    /\ live = 1 /\ issued = 1 /\ lost = 0 /\ expired = 0
    /\ call = [r \in Requests |-> NoCall]
    /\ job = [p \in Jobs |-> NoJob]

Due(account) == account.access <= expired

(* A defect: what is returned is stored as it is.                          *)
WithTokensBlank(account, got) ==
    [account EXCEPT !.access = got.access, !.refresh = got.refresh]

(* UpdateAccountToken and UpdateToken: an empty refresh token keeps the    *)
(* one that is there.                                                      *)
WithTokens(account, got) ==
    [account EXCEPT !.access = got.access,
                    !.refresh = IF got.refresh # 0 THEN got.refresh ELSE @]

-----------------------------------------------------------------------------
(* The provider                                                            *)

(* What may be answered to a refresh with the token sent: nothing but a    *)
(* refusal when it is not the live one any more.                           *)
Refreshes(sent, got, rotates) ==
    /\ sent = live
    /\ issued < MaxTokens
    /\ issued' = issued + 1
    /\ live' = IF rotates THEN issued + 1 ELSE live
    /\ got = [access |-> issued + 1,
              refresh |-> IF rotates THEN issued + 1 ELSE 0]

(* A refresh the provider granted, whose answer is lost on its way or      *)
(* cannot be decoded: whoever sent it takes it for one that failed.        *)
GrantLost(sent, rotates) ==
    /\ sent = live
    /\ issued < MaxTokens
    /\ issued' = issued + 1
    /\ live' = IF rotates THEN issued + 1 ELSE live
    /\ lost' = IF rotates THEN issued + 1 ELSE lost

(* A process between the provider's answer and its last store.             *)
StoringRequests == {r \in Requests : call[r].step \in {"pool", "config"}}
StoringJobs == {p \in Jobs : job[p].step \in {"config", "pool"}}

(* Tokens outlive by far the statements that store them.                   *)
Expire ==
    /\ StoringRequests = {} /\ StoringJobs = {}
    /\ expired < issued /\ issued < MaxTokens
    /\ expired' = issued
    /\ UNCHANGED <<config, slices, current, live, issued, lost, call, job>>

-----------------------------------------------------------------------------
(* Requests                                                                *)

(* GetNext gives a pointer into the pool's slice.                          *)
Take(r) ==
    /\ call[r].step = "idle"
    /\ slices[current] # Gone
    /\ call' = [call EXCEPT ![r] =
           [NoCall EXCEPT !.step = "taken", !.held = current]]
    /\ UNCHANGED <<config, slices, current, live, issued, lost, expired, job>>

(* A token that is not due is used as it is, and the request is over as    *)
(* far as tokens go.                                                       *)
UseToken(r) ==
    /\ call[r].step = "taken"
    /\ ~Due(slices[call[r].held])
    /\ call' = [call EXCEPT ![r] = NoCall]
    /\ UNCHANGED <<config, slices, current, live, issued, lost, expired, job>>

SendRefresh(r) ==
    /\ call[r].step = "taken"
    /\ Due(slices[call[r].held])
    /\ call' = [call EXCEPT ![r].step = "sent",
                            ![r].sent = slices[call[r].held].refresh]
    /\ UNCHANGED <<config, slices, current, live, issued, lost, expired, job>>

Refreshed(r, rotates) ==
    /\ call[r].step = "sent"
    /\ \E got \in Answers :
          /\ Refreshes(call[r].sent, got, rotates)
          /\ call' = [call EXCEPT ![r].step = "pool", ![r].sent = 1,
                                  ![r].got = got]
    /\ UNCHANGED <<config, slices, current, lost, expired, job>>

(* The refresh is refused or does not arrive: the client gets a 503, and   *)
(* the same when it was granted and the answer is lost.                    *)
RefreshFails(r) ==
    /\ call[r].step = "sent"
    /\ call' = [call EXCEPT ![r] = NoCall]
    /\ UNCHANGED <<config, slices, current, live, issued, lost, expired, job>>

AnswerLost(r, rotates) ==
    /\ call[r].step = "sent"
    /\ GrantLost(call[r].sent, rotates)
    /\ call' = [call EXCEPT ![r] = NoCall]
    /\ UNCHANGED <<config, slices, current, expired, job>>

(* UpdateToken on the pool's slice, then the fields of the slice held.     *)
StoreInPool(r) ==
    /\ call[r].step = "pool"
    /\ slices' = [s \in Slices |->
           IF s \in {current, call[r].held} /\ slices[s] # Gone
           THEN WithTokens(slices[s], call[r].got) ELSE slices[s]]
    /\ call' = [call EXCEPT ![r].step = "config"]
    /\ UNCHANGED <<config, current, live, issued, lost, expired, job>>

StoreInConfig(r) ==
    /\ call[r].step = "config"
    /\ config' = WithTokens(config, call[r].got)
    /\ call' = [call EXCEPT ![r] = NoCall]
    /\ UNCHANGED <<slices, current, live, issued, lost, expired, job>>

-----------------------------------------------------------------------------
(* The background refresher and the administrators' refresh of an account  *)

(* What follows a copy of the record: the refresher passes over a disabled *)
(* account; a token that is due is refreshed first.                        *)
FirstStep(p) ==
    IF p = Background /\ ~config.enabled THEN "reload"
    ELSE IF Due(config) THEN "sent" ELSE "info"

StartRefresh(p) ==
    /\ job[p].step = "idle"
    /\ job' = [job EXCEPT ![p] = [NoJob EXCEPT
           !.snapshot = config, !.step = FirstStep(p),
           !.sent = IF FirstStep(p) = "sent" THEN config.refresh ELSE 1]]
    /\ UNCHANGED <<config, slices, current, live, issued, lost, expired, call>>

(* The refresher reloads the pool when it is done, the handler does not.   *)
Finish(p) == job' = [job EXCEPT ![p] =
                  [NoJob EXCEPT !.step = IF p = Background THEN "reload"
                                                           ELSE "idle"]]

JobRefreshed(p, rotates) ==
    /\ job[p].step = "sent"
    /\ \E got \in Answers :
          /\ Refreshes(job[p].sent, got, rotates)
          /\ job' = [job EXCEPT ![p].step = "config", ![p].sent = 1,
                                ![p].got = got,
                                ![p].snapshot = WithTokens(@, got)]
    /\ UNCHANGED <<config, slices, current, lost, expired, call>>

JobRefreshFails(p) ==
    /\ job[p].step = "sent"
    /\ Finish(p)
    /\ UNCHANGED <<config, slices, current, live, issued, lost, expired, call>>

JobAnswerLost(p, rotates) ==
    /\ job[p].step = "sent"
    /\ GrantLost(job[p].sent, rotates)
    /\ Finish(p)
    /\ UNCHANGED <<config, slices, current, expired, call>>

JobStoreInConfig(p) ==
    /\ job[p].step = "config"
    /\ config' = WithTokens(config, job[p].got)
    /\ job' = [job EXCEPT ![p].step = "pool"]
    /\ UNCHANGED <<slices, current, live, issued, lost, expired, call>>

JobStoreInPool(p) ==
    /\ job[p].step = "pool"
    /\ slices' = [slices EXCEPT ![current] =
           IF @ = Gone THEN @ ELSE WithTokens(@, job[p].got)]
    /\ job' = [job EXCEPT ![p].step = "info", ![p].got = NoAnswer]
    /\ UNCHANGED <<config, current, live, issued, lost, expired, call>>

(* RefreshAccountInfo: usage that can be read ends a ban, by writing the   *)
(* whole snapshot; its other fields do not concern the tokens.             *)
Banned(account) == account.ban \notin {"", "ACTIVE"}

InfoRead(p) ==
    /\ job[p].step = "info"
    /\ config' = IF Banned(job[p].snapshot)
                 THEN [job[p].snapshot EXCEPT !.ban = "ACTIVE"] ELSE config
    /\ Finish(p)
    /\ UNCHANGED <<slices, current, live, issued, lost, expired, call>>

(* A suspended account, or one whose tokens are refused, is disabled and   *)
(* banned, in the snapshot again; the snapshot itself stays as it was.     *)
Ban(p) == config' = [job[p].snapshot EXCEPT !.enabled = FALSE, !.ban = "BANNED"]

InfoSuspended(p) ==
    /\ job[p].step = "info"
    /\ Ban(p)
    /\ Finish(p)
    /\ UNCHANGED <<slices, current, live, issued, lost, expired, call>>

(* apiRefreshAccount tries once more after a refresh.                      *)
InfoDenied(p) ==
    /\ job[p].step = "info"
    /\ Ban(p)
    /\ IF p # Background /\ ~job[p].retried
       THEN job' = [job EXCEPT ![p].step = "sent", ![p].retried = TRUE,
                               ![p].sent = job[p].snapshot.refresh]
       ELSE Finish(p)
    /\ UNCHANGED <<slices, current, live, issued, lost, expired, call>>

InfoFails(p) ==
    /\ job[p].step = "info"
    /\ Finish(p)
    /\ UNCHANGED <<config, slices, current, live, issued, lost, expired, call>>

Info(p) ==
    \/ "ok" \in Outcomes /\ InfoRead(p)
    \/ "suspended" \in Outcomes /\ InfoSuspended(p)
    \/ "denied" \in Outcomes /\ InfoDenied(p)
    \/ "failed" \in Outcomes /\ InfoFails(p)

-----------------------------------------------------------------------------
(* The administrators' edits: the record is read, one field is changed,    *)
(* and the whole record is written back.                                   *)

StartEdit(p) ==
    /\ p # Background
    /\ job[p].step = "idle"
    /\ job' = [job EXCEPT ![p] =
           [NoJob EXCEPT !.step = "edit", !.snapshot = config]]
    /\ UNCHANGED <<config, slices, current, live, issued, lost, expired, call>>

UpdateAccount(p, enabled) ==
    /\ job[p].step = "edit"
    /\ config' = [job[p].snapshot EXCEPT !.enabled = enabled]
    /\ job' = [job EXCEPT ![p].step = "reload"]
    /\ UNCHANGED <<slices, current, live, issued, lost, expired, call>>

(* Reload: a new slice, so one that nobody holds; slices that nobody holds *)
(* are garbage, and emptied.                                               *)
HeldSlices == {call[r].held : r \in {q \in Requests : call[q].step # "idle"}}

(* A defect: the pool is left as it is.                                    *)
PoolKept == UNCHANGED <<slices, current>>

ReloadPool ==
    \E s \in Slices \ HeldSlices :
       /\ \A t \in Slices \ HeldSlices : s <= t
       /\ current' = s
       /\ slices' = [t \in Slices |->
              IF t = s THEN IF config.enabled THEN config ELSE Gone
              ELSE IF t \in HeldSlices THEN slices[t] ELSE Gone]

Reload(p) ==
    /\ job[p].step = "reload"
    /\ ReloadPool
    /\ job' = [job EXCEPT ![p] = NoJob]
    /\ UNCHANGED <<config, live, issued, lost, expired, call>>

-----------------------------------------------------------------------------
RequestNext(r) ==
    \/ Take(r) \/ UseToken(r) \/ SendRefresh(r)
    \/ \E rotates \in BOOLEAN : Refreshed(r, rotates) \/ AnswerLost(r, rotates)
    \/ RefreshFails(r)
    \/ StoreInPool(r) \/ StoreInConfig(r)

JobNext(p) ==
    \/ StartRefresh(p)
    \/ \E rotates \in BOOLEAN :
          JobRefreshed(p, rotates) \/ JobAnswerLost(p, rotates)
    \/ JobRefreshFails(p)
    \/ JobStoreInConfig(p) \/ JobStoreInPool(p)
    \/ Info(p)
    \/ StartEdit(p) \/ \E enabled \in BOOLEAN : UpdateAccount(p, enabled)
    \/ Reload(p)

TokenNext ==
    \/ \E r \in Requests : RequestNext(r)
    \/ \E p \in Jobs : JobNext(p)
    \/ Expire

TokenSpec == TokenInit /\ [][TokenNext]_tokenVars

(* The refresher's ticker fires for ever, and its HTTP calls time out.     *)
FairTokenSpec == TokenSpec /\ WF_tokenVars(JobNext(Background))

-----------------------------------------------------------------------------
(* Slices, calls and jobs keep their types, and the provider's live token  *)
(* is one it issued (config/config.go, proxy/handler.go:2112).             *)
TypeOK ==
    /\ config \in Accounts
    /\ slices \in [Slices -> Accounts]
    /\ current \in Slices
    /\ live \in Tokens /\ issued \in Tokens
    /\ lost \in 0..MaxTokens /\ expired \in 0..MaxTokens
    /\ call \in [Requests -> [step : {"idle", "taken", "sent", "pool", "config"},
                              held : Slices, sent : Tokens, got : Answers]]
    /\ job \in [Jobs -> [step : {"idle", "sent", "config", "pool", "info",
                                 "edit", "reload"},
                         snapshot : Accounts, sent : Tokens, got : Answers,
                         retried : BOOLEAN]]

(* Once every answer of the provider is stored, the configuration holds    *)
(* the refresh token the provider accepts, unless that one was in an       *)
(* answer that was lost: no overlap of requests and refreshers, each with  *)
(* its own copy of the record, loses the account, and neither does a       *)
(* refresh that fails, or is granted without a new refresh token and       *)
(* lost.  The code stores tokens field by field, and an empty one not at   *)
(* all (config.go:444).                                                    *)
AwaitingSave ==
    {r \in Requests : call[r].step \in {"pool", "config"}}
        \cup {p \in Jobs : job[p].step = "config"}
TokenStored ==
    AwaitingSave = {} /\ live # lost => config.refresh = live

(* The stored refresh token is never replaced by an older one: an update   *)
(* of an account "only updates the fields passed in" (handler.go:2380).    *)
TokensAdvance == [][config'.refresh >= config.refresh]_tokenVars

(* A disabled or banned account is not served for ever: it leaves the      *)
(* pool, although the handler that bans it does not reload                 *)
(* (handler.go:247, handler.go:3025).                                      *)
DisabledLeavesPool ==
    ~config.enabled ~> (config.enabled \/ slices[current] = Gone)

(* A pool left with a token that the configuration has replaced, by a      *)
(* Reload between ensureValidToken's two stores, gets the new one at last. *)
PoolCatchesUp ==
    (slices[current].refresh < config.refresh)
        ~> (slices[current] = Gone \/ slices[current].refresh = config.refresh)

=============================================================================
