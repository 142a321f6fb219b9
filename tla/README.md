# kiro-stack in TLA+

Specifications of the stateful parts of kiro-stack, model-checked with TLC on
small instances, and theorems about them that TLAPS proves for every value of
the constants. The reference is the code: every definition is listed with the
lines it stands for in `PROJECT.json` ("map").

kiro-stack is two programs. **kiro-go** (Go) is a proxy with an
administrator's page: it serves Claude and OpenAI clients from a pool of Kiro
accounts, either calling the Kiro API itself (direct mode) or handing requests
to **kiro-gateway** (Python, asyncio), which converts requests and streams
(gateway mode). Outbound traffic of kiro-go can go through Clash nodes, a
"jump" proxy and tunnels with rotating sessions.

## Inventory

| component | state | operations | interacts with | what is hard | what makes it correct |
|---|---|---|---|---|---|
| Account pool, `kiro-go/pool/account.go` | `accounts`, `cooldowns`, `errorCounts`, `breakerStates`, `weightCurrent` under one mutex | GetNext, RecordSuccess, RecordError, ForceOpenCircuit, CloseCircuit, AvailableCount, BreakerSnapshot, UpdateToken, UpdateStats, Reload | direct-mode requests hold an account without the lock and report later; Reload copies the configuration | late results; a breaker with counts, windows and probation; settings changed at run time | the breaker keeps its contract; an account in trouble is left alone and tried again; a client is refused only when all are isolated; weights are honoured |
| Gateway mode, `proxy/handler.go` 279–616 | tried accounts per request; `gatewayWeights`, `modelFallbacks` shared | select, send, fail over, fall back to another model | reads the configuration's accounts, reports errors to the pool | failover and fallback share attempts; marks renewed by late answers | a request fails only when nothing is left to try; no account starves; a degraded model recovers |
| Account records and tokens, `config/config.go`, `handler.go`, `kiro_api.go`, `auth/oidc.go` | the saved record; the pool's slice; copies in requests, refresher, handlers | ensureValidToken, refreshAllAccounts, apiRefreshAccount, apiUpdateAccount(Weight) | an external provider that may rotate refresh tokens | five writers of copies, two stores in two orders | the live refresh token is never lost; bans end; banned accounts leave the pool |
| Clash manager, `clash/` and its handlers | nodes, jump, generation, mihomo's registry, client cache, cache file, saved settings | Load, Clear, SetJump, Init, commit, ClientForNode | registry of mihomo; two mutexes and a package lock | steps outside the locks | nodes follow the jump; registry, nodes and cache agree |
| Tunnel sessions, `config/config.go` 675–792 | a `sync.Map` entry per scope | ResolveTunnelProxy, RecordTunnelResult | every outbound client | load-change-store without a lock | rotation when due, not more often, never stuck |
| Configuration store, `config/config.go` | `cfg` under `cfgLock`, the JSON file | get and update per concern, Save | everything | the file is rewritten in place | saved and live settings agree |
| Direct-mode calls and streams, `proxy/kiro.go`, `handler.go` | per request: block and tool state | CallKiroAPI, parseEventStream, handleClaudeStream, handleOpenAIStream | pool, Kiro API | model and endpoint retries; block protocol | legal event sequences, each tool call once |
| Translation, `proxy/translator.go` | none | ClaudeToKiro, OpenAIToKiro and back | — | pairing of tool results | history alternates, nothing lost |
| Statistics and log, `handler.go` 66–105, 1304–1422 | atomic counters, a ring | finalizeRequest, saveStats, apiResetStats | configuration | snapshots of separate counters | totals add up; the ring keeps the newest |
| Logins, `auth/` | session maps under RWMutexes | start, poll or complete, clean up | AWS OIDC; AddAccount | concurrent polls, expiry | one account per login |
| Gateway credentials, `kiro/auth.py` | tokens in memory and in a file or SQLite | get_access_token, force_refresh, load, save | kiro-cli writes the same database | awaits under a lock; refused refreshes; rotation with failing saves | the account is never lost; what is served lives; waiting requests share a refresh |
| Gateway pool and retries, `auth_pool.py`, `http_client.py`, routes | cooldowns, errors; per request the attempts and open responses | pick, record_success, record_error, request_with_retry | credentials | what is recorded when; one count of attempts for three kinds of failure | accounts in trouble rest; the right answer is passed on, in any case; connections are closed |
| Gateway streaming, `streaming_*.py`, `parsers.py`, `thinking_parser.py` | parser buffers, the tool call under way, open blocks | feed, finalize, convert to Anthropic or OpenAI, collect | clients that disconnect; truncation store | chunk boundaries, order of events, errors half-way | legal event sequences, all of the text, each call once |
| Truncation recovery, `truncation_*.py` | two maps | save, take once | streams, later requests | taken by a request that then fails | a cut is noticed, and the notice reaches the next request |
| Models, `cache.py`, `model_resolver.py` | a dict | update, resolve | start-up | precedence | — |
| Converters, `converters_*.py` | none | merge, pair, alternate | — | five normalisations in a row, orphaned tool results | Kiro can take the payload; nothing of the client's is lost |
| Debug log, start-up, schemas, script | buffers of the last request | — | — | — | diagnostics and wiring |

The hazards these raise, each at its line, are in `PROJECT.json` ("hazards")
with the properties that guard against them, or the reason none does yet.

## Modules

kiro-go:

| module | what it is |
|---|---|
| `SmoothWeighted` | the smooth weighted round robin (account.go 158–186, handler.go 302–343) as operators |
| `SmoothRotation` | that selection on its own, all accounts being candidates or any of them at each pick |
| `CircuitBreaker` | abstract: what an account's circuit promises |
| `AccountPool` | the pool; it implements `CircuitBreaker` |
| `AccountPoolProofs` | types, coherence, cooldowns, limits, the fallback: inductive proofs; and that the pool implements `CircuitBreaker` |
| `GatewayFailover` | gateway mode, with the part of the pool it touches (the breaker is `CircuitBreaker` itself) |
| `GatewayFailoverProofs` | sums over finite sets; the rotation is fair; types; a request fails only when nothing is left to try: inductive proofs |
| `AccountTokens` | one account's record, its copies and its refreshers |
| `AccountTokensProofs` | the live refresh token is kept: inductive proof |
| `ClashManager` | nodes, jump, registry, client cache and the admin calls that change them, step by step |
| `ClashRepair` | `ClashManager` with the history of which calls overlapped |
| `TunnelSession` | session rotation of one tunnel |
| `ProxyProofs` | a change of the jump that runs alone sets everything right, and a rotation of a tunnel's session comes when it is due: inductive proofs |

kiro-gateway:

| module | what it is |
|---|---|
| `Credentials` | `KiroAuthManager`: memory, store, the lock, the refresh under way, kiro-cli and the provider |
| `CredentialsProofs` | the account is not lost, what is served is fresh, waiting requests share a refresh: inductive proofs |
| `AuthPool` | the pool of accounts, called as the two routes call it |
| `HttpRetries` | `request_with_retry` and what the routes make of its outcome, for one request |
| `ThinkingParser` | `ThinkingParser` as operators on a record of its fields, and what a whole text should be split into |
| `ThinkingStream` | a text fed to it in pieces |
| `KiroEvents` | `AwsEventStreamParser` as operators: the end of an object, tool calls, and calls written in the text |
| `EventFeed` | bytes fed to it in chunks |
| `KiroStream` | `parse_kiro_stream`: both parsers in a row, event by event, and `collect_stream_to_result` |
| `StreamFormats` | the converters to Anthropic and to OpenAI streams, with what they save of truncations |
| `GatewayStream` | one streaming response, from Kiro's events to what the client is sent |
| `MessageStream` | abstract: a legal Anthropic message stream |
| `StreamProperties` | the promises of `GatewayStream`; it implements `MessageStream` |
| `Converters` | `converters_*.py` and the notices of truncation as operators on messages |
| `Dialogue` | a client's conversation, sent whole with each request, and the store of truncations |
| `Loops` | a loop over a list, as the converters and the parsers have them |
| `LoopProofs` | what the proofs about loops and sequences rest on |
| `RequestsProofs` | `AuthPool`: types, quota cooldowns, strikes, an account for every request; `Dialogue`: Kiro can take every payload, by a loop invariant for each loop of the converters |
| `ResponsesProofs` | `HttpRetries`: the right answer is passed on, connections are closed; `StreamProperties`: what the client is sent is a legal stream in either format |

Runs: `MCAccountPool` and `MCClashRepair` give the constants of one
specification. `Credentials` and, to show violations, `AuthPool` and
`AccountTokens` are checked as they are, their constants given by the
configuration. `MCGatewayFailover`, `MCAccountTokens` (`AccountTokens` and
`TunnelSession`), `MCSelection` (`AccountPool` and `SmoothRotation`),
`MCStreams` and `MCRequests` (`AuthPool` and `Dialogue`) hold several machines
or several instances of one. A variable
`scenario`, fixed by the initial state, says which one runs in a behaviour, and
the others stand still: what is checked is what a run of each would check, and
the theorems are about the machines themselves.

Variables and actions carry the code's names. Where a name differs:

* `AccountPool`: `cooldown`, `breaker[a].OpenFor` are deadlines kept as the
  time left, counted down by `Tick`, so the clock needs no bound; `Events`
  counts results per age; `serving[r]` is the account a handler holds between
  GetNext and the outcome. A handler may end without recording anything
  (`EndUnrecorded`: a client that leaves, a failed token refresh).
* `GatewayFailover`: `request[r]` is the state of one call of
  `proxyWithFailover`; `rejected[m]` is `modelFallbacks`.
* `AccountTokens`: a pointer handed out by GetNext is the number of the slice
  it points into, so a request can hold a slice that Reload replaced. Tokens
  are numbers in the order they were issued. `live`, `issued` and `expired`
  belong to the provider, which is external: it refuses a superseded refresh
  token, and may or may not rotate on a refresh. `lost` is the newest refresh
  token in an answer that was lost on its way or could not be decoded, which the
  code takes for a refresh that failed.
* `ClashManager`: nodes are replaced together, so `[version, chained]` stands
  for all of them; mihomo's registry is external and remembers what was pushed.
* `TunnelSession`: `loaded[r]` is the copy a request works on between its Load
  and its Store, `Users` are the requests that use the tunnel; `disconnects` is a history variable, the failures in a row
  whose reports overlapped no other store.
* `ClashRepair`: `overlapped` and `settled` are history variables.
* `Credentials`: a tick is `TOKEN_REFRESH_THRESHOLD`; a token lives for two.
  `queue` is the asyncio lock, first come first served, its head the holder.
  `call` is the refresh under way: asked, granted or refused, with the token
  it was asked with. Between two awaits the code runs in one piece, so those
  pieces are the actions. `result`, `faults` (what went wrong that can lose a
  token: a save, an answer, a login of kiro-cli during a refresh) and
  `refreshed` are history variables. The provider and kiro-cli are external.
* `AuthPool`: `req[r]` is a request between pick and its outcome; the account
  it picks at random is any of `Pickable`. `rests` and `failed` are history
  variables. `HttpRetries`: `pc` names the await the coroutine is at;
  `unclosed` counts responses of Kiro neither read nor closed; `heard` is the
  history of the attempts. The time waited before the next attempt is left out.
* Texts are sequences of `Symbols`. In the parsers a tag is a few symbols, so
  that it can be cut anywhere, and `[f` stands for the beginning of a call
  written in the text. Of the tags of the configuration (`OpenTags`) it
  matters that none begins with another, as they all end with ">", and that
  none begins with space (`TagsAssumption`). In `Converters` a text is a sequence of fragments, each
  with the message it came from, so that loss, repetition and order show.
* `GatewayStream`: `received` and `sent` are the events from Kiro and to the
  client; `parsing` and `conv` are the local variables of the two generators.
  `saved` is what is put into the truncation store. `response` is Kiro's
  response, which must be closed. Kiro's calls are numbered in the order they
  start; one may start over another that has not stopped, and a stop may come
  without a call (`KiroSends`).
* `SmoothRotation`: weights are positive, as those that are not count as 100
  (`EffectiveWeight`). A round is as many picks as the weights add up to;
  `picked` counts within it.
* `Dialogue`: calls are numbered by the message they are in, call 0 is one the
  client has forgotten; `answered` is the history of the answers that were cut.
  Results hold images of their own, which the routes pool, or drop with the
  content that a notice replaces (`NoteResults`).

Definitions marked "Defect" are wrong versions of the definition below them.
No specification uses them: they are there to show that the properties notice.

## Runs

| run | question | bounds |
|---|---|---|
| `pool_safety` | do a breaker's fields agree, do errors leave a cooldown, does the pool keep the breaker's contract, while settings change (all-zero ones included) and results come late? | 1 account, 2 requests (so one result can be late), 3 events per window, 3 settings |
| `selection` | recovery: is an opened circuit tried again, and do the limits act while settings stay? stable: is a client refused only when every circuit is open? rotation: does each account get its share, and do the scores stay balanced and bounded when candidates change at every call? | 1 account and 2 requests; 2 accounts and 1 request; 3 accounts of weights to 4 |
| `gateway` | does a request fail only when nothing is left, with accounts coming and going; does a degraded model recover, with late rejections; is no account passed over for ever? | 2 accounts and 1 request; 2 accounts and 2 requests; 3 accounts and 1 request at a time |
| `tokens` | refreshes: is the live refresh token always saved, whoever refreshes at once, unless its answer is lost? bans: do banned accounts leave the pool and stale copies end, with administrators at work? tunnel: does a session rotate when it is due, not within its cooldown, and for ever although reports overwrite each other? | 2 requests and the refresher, 3 tokens; 1 request, 1 administrator and the refresher, 2 tokens; 2 requests, threshold 3, a cooldown of 2 ticks, 2 sessions |
| `tokens_advance` | shows an edit bringing an old token back (a violation, see "findings" in `PROJECT.json`) | 1 request, 1 administrator, 3 tokens |
| `clash_repair` | do a change of the jump that runs alone, and a restart, set right what overlapping calls left behind, and for how long? | 2 admin calls, 1 caller, 1 jump, 1 version, 5 generations |
| `streams` | attempts: is the right answer passed on, are connections closed, and does the request end? response: is what the client gets a legal stream with the whole text, each call once, the cuts noticed, the same as the collected response, and is Kiro's response closed whatever happens? pieces: does the thinking parser split a text the same wherever it is cut, and take nothing back? bytes: is every event found with its last byte? | 3 attempts of every outcome; 4 events of 4 texts, usage and calls without input, 2 formats, 3 modes; 4 events of calls of 2 tools, with their input whole, in pieces or cut, in any order with stops; 5 pieces of 7, two tags one of which begins like the other, 4 modes; 2 frames, cut at every byte |
| `thinking_passed` | shows thinking that is to be passed on, but that an Anthropic client is not sent (a violation) | 4 events of 4 texts, the modes "pass" and "strip_tags" |
| `requests` | pool: do accounts in trouble rest, and what do the strikes count? conversation: can Kiro take the payload, is anything lost, do results stay with their calls, do notices arrive? | 3 requests, 2 accounts, a quota hour of 2 ticks; 4 messages of any role and shape, 2 requests in between |
| `credentials` | is the account ever lost, what is served, who is refused, do waiting requests share a refresh, does every call end? | 2 requests, 3 tokens, 2 ticks, saves that work or fail |
| `in_memory_token` | shows a refreshed token given up for the one it superseded (a violation) | 1 request, saves that fail, 2 tokens, 3 ticks |
| `fails_over` | shows an account that answered 429 or 5xx next in line again (a violation) | 1 request, 2 accounts |

The bounds are the smallest at which the interesting case happens: two
requests let one report after the other has changed everything; two accounts
let failover have somewhere to go, three let an account be passed over while
others alternate; a threshold of two tells "reached" from "exceeded". Counters
are capped where the code can no longer tell values apart (`MaxFailures`,
`Threshold`, `ErrorLimit`); `MaxErrors`, `MaxTokens`, `MaxVersions`,
`MaxGenerations`, `MaxSessions`, `MaxClock`, `MaxCalls`, `MaxEvents`,
`MaxPieces`, `MaxFrames`, `MaxMessages` and `MaxSends` bound how much happens.
Five generations are enough for a load and a change of the jump to overlap and
for a change alone to follow. Four events let calls start over each other,
with input between, and stop or not; five pieces of text cut both tags of a thinking block
anywhere with text before, between and after; four messages hold a call, its
results in two messages and what follows. Three requests of the gateway let
two fail after a third has been accepted. Symmetry is used over requests in
safety runs only.

Deadlock is not checked (`CHECK_DEADLOCK FALSE`) in `streams`, `requests`,
`credentials` and the three violations of the gateway, because there the machines
stop: a response ends, a request is answered, a conversation or the clock
reaches its bound.

### What the models do not promise

These came up while modelling. The code does them, the models contain them, and
so no property excludes them. In kiro-go:

* A request in flight when an operator opens a circuit fails afterwards: the
  circuit is opened again, for the configured time (`account.go` 366).
* A third consecutive error replaces what is left of the hour of a quota
  cooldown by a minute (`account.go` 221).
* Gateway mode selects accounts without looking at their circuits
  (`handler.go` 285); there the breaker only shows on the admin page.
* A rejected model name is passed on to the client when no other account or
  attempt is left, without the fallback having been tried (`handler.go` 521).
* A client for a node that is looked up before a commit is cached under the
  generation after it (`dial.go` 51).
* A load that was running when the subscription was cleared commits its nodes
  afterwards (`manager.go` 217).
* Overlapping admin calls leave nodes, jump, registry and the saved jump
  disagreeing until a change of the jump runs alone (`clash_repair`).
* Of tunnel reports that overlap, one is lost, and the store of a report can
  bring a replaced session back (`config.go` 748, 766).
* A refresh token that the provider rotated to in an answer that is lost, or
  that cannot be decoded, is lost with it: the old one is refused from then on,
  and the account needs a new login (`oidc.go` 42, 59, 82, 97).
* A refresh whose first try banned the account and whose second reads its
  usage leaves it banned (`kiro_api.go` 172).

In kiro-gateway, credentials and requests:

* A login of kiro-cli while the gateway refreshes is overwritten by its save;
  a refresh forced on the desktop kind never reads the database again; with a
  credentials file a new login is seen after a restart only (`auth.py`).
* Stopped while it writes the file, the gateway leaves it cut off
  (`auth.py` 438).
* Each of several requests that got 403 together forces a refresh of its own
  (`http_client.py` 231). `RefreshedOnce` is about get_access_token.
* Responses of attempts that are tried again are neither read nor closed; a
  request that does not stream leaves them in the client all share
  (`http_client.py` 229). A network error reported at the end may be older
  than the 429s after it (`last_error_info`), and the last failure is waited
  for as if another attempt came.
* The Anthropic route records a success before it sends the request.

Streams:

* Identical calls are merged into one and a content event that repeats the one
  before it is dropped; a character cut by a chunk is lost.
* The Anthropic converter drops the thinking in the modes "pass" and
  "strip_tags", against the documentation (`thinking_passed`). `TextComplete`
  asks that it sends all of it there, or none.
* Calls written in the thinking are seen by the collected response only, and
  Anthropic's calls written in the text are not compared with Kiro's.
* In the OpenAI modes that send the thinking as text ("pass", "strip_tags"), a
  truncation is saved under the text without it, so that no later request
  matches it (`streaming_openai.py`); a cut inside the thinking is not noticed.
* Anthropic saves truncations after `message_stop` (`CutsNoticed` says so), and
  its route looks for cut texts in plain string contents only.

Conversations:

* The last message, when it is the assistant's, goes into the history without
  its calls, and maybe empty (`converters_core.py` 1440–1452).
* A user message merged into another, or into a notice, loses its images
  (`converters_core.py` 1033); two empty texts merge into a line break.
* A notice is taken before the request is sent, which may fail.
* The notice that replaces the content of a cut result drops its images
  (`routes_openai.py` 236, `routes_anthropic.py` 222).
* Results are kept where the entry before has calls, whichever these are
  (`converters_core.py` 960). So a result that a client puts behind calls none
  of which is its own is passed on there; no other result comes behind calls
  without its own among them (`PairsKept`).

### Fairness

* Requests end: the HTTP clients have timeouts, so `Finish`, `Proceed` are
  weakly fair per request. Requests keep arriving where a property is about
  being served.
* `Tick` is weakly fair where time must pass.
* The background refresher is weakly fair: its ticker fires every 30 minutes
  and its calls time out.
* `Credentials`: a refresh is answered, refused or fails within the client's 30
  seconds, and a coroutine that holds the lock goes on: weak fairness of the
  provider's answer and of the request at the head of the queue. Nothing is
  assumed of its answer being good.
* `GatewayStream`: reading Kiro's response has a timeout and its end, failures
  and clients that leave are handled by code that goes on (`Ends`, `Proceed`).
  No event need ever come. `HttpRetries`: every await has a timeout.
* Nothing is assumed of administrators, of late results being in any order, or
  of an outcome ever being good.

## Proofs

The theorems hold for any number of accounts, requests, administrators and
ticks, any weights and settings, and any values of the bounds, under the
assumptions on constants of each module. Each rests on an inductive invariant,
stated as a conjunction of named parts, with one step per action.

The pool of kiro-go (`AccountPoolProofs`):

* `PoolTypeCorrect`: `TypeOK` is inductive. One lemma per operator on breakers
  (what `Opened`, `AfterError`, `Pruned`, ... return), then one step per action.
* `BreakersCoherent`: `BreakerCoherent` is inductive given `TypeOK`. Being
  local to a breaker, it is proved operator by operator (`Coherent`).
* `CooldownAfterErrors`: `ErrorsLeaveCooldown` is inductive given `TypeOK`.
* `LimitsActWhileFixed`: `LimitsAct` is inductive given `TypeOK` in behaviours
  whose settings do not change (`[][cfg' = cfg]_vars`). The hypothesis is
  needed: the code does not look at closed circuits again when an operator
  lowers the threshold. The run has one setting instead.
* `RefusedForOpenCircuits`: a request is refused only when every circuit is
  open. It follows from the types, but takes a fact about numbers: among the
  accounts the fallback may use, one has the least cooldown, `<` on the natural
  numbers being well-founded.
* `PoolKeepsContract`: `Spec => BreakerContract`. Every action maps to a step
  of `CircuitBreaker` or leaves the mapped variables alone. `BreakerCoherent`
  is needed: without it the successes a circuit collected before it opened
  could count in its next probation.

Gateway mode (`GatewayFailoverProofs`), with `CallsInv`:

* `FairShareHolds`: `FairShare` of the rotation, for any number of accounts and
  any weights. The bound on the scores is not inductive: what one account is
  owed depends on which others are candidates. The invariant is about all
  sets of accounts at once (`Debt`): for any k of n accounts, twice the
  sum of their scores is at least -k(n - k) rounds. A pick keeps that, because
  the winner has the highest score of the candidates, so whatever the set
  without the winner has, the set with it has more (`DebtKept`). With the
  scores adding up to nothing, the sets of one and of all but one account give
  the bound. While every account is a candidate, each score is exactly what
  its account is still due (`SharedExactly`).
* `GatewayTypeCorrect`: the whole of `TypeOK`, the smooth weights included: a
  score stays an integer because a sum of integers over a finite set is one
  (`SumType`). `CallsTypeCorrect` is the part about calls and marks.
* `ClientsFailedExhausted`: `FailsOnlyExhausted` needs that a call never tries
  more accounts than it has attempts: one that selects has an attempt left, one
  under way has used an attempt on the account it was sent with
  (`AttemptsCounted`). So the attempts are used up exactly when the last one
  fails, and a call that ends earlier has found no eligible account untried.

Records and tokens (`AccountTokensProofs`):

* `TokensTypeCorrect`: `TypeOK` of `AccountTokens` is inductive.
* `LiveTokenKept`: when no administrator edits and no account is banned
  (`Undisturbed`: `Admins = {}`, outcomes among `ok` and `failed`), the
  configuration never loses the live token (`TokenStored`), unless that came in
  an answer that was lost (`live = lost`). All three exclusions are needed:
  edits and bans write back a copy of the whole record (`tokens_advance`), and
  nobody has a token whose answer was lost. `TokenStored` is not inductive, because it says nothing
  while an answer is on its way to the configuration. `TokenInv` adds that:
  an answer with a new refresh token carries the live one (`RotatedIsLive`),
  and until it is saved nobody can send it and so end it (`NewTokenUnused`),
  because a copy that has the new refresh token has an access token that is
  not due, and tokens do not run out between an answer and its stores
  (`AnswersFresh`). No token is known before it was issued (`OnlyIssued`) and
  nothing is written from a snapshot (`NoWriteBack`).

Clash (`ProxyProofs`):

* `ClashTypeCorrect`: `TypeOK` of `ClashManager` is inductive.
* `RepairedHolds`: `Repaired` speaks of the end of a call that ran alone, so
  `RepairInv` says what such a call has done by each of its steps
  (`AloneDone`): its jump is installed, its nodes are parsed with the jump in
  use, then committed, then pushed to mihomo's registry. `StaysRight` says that
  what was right stays right, but for what the call under way is about to
  change, until two calls overlap. `InStep` gives the steps each operation
  goes through, and `HistoryCoherent` ties the history variables to the calls
  under way. TLC checked the invariant on the constants of `clash_repair`
  before it was proved.

Tunnels (`ProxyProofs`):

* `RotationDueHolds`: the failures that the history counts (`disconnects`) are
  all in the stored entry (`FailuresKept`): a report that overlapped another
  store starts the history over, any other adds to both. So the entry has
  reached the threshold when the history has. The ranges of the settings are
  `TunnelAssumption`.

Credentials of kiro-gateway (`CredentialsProofs`):

* `CredentialsTypeCorrect`: `TypeOK` of `Credentials` is inductive, lemmas for
  what loading, saving and the end of a call return.
* `AccountNotLost`: `NotLost` is inductive given `TypeOK`. Without a fault an
  answer is either stored or about to be, and every step that ends a refresh
  without an answer leaves the store alone.
* `FreshlyServed` and `RefusedForStale` are about steps: each action that ends
  a call is shown to serve or refuse only what the property allows. That needs
  `AskedWithStored`: the token that was sent is the stored one, unless that has
  changed since, a refusal stands as long, and what is granted is new.
* `OneRefreshServesAll`: `RefreshedOnce` is about steps as well. While nothing
  is lost, memory and store are both at least as young as the last refresh
  (`KeptYoung`), whichever of them a request reads after it has waited.

The gateway's pool (`RequestsProofs`) and its retries (`ResponsesProofs`):

* `AuthPoolTypeCorrect`: `TypeOK` of `AuthPool` is inductive; a request in
  flight always has an account.
* `AccountFound`: there is always an account to pick, whatever the cooldowns:
  the least time, and the least number among those with it.
* `QuotaRestsHolds`: `QuotaRests` is inductive given `TypeOK`.
* `StrikesNeedOverlapHolds`: `StrikesNeedOverlap` needs that requests in flight
  are of the routes in use (`FormatsUsed`), and counts them: a request that
  fails leaves the set it was counted in.
* `AnsweredRightHolds` and `ConnectionsClosedHolds`, for any number of
  attempts: `RetriesInv` follows the coroutine from await to await. Each attempt
  that ended has been heard of (`AttemptsHeard`), none before the last was
  final (`FinalLast`), the error kept is of the latest network failure
  (`LastErrorTold`), and each attempt that failed left one response open at
  most (`ResponsesCounted`). That there is an attempt at all is
  `RetriesAssumption`, what the configuration gives.

Conversations (`RequestsProofs`):

* `PayloadsWellFormed`: whatever a client's messages are, in any number, with
  any roles, any results in any places and any notices among them, the payload
  has turns that alternate, begin and end with the user, results only behind
  an entry with calls, tools only in requests that have some, and no
  empty content (`WellFormed`). The inductive invariant (`Conversed`) only says
  what a client can have said and that nothing empty is remembered as cut; the
  work is in the converters. Each is a loop with an invariant of its own, and
  each hands on what the next one needs: notices taken (`NoticesTaken`),
  messages unified (`UnifiedTurns`), results paired with calls or made text
  (`PairedByCalls`, `PairedByStripping`), neighbours merged with results still
  after calls (`MergedTurns`: merging two messages of a user leaves them after
  the same assistant, as that one is never merged away), the first one the
  user's (`FirstMade`), roles normalised (`RolesNormalized`), turns alternated
  (`AlternatedTurns`), and the payload (`PayloadSendable`). The assumption on
  the constants is that clients use the two routes (`ClientFormatsAssumption`).

Streams (`ResponsesProofs`), for any texts, tools and tags:

* `StreamTypeCorrect`: `TypeOK` of `StreamProperties` is inductive. It takes
  what each operator of both parsers returns, down to the search for calls in a
  text, and what the converters make of each event.
* `MessagesWellFormed` (`BlockProtocol`: `StreamSpec` implements
  `MessageStream`) and `ChunksInOrder` (`ChunkProtocol`) need one invariant
  (`StreamInv`). What has been sent leads an abstract client to the state `q`
  of the protocol (`Shows`), what waits to be sent leads it on from `q` to
  `p` (`Reached`), and `p` is what the converter's variables say (`Fits`). So
  the converter, which only looks at its variables, writes what is legal from
  `p`. One fact comes from the parser: a text's thinking comes before the rest
  of it (`EventsOrder`), so no text block is open when thinking comes. Failures
  and clients that leave only drop what waits, and what is owed at the end (the
  finish reason, "[DONE]") is owed in the phases that send it.
* `SplitHolds`: `SplitAnywhere`, for texts cut in any number of pieces. The
  invariant (`Split`) relates the parser's fields to the text fed so far, state
  by state: nothing shown while a tag may still come; in a block, `s` of its
  body shown and the rest in the buffer, of which, once anything is shown,
  `MaxTagLength` symbols are held back; then an answer without a block, or a
  block and an answer. A closing tag is no longer than that (`ClosingFits`), so
  none that is still to come begins in what has been shown, and none follows it
  at once (`ClosesLater`), which is why the mode "pass" never owes a closing
  tag. That a tag once found stays the one found needs that no tag begins
  another (`OneTag`). `ThinkingStream` feeds the same operators that
  `GatewayStream` does.

The induction theorems of the library cannot be used, as they take an operator.
Where a definition is a recursive function or a sum over a set, the proofs do
without them: a counterexample would have a least one, `<` on the natural
numbers being well-founded (`LoopProofs`: `UpTo` for loops, `LoopExists` for
the functions they are; `SmallestSet` for finite sets). That takes one lemma
per loop and per fact about it, each stating its loop's equations.

Only model-checked: of streams, `TextComplete`, `CallsDelivered`,
`CutsNoticed`, `SameCollected` and `EventsFound`; of
conversations, `NothingLost` and `PairsKept`, which follows results and calls by their ids.
They compare what selections,
folds and joins over whole sequences return, which are facts about data for
which each takes an induction of its own. And all liveness, which is out of the
prover's reach: `CircuitRetried`, `SessionsReplaced`, `RejectedTriedAgain`,
`NoneStarved`, `BannedLeavePool`, `StaleReplaced`, `Answered`, `CallsEnd`,
`ResponseClosed`.

## Not modelled, and the plan

Left out, with the reason:

* kiro-go's direct mode (`kiro.go`, `handler.go` 620–1300) and its translator:
  they restate in Go, for the same Kiro API, what the modelled parts of
  kiro-gateway do. The pool's side of direct mode is `AccountPool`.
* Request statistics, the log ring and UpdateStats: counters and lines that
  only the admin page shows. They are persisted by goroutines that may run out
  of order, so older counts can overwrite newer ones (`account.go` 280).
* Logins of kiro-go (`auth/`): two polls of one session may both be answered
  before it is deleted, and create two accounts (`builderid.go` 195).
* The configuration file: Save rewrites it in place (`config.go` 341), and a
  stop in between leaves it cut off.
* The fallback round tripper, which may send a request twice
  (`clash/account.go` 188), DNS hardening and the parsing of subscriptions.
* kiro-gateway: the first-token retry, which no route uses; token estimates;
  tool schemas; OpenAI's collect_stream_response; models and their aliases,
  filled in once at start-up; the debug log, whose buffers concurrent requests
  share.
* The admin page, wording and layout of errors, message schemas,
  `scripts/sync_tokens.py`. Data races on string fields (ensureValidToken
  writes an account other requests read, `account.go` 110) are modelled as
  atomic accesses in any order; torn reads are not.

Next, theorems: `TextComplete`, which takes `SplitHolds` to the events of
`GatewayStream`, a join over those received and those sent.
