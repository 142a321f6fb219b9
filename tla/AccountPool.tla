----------------------------- MODULE AccountPool -----------------------------
(***************************************************************************)
(* The account pool of kiro-go (pool/account.go): which account serves the *)
(* next request, and how results move the cooldowns, the consecutive-error *)
(* counts and the per-account circuit breaker.  Every method of the pool   *)
(* runs under its mutex, so each is one atomic action.  A request holds    *)
(* the account GetNext gave it while the upstream call runs, without the   *)
(* lock, and reports the outcome later: results of requests that started   *)
(* before a circuit opened, before it was closed by hand or before the     *)
(* account left the pool arrive afterwards.                                *)
(*                                                                         *)
(* Clock.  A deadline is kept as the time left until it: OpenFor and       *)
(* cooldown count down one per Tick, so the clock itself needs no bound.   *)
(* Recent results are kept as a count per age in ticks.                    *)
(***************************************************************************)
EXTENDS Integers, FiniteSets, FiniteSetsExt

CONSTANTS
    NumAccounts,      \* account ids, numbered in the order of config.Accounts
    Requests,         \* client requests that can be in flight at once
    Weight,           \* Weight[a]: the configured weight of account a
    DefaultBreaker,   \* config.DefaultCircuitBreakerConfig
    BreakerInputs,    \* breaker settings an administrator may post
    ManualDurations,  \* durations an administrator may post (0: none given)
    ErrorCooldown,    \* one minute, in ticks
    QuotaCooldown,    \* one hour, in ticks
    MaxWindow,        \* the longest failure window, in ticks
    MaxFailures,      \* FailureCount is only counted up to here
    MaxEvents         \* at most this many results per account and window

Accounts == 1..NumAccounts
Idle == 0              \* the account of a request that is not in flight
NoCooldown == -1       \* no entry in the cooldowns map
ErrorLimit == 3        \* consecutive errors that put an account in cooldown

CircuitState == {"closed", "open", "half_open"}
Ages == 0..MaxWindow   \* age MaxWindow stands for "that old or older"

(* Settings as posted (any numbers) and as they are once normalized.       *)
PostedConfig ==
    [Enabled : BOOLEAN, FailureThreshold : Int, FailureWindowSec : Int,
     OpenDurationSec : Int, HalfOpenMaxSuccess : Int,
     ErrorRatePercent : Int, ErrorRateMinReqs : Int]

BreakerConfig ==
    [Enabled : BOOLEAN, FailureThreshold : Nat \ {0},
     FailureWindowSec : Nat \ {0}, OpenDurationSec : Nat \ {0},
     HalfOpenMaxSuccess : Nat \ {0},
     ErrorRatePercent : 1..100, ErrorRateMinReqs : Nat \ {0}]

ASSUME PoolAssumption ==
    /\ NumAccounts \in Nat
    /\ Weight \in [Accounts -> Int]
    /\ DefaultBreaker \in BreakerConfig
    /\ BreakerInputs \subseteq PostedConfig
    /\ ManualDurations \subseteq Int
    /\ ErrorCooldown \in Nat \ {0} /\ QuotaCooldown \in Nat \ {0}
    /\ MaxWindow \in Nat \ {0} /\ MaxFailures \in Nat /\ MaxEvents \in Nat

VARIABLES
    cfg,            \* config: the circuit breaker settings
    status,         \* config: what the account list says of each account
    members,        \* the ids of p.accounts, as of the last Reload
    expiring,       \* accounts whose pooled token is within 300 s of its end
    cooldown,       \* p.cooldowns, as time left
    errorCounts,    \* p.errorCounts, counted up to ErrorLimit
    breaker,        \* p.breakerStates; a missing entry reads as FreshBreaker
    weightCurrent,  \* p.weightCurrent; a missing entry reads as 0
    serving         \* the account each request in flight uses

vars == <<cfg, status, members, expiring, cooldown, errorCounts, breaker,
          weightCurrent, serving>>

LOCAL RoundRobin == INSTANCE SmoothWeighted

-----------------------------------------------------------------------------
(* Settings                                                                *)

(* Defect: settings are stored as they were posted.                        *)
NormalizedNot(c) == c

(* Values out of range fall back to the default, and the all-zero record,  *)
(* {enabled: false} with nothing else, counts as "not set".                *)
Normalized(c) ==
    LET orDefault(given, default) == IF given <= 0 THEN default ELSE given
        def == DefaultBreaker
    IN IF c = [Enabled |-> FALSE, FailureThreshold |-> 0,
               FailureWindowSec |-> 0, OpenDurationSec |-> 0,
               HalfOpenMaxSuccess |-> 0, ErrorRatePercent |-> 0,
               ErrorRateMinReqs |-> 0]
       THEN def
       ELSE [Enabled |-> c.Enabled,
             FailureThreshold |->
                 orDefault(c.FailureThreshold, def.FailureThreshold),
             FailureWindowSec |->
                 orDefault(c.FailureWindowSec, def.FailureWindowSec),
             OpenDurationSec |->
                 orDefault(c.OpenDurationSec, def.OpenDurationSec),
             HalfOpenMaxSuccess |->
                 orDefault(c.HalfOpenMaxSuccess, def.HalfOpenMaxSuccess),
             ErrorRatePercent |->
                 IF c.ErrorRatePercent \in 1..100 THEN c.ErrorRatePercent
                                                  ELSE def.ErrorRatePercent,
             ErrorRateMinReqs |->
                 orDefault(c.ErrorRateMinReqs, def.ErrorRateMinReqs)]

-----------------------------------------------------------------------------
(* The event window of a breaker: how many results of each kind, by age    *)

NoEvents == [g \in Ages |-> [ok |-> 0, bad |-> 0]]

(* appendBreakerEvent first drops what is as old as the window.            *)
Pruned(events) ==
    [g \in Ages |-> IF g < cfg.FailureWindowSec THEN events[g]
                                                ELSE NoEvents[g]]

WithEvent(events, isSuccess) ==
    LET kept == Pruned(events)
    IN IF isSuccess THEN [kept EXCEPT ![0].ok = @ + 1]
                    ELSE [kept EXCEPT ![0].bad = @ + 1]

Failures(events) == MapThenSumSet(LAMBDA g : events[g].bad, Ages)
Recent(events) == MapThenSumSet(LAMBDA g : events[g].ok, Ages) + Failures(events)

RateExceeded(events) ==
    /\ Recent(events) >= cfg.ErrorRateMinReqs
    /\ 100 * Failures(events) >= cfg.ErrorRatePercent * Recent(events)

-----------------------------------------------------------------------------
(* One account's breaker                                                   *)

FreshBreaker ==
    [State |-> "closed", OpenFor |-> 0, FailureCount |-> 0,
     SuccessStreak |-> 0, Manual |-> FALSE, Events |-> NoEvents]

(* Defect: probation leaves the mark of an opening by hand behind.         *)
HalfOpenedStillManual(st) ==
    [st EXCEPT !.State = "half_open", !.SuccessStreak = 0]

HalfOpened(st) ==
    [st EXCEPT !.State = "half_open", !.Manual = FALSE, !.SuccessStreak = 0]

(* What isCircuitOpenLocked leaves behind: an open circuit whose time has  *)
(* run out is put on probation by the very call that asks about it.        *)
Asked(st) ==
    IF st.State = "open" /\ st.OpenFor <= 0 THEN HalfOpened(st) ELSE st

IsOpen(st) == st.State = "open" /\ st.OpenFor > 0

(* Defect: opening a circuit keeps the successes of its probation.         *)
OpenedKeepsStreak(st, duration, manual) ==
    [st EXCEPT !.State = "open", !.Manual = manual,
               !.OpenFor = IF duration <= 0 THEN DefaultBreaker.OpenDurationSec
                                            ELSE duration]

Opened(st, duration, manual) ==
    [st EXCEPT !.State = "open", !.SuccessStreak = 0, !.Manual = manual,
               !.OpenFor = IF duration <= 0 THEN DefaultBreaker.OpenDurationSec
                                            ELSE duration]

AfterSuccess(old) ==
    LET st == [old EXCEPT !.Events = WithEvent(@, TRUE)]
        closed == [FreshBreaker EXCEPT !.Events = st.Events]
    IN IF ~cfg.Enabled \/ st.State = "open" THEN st
       ELSE IF /\ st.State = "half_open"
               /\ st.SuccessStreak + 1 < cfg.HalfOpenMaxSuccess
            THEN [st EXCEPT !.SuccessStreak = @ + 1]
            ELSE closed

(* Defect: the threshold must be exceeded, not reached.                    *)
AfterErrorOffByOne(old, isQuota) ==
    LET st == [old EXCEPT !.Events = WithEvent(@, FALSE),
                          !.FailureCount = IF @ < MaxFailures THEN @ + 1 ELSE @]
        trips == \/ isQuota
                 \/ st.State = "half_open"
                 \/ st.FailureCount > cfg.FailureThreshold
                 \/ RateExceeded(st.Events)
    IN IF cfg.Enabled /\ trips THEN Opened(st, cfg.OpenDurationSec, FALSE)
                               ELSE st

AfterError(old, isQuota) ==
    LET st == [old EXCEPT !.Events = WithEvent(@, FALSE),
                          !.FailureCount = IF @ < MaxFailures THEN @ + 1 ELSE @]
        trips == \/ isQuota
                 \/ st.State = "half_open"
                 \/ st.FailureCount >= cfg.FailureThreshold
                 \/ RateExceeded(st.Events)
    IN IF cfg.Enabled /\ trips THEN Opened(st, cfg.OpenDurationSec, FALSE)
                               ELSE st

-----------------------------------------------------------------------------
(* Selection                                                               *)

Blocked(a) == cfg.Enabled /\ IsOpen(breaker[a])

InCooldown(a) == cooldown[a] > 0

Candidates == {a \in members : /\ ~Blocked(a)
                               /\ ~InCooldown(a)
                               /\ a \notin expiring}

(* Defect: the fallback only knows accounts without a cooldown entry.      *)
FallbacksNeverCooled ==
    LET fresh == {a \in members : ~Blocked(a) /\ cooldown[a] = NoCooldown}
    IN IF fresh # {} THEN {Min(fresh)} ELSE {}

(* Without a candidate: the first account that never was in cooldown, else *)
(* the one whose cooldown ends or ended first.  (Of two entries that have  *)
(* both run out, which ended first is not kept: either may be taken.)      *)
Fallbacks ==
    LET free == {a \in members : ~Blocked(a)}
        fresh == {a \in free : cooldown[a] = NoCooldown}
    IN IF fresh # {} THEN {Min(fresh)}
       ELSE {a \in free : \A b \in free : cooldown[a] <= cooldown[b]}

(* Defect: the selection sees that the time has run out, but stores nothing *)
AskedNotStored == breaker

(* Every breaker the selection loop visits is asked for its state.         *)
AskedBreakers ==
    [a \in Accounts |-> IF a \in members /\ cfg.Enabled THEN Asked(breaker[a])
                                                        ELSE breaker[a]]

(* GetNext picks a with the weighted round robin over the candidates.      *)
PickWeighted(a) ==
    LET credited == RoundRobin!Credited(weightCurrent, Weight, Candidates)
    IN /\ a \in Candidates
       /\ RoundRobin!Wins(a, credited, Candidates)
       /\ weightCurrent' =
              RoundRobin!Charged(a, credited, Weight, Candidates)

PickFallback(a) ==
    /\ Candidates = {}
    /\ a \in Fallbacks
    /\ UNCHANGED weightCurrent

(* A request asks for an account and goes upstream with it.  A request     *)
(* GetNext has nothing for is answered 503 and changes nothing.            *)
GetNext(r) ==
    /\ serving[r] = Idle
    /\ \E a \in Accounts :
         /\ PickWeighted(a) \/ PickFallback(a)
         /\ serving' = [serving EXCEPT ![r] = a]
    /\ breaker' = AskedBreakers
    /\ UNCHANGED <<cfg, status, members, expiring, cooldown, errorCounts>>

(* The 503 of the handlers.                                                *)
NoAccount == Candidates = {} /\ Fallbacks = {}

-----------------------------------------------------------------------------
(* Results                                                                 *)

RoomForEvent(a) == Recent(Pruned(breaker[a].Events)) < MaxEvents

RecordSuccess(r) ==
    LET a == serving[r]
    IN /\ a # Idle
       /\ RoomForEvent(a)
       /\ cooldown' = [cooldown EXCEPT ![a] = NoCooldown]
       /\ errorCounts' = [errorCounts EXCEPT ![a] = 0]
       /\ breaker' = [breaker EXCEPT ![a] = AfterSuccess(@)]
       /\ serving' = [serving EXCEPT ![r] = Idle]
       /\ UNCHANGED <<cfg, status, members, expiring, weightCurrent>>

RecordError(r, isQuota) ==
    LET a == serving[r]
        errors == IF errorCounts[a] < ErrorLimit THEN errorCounts[a] + 1
                                                 ELSE ErrorLimit
    IN /\ a # Idle
       /\ RoomForEvent(a)
       /\ errorCounts' = [errorCounts EXCEPT ![a] = errors]
       /\ breaker' = [breaker EXCEPT ![a] = AfterError(@, isQuota)]
       /\ cooldown' = [cooldown EXCEPT ![a] =
              IF isQuota THEN QuotaCooldown
              ELSE IF errors >= ErrorLimit THEN ErrorCooldown
              ELSE @]
       /\ serving' = [serving EXCEPT ![r] = Idle]
       /\ UNCHANGED <<cfg, status, members, expiring, weightCurrent>>

(* The request ends without a verdict on the account: its token could not  *)
(* be refreshed, or upstream refused the model name.                       *)
EndUnrecorded(r) ==
    /\ serving[r] # Idle
    /\ serving' = [serving EXCEPT ![r] = Idle]
    /\ UNCHANGED <<cfg, status, members, expiring, cooldown, errorCounts,
                   breaker, weightCurrent>>

-----------------------------------------------------------------------------
(* Administration and monitoring                                           *)

(* POST /admin/api/breaker                                                 *)
UpdateCircuitBreakerConfig(input) ==
    /\ cfg' = Normalized(input)
    /\ UNCHANGED <<status, members, expiring, cooldown, errorCounts, breaker,
                   weightCurrent, serving>>

(* Accounts are added, enabled, disabled and deleted in the config first;  *)
(* the pool learns of it by the Reload that follows.  Ids are never reused *)
ChangeAccount(a, to) ==
    /\ \/ status[a] = "absent" /\ to = "enabled"
       \/ status[a] = "enabled" /\ to \in {"disabled", "deleted"}
       \/ status[a] = "disabled" /\ to \in {"enabled", "deleted"}
    /\ status' = [status EXCEPT ![a] = to]
    /\ UNCHANGED <<cfg, members, expiring, cooldown, errorCounts, breaker,
                   weightCurrent, serving>>

(* Defect: the cooldowns of accounts that left are dropped as well.        *)
ReloadDropsCooldowns ==
    LET enabled == {a \in Accounts : status[a] = "enabled"}
    IN /\ members' = enabled
       /\ breaker' = [a \in Accounts |->
              IF a \in enabled THEN breaker[a] ELSE FreshBreaker]
       /\ weightCurrent' = [a \in Accounts |->
              IF a \in enabled THEN weightCurrent[a] ELSE 0]
       /\ cooldown' = [a \in Accounts |->
              IF a \in enabled THEN cooldown[a] ELSE NoCooldown]
       /\ UNCHANGED <<cfg, status, expiring, errorCounts, serving>>

(* Breaker and weight entries of accounts that left are dropped; cooldowns *)
(* and error counts are not.                                               *)
Reload ==
    LET enabled == {a \in Accounts : status[a] = "enabled"}
    IN /\ members' = enabled
       /\ breaker' = [a \in Accounts |->
              IF a \in enabled THEN breaker[a] ELSE FreshBreaker]
       /\ weightCurrent' = [a \in Accounts |->
              IF a \in enabled THEN weightCurrent[a] ELSE 0]
       /\ UNCHANGED <<cfg, status, expiring, cooldown, errorCounts, serving>>

InConfig(a) == status[a] \in {"enabled", "disabled"}

ForceOpenCircuit(a, duration) ==
    /\ InConfig(a)
    /\ breaker' = [breaker EXCEPT ![a] =
           Opened(@, IF duration <= 0 THEN cfg.OpenDurationSec ELSE duration,
                  TRUE)]
    /\ UNCHANGED <<cfg, status, members, expiring, cooldown, errorCounts,
                   weightCurrent, serving>>

CloseCircuit(a) ==
    /\ InConfig(a)
    /\ breaker' = [breaker EXCEPT ![a] = FreshBreaker]
    /\ errorCounts' = [errorCounts EXCEPT ![a] = 0]
    /\ cooldown' = [cooldown EXCEPT ![a] = NoCooldown]
    /\ UNCHANGED <<cfg, status, members, expiring, weightCurrent, serving>>

(* The health check counts the available accounts, asking every breaker.   *)
AvailableCount ==
    /\ breaker' = AskedBreakers
    /\ UNCHANGED <<cfg, status, members, expiring, cooldown, errorCounts,
                   weightCurrent, serving>>

(* The admin page looks at every configured account, pruning its window;   *)
(* it puts an open circuit on probation only strictly after its deadline.  *)
BreakerSnapshot ==
    /\ breaker' = [a \in Accounts |->
           LET st == [breaker[a] EXCEPT !.Events = Pruned(@)]
               elapsed == st.State = "open" /\ st.OpenFor < 0
           IN IF ~InConfig(a) THEN breaker[a]
              ELSE IF cfg.Enabled /\ elapsed THEN HalfOpened(st)
              ELSE st]
    /\ UNCHANGED <<cfg, status, members, expiring, cooldown, errorCounts,
                   weightCurrent, serving>>

-----------------------------------------------------------------------------
(* Time                                                                    *)

(* One tick: deadlines come closer (an open circuit's deadline may lie in  *)
(* the past, which -1 stands for), results grow older.                     *)
Aged(events) ==
    [g \in Ages |->
        IF g = 0 THEN NoEvents[g]
        ELSE IF g = MaxWindow
             THEN [ok |-> events[g].ok + events[g - 1].ok,
                   bad |-> events[g].bad + events[g - 1].bad]
             ELSE events[g - 1]]

Tick ==
    /\ breaker' = [a \in Accounts |->
           [breaker[a] EXCEPT
              !.Events = Aged(@),
              !.OpenFor = IF breaker[a].State = "open" /\ @ >= 0 THEN @ - 1
                                                                 ELSE @]]
    /\ cooldown' = [a \in Accounts |->
           IF cooldown[a] > 0 THEN cooldown[a] - 1 ELSE cooldown[a]]
    /\ UNCHANGED <<cfg, status, members, expiring, errorCounts, weightCurrent,
                   serving>>

(* A token comes within 300 seconds of its end, or was refreshed.          *)
TokenExpires(a) ==
    /\ expiring' = expiring \cup {a}
    /\ UNCHANGED <<cfg, status, members, cooldown, errorCounts, breaker,
                   weightCurrent, serving>>

UpdateToken(a) ==
    /\ a \in members
    /\ expiring' = expiring \ {a}
    /\ UNCHANGED <<cfg, status, members, cooldown, errorCounts, breaker,
                   weightCurrent, serving>>

-----------------------------------------------------------------------------
Init ==
    /\ cfg \in {Normalized(c) : c \in BreakerInputs}
    /\ status \in [Accounts -> {"absent", "enabled", "disabled"}]
    /\ members = {a \in Accounts : status[a] = "enabled"}
    /\ expiring = {}
    /\ cooldown = [a \in Accounts |-> NoCooldown]
    /\ errorCounts = [a \in Accounts |-> 0]
    /\ breaker = [a \in Accounts |-> FreshBreaker]
    /\ weightCurrent = [a \in Accounts |-> 0]
    /\ serving = [r \in Requests |-> Idle]

Finish(r) ==
    \/ RecordSuccess(r)
    \/ \E isQuota \in BOOLEAN : RecordError(r, isQuota)
    \/ EndUnrecorded(r)

AdminStep(a) ==
    \/ \E to \in {"enabled", "disabled", "deleted"} : ChangeAccount(a, to)
    \/ \E duration \in ManualDurations : ForceOpenCircuit(a, duration)
    \/ CloseCircuit(a)

Next ==
    \/ \E r \in Requests : GetNext(r) \/ Finish(r)
    \/ \E a \in Accounts : AdminStep(a) \/ TokenExpires(a) \/ UpdateToken(a)
    \/ \E input \in BreakerInputs : UpdateCircuitBreakerConfig(input)
    \/ Reload
    \/ AvailableCount
    \/ BreakerSnapshot
    \/ Tick

Spec == Init /\ [][Next]_vars

(* Time passes, requests keep arriving and every request ends (the HTTP    *)
(* clients have timeouts).  Nothing is assumed of the administrator.       *)
Fairness ==
    /\ WF_vars(Tick)
    /\ WF_vars(\E r \in Requests : GetNext(r))
    /\ \A r \in Requests : WF_vars(Finish(r))

FairSpec == Spec /\ Fairness

-----------------------------------------------------------------------------
(* Properties                                                              *)

EventWindow == [Ages -> [ok : Nat, bad : Nat]]

BreakerState ==
    [State : CircuitState, OpenFor : Int, FailureCount : Nat,
     SuccessStreak : Nat, Manual : BOOLEAN, Events : EventWindow]

(* The shape of every variable but the round robin's scores, which         *)
(* SmoothRotation is about.                                                *)
TypeOK ==
    /\ cfg \in BreakerConfig
    /\ status \in [Accounts -> {"absent", "enabled", "disabled", "deleted"}]
    /\ members \in SUBSET Accounts
    /\ expiring \in SUBSET Accounts
    /\ cooldown \in [Accounts -> Nat \cup {NoCooldown}]
    /\ errorCounts \in [Accounts -> 0..ErrorLimit]
    /\ breaker \in [Accounts -> BreakerState]
    /\ serving \in [Requests -> Accounts \cup {Idle}]

(* A breaker's fields agree whatever order results, operator commands,     *)
(* reloads and late answers come in: only an open circuit is marked as     *)
(* opened by hand, only one on probation has a streak of successes, and    *)
(* a closed one carries no deadline of an earlier opening.                 *)
Coherent(st) ==
    /\ st.Manual => st.State = "open"
    /\ st.SuccessStreak > 0 => st.State = "half_open"
    /\ st.State = "closed" => st.OpenFor = 0

BreakerCoherent == \A a \in Accounts : Coherent(breaker[a])

(* Three consecutive errors always leave a cooldown entry behind: the      *)
(* count and the entry are reset together by successes and by operators,   *)
(* and neither by Reload, whatever happens to the account in between.      *)
ErrorsLeaveCooldown ==
    \A a \in Accounts : errorCounts[a] >= ErrorLimit => cooldown[a] # NoCooldown

(* While the settings stay what they are, a closed circuit has failed      *)
(* fewer times in a row than the threshold, and one on probation is short  *)
(* of the successes that would close it, though failures recorded while    *)
(* the circuit was open keep counting.                                     *)
Limited(st) ==
    /\ st.State = "closed" /\ cfg.Enabled => st.FailureCount < cfg.FailureThreshold
    /\ st.State = "half_open" => st.SuccessStreak < cfg.HalfOpenMaxSuccess

LimitsAct == \A a \in Accounts : Limited(breaker[a])

(* "No available accounts" is only ever answered when the breaker isolates *)
(* every account of the pool: cooldowns and expiring tokens never leave a  *)
(* client without an account.                                              *)
RefusedOnlyWhenAllOpen ==
    NoAccount => \A a \in members : cfg.Enabled /\ breaker[a].State = "open"

(* The pool implements the circuit breaker contract.                       *)
Contract == INSTANCE CircuitBreaker WITH
    state   <- [a \in Accounts |-> breaker[a].State],
    openFor <- [a \in Accounts |->
                  IF breaker[a].State = "open" THEN breaker[a].OpenFor ELSE 0],
    streak  <- [a \in Accounts |-> breaker[a].SuccessStreak],
    needed  <- cfg.HalfOpenMaxSuccess

BreakerContract == Contract!Contract

(* A circuit that failures opened is tried again: as long as requests keep *)
(* coming and nobody opens it by hand, disables the breaker or removes the *)
(* account, it does not stay open, although late failures of requests that *)
(* started before it opened each push its deadline back.                   *)
OpenCircuitRetried ==
    \A a \in Accounts :
        breaker[a].State = "open" ~>
            \/ breaker[a].State # "open"
            \/ breaker[a].Manual
            \/ ~cfg.Enabled
            \/ a \notin members

=============================================================================
