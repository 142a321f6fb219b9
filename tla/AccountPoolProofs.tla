-------------------------- MODULE AccountPoolProofs --------------------------
(***************************************************************************)
(* Theorems about AccountPool, for any number of accounts and requests and *)
(* any breaker settings.                                                   *)
(***************************************************************************)
EXTENDS AccountPool, WellFoundedInduction, TLAPS

-----------------------------------------------------------------------------
(* What the operators on one breaker return                                *)

(* Normalizing any posted settings gives settings that are in range.       *)
LEMMA NormalizedType ==
    ASSUME NEW c \in PostedConfig
    PROVE  Normalized(c) \in BreakerConfig
BY PoolAssumption DEF Normalized, PostedConfig, BreakerConfig

(* The event window keeps its shape when it is pruned, extended or aged.   *)
LEMMA NoEventsType == NoEvents \in EventWindow
BY DEF NoEvents, EventWindow

LEMMA PrunedType ==
    ASSUME NEW w \in EventWindow
    PROVE  Pruned(w) \in EventWindow
BY NoEventsType DEF Pruned, EventWindow

LEMMA WithEventType ==
    ASSUME NEW w \in EventWindow, NEW isSuccess \in BOOLEAN
    PROVE  WithEvent(w, isSuccess) \in EventWindow
<1> DEFINE kept == Pruned(w)
<1>1. kept \in EventWindow /\ 0 \in Ages
  BY PrunedType, PoolAssumption DEF Ages
<1>2. kept[0].ok + 1 \in Nat /\ kept[0].bad + 1 \in Nat
  BY <1>1 DEF EventWindow
<1> HIDE DEF kept
<1>3. [kept[0] EXCEPT !.ok = @ + 1] \in [ok : Nat, bad : Nat]
  BY <1>1, <1>2 DEF EventWindow
<1>4. [kept[0] EXCEPT !.bad = @ + 1] \in [ok : Nat, bad : Nat]
  BY <1>1, <1>2 DEF EventWindow
<1>5. /\ [kept EXCEPT ![0].ok = @ + 1] \in EventWindow
      /\ [kept EXCEPT ![0].bad = @ + 1] \in EventWindow
  BY <1>1, <1>3, <1>4 DEF EventWindow
<1> QED
  BY <1>5 DEF WithEvent, kept

LEMMA AgedType ==
    ASSUME NEW w \in EventWindow
    PROVE  Aged(w) \in EventWindow
<1> SUFFICES ASSUME NEW g \in Ages
             PROVE  Aged(w)[g] \in [ok : Nat, bad : Nat]
  BY DEF Aged, EventWindow
<1>1. CASE g = 0
  <2>1. Aged(w)[g] = NoEvents[g]
    BY <1>1 DEF Aged
  <2> QED
    BY <2>1, NoEventsType DEF EventWindow
<1>2. CASE g # 0
  <2>1. g \in Ages /\ g - 1 \in Ages
    BY <1>2, PoolAssumption DEF Ages
  <2>2. w[g] \in [ok : Nat, bad : Nat] /\ w[g - 1] \in [ok : Nat, bad : Nat]
    BY <2>1 DEF EventWindow
  <2> QED
    BY <1>2, <2>1, <2>2, PoolAssumption DEF Aged
<1> QED
  BY <1>1, <1>2

LEMMA FreshType == FreshBreaker \in BreakerState
BY NoEventsType DEF FreshBreaker, BreakerState, CircuitState

(* Every operator on a breaker returns a breaker.                          *)
LEMMA AskedType ==
    ASSUME NEW st \in BreakerState
    PROVE  HalfOpened(st) \in BreakerState /\ Asked(st) \in BreakerState
BY DEF HalfOpened, Asked, BreakerState, CircuitState

LEMMA OpenedType ==
    ASSUME NEW st \in BreakerState, NEW d \in Int, NEW manual \in BOOLEAN
    PROVE  Opened(st, d, manual) \in BreakerState
<1> DEFINE time == IF d <= 0 THEN DefaultBreaker.OpenDurationSec ELSE d
<1>1. time \in Int
  BY PoolAssumption DEF BreakerConfig
<1> HIDE DEF time
<1>2. [st EXCEPT !.State = "open", !.SuccessStreak = 0, !.Manual = manual,
                 !.OpenFor = time] \in BreakerState
  BY <1>1 DEF BreakerState, CircuitState
<1> QED
  BY <1>2 DEF Opened, time

LEMMA AfterSuccessType ==
    ASSUME NEW st \in BreakerState
    PROVE  AfterSuccess(st) \in BreakerState
<1> DEFINE seen == [st EXCEPT !.Events = WithEvent(@, TRUE)]
<1>1. seen \in BreakerState
  BY WithEventType DEF BreakerState
<1> HIDE DEF seen
<1>2. [seen EXCEPT !.SuccessStreak = @ + 1] \in BreakerState
  BY <1>1 DEF BreakerState
<1>3. [FreshBreaker EXCEPT !.Events = seen.Events] \in BreakerState
  BY <1>1, FreshType DEF BreakerState
<1> QED
  BY <1>1, <1>2, <1>3 DEF AfterSuccess, seen

LEMMA AfterErrorType ==
    ASSUME NEW st \in BreakerState, NEW isQuota \in BOOLEAN,
           cfg \in BreakerConfig
    PROVE  AfterError(st, isQuota) \in BreakerState
<1> DEFINE count == IF st.FailureCount < MaxFailures THEN st.FailureCount + 1
                                                     ELSE st.FailureCount
           seen == [st EXCEPT !.Events = WithEvent(@, FALSE),
                              !.FailureCount =
                                IF @ < MaxFailures THEN @ + 1 ELSE @]
<1>1. count \in Nat
  BY DEF BreakerState
<1>2. seen \in BreakerState
  BY <1>1, WithEventType DEF BreakerState
<1>3. cfg.OpenDurationSec \in Int
  BY DEF BreakerConfig
<1> HIDE DEF seen
<1>4. Opened(seen, cfg.OpenDurationSec, FALSE) \in BreakerState
  BY <1>2, <1>3, OpenedType
<1> QED
  BY <1>2, <1>4 DEF AfterError, seen

LEMMA SnapshotType ==
    ASSUME NEW st \in BreakerState
    PROVE  /\ [st EXCEPT !.Events = Pruned(@)] \in BreakerState
           /\ HalfOpened([st EXCEPT !.Events = Pruned(@)]) \in BreakerState
<1>1. [st EXCEPT !.Events = Pruned(@)] \in BreakerState
  BY PrunedType DEF BreakerState
<1> QED
  BY <1>1, AskedType

LEMMA TickType ==
    ASSUME NEW st \in BreakerState
    PROVE  [st EXCEPT !.Events = Aged(@),
                      !.OpenFor = IF st.State = "open" /\ @ >= 0 THEN @ - 1
                                                                 ELSE @]
              \in BreakerState
<1> DEFINE time == IF st.State = "open" /\ st.OpenFor >= 0 THEN st.OpenFor - 1
                                                           ELSE st.OpenFor
<1>1. time \in Int /\ Aged(st.Events) \in EventWindow
  BY AgedType DEF BreakerState
<1> HIDE DEF time
<1>2. [st EXCEPT !.Events = Aged(@), !.OpenFor = time] \in BreakerState
  BY <1>1 DEF BreakerState
<1> QED
  BY <1>2 DEF time

-----------------------------------------------------------------------------
(* Types                                                                   *)

LEMMA InitTypeOK == Init => TypeOK
<1> SUFFICES ASSUME Init
             PROVE  TypeOK
  OBVIOUS
<1>1. cfg \in BreakerConfig
  BY PoolAssumption, NormalizedType DEF Init
<1>2. breaker \in [Accounts -> BreakerState]
  BY FreshType DEF Init
<1>3. status \in [Accounts -> {"absent", "enabled", "disabled", "deleted"}]
  BY DEF Init
<1>4. cooldown \in [Accounts -> Nat \cup {NoCooldown}]
  BY DEF Init
<1>5. errorCounts \in [Accounts -> 0..ErrorLimit]
  BY DEF Init, ErrorLimit
<1>6. serving \in [Requests -> Accounts \cup {Idle}]
  BY DEF Init
<1>7. members \in SUBSET Accounts /\ expiring \in SUBSET Accounts
  BY DEF Init
<1> QED
  BY <1>1, <1>2, <1>3, <1>4, <1>5, <1>6, <1>7 DEF TypeOK

LEMMA AskedBreakersType ==
    ASSUME TypeOK
    PROVE  AskedBreakers \in [Accounts -> BreakerState]
BY AskedType DEF AskedBreakers, TypeOK

LEMMA NextTypeOK == TypeOK /\ [Next]_vars => TypeOK'
<1> SUFFICES ASSUME TypeOK, [Next]_vars
             PROVE  TypeOK'
  OBVIOUS
<1> USE DEF TypeOK
<1>1. ASSUME NEW r \in Requests, GetNext(r)
      PROVE  TypeOK'
  BY <1>1, AskedBreakersType DEF GetNext
<1>2. ASSUME NEW r \in Requests, RecordSuccess(r)
      PROVE  TypeOK'
  <2>1. serving[r] \in Accounts
    BY <1>2 DEF RecordSuccess
  <2>2. breaker' \in [Accounts -> BreakerState]
    BY <1>2, <2>1, AfterSuccessType DEF RecordSuccess
  <2>3. cooldown' \in [Accounts -> Nat \cup {NoCooldown}]
    BY <1>2 DEF RecordSuccess
  <2>4. errorCounts' \in [Accounts -> 0..ErrorLimit]
    BY <1>2 DEF RecordSuccess, ErrorLimit
  <2> QED
    BY <1>2, <2>2, <2>3, <2>4 DEF RecordSuccess
<1>3. ASSUME NEW r \in Requests, NEW isQuota \in BOOLEAN,
             RecordError(r, isQuota)
      PROVE  TypeOK'
  <2> DEFINE a == serving[r]
             errors == IF errorCounts[a] < ErrorLimit THEN errorCounts[a] + 1
                                                      ELSE ErrorLimit
  <2>1. a \in Accounts
    BY <1>3 DEF RecordError
  <2>2. breaker' \in [Accounts -> BreakerState]
    BY <1>3, <2>1, AfterErrorType DEF RecordError
  <2>3. errors \in 0..ErrorLimit
    BY <2>1 DEF ErrorLimit
  <2>4. errorCounts' \in [Accounts -> 0..ErrorLimit]
    BY <1>3, <2>3 DEF RecordError
  <2>5. cooldown' \in [Accounts -> Nat \cup {NoCooldown}]
    BY <1>3, <2>1, PoolAssumption DEF RecordError
  <2> QED
    BY <1>3, <2>2, <2>4, <2>5 DEF RecordError
<1>4. ASSUME NEW r \in Requests, EndUnrecorded(r)
      PROVE  TypeOK'
  BY <1>4 DEF EndUnrecorded
<1>5. ASSUME NEW a \in Accounts, NEW to \in {"enabled", "disabled", "deleted"},
             ChangeAccount(a, to)
      PROVE  TypeOK'
  BY <1>5 DEF ChangeAccount
<1>6. ASSUME NEW a \in Accounts, NEW d \in ManualDurations,
             ForceOpenCircuit(a, d)
      PROVE  TypeOK'
  <2> DEFINE time == IF d <= 0 THEN cfg.OpenDurationSec ELSE d
  <2>1. time \in Int
    BY PoolAssumption DEF BreakerConfig
  <2>2. Opened(breaker[a], time, TRUE) \in BreakerState
    BY <2>1, OpenedType
  <2>3. breaker' \in [Accounts -> BreakerState]
    BY <1>6, <2>2 DEF ForceOpenCircuit
  <2> QED
    BY <1>6, <2>3 DEF ForceOpenCircuit
<1>7. ASSUME NEW a \in Accounts, CloseCircuit(a)
      PROVE  TypeOK'
  BY <1>7, FreshType DEF CloseCircuit, ErrorLimit
<1>8. ASSUME NEW a \in Accounts, TokenExpires(a) \/ UpdateToken(a)
      PROVE  TypeOK'
  BY <1>8 DEF TokenExpires, UpdateToken
<1>9. ASSUME NEW input \in BreakerInputs, UpdateCircuitBreakerConfig(input)
      PROVE  TypeOK'
  BY <1>9, PoolAssumption, NormalizedType DEF UpdateCircuitBreakerConfig
<1>10. ASSUME Reload
       PROVE  TypeOK'
  BY <1>10, FreshType DEF Reload
<1>11. ASSUME AvailableCount
       PROVE  TypeOK'
  BY <1>11, AskedBreakersType DEF AvailableCount
<1>12. ASSUME BreakerSnapshot
       PROVE  TypeOK'
  BY <1>12, SnapshotType DEF BreakerSnapshot
<1>13. ASSUME Tick
       PROVE  TypeOK'
  <2>1. breaker' \in [Accounts -> BreakerState]
    BY <1>13, TickType DEF Tick
  <2>2. cooldown' \in [Accounts -> Nat \cup {NoCooldown}]
    <3>1. \A a \in Accounts :
            (IF cooldown[a] > 0 THEN cooldown[a] - 1 ELSE cooldown[a])
               \in Nat \cup {NoCooldown}
      BY DEF NoCooldown
    <3> QED
      BY <1>13, <3>1 DEF Tick
  <2> QED
    BY <1>13, <2>1, <2>2 DEF Tick
<1>14. CASE UNCHANGED vars
  BY <1>14 DEF vars
<1> QED
  BY <1>1, <1>2, <1>3, <1>4, <1>5, <1>6, <1>7, <1>8, <1>9, <1>10, <1>11,
     <1>12, <1>13, <1>14 DEF Next, Finish, AdminStep

(* Every variable keeps its shape, for any number of accounts, requests    *)
(* and settings an administrator may post.                                 *)
THEOREM PoolTypeCorrect == Spec => []TypeOK
<1>1. Init => TypeOK
  BY InitTypeOK
<1>2. TypeOK /\ [Next]_vars => TypeOK'
  BY NextTypeOK
<1> QED
  BY <1>1, <1>2, PTL DEF Spec

-----------------------------------------------------------------------------
(* Coherence of the breakers                                               *)

LEMMA FreshCoherent == Coherent(FreshBreaker)
BY DEF Coherent, FreshBreaker

LEMMA AskedCoherent ==
    ASSUME NEW st \in BreakerState, Coherent(st)
    PROVE  Coherent(HalfOpened(st)) /\ Coherent(Asked(st))
BY DEF Coherent, HalfOpened, Asked, BreakerState, CircuitState

LEMMA OpenedCoherent ==
    ASSUME NEW st \in BreakerState, NEW d \in Int, NEW manual \in BOOLEAN
    PROVE  Coherent(Opened(st, d, manual))
BY DEF Coherent, Opened, BreakerState, CircuitState

LEMMA AfterSuccessCoherent ==
    ASSUME NEW st \in BreakerState, Coherent(st)
    PROVE  Coherent(AfterSuccess(st))
<1> DEFINE seen == [st EXCEPT !.Events = WithEvent(@, TRUE)]
<1>1. seen \in BreakerState /\ Coherent(seen)
  BY WithEventType DEF BreakerState, Coherent
<1> HIDE DEF seen
<1>2. seen.State = "half_open"
         => Coherent([seen EXCEPT !.SuccessStreak = @ + 1])
  BY <1>1 DEF Coherent, BreakerState
<1>3. Coherent([FreshBreaker EXCEPT !.Events = seen.Events])
  BY DEF Coherent, FreshBreaker
<1> QED
  BY <1>1, <1>2, <1>3 DEF AfterSuccess, seen

LEMMA AfterErrorCoherent ==
    ASSUME NEW st \in BreakerState, NEW isQuota \in BOOLEAN,
           cfg \in BreakerConfig, Coherent(st)
    PROVE  Coherent(AfterError(st, isQuota))
<1> DEFINE seen == [st EXCEPT !.Events = WithEvent(@, FALSE),
                              !.FailureCount =
                                IF @ < MaxFailures THEN @ + 1 ELSE @]
<1>1. /\ seen \in BreakerState
      /\ seen.State = st.State /\ seen.Manual = st.Manual
      /\ seen.SuccessStreak = st.SuccessStreak /\ seen.OpenFor = st.OpenFor
  <2> DEFINE count == IF st.FailureCount < MaxFailures
                      THEN st.FailureCount + 1 ELSE st.FailureCount
  <2>1. count \in Nat
    BY DEF BreakerState
  <2>2. WithEvent(st.Events, FALSE) \in EventWindow
    BY WithEventType DEF BreakerState
  <2> QED
    BY <2>1, <2>2 DEF BreakerState
<1>2. cfg.OpenDurationSec \in Int
  BY DEF BreakerConfig
<1> HIDE DEF seen
<1>3. Coherent(Opened(seen, cfg.OpenDurationSec, FALSE))
  BY <1>1, <1>2, OpenedCoherent
<1>4. Coherent(seen)
  BY <1>1 DEF Coherent
<1> QED
  BY <1>1, <1>3, <1>4 DEF AfterError, seen

LEMMA SnapshotCoherent ==
    ASSUME NEW st \in BreakerState, Coherent(st)
    PROVE  /\ Coherent([st EXCEPT !.Events = Pruned(@)])
           /\ Coherent(HalfOpened([st EXCEPT !.Events = Pruned(@)]))
<1>1. Coherent([st EXCEPT !.Events = Pruned(@)])
  BY DEF Coherent, BreakerState
<1> QED
  BY <1>1, SnapshotType, AskedCoherent

LEMMA TickCoherent ==
    ASSUME NEW st \in BreakerState, Coherent(st)
    PROVE  Coherent([st EXCEPT
                       !.Events = Aged(@),
                       !.OpenFor = IF st.State = "open" /\ @ >= 0 THEN @ - 1
                                                                  ELSE @])
BY DEF Coherent, BreakerState

LEMMA NextCoherent ==
    TypeOK /\ BreakerCoherent /\ [Next]_vars => BreakerCoherent'
<1> SUFFICES ASSUME TypeOK, BreakerCoherent, [Next]_vars
             PROVE  BreakerCoherent'
  OBVIOUS
<1> USE DEF BreakerCoherent
<1>0. breaker \in [Accounts -> BreakerState] /\ cfg \in BreakerConfig
  BY DEF TypeOK
<1>1. breaker' = AskedBreakers => BreakerCoherent'
  BY <1>0, AskedCoherent DEF AskedBreakers
<1>2. ASSUME NEW r \in Requests, RecordSuccess(r)
      PROVE  BreakerCoherent'
  BY <1>0, <1>2, AfterSuccessCoherent DEF RecordSuccess, TypeOK
<1>3. ASSUME NEW r \in Requests, NEW isQuota \in BOOLEAN,
             RecordError(r, isQuota)
      PROVE  BreakerCoherent'
  BY <1>0, <1>3, AfterErrorCoherent DEF RecordError, TypeOK
<1>4. ASSUME NEW a \in Accounts, NEW d \in ManualDurations,
             ForceOpenCircuit(a, d)
      PROVE  BreakerCoherent'
  <2> DEFINE time == IF d <= 0 THEN cfg.OpenDurationSec ELSE d
  <2>1. time \in Int
    BY <1>0, PoolAssumption DEF BreakerConfig
  <2>2. Coherent(Opened(breaker[a], time, TRUE))
    BY <1>0, <2>1, OpenedCoherent
  <2> QED
    BY <1>0, <1>4, <2>2 DEF ForceOpenCircuit
<1>5. ASSUME NEW a \in Accounts, CloseCircuit(a)
      PROVE  BreakerCoherent'
  BY <1>0, <1>5, FreshCoherent DEF CloseCircuit
<1>6. ASSUME Reload
      PROVE  BreakerCoherent'
  BY <1>0, <1>6, FreshCoherent DEF Reload
<1>7. ASSUME BreakerSnapshot
      PROVE  BreakerCoherent'
  BY <1>0, <1>7, SnapshotCoherent DEF BreakerSnapshot
<1>8. ASSUME Tick
      PROVE  BreakerCoherent'
  BY <1>0, <1>8, TickCoherent DEF Tick
<1>9. breaker' = breaker => BreakerCoherent'
  OBVIOUS
<1>10. \/ breaker' = AskedBreakers
       \/ breaker' = breaker
       \/ \E r \in Requests : RecordSuccess(r)
       \/ \E r \in Requests, isQuota \in BOOLEAN : RecordError(r, isQuota)
       \/ \E a \in Accounts, d \in ManualDurations : ForceOpenCircuit(a, d)
       \/ \E a \in Accounts : CloseCircuit(a)
       \/ Reload
       \/ BreakerSnapshot
       \/ Tick
  BY DEF Next, Finish, AdminStep, GetNext, EndUnrecorded, ChangeAccount,
         TokenExpires, UpdateToken, UpdateCircuitBreakerConfig,
         AvailableCount, vars
<1> QED
  BY <1>1, <1>2, <1>3, <1>4, <1>5, <1>6, <1>7, <1>8, <1>9, <1>10

(* A breaker's fields agree in every reachable state.                      *)
THEOREM BreakersCoherent == Spec => []BreakerCoherent
<1>1. Init => BreakerCoherent
  BY FreshCoherent DEF Init, BreakerCoherent
<1>2. TypeOK /\ BreakerCoherent /\ [Next]_vars => BreakerCoherent'
  BY NextCoherent
<1> QED
  BY <1>1, <1>2, PoolTypeCorrect, PTL DEF Spec

-----------------------------------------------------------------------------
(* Errors and cooldowns                                                    *)

LEMMA NextErrorsLeaveCooldown ==
    TypeOK /\ ErrorsLeaveCooldown /\ [Next]_vars => ErrorsLeaveCooldown'
<1> SUFFICES ASSUME TypeOK, ErrorsLeaveCooldown, [Next]_vars
             PROVE  ErrorsLeaveCooldown'
  OBVIOUS
<1> USE DEF ErrorsLeaveCooldown, ErrorLimit, NoCooldown
<1>0. /\ errorCounts \in [Accounts -> 0..3]
      /\ cooldown \in [Accounts -> Nat \cup {-1}]
      /\ serving \in [Requests -> Accounts \cup {Idle}]
  BY DEF TypeOK
<1>1. ASSUME NEW r \in Requests, RecordSuccess(r)
      PROVE  ErrorsLeaveCooldown'
  BY <1>0, <1>1 DEF RecordSuccess
<1>2. ASSUME NEW r \in Requests, NEW isQuota \in BOOLEAN,
             RecordError(r, isQuota)
      PROVE  ErrorsLeaveCooldown'
  <2> SUFFICES ASSUME NEW a \in Accounts, errorCounts'[a] >= 3
               PROVE  cooldown'[a] # -1
    BY DEF ErrorsLeaveCooldown
  <2>1. CASE a # serving[r]
    BY <1>0, <1>2, <2>1 DEF RecordError
  <2>2. CASE a = serving[r]
    <3> DEFINE errors == IF errorCounts[a] < 3 THEN errorCounts[a] + 1 ELSE 3
    <3>1. errorCounts'[a] = errors
      BY <1>0, <1>2, <2>2 DEF RecordError
    <3>2. cooldown'[a] = IF isQuota THEN QuotaCooldown
                         ELSE IF errors >= 3 THEN ErrorCooldown
                         ELSE cooldown[a]
      BY <1>0, <1>2, <2>2 DEF RecordError
    <3> QED
      BY <3>1, <3>2, PoolAssumption
  <2> QED
    BY <2>1, <2>2
<1>3. ASSUME NEW a \in Accounts, CloseCircuit(a)
      PROVE  ErrorsLeaveCooldown'
  BY <1>0, <1>3 DEF CloseCircuit
<1>4. ASSUME Tick
      PROVE  ErrorsLeaveCooldown'
  <2>1. errorCounts' = errorCounts
    BY <1>4 DEF Tick
  <2>2. ASSUME NEW a \in Accounts, cooldown[a] # -1
        PROVE  cooldown'[a] # -1
    <3>1. cooldown[a] \in Nat
      BY <1>0, <2>2
    <3>2. cooldown'[a] = IF cooldown[a] > 0 THEN cooldown[a] - 1
                                            ELSE cooldown[a]
      BY <1>4 DEF Tick
    <3> QED
      BY <3>1, <3>2
  <2> QED
    BY <2>1, <2>2
<1>5. UNCHANGED <<errorCounts, cooldown>> => ErrorsLeaveCooldown'
  OBVIOUS
<1>6. \/ UNCHANGED <<errorCounts, cooldown>>
      \/ \E r \in Requests : RecordSuccess(r)
      \/ \E r \in Requests, isQuota \in BOOLEAN : RecordError(r, isQuota)
      \/ \E a \in Accounts : CloseCircuit(a)
      \/ Tick
  BY DEF Next, Finish, AdminStep, GetNext, EndUnrecorded, ChangeAccount,
         TokenExpires, UpdateToken, UpdateCircuitBreakerConfig,
         AvailableCount, Reload, ForceOpenCircuit, BreakerSnapshot, vars
<1> QED
  BY <1>1, <1>2, <1>3, <1>4, <1>5, <1>6

(* Three consecutive errors always leave a cooldown entry.                 *)
THEOREM CooldownAfterErrors == Spec => []ErrorsLeaveCooldown
<1>1. Init => ErrorsLeaveCooldown
  BY DEF Init, ErrorsLeaveCooldown, ErrorLimit
<1>2. TypeOK /\ ErrorsLeaveCooldown /\ [Next]_vars => ErrorsLeaveCooldown'
  BY NextErrorsLeaveCooldown
<1> QED
  BY <1>1, <1>2, PoolTypeCorrect, PTL DEF Spec
-----------------------------------------------------------------------------
(* The limits of the breaker act                                           *)

LEMMA FreshLimited ==
    ASSUME cfg \in BreakerConfig
    PROVE  Limited(FreshBreaker)
BY DEF Limited, FreshBreaker, BreakerConfig

LEMMA AskedLimited ==
    ASSUME cfg \in BreakerConfig, NEW st \in BreakerState, Limited(st)
    PROVE  Limited(HalfOpened(st)) /\ Limited(Asked(st))
BY DEF Limited, HalfOpened, Asked, BreakerState, BreakerConfig

LEMMA OpenedLimited ==
    ASSUME NEW st \in BreakerState, NEW d, NEW manual
    PROVE  Limited(Opened(st, d, manual))
BY DEF Limited, Opened, BreakerState

LEMMA AfterSuccessLimited ==
    ASSUME cfg \in BreakerConfig, NEW st \in BreakerState, Limited(st)
    PROVE  Limited(AfterSuccess(st))
<1> DEFINE seen == [st EXCEPT !.Events = WithEvent(@, TRUE)]
<1>1. seen \in BreakerState /\ Limited(seen)
  BY WithEventType DEF BreakerState, Limited
<1> HIDE DEF seen
<1>2. seen.State = "half_open" /\ seen.SuccessStreak + 1 < cfg.HalfOpenMaxSuccess
         => Limited([seen EXCEPT !.SuccessStreak = @ + 1])
  BY <1>1 DEF Limited, BreakerState
<1>3. Limited([FreshBreaker EXCEPT !.Events = seen.Events])
  BY DEF Limited, FreshBreaker, BreakerConfig
<1> QED
  BY <1>1, <1>2, <1>3 DEF AfterSuccess, seen

(* A failure that reaches a limit opens the circuit.                       *)
LEMMA AfterErrorLimited ==
    ASSUME cfg \in BreakerConfig, NEW st \in BreakerState, NEW isQuota \in BOOLEAN,
           Limited(st)
    PROVE  Limited(AfterError(st, isQuota))
<1> DEFINE seen == [st EXCEPT !.Events = WithEvent(@, FALSE),
                              !.FailureCount =
                                IF @ < MaxFailures THEN @ + 1 ELSE @]
<1>1. /\ seen \in BreakerState
      /\ seen.State = st.State /\ seen.SuccessStreak = st.SuccessStreak
  <2> DEFINE count == IF st.FailureCount < MaxFailures
                      THEN st.FailureCount + 1 ELSE st.FailureCount
  <2>1. count \in Nat
    BY DEF BreakerState
  <2>2. WithEvent(st.Events, FALSE) \in EventWindow
    BY WithEventType DEF BreakerState
  <2> QED
    BY <2>1, <2>2 DEF BreakerState
<1> HIDE DEF seen
<1>2. Limited(Opened(seen, cfg.OpenDurationSec, FALSE))
  BY <1>1, OpenedLimited
<1>3. CASE cfg.Enabled /\ (seen.State = "half_open"
                           \/ seen.FailureCount >= cfg.FailureThreshold)
  BY <1>2, <1>3 DEF AfterError, seen
<1>4. CASE ~ (cfg.Enabled /\ (seen.State = "half_open"
                              \/ seen.FailureCount >= cfg.FailureThreshold))
  <2>1. Limited(seen)
    BY <1>1, <1>4 DEF Limited, BreakerState, BreakerConfig
  <2> QED
    BY <1>2, <2>1 DEF AfterError, seen
<1> QED
  BY <1>3, <1>4

LEMMA SnapshotLimited ==
    ASSUME cfg \in BreakerConfig, NEW st \in BreakerState, Limited(st)
    PROVE  /\ Limited([st EXCEPT !.Events = Pruned(@)])
           /\ Limited(HalfOpened([st EXCEPT !.Events = Pruned(@)]))
<1>1. Limited([st EXCEPT !.Events = Pruned(@)])
  BY DEF Limited, BreakerState
<1> QED
  BY <1>1, SnapshotType, AskedLimited

LEMMA TickLimited ==
    ASSUME NEW st \in BreakerState, Limited(st)
    PROVE  Limited([st EXCEPT
                      !.Events = Aged(@),
                      !.OpenFor = IF st.State = "open" /\ @ >= 0 THEN @ - 1
                                                                 ELSE @])
BY DEF Limited, BreakerState

LEMMA NextLimited ==
    ASSUME TypeOK, LimitsAct, [Next]_vars, cfg' = cfg
    PROVE  LimitsAct'
<1>0. /\ breaker \in [Accounts -> BreakerState] /\ cfg \in BreakerConfig
      /\ \A a \in Accounts : Limited(breaker[a])
  BY DEF TypeOK, LimitsAct
<1> SUFFICES \A a \in Accounts : Limited(breaker'[a])
  BY DEF LimitsAct, Limited
<1>1. ASSUME breaker' = AskedBreakers
      PROVE  \A a \in Accounts : Limited(breaker'[a])
  BY <1>0, <1>1, AskedLimited DEF AskedBreakers
<1>2. ASSUME NEW r \in Requests, RecordSuccess(r)
      PROVE  \A a \in Accounts : Limited(breaker'[a])
  BY <1>0, <1>2, AfterSuccessLimited DEF RecordSuccess, TypeOK
<1>3. ASSUME NEW r \in Requests, NEW isQuota \in BOOLEAN,
             RecordError(r, isQuota)
      PROVE  \A a \in Accounts : Limited(breaker'[a])
  BY <1>0, <1>3, AfterErrorLimited DEF RecordError, TypeOK
<1>4. ASSUME NEW b \in Accounts, NEW d \in ManualDurations,
             ForceOpenCircuit(b, d)
      PROVE  \A a \in Accounts : Limited(breaker'[a])
  BY <1>0, <1>4, OpenedLimited DEF ForceOpenCircuit
<1>5. ASSUME NEW b \in Accounts, CloseCircuit(b)
      PROVE  \A a \in Accounts : Limited(breaker'[a])
  BY <1>0, <1>5, FreshLimited DEF CloseCircuit
<1>6. CASE Reload
  BY <1>0, <1>6, FreshLimited DEF Reload
<1>7. CASE BreakerSnapshot
  BY <1>0, <1>7, SnapshotLimited DEF BreakerSnapshot
<1>8. CASE Tick
  BY <1>0, <1>8, TickLimited DEF Tick
<1>9. CASE breaker' = breaker
  BY <1>0, <1>9
<1>10. \/ breaker' = AskedBreakers
       \/ breaker' = breaker
       \/ \E r \in Requests : RecordSuccess(r)
       \/ \E r \in Requests, isQuota \in BOOLEAN : RecordError(r, isQuota)
       \/ \E b \in Accounts, d \in ManualDurations : ForceOpenCircuit(b, d)
       \/ \E b \in Accounts : CloseCircuit(b)
       \/ Reload
       \/ BreakerSnapshot
       \/ Tick
  BY DEF Next, Finish, AdminStep, GetNext, EndUnrecorded, ChangeAccount,
         TokenExpires, UpdateToken, UpdateCircuitBreakerConfig,
         AvailableCount, vars
<1> QED
  BY <1>1, <1>2, <1>3, <1>4, <1>5, <1>6, <1>7, <1>8, <1>9, <1>10

(* As long as nobody changes the settings, no closed circuit has reached   *)
(* the limit of failures, and none on probation that of successes.         *)
THEOREM LimitsActWhileFixed == Spec /\ [][cfg' = cfg]_vars => []LimitsAct
<1>1. Init => TypeOK /\ LimitsAct
  BY InitTypeOK, FreshLimited DEF Init, LimitsAct, TypeOK
<1>2. TypeOK /\ LimitsAct /\ [Next]_vars /\ [cfg' = cfg]_vars => TypeOK' /\ LimitsAct'
  BY NextTypeOK, NextLimited DEF vars
<1> QED
  BY <1>1, <1>2, PTL DEF Spec
-----------------------------------------------------------------------------
(* The fallback finds an account unless all circuits are open              *)

LEMMA LeastNatural ==
    ASSUME NEW T \in SUBSET Nat, T # {}
    PROVE  \E n \in T : \A m \in T : n <= m
<1>1. PICK n \in T : \A m \in T : <<m, n>> \notin OpToRel(<, Nat)
  BY NatLessThanWellFounded, WFMin
<1>2. \A m \in T : ~ (m < n)
  BY <1>1 DEF OpToRel
<1> QED
  BY <1>2

LEMMA FallbackFound ==
    ASSUME TypeOK, NEW a \in members, ~ Blocked(a)
    PROVE  Fallbacks # {}
<1> DEFINE free == {b \in members : ~ Blocked(b)}
           fresh == {b \in free : cooldown[b] = NoCooldown}
<1>1. CASE fresh # {}
  BY <1>1 DEF Fallbacks
<1>2. CASE fresh = {}
  <2> DEFINE times == {cooldown[b] : b \in free}
  <2>1. \A b \in free : cooldown[b] \in Nat
    BY <1>2 DEF TypeOK
  <2>2. times \in SUBSET Nat /\ cooldown[a] \in times
    BY <2>1
  <2> HIDE DEF times
  <2>3. PICK n \in times : \A m \in times : n <= m
    BY <2>2, LeastNatural
  <2>4. PICK first \in free : cooldown[first] = n
    BY <2>3 DEF times
  <2>5. \A b \in free : cooldown[first] <= cooldown[b]
    BY <2>3, <2>4 DEF times
  <2> QED
    BY <1>2, <2>4, <2>5 DEF Fallbacks
<1> QED
  BY <1>1, <1>2

(* A client is only refused when the breaker isolates every account of the *)
(* pool: cooldowns and expiring tokens alone never leave it without one.   *)
THEOREM RefusedForOpenCircuits == Spec => []RefusedOnlyWhenAllOpen
<1>1. TypeOK => RefusedOnlyWhenAllOpen
  BY FallbackFound DEF RefusedOnlyWhenAllOpen, NoAccount, Blocked, IsOpen
<1> QED
  BY <1>1, PoolTypeCorrect, PTL
-----------------------------------------------------------------------------
(* AccountPool implements the circuit breaker contract: every step of the  *)
(* pool is a step of CircuitBreaker, seen through the refinement mapping   *)
(* of AccountPool, or leaves the mapped variables alone.  The argument     *)
(* needs the coherence invariant: the successes a circuit collected before *)
(* it opened must not count on its next probation.                         *)

(* The mapped variables, by name.                                          *)
absState == [a \in Accounts |-> breaker[a].State]
absOpenFor == [a \in Accounts |->
    IF breaker[a].State = "open" THEN breaker[a].OpenFor ELSE 0]
absStreak == [a \in Accounts |-> breaker[a].SuccessStreak]

ContractStep == Contract!Evolve \/ UNCHANGED Contract!abstractVars

(* What a step must do to one breaker to be invisible.                     *)
Alike(st, new) ==
    /\ new.State = st.State
    /\ new.SuccessStreak = st.SuccessStreak
    /\ st.State = "open" => new.OpenFor = st.OpenFor

LEMMA InvisibleStep ==
    ASSUME TypeOK, cfg' = cfg,
           \A a \in Accounts : Alike(breaker[a], breaker'[a])
    PROVE  ContractStep
BY DEF ContractStep, Contract!abstractVars, Alike

(* A step that puts the circuits of S on probation and changes no other.   *)
LEMMA ProbationStep ==
    ASSUME TypeOK, BreakerCoherent, cfg' = cfg, NEW S \in SUBSET Accounts,
           \A a \in S : /\ breaker[a].State = "open" /\ breaker[a].OpenFor <= 0
                        /\ breaker'[a].State = "half_open"
                        /\ breaker'[a].SuccessStreak = 0,
           \A a \in Accounts \ S : Alike(breaker[a], breaker'[a])
    PROVE  ContractStep
<1>1. \A a \in S : breaker[a].SuccessStreak = 0
  BY DEF TypeOK, BreakerState, BreakerCoherent, Coherent
<1>2. Contract!Probation(S)
  BY <1>1 DEF Contract!Probation, Alike
<1> QED
  BY <1>2 DEF ContractStep, Contract!Evolve

(* A step that opens the circuit of a, for a positive time.                *)
LEMMA TripStep ==
    ASSUME TypeOK, cfg' = cfg, NEW a \in Accounts,
           NEW new \in BreakerState, breaker' = [breaker EXCEPT ![a] = new],
           new.State = "open", new.SuccessStreak = 0, new.OpenFor \in Nat \ {0}
    PROVE  ContractStep
<1>1. breaker \in [Accounts -> BreakerState]
  BY DEF TypeOK
<1>2. /\ absState' = [absState EXCEPT ![a] = "open"]
      /\ absOpenFor' = [absOpenFor EXCEPT ![a] = new.OpenFor]
      /\ absStreak' = [absStreak EXCEPT ![a] = 0]
  BY <1>1 DEF absState, absOpenFor, absStreak
<1>3. absOpenFor'[a] = new.OpenFor
  BY <1>2 DEF absOpenFor
<1>4. Contract!Trip(a)
  BY <1>2, <1>3 DEF Contract!Trip, absState, absOpenFor, absStreak
<1> QED
  BY <1>4 DEF ContractStep, Contract!Evolve

(* A step after which the breakers of S are fresh and no other changed.    *)
LEMMA ResetStep ==
    ASSUME TypeOK, cfg' = cfg, NEW S \in SUBSET Accounts,
           breaker' = [a \in Accounts |-> IF a \in S THEN FreshBreaker
                                                    ELSE breaker[a]]
    PROVE  ContractStep
<1>1. Contract!Reset(S)
  BY DEF Contract!Reset, FreshBreaker
<1> QED
  BY <1>1 DEF ContractStep, Contract!Evolve

(* Asking for a set of breakers at once.                                   *)
LEMMA AskedStep ==
    ASSUME TypeOK, BreakerCoherent, cfg' = cfg, breaker' = AskedBreakers
    PROVE  ContractStep
<1> DEFINE S == {a \in Accounts : /\ a \in members /\ cfg.Enabled
                                  /\ breaker[a].State = "open"
                                  /\ breaker[a].OpenFor <= 0}
<1>1. breaker \in [Accounts -> BreakerState]
  BY DEF TypeOK
<1>2. \A a \in S : /\ breaker[a].State = "open" /\ breaker[a].OpenFor <= 0
                   /\ breaker'[a].State = "half_open"
                   /\ breaker'[a].SuccessStreak = 0
  BY <1>1 DEF AskedBreakers, Asked, HalfOpened, BreakerState
<1>3. \A a \in Accounts \ S : Alike(breaker[a], breaker'[a])
  BY <1>1 DEF AskedBreakers, Asked, Alike
<1> HIDE DEF S
<1>4. S \in SUBSET Accounts
  BY DEF S
<1> QED
  BY <1>2, <1>3, <1>4, ProbationStep

LEMMA SnapshotStep ==
    ASSUME TypeOK, BreakerCoherent, BreakerSnapshot
    PROVE  ContractStep
<1> DEFINE S == {a \in Accounts : /\ InConfig(a) /\ cfg.Enabled
                                  /\ breaker[a].State = "open"
                                  /\ breaker[a].OpenFor < 0}
<1>1. breaker \in [Accounts -> BreakerState]
  BY DEF TypeOK
<1>2. \A a \in S : /\ breaker[a].State = "open" /\ breaker[a].OpenFor <= 0
                   /\ breaker'[a].State = "half_open"
                   /\ breaker'[a].SuccessStreak = 0
  <2> SUFFICES ASSUME NEW a \in S
               PROVE  /\ breaker'[a].State = "half_open"
                      /\ breaker'[a].SuccessStreak = 0
    BY <1>1 DEF BreakerState
  <2> DEFINE st == [breaker[a] EXCEPT !.Events = Pruned(@)]
  <2>1. /\ st.State = "open" /\ st.OpenFor < 0
        /\ st \in BreakerState
    BY <1>1, SnapshotType DEF BreakerState
  <2>2. breaker'[a] = HalfOpened(st)
    BY <2>1 DEF BreakerSnapshot
  <2> HIDE DEF st
  <2> QED
    BY <2>1, <2>2 DEF HalfOpened, BreakerState
<1>3. \A a \in Accounts \ S : Alike(breaker[a], breaker'[a])
  BY <1>1 DEF BreakerSnapshot, Alike, BreakerState
<1>4. cfg' = cfg
  BY DEF BreakerSnapshot
<1> HIDE DEF S
<1>5. S \in SUBSET Accounts
  BY DEF S
<1> QED
  BY <1>2, <1>3, <1>4, <1>5, ProbationStep

LEMMA SuccessStep ==
    ASSUME TypeOK, BreakerCoherent, NEW r \in Requests, RecordSuccess(r)
    PROVE  ContractStep
<1>0. PICK a \in Accounts : a = serving[r]
  BY DEF RecordSuccess, TypeOK
<1> DEFINE seen == [breaker[a] EXCEPT !.Events = WithEvent(@, TRUE)]
<1>1. /\ cfg' = cfg /\ cfg \in BreakerConfig
      /\ breaker \in [Accounts -> BreakerState]
      /\ breaker' = [breaker EXCEPT ![a] = AfterSuccess(breaker[a])]
  BY <1>0 DEF RecordSuccess, TypeOK
<1>2. /\ breaker[a] \in BreakerState /\ Coherent(breaker[a])
  BY <1>1 DEF BreakerCoherent
<1>3. /\ seen.State = breaker[a].State
      /\ seen.SuccessStreak = breaker[a].SuccessStreak
      /\ seen.OpenFor = breaker[a].OpenFor
  BY <1>2 DEF BreakerState
<1>4. CASE ~cfg.Enabled \/ breaker[a].State = "open"
  <2>1. AfterSuccess(breaker[a]) = seen
    BY <1>3, <1>4 DEF AfterSuccess
  <2>2. \A b \in Accounts : Alike(breaker[b], breaker'[b])
    BY <1>1, <1>3, <2>1 DEF Alike
  <2> QED
    BY <1>1, <2>2, InvisibleStep
<1>5. CASE cfg.Enabled /\ breaker[a].State = "closed"
  <2>1. AfterSuccess(breaker[a]) = [FreshBreaker EXCEPT !.Events = seen.Events]
    BY <1>3, <1>5 DEF AfterSuccess
  <2>2. /\ AfterSuccess(breaker[a]).State = "closed"
        /\ AfterSuccess(breaker[a]).SuccessStreak = 0
    BY <2>1 DEF FreshBreaker
  <2>3. breaker[a].SuccessStreak = 0
    BY <1>2, <1>5 DEF Coherent, BreakerState
  <2>4. \A b \in Accounts : Alike(breaker[b], breaker'[b])
    BY <1>1, <1>5, <2>2, <2>3 DEF Alike
  <2> QED
    BY <1>1, <2>4, InvisibleStep
<1>6. CASE cfg.Enabled /\ breaker[a].State = "half_open"
  <2> DEFINE new == AfterSuccess(breaker[a])
  <2>1. absState[a] = "half_open" /\ absStreak[a] = breaker[a].SuccessStreak
    BY <1>1, <1>6 DEF absState, absStreak
  <2>2. /\ absState' = [absState EXCEPT ![a] = new.State]
        /\ absStreak' = [absStreak EXCEPT ![a] = new.SuccessStreak]
    BY <1>1 DEF absState, absStreak
  <2>3. new.State \in {"half_open", "closed"} => absOpenFor' = absOpenFor
    BY <1>1, <1>6 DEF absOpenFor
  <2>4. CASE breaker[a].SuccessStreak + 1 < cfg.HalfOpenMaxSuccess
    <3>1. new = [seen EXCEPT !.SuccessStreak = @ + 1]
      BY <1>3, <1>6, <2>4 DEF AfterSuccess
    <3>2. /\ new.State = "half_open"
          /\ new.SuccessStreak = breaker[a].SuccessStreak + 1
      BY <1>2, <1>3, <1>6, <3>1 DEF BreakerState
    <3>3. absState' = absState
      BY <2>1, <2>2, <3>2 DEF absState
    <3>4. ~(absStreak[a] + 1 >= cfg.HalfOpenMaxSuccess)
      BY <1>1, <1>2, <2>1, <2>4 DEF BreakerState, BreakerConfig
    <3>5. Contract!Pass(a)
      BY <1>1, <2>1, <2>2, <2>3, <3>2, <3>3, <3>4
         DEF Contract!Pass, absState, absOpenFor, absStreak
    <3> QED
      BY <1>1, <3>5 DEF ContractStep, Contract!Evolve
  <2>5. CASE ~(breaker[a].SuccessStreak + 1 < cfg.HalfOpenMaxSuccess)
    <3>1. new = [FreshBreaker EXCEPT !.Events = seen.Events]
      BY <1>3, <1>6, <2>5 DEF AfterSuccess
    <3>2. new.State = "closed" /\ new.SuccessStreak = 0
      BY <3>1 DEF FreshBreaker
    <3>3. absStreak[a] + 1 >= cfg.HalfOpenMaxSuccess
      BY <1>1, <1>2, <2>1, <2>5 DEF BreakerState, BreakerConfig
    <3>4. Contract!Pass(a)
      BY <1>1, <2>1, <2>2, <2>3, <3>2, <3>3
         DEF Contract!Pass, absState, absOpenFor, absStreak
    <3> QED
      BY <1>1, <3>4 DEF ContractStep, Contract!Evolve
  <2> QED
    BY <2>4, <2>5
<1> QED
  BY <1>2, <1>4, <1>5, <1>6 DEF BreakerState, CircuitState

LEMMA ErrorStep ==
    ASSUME TypeOK, BreakerCoherent, NEW r \in Requests, NEW isQuota \in BOOLEAN,
           RecordError(r, isQuota)
    PROVE  ContractStep
<1>0. PICK a \in Accounts : a = serving[r]
  BY DEF RecordError, TypeOK
<1> DEFINE seen == [breaker[a] EXCEPT !.Events = WithEvent(@, FALSE),
                                      !.FailureCount =
                                        IF @ < MaxFailures THEN @ + 1 ELSE @]
           new == AfterError(breaker[a], isQuota)
<1>1. /\ cfg' = cfg /\ cfg \in BreakerConfig
      /\ breaker \in [Accounts -> BreakerState]
      /\ breaker' = [breaker EXCEPT ![a] = new]
  BY <1>0 DEF RecordError, TypeOK
<1>2. breaker[a] \in BreakerState /\ new \in BreakerState
  BY <1>1, AfterErrorType
<1>3. CASE new = seen
  <2>1. Alike(breaker[a], seen)
    BY <1>2 DEF Alike, BreakerState
  <2>2. \A b \in Accounts : Alike(breaker[b], breaker'[b])
    BY <1>1, <1>3, <2>1 DEF Alike
  <2> QED
    BY <1>1, <2>2, InvisibleStep
<1>4. CASE new = Opened(seen, cfg.OpenDurationSec, FALSE)
  <2>1. cfg.OpenDurationSec \in Nat \ {0}
    BY <1>1 DEF BreakerConfig
  <2>2. seen \in BreakerState
    <3> DEFINE count == IF breaker[a].FailureCount < MaxFailures
                        THEN breaker[a].FailureCount + 1
                        ELSE breaker[a].FailureCount
    <3>1. count \in Nat
      BY <1>2 DEF BreakerState
    <3>2. WithEvent(breaker[a].Events, FALSE) \in EventWindow
      BY <1>2, WithEventType DEF BreakerState
    <3> QED
      BY <1>2, <3>1, <3>2 DEF BreakerState
  <2> HIDE DEF seen
  <2>3. /\ new.State = "open" /\ new.SuccessStreak = 0
        /\ new.OpenFor \in Nat \ {0}
    BY <1>4, <2>1, <2>2 DEF Opened, BreakerState
  <2> HIDE DEF new
  <2> QED
    BY <1>1, <1>2, <2>3, TripStep
<1> QED
  BY <1>3, <1>4 DEF AfterError

LEMMA ForceOpenStep ==
    ASSUME TypeOK, NEW a \in Accounts, NEW d \in ManualDurations,
           ForceOpenCircuit(a, d)
    PROVE  ContractStep
<1> DEFINE time == IF d <= 0 THEN cfg.OpenDurationSec ELSE d
           new == Opened(breaker[a], time, TRUE)
<1>1. breaker[a] \in BreakerState /\ cfg \in BreakerConfig
  BY DEF TypeOK
<1>2. time \in Nat \ {0}
  BY <1>1, PoolAssumption DEF BreakerConfig
<1>3. breaker' = [breaker EXCEPT ![a] = new] /\ cfg' = cfg
  BY DEF ForceOpenCircuit
<1>4. new \in BreakerState
  <2>1. time \in Int
    BY <1>2
  <2> QED
    BY <1>1, <2>1, OpenedType
<1> HIDE DEF time
<1>5. /\ new.State = "open" /\ new.SuccessStreak = 0
      /\ new.OpenFor \in Nat \ {0}
  BY <1>1, <1>2 DEF Opened, BreakerState
<1> HIDE DEF new
<1> QED
  BY <1>3, <1>4, <1>5, TripStep

LEMMA CloseStep ==
    ASSUME TypeOK, NEW a \in Accounts, CloseCircuit(a)
    PROVE  ContractStep
<1>1. breaker' = [b \in Accounts |-> IF b \in {a} THEN FreshBreaker
                                                 ELSE breaker[b]]
  BY DEF CloseCircuit, TypeOK
<1>2. cfg' = cfg
  BY DEF CloseCircuit
<1> QED
  BY <1>1, <1>2, ResetStep

LEMMA ReloadStep ==
    ASSUME TypeOK, Reload
    PROVE  ContractStep
<1> DEFINE S == {a \in Accounts : status[a] # "enabled"}
<1>1. breaker' = [a \in Accounts |-> IF a \in S THEN FreshBreaker
                                                ELSE breaker[a]]
  BY DEF Reload
<1>2. cfg' = cfg
  BY DEF Reload
<1> HIDE DEF S
<1>3. S \in SUBSET Accounts
  BY DEF S
<1> QED
  BY <1>1, <1>2, <1>3, ResetStep

LEMMA TickStep ==
    ASSUME TypeOK, Tick
    PROVE  ContractStep
<1>1. \A a \in Accounts :
        /\ breaker'[a].State = breaker[a].State
        /\ breaker'[a].SuccessStreak = breaker[a].SuccessStreak
        /\ breaker'[a].OpenFor =
              IF breaker[a].State = "open" /\ breaker[a].OpenFor >= 0
              THEN breaker[a].OpenFor - 1 ELSE breaker[a].OpenFor
  BY DEF Tick, TypeOK, BreakerState
<1>2. cfg' = cfg
  BY DEF Tick
<1>3. Contract!Pace
  BY <1>1, <1>2 DEF Contract!Pace
<1> QED
  BY <1>3 DEF ContractStep, Contract!Evolve

LEMMA SettingsStep ==
    ASSUME TypeOK, NEW input \in BreakerInputs,
           UpdateCircuitBreakerConfig(input)
    PROVE  ContractStep
<1>1. cfg'.HalfOpenMaxSuccess \in Nat \ {0}
  BY NormalizedType, PoolAssumption
     DEF UpdateCircuitBreakerConfig, BreakerConfig
<1>2. Contract!Retune
  BY <1>1 DEF Contract!Retune, UpdateCircuitBreakerConfig
<1> QED
  BY <1>2 DEF ContractStep, Contract!Evolve

LEMMA EveryStep ==
    TypeOK /\ BreakerCoherent /\ [Next]_vars => ContractStep
<1> SUFFICES ASSUME TypeOK, BreakerCoherent, [Next]_vars
             PROVE  ContractStep
  OBVIOUS
<1>1. breaker' = breaker /\ cfg' = cfg => ContractStep
  BY DEF ContractStep, Contract!abstractVars
<1>2. breaker' = AskedBreakers /\ cfg' = cfg => ContractStep
  BY AskedStep
<1>3. ASSUME NEW r \in Requests, GetNext(r) \/ Finish(r)
      PROVE  ContractStep
  BY <1>1, <1>2, <1>3, SuccessStep, ErrorStep
     DEF GetNext, Finish, EndUnrecorded
<1>4. ASSUME NEW a \in Accounts,
             AdminStep(a) \/ TokenExpires(a) \/ UpdateToken(a)
      PROVE  ContractStep
  BY <1>1, <1>4, ForceOpenStep, CloseStep
     DEF AdminStep, ChangeAccount, TokenExpires, UpdateToken
<1>5. CASE AvailableCount
  BY <1>2, <1>5 DEF AvailableCount
<1>6. CASE UNCHANGED vars
  BY <1>1, <1>6 DEF vars
<1> QED
  BY <1>3, <1>4, <1>5, <1>6, ReloadStep, SnapshotStep, TickStep, SettingsStep
     DEF Next

(* AccountPool implements CircuitBreaker.                                  *)
THEOREM PoolKeepsContract == Spec => BreakerContract
<1>1. Init => Contract!Start
  BY InitTypeOK DEF Init, Contract!Start, FreshBreaker, TypeOK, BreakerConfig
<1>2. TypeOK /\ BreakerCoherent /\ [Next]_vars
         => [Contract!Evolve]_(Contract!abstractVars)
  BY EveryStep DEF ContractStep
<1> QED
  BY <1>1, <1>2, PoolTypeCorrect, BreakersCoherent, PTL
     DEF Spec, BreakerContract, Contract!Contract
=============================================================================
