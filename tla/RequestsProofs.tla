--------------------------- MODULE RequestsProofs ---------------------------
(***************************************************************************)
(* Theorems about what requests to kiro-gateway go through: the accounts   *)
(* that they share (AuthPool), for any number of accounts and requests and *)
(* any cooldowns, and the payloads made of a conversation (Dialogue), for  *)
(* conversations of any length: whatever the client's messages are, what   *)
(* Kiro is sent is well-formed.                                            *)
(***************************************************************************)
EXTENDS AuthPool, Dialogue, LoopProofs, FiniteSetTheorems

-----------------------------------------------------------------------------
(* The accounts                                                            *)

LEMMA PickableSlots == Pickable \subseteq Slots
BY DEF Pickable, Available, Earliest

(* What a success and an error leave behind has the right types, and is    *)
(* about one account only.                                                 *)
LEMMA SuccessTypes ==
    ASSUME TypeOK, NEW s \in Slots, RecordSuccess(s)
    PROVE  /\ cooldowns' \in [Slots -> Nat] /\ errors' \in [Slots -> Nat]
           /\ cooldowns'[s] = 0 /\ errors'[s] = 0
           /\ \A t \in Slots \ {s} : cooldowns'[t] = cooldowns[t] /\ errors'[t] = errors[t]
BY DEF TypeOK, RecordSuccess

LEMMA CooldownTypes ==
    ASSUME TypeOK, NEW s \in Slots, NEW status \in {400, 402}
    PROVE  CooldownAfter(s, status) \in Nat
BY CooldownsAssumption DEF TypeOK, CooldownAfter

LEMMA ErrorTypes ==
    ASSUME TypeOK, NEW s \in Slots, NEW status \in {400, 402}, RecordError(s, status)
    PROVE  /\ cooldowns' \in [Slots -> Nat] /\ errors' \in [Slots -> Nat]
           /\ status = 402 => cooldowns'[s] = clock + QuotaCooldown
           /\ errors'[s] = errors[s] + 1
           /\ \A t \in Slots \ {s} : cooldowns'[t] = cooldowns[t] /\ errors'[t] = errors[t]
<1> DEFINE after == CooldownAfter(s, status)
<1>1. after \in Nat
  BY CooldownTypes
<1>2. cooldowns' = [cooldowns EXCEPT ![s] = after]
      /\ errors' = [errors EXCEPT ![s] = errors[s] + 1]
  BY DEF RecordError
<1>3. status = 402 => after = clock + QuotaCooldown
  BY DEF CooldownAfter
<1> HIDE DEF after
<1>4. QED
  BY <1>1, <1>2, <1>3 DEF TypeOK

(* A request that is under way has an account.                             *)
LEMMA UnderWay ==
    ASSUME TypeOK, NEW r \in Requests, req[r] # Idle
    PROVE  /\ req[r] \in [format : Formats, slot : Slots]
           /\ req[r].slot \in Slots
           /\ r \in InFlight(req[r].slot)
BY DEF TypeOK, InFlight

(* A request that ends is no longer in flight, and no other has changed.   *)
LEMMA Ended ==
    ASSUME TypeOK, NEW r \in Requests, End(r)
    PROVE  /\ req' \in [Requests -> {Idle} \cup [format : Formats, slot : Slots]]
           /\ req[r] # Idle
           /\ \A t \in Slots : InFlight(t)' = InFlight(t) \ {r}
           /\ \A q \in Requests : req'[q] # Idle => req'[q] = req[q]
BY SlotsAssumption DEF TypeOK, End, InFlight, Idle, NoSlot

(* One that arrives is in flight for its account and no other.             *)
LEMMA Arrived ==
    ASSUME TypeOK, NEW r \in Requests, NEW route \in formats, NEW s \in Pickable,
           Arrive(r, route, s)
    PROVE  /\ req' \in [Requests -> {Idle} \cup [format : Formats, slot : Slots]]
           /\ \A t \in Slots : InFlight(t)' = IF t = s THEN InFlight(t) \cup {r} ELSE InFlight(t)
           /\ \A q \in Requests : req'[q] # Idle => req'[q] = req[q] \/ req'[q].format = route
           /\ formats \subseteq Formats
<1> DEFINE arrived == [format |-> route, slot |-> s]
<1>1. s \in Slots /\ route \in Formats
  BY PickableSlots DEF TypeOK
<1>2. arrived \in [format : Formats, slot : Slots] /\ arrived.slot = s /\ arrived.format = route
  BY <1>1
<1>3. req[r] = Idle /\ req' = [req EXCEPT ![r] = arrived]
  BY DEF Arrive
<1>4. Idle.slot \notin Slots
  BY SlotsAssumption DEF Idle, NoSlot
<1> HIDE DEF arrived
<1>5. QED
  BY <1>1, <1>2, <1>3, <1>4 DEF TypeOK, InFlight
-----------------------------------------------------------------------------
LEMMA TypesAtStart == Init => TypeOK
BY DEF Init, TypeOK

LEMMA TypesKept == TypeOK /\ [Next]_vars => TypeOK'
<1> SUFFICES ASSUME TypeOK, [Next]_vars PROVE TypeOK'
  OBVIOUS
<1>1. ASSUME NEW r \in Requests, NEW route \in formats, NEW s \in Pickable,
             Arrive(r, route, s)
      PROVE  TypeOK'
  <2>1. cooldowns' \in [Slots -> Nat] /\ errors' \in [Slots -> Nat]
    BY <1>1, PickableSlots, SuccessTypes DEF Arrive, TypeOK
  <2>2. rests' \in [Slots -> Nat]
    BY <1>1 DEF Arrive, TypeOK
  <2>3. failed' = NoSlot /\ formats' = formats /\ clock' = clock
    BY <1>1 DEF Arrive
  <2>4. QED
    BY <1>1, <2>1, <2>2, <2>3, Arrived DEF TypeOK
<1>2. ASSUME NEW r \in Requests, Accepted(r)
      PROVE  TypeOK'
  <2>1. End(r)
    BY <1>2 DEF Accepted
  <2>2. req[r].slot \in Slots
    BY <2>1, UnderWay DEF End
  <2>3. cooldowns' \in [Slots -> Nat] /\ errors' \in [Slots -> Nat]
    BY <1>2, <2>2, SuccessTypes DEF Accepted, TypeOK
  <2>4. QED
    BY <1>2, <2>1, <2>3, Ended DEF TypeOK, Accepted, End
<1>3. ASSUME NEW r \in Requests, NEW busy \in BOOLEAN, GivenUp(r, busy)
      PROVE  TypeOK'
  <2>1. End(r)
    BY <1>3 DEF GivenUp
  <2>2. req[r].slot \in Slots
    BY <2>1, UnderWay DEF End
  <2>3. QED
    BY <1>3, <2>1, <2>2, Ended DEF TypeOK, GivenUp, End
<1>4. ASSUME NEW r \in Requests, NEW status \in {400, 402}, Rejected(r, status)
      PROVE  TypeOK'
  <2>1. End(r)
    BY <1>4 DEF Rejected
  <2>2. req[r].slot \in Slots
    BY <2>1, UnderWay DEF End
  <2>3. cooldowns' \in [Slots -> Nat] /\ errors' \in [Slots -> Nat]
    BY <1>4, <2>2, ErrorTypes DEF Rejected
  <2>4. rests' \in [Slots -> Nat]
    BY <1>4, <2>2, CooldownsAssumption DEF Rejected, TypeOK
  <2>5. failed' \in Slots \cup {NoSlot}
    BY <1>4, <2>2 DEF Rejected
  <2>6. QED
    BY <2>1, <2>3, <2>4, <2>5, Ended DEF TypeOK, End
<1>5. CASE Tick
  BY <1>5 DEF Tick, TypeOK
<1>6. CASE UNCHANGED vars
  BY <1>6 DEF vars, TypeOK
<1>7. QED
  BY <1>1, <1>2, <1>3, <1>4, <1>5, <1>6 DEF Next

(* Every account and request keeps its shape; a request under way always   *)
(* has one of the accounts (what pick returns, auth_pool.py:23).           *)
THEOREM AuthPoolTypeCorrect == Spec => []TypeOK
<1>1. QED
  BY TypesAtStart, TypesKept, PTL DEF Spec

-----------------------------------------------------------------------------
(* Of any accounts there is one that recovers first, and of those that do  *)
(* at the same time the first in order.                                    *)
LEMMA EarliestFound ==
    ASSUME TypeOK
    PROVE  Earliest # {}
<1> DEFINE times == {cooldowns[s] : s \in Slots}
<1>1. Slots # {} /\ Slots \subseteq Nat /\ \A s \in Slots : cooldowns[s] \in Nat
  BY SlotsAssumption DEF TypeOK
<1>2. times \in SUBSET Nat /\ times # {}
  BY <1>1
<1> HIDE DEF times
<1>3. PICK n \in times : \A m \in times : n <= m
  BY <1>2, LeastNatural
<1> DEFINE first == {s \in Slots : cooldowns[s] = n}
<1>4. first \in SUBSET Nat /\ first # {}
  BY <1>1, <1>3 DEF times
<1>5. PICK s \in first : \A t \in first : s <= t
  BY <1>4, LeastNatural
<1>6. ASSUME NEW t \in Slots
      PROVE  \/ cooldowns[s] < cooldowns[t]
             \/ cooldowns[s] = cooldowns[t] /\ s <= t
  <2>1. cooldowns[s] = n /\ n <= cooldowns[t] /\ cooldowns[t] \in Nat /\ n \in Nat
    BY <1>1, <1>2, <1>3, <1>5 DEF times
  <2>2. cooldowns[t] = n => s <= t
    BY <1>5
  <2> QED
    BY <2>1, <2>2
<1> QED
  BY <1>5, <1>6 DEF Earliest

(* However many accounts are in cooldown, a request finds one to use.      *)
THEOREM AccountFound == Spec => [](Pickable # {})
<1>1. TypeOK => Pickable # {}
  BY EarliestFound DEF Pickable
<1> QED
  BY <1>1, AuthPoolTypeCorrect, PTL
-----------------------------------------------------------------------------
LEMMA RestKept == TypeOK /\ QuotaRests /\ [Next]_vars => QuotaRests'
<1> SUFFICES ASSUME TypeOK, QuotaRests, [Next]_vars, NEW t \in Slots, rests'[t] > clock'
             PROVE  cooldowns'[t] >= rests'[t] /\ InFlight(t)' = {}
  BY DEF QuotaRests
<1>1. rests[t] > clock => cooldowns[t] >= rests[t] /\ InFlight(t) = {}
  BY DEF QuotaRests
<1>2. /\ rests[t] \in Nat /\ cooldowns[t] \in Nat /\ clock \in Nat
  BY DEF TypeOK
<1>3. ASSUME NEW r \in Requests, NEW route \in formats, NEW s \in Pickable,
             Arrive(r, route, s)
      PROVE  cooldowns'[t] >= rests'[t] /\ InFlight(t)' = {}
  <2>1. s \in Slots /\ clock' = clock
    BY <1>3, PickableSlots DEF Arrive
  <2>2. t # s
    <3>1. CASE s \in Available
      BY <1>1, <1>2, <1>3, <2>1, <3>1 DEF Arrive, Available
    <3>2. CASE s \notin Available
      BY <1>2, <1>3, <2>1, <3>2 DEF Arrive, TypeOK
    <3>3. QED
      BY <3>1, <3>2
  <2>3. cooldowns'[t] = cooldowns[t] /\ rests'[t] = rests[t]
    BY <1>3, <2>1, <2>2, SuccessTypes DEF Arrive, TypeOK
  <2>4. InFlight(t)' = InFlight(t)
    BY <1>3, <2>2, Arrived
  <2>5. QED
    BY <1>1, <2>1, <2>3, <2>4
<1>4. ASSUME NEW r \in Requests, Accepted(r)
      PROVE  cooldowns'[t] >= rests'[t] /\ InFlight(t)' = {}
  <2> DEFINE s == req[r].slot
  <2>1. End(r) /\ rests' = rests
    BY <1>4 DEF Accepted
  <2>2. s \in Slots /\ r \in InFlight(s) /\ clock' = clock
    BY <2>1, UnderWay DEF End
  <2>3. t # s
    BY <1>1, <2>1, <2>2
  <2>4. cooldowns'[t] = cooldowns[t]
    BY <1>4, <2>2, <2>3, SuccessTypes DEF Accepted
  <2>5. InFlight(t)' \subseteq InFlight(t)
    BY <2>1, Ended
  <2>6. QED
    BY <1>1, <2>1, <2>2, <2>4, <2>5
<1>5. ASSUME NEW r \in Requests, NEW busy \in BOOLEAN, GivenUp(r, busy)
      PROVE  cooldowns'[t] >= rests'[t] /\ InFlight(t)' = {}
  <2>1. End(r) /\ rests' = rests /\ cooldowns' = cooldowns
    BY <1>5 DEF GivenUp
  <2>2. InFlight(t)' \subseteq InFlight(t) /\ clock' = clock
    BY <2>1, Ended DEF End
  <2>3. QED
    BY <1>1, <2>1, <2>2
<1>6. ASSUME NEW r \in Requests, NEW status \in {400, 402}, Rejected(r, status)
      PROVE  cooldowns'[t] >= rests'[t] /\ InFlight(t)' = {}
  <2> DEFINE s == req[r].slot
  <2>1. End(r) /\ RecordError(s, status)
    BY <1>6 DEF Rejected
  <2>2. s \in Slots /\ r \in InFlight(s) /\ clock' = clock
    BY <2>1, UnderWay DEF End
  <2>3. InFlight(t)' = InFlight(t) \ {r}
    BY <2>1, Ended
  <2>4. CASE t # s
    <3>1. cooldowns'[t] = cooldowns[t]
      BY <2>1, <2>2, <2>4, ErrorTypes
    <3>2. rests'[t] = rests[t]
      BY <1>6, <2>4 DEF Rejected, TypeOK
    <3>3. QED
      BY <1>1, <2>2, <2>3, <3>1, <3>2
  <2>5. CASE t = s
    <3>1. ~ (rests[t] > clock)
      BY <1>1, <2>2, <2>5
    <3>2. status = 402
      BY <1>6, <2>2, <3>1 DEF Rejected
    <3>3. rests'[t] = IF InFlight(t) = {r} THEN clock + QuotaCooldown ELSE 0
      BY <1>6, <2>5, <3>2 DEF Rejected, TypeOK
    <3>4. InFlight(t) = {r} /\ rests'[t] = clock + QuotaCooldown
      BY <1>2, <2>2, <3>3
    <3>5. cooldowns'[t] = clock + QuotaCooldown
      BY <2>1, <2>2, <2>5, <3>2, ErrorTypes
    <3>6. QED
      BY <1>2, <2>3, <3>4, <3>5, CooldownsAssumption
  <2>6. QED
    BY <2>4, <2>5
<1>7. CASE Tick
  BY <1>1, <1>2, <1>7 DEF Tick, TypeOK, InFlight
<1>8. CASE UNCHANGED vars
  BY <1>1, <1>8 DEF vars, InFlight
<1>9. QED
  BY <1>3, <1>4, <1>5, <1>6, <1>7, <1>8 DEF Next

(* An account found out of quota is left alone for an hour, whatever the   *)
(* other requests report meanwhile, and however many there are: only       *)
(* requests already under way, or a lack of other accounts, end its rest.  *)
THEOREM QuotaRestsHolds == Spec => []QuotaRests
<1>1. Init => QuotaRests
  BY DEF Init, QuotaRests
<1>2. QED
  BY <1>1, RestKept, AuthPoolTypeCorrect, PTL DEF Spec
-----------------------------------------------------------------------------
(* The strikes of an account and the requests for it that could add one.   *)
FormatsUsed == \A r \in Requests : req[r] # Idle => req[r].format \in formats

LEMMA FormatsKept == TypeOK /\ FormatsUsed /\ [Next]_vars => FormatsUsed'
<1> SUFFICES ASSUME TypeOK, FormatsUsed, [Next]_vars, NEW q \in Requests, req'[q] # Idle
             PROVE  req'[q].format \in formats'
  BY DEF FormatsUsed
<1>1. ASSUME NEW r \in Requests, NEW route \in formats, NEW s \in Pickable,
             Arrive(r, route, s)
      PROVE  req'[q].format \in formats'
  BY <1>1, Arrived DEF Arrive, FormatsUsed
<1>2. ASSUME NEW r \in Requests, End(r)
      PROVE  req'[q].format \in formats'
  BY <1>2, Ended DEF End, FormatsUsed
<1>3. CASE Tick
  BY <1>3 DEF Tick, FormatsUsed
<1>4. CASE UNCHANGED vars
  BY <1>4 DEF vars, FormatsUsed
<1>5. QED
  BY <1>1, <1>2, <1>3, <1>4 DEF Next, Accepted, GivenUp, Rejected

LEMMA InFlightFinite ==
    ASSUME NEW s
    PROVE  /\ IsFiniteSet(InFlight(s)) /\ Cardinality(InFlight(s)) \in Nat
           /\ Cardinality(InFlight(s)) <= Cardinality(Requests)
           /\ Cardinality(Requests) \in Nat
<1>1. InFlight(s) \subseteq Requests
  BY DEF InFlight
<1>2. QED
  BY <1>1, RequestsAssumption, FS_Subset, FS_CardinalityType

LEMMA StrikesKept ==
    TypeOK /\ FormatsUsed /\ StrikesNeedOverlap /\ [Next]_vars => StrikesNeedOverlap'
<1> DEFINE Strikes(t) == errors[t] + Cardinality(InFlight(t))
<1> SUFFICES ASSUME TypeOK, FormatsUsed, StrikesNeedOverlap, [Next]_vars,
                    formats' = {"anthropic"}, NEW t \in Slots
             PROVE  Strikes(t)' <= Cardinality(Requests)
  BY DEF StrikesNeedOverlap
<1>1. formats = {"anthropic"}
  BY DEF Next, Arrive, Accepted, GivenUp, Rejected, End, Tick, vars
<1>2. errors[t] \in Nat /\ Strikes(t) <= Cardinality(Requests)
  BY <1>1 DEF StrikesNeedOverlap, TypeOK
<1>3. /\ IsFiniteSet(InFlight(t)) /\ Cardinality(InFlight(t)) \in Nat
      /\ Cardinality(Requests) \in Nat
  BY InFlightFinite
<1>4. ASSUME NEW r \in Requests, NEW route \in formats, NEW s \in Pickable,
             Arrive(r, route, s)
      PROVE  Strikes(t)' <= Cardinality(Requests)
  <2>1. RecordSuccess(s) /\ s \in Slots
    BY <1>1, <1>4, PickableSlots DEF Arrive
  <2>2. CASE t = s
    <3>1. errors'[t] = 0
      BY <2>1, <2>2, SuccessTypes
    <3>2. InFlight(t)' \subseteq Requests
      BY DEF InFlight
    <3>3. Cardinality(InFlight(t)') <= Cardinality(Requests) /\ Cardinality(InFlight(t)') \in Nat
      BY <3>2, RequestsAssumption, FS_Subset, FS_CardinalityType
    <3>4. QED
      BY <3>1, <3>3
  <2>3. CASE t # s
    <3>1. errors'[t] = errors[t]
      BY <2>1, <2>3, SuccessTypes
    <3>2. InFlight(t)' = InFlight(t)
      BY <1>4, <2>3, Arrived
    <3>3. QED
      BY <1>2, <3>1, <3>2
  <2>4. QED
    BY <2>2, <2>3
<1>5. ASSUME NEW r \in Requests, End(r),
             \/ errors'[t] = errors[t]
             \/ req[r].slot = t /\ errors'[t] = errors[t] + 1
      PROVE  Strikes(t)' <= Cardinality(Requests)
  <2>1. InFlight(t)' = InFlight(t) \ {r}
    BY <1>5, Ended
  <2>2. Cardinality(InFlight(t)') \in Nat
        /\ Cardinality(InFlight(t)') <= Cardinality(InFlight(t))
    <3>1. InFlight(t) \ {r} \subseteq InFlight(t)
      OBVIOUS
    <3>2. IsFiniteSet(InFlight(t) \ {r})
          /\ Cardinality(InFlight(t) \ {r}) <= Cardinality(InFlight(t))
      BY <1>3, <3>1, FS_Subset
    <3>3. Cardinality(InFlight(t) \ {r}) \in Nat
      BY <3>2, FS_CardinalityType
    <3>4. QED
      BY <2>1, <3>2, <3>3
  <2>3. CASE errors'[t] = errors[t]
    BY <1>2, <1>3, <2>2, <2>3
  <2>4. CASE req[r].slot = t /\ errors'[t] = errors[t] + 1
    <3>1. r \in InFlight(t)
      BY <1>5, <2>4, UnderWay DEF End
    <3>2. Cardinality(InFlight(t)') = Cardinality(InFlight(t)) - 1
      BY <1>3, <2>1, <3>1, FS_RemoveElement
    <3>3. QED
      BY <1>2, <1>3, <2>4, <3>2
  <2>5. QED
    BY <1>5, <2>3, <2>4
<1>6. ASSUME NEW r \in Requests, Accepted(r)
      PROVE  Strikes(t)' <= Cardinality(Requests)
  <2>1. End(r)
    BY <1>6 DEF Accepted
  <2>2. req[r].format = "anthropic"
    BY <1>1, <2>1 DEF End, FormatsUsed
  <2>3. errors' = errors
    BY <1>6, <2>2 DEF Accepted
  <2>4. QED
    BY <1>5, <2>1, <2>3
<1>7. ASSUME NEW r \in Requests, NEW busy \in BOOLEAN, GivenUp(r, busy)
      PROVE  Strikes(t)' <= Cardinality(Requests)
  BY <1>5, <1>7 DEF GivenUp
<1>8. ASSUME NEW r \in Requests, NEW status \in {400, 402}, Rejected(r, status)
      PROVE  Strikes(t)' <= Cardinality(Requests)
  <2>1. End(r) /\ RecordError(req[r].slot, status)
    BY <1>8 DEF Rejected
  <2>2. req[r].slot \in Slots
    BY <2>1, UnderWay DEF End
  <2>3. errors'[t] = errors[t] \/ (req[r].slot = t /\ errors'[t] = errors[t] + 1)
    BY <2>1, <2>2, ErrorTypes
  <2>4. QED
    BY <1>5, <2>1, <2>3
<1>9. CASE Tick \/ UNCHANGED vars
  <2>1. errors' = errors /\ InFlight(t)' = InFlight(t)
    BY <1>9 DEF Tick, vars, InFlight
  <2>2. QED
    BY <1>2, <2>1
<1>10. QED
  BY <1>4, <1>6, <1>7, <1>8, <1>9 DEF Next

(* Where all clients use the Anthropic route, which records a success      *)
(* before it sends (routes_anthropic.py:331), the errors of an account     *)
(* never outnumber the requests at a time.                                 *)
THEOREM StrikesNeedOverlapHolds == Spec => []StrikesNeedOverlap
<1>1. Init => FormatsUsed
  BY DEF Init, FormatsUsed
<1>2. Init => StrikesNeedOverlap
  <2>1. SUFFICES ASSUME Init, NEW s \in Slots
                 PROVE  errors[s] + Cardinality(InFlight(s)) <= Cardinality(Requests)
    BY DEF StrikesNeedOverlap
  <2>2. errors[s] = 0
    BY <2>1 DEF Init
  <2>3. QED
    BY <2>2, InFlightFinite
<1>3. Spec => []FormatsUsed
  BY <1>1, FormatsKept, AuthPoolTypeCorrect, PTL DEF Spec
<1>4. QED
  BY <1>2, <1>3, StrikesKept, AuthPoolTypeCorrect, PTL DEF Spec

-----------------------------------------------------------------------------
(* ForEach is such a loop, with each step that the converters give it; one *)
(* lemma for each, as the prover instantiates no operator.                 *)
LEMMA AfterAssistantLoop ==
    ASSUME NEW D, NEW m, Len(m) \in Nat, <<>> \in D,
           \A i \in 1..Len(m) : \A d \in D : AfterAssistant(d, m[i]) \in D
    PROVE  \E h \in [0..Len(m) -> D] :
               /\ h[0] = <<>>
               /\ \A i \in 1..Len(m) : h[i] = AfterAssistant(h[i - 1], m[i])
               /\ EnsureAssistantBeforeToolResults(m) = h[Len(m)]
<1> DEFINE n == Len(m)
           F == [i \in 1..n |-> [d \in D |-> AfterAssistant(d, m[i])]]
           Done(g) == g = [i \in 0..n |->
                               IF i = 0 THEN <<>> ELSE AfterAssistant(g[i - 1], m[i])]
           h == CHOOSE g : Done(g)
<1>1. EnsureAssistantBeforeToolResults(m) = h[n]
  BY DEF EnsureAssistantBeforeToolResults, ForEach
<1>2. n \in Nat /\ \A i \in 1..n : \A d \in D :
          F[i][d] = AfterAssistant(d, m[i]) /\ F[i][d] \in D
  OBVIOUS
<1> HIDE DEF n, F
<1>3. PICK f : Loop(f, D, <<>>, F, n)
  BY <1>2, LoopExists
<1>4. Done(f)
  BY <1>2, <1>3 DEF Loop
<1>5. Done(h)
  <2> HIDE DEF Done
  <2> QED
    BY <1>4
<1> HIDE DEF h
<1>6. \A i \in 0..n : h[i] = IF i = 0 THEN <<>> ELSE AfterAssistant(h[i - 1], m[i])
  BY <1>5
<1>7. h = [i \in 0..n |-> h[i]]
  <2>1. DOMAIN h = 0..n /\ h = [i \in DOMAIN h |-> h[i]]
    BY <1>5
  <2> QED
    BY <2>1, Zenon
<1>8. h[0] = <<>> /\ \A i \in 1..n : h[i] = AfterAssistant(h[i - 1], m[i])
  <2> HIDE DEF Done
  <2> QED
    BY <1>2, <1>6
<1>9. h \in [0..n -> D]
  <2>1. h[0] \in D /\ \A i \in 1..n : h[i - 1] \in D => h[i] \in D
    BY <1>2, <1>8
  <2> QED
    BY <1>2, <1>7, <2>1, LoopStays
<1> QED
  BY <1>1, <1>8, <1>9 DEF n

(* The same of MergeAdjacentMessages.                                      *)
LEMMA MergeLoop ==
    ASSUME NEW D, NEW m, Len(m) \in Nat, <<>> \in D,
           \A i \in 1..Len(m) : \A d \in D : MergeInto(d, m[i]) \in D
    PROVE  \E h \in [0..Len(m) -> D] :
               /\ h[0] = <<>>
               /\ \A i \in 1..Len(m) : h[i] = MergeInto(h[i - 1], m[i])
               /\ MergeAdjacentMessages(m) = h[Len(m)]
<1> DEFINE n == Len(m)
           F == [i \in 1..n |-> [d \in D |-> MergeInto(d, m[i])]]
           Done(g) == g = [i \in 0..n |->
                               IF i = 0 THEN <<>> ELSE MergeInto(g[i - 1], m[i])]
           h == CHOOSE g : Done(g)
<1>1. MergeAdjacentMessages(m) = h[n]
  BY DEF MergeAdjacentMessages, ForEach
<1>2. n \in Nat /\ \A i \in 1..n : \A d \in D :
          F[i][d] = MergeInto(d, m[i]) /\ F[i][d] \in D
  OBVIOUS
<1> HIDE DEF n, F
<1>3. PICK f : Loop(f, D, <<>>, F, n)
  BY <1>2, LoopExists
<1>4. Done(f)
  BY <1>2, <1>3 DEF Loop
<1>5. Done(h)
  <2> HIDE DEF Done
  <2> QED
    BY <1>4
<1> HIDE DEF h
<1>6. \A i \in 0..n : h[i] = IF i = 0 THEN <<>> ELSE MergeInto(h[i - 1], m[i])
  BY <1>5
<1>7. h = [i \in 0..n |-> h[i]]
  <2>1. DOMAIN h = 0..n /\ h = [i \in DOMAIN h |-> h[i]]
    BY <1>5
  <2> QED
    BY <2>1, Zenon
<1>8. h[0] = <<>> /\ \A i \in 1..n : h[i] = MergeInto(h[i - 1], m[i])
  <2> HIDE DEF Done
  <2> QED
    BY <1>2, <1>6
<1>9. h \in [0..n -> D]
  <2>1. h[0] \in D /\ \A i \in 1..n : h[i - 1] \in D => h[i] \in D
    BY <1>2, <1>8
  <2> QED
    BY <1>2, <1>7, <2>1, LoopStays
<1> QED
  BY <1>1, <1>8, <1>9 DEF n

(* The same of EnsureAlternatingRoles.                                     *)
LEMMA AlternatingLoop ==
    ASSUME NEW D, NEW m, Len(m) \in Nat, <<>> \in D,
           \A i \in 1..Len(m) : \A d \in D : Alternating(d, m[i]) \in D
    PROVE  \E h \in [0..Len(m) -> D] :
               /\ h[0] = <<>>
               /\ \A i \in 1..Len(m) : h[i] = Alternating(h[i - 1], m[i])
               /\ EnsureAlternatingRoles(m) = h[Len(m)]
<1> DEFINE n == Len(m)
           F == [i \in 1..n |-> [d \in D |-> Alternating(d, m[i])]]
           Done(g) == g = [i \in 0..n |->
                               IF i = 0 THEN <<>> ELSE Alternating(g[i - 1], m[i])]
           h == CHOOSE g : Done(g)
<1>1. EnsureAlternatingRoles(m) = h[n]
  BY DEF EnsureAlternatingRoles, ForEach
<1>2. n \in Nat /\ \A i \in 1..n : \A d \in D :
          F[i][d] = Alternating(d, m[i]) /\ F[i][d] \in D
  OBVIOUS
<1> HIDE DEF n, F
<1>3. PICK f : Loop(f, D, <<>>, F, n)
  BY <1>2, LoopExists
<1>4. Done(f)
  BY <1>2, <1>3 DEF Loop
<1>5. Done(h)
  <2> HIDE DEF Done
  <2> QED
    BY <1>4
<1> HIDE DEF h
<1>6. \A i \in 0..n : h[i] = IF i = 0 THEN <<>> ELSE Alternating(h[i - 1], m[i])
  BY <1>5
<1>7. h = [i \in 0..n |-> h[i]]
  <2>1. DOMAIN h = 0..n /\ h = [i \in DOMAIN h |-> h[i]]
    BY <1>5
  <2> QED
    BY <2>1, Zenon
<1>8. h[0] = <<>> /\ \A i \in 1..n : h[i] = Alternating(h[i - 1], m[i])
  <2> HIDE DEF Done
  <2> QED
    BY <1>2, <1>6
<1>9. h \in [0..n -> D]
  <2>1. h[0] \in D /\ \A i \in 1..n : h[i - 1] \in D => h[i] \in D
    BY <1>2, <1>8
  <2> QED
    BY <1>2, <1>7, <2>1, LoopStays
<1> QED
  BY <1>1, <1>8, <1>9 DEF n

(* The same of FromOpenAI, before the last flush.                          *)
LEMMA ConvertLoop ==
    ASSUME NEW D, NEW m, Len(m) \in Nat, Unconverted \in D,
           \A i \in 1..Len(m) : \A d \in D : Convert(d, m[i]) \in D
    PROVE  \E h \in [0..Len(m) -> D] :
               /\ h[0] = Unconverted
               /\ \A i \in 1..Len(m) : h[i] = Convert(h[i - 1], m[i])
               /\ ForEach(Convert, Unconverted, m) = h[Len(m)]
<1> DEFINE n == Len(m)
           F == [i \in 1..n |-> [d \in D |-> Convert(d, m[i])]]
           Done(g) == g = [i \in 0..n |->
                               IF i = 0 THEN Unconverted ELSE Convert(g[i - 1], m[i])]
           h == CHOOSE g : Done(g)
<1>1. ForEach(Convert, Unconverted, m) = h[n]
  BY DEF ForEach
<1>2. n \in Nat /\ \A i \in 1..n : \A d \in D :
          F[i][d] = Convert(d, m[i]) /\ F[i][d] \in D
  OBVIOUS
<1> HIDE DEF n, F
<1>3. PICK f : Loop(f, D, Unconverted, F, n)
  BY <1>2, LoopExists
<1>4. Done(f)
  BY <1>2, <1>3 DEF Loop
<1>5. Done(h)
  <2> HIDE DEF Done
  <2> QED
    BY <1>4
<1> HIDE DEF h
<1>6. \A i \in 0..n : h[i] = IF i = 0 THEN Unconverted ELSE Convert(h[i - 1], m[i])
  BY <1>5
<1>7. h = [i \in 0..n |-> h[i]]
  <2>1. DOMAIN h = 0..n /\ h = [i \in DOMAIN h |-> h[i]]
    BY <1>5
  <2> QED
    BY <2>1, Zenon
<1>8. h[0] = Unconverted /\ \A i \in 1..n : h[i] = Convert(h[i - 1], m[i])
  <2> HIDE DEF Done
  <2> QED
    BY <1>2, <1>6
<1>9. h \in [0..n -> D]
  <2>1. h[0] \in D /\ \A i \in 1..n : h[i - 1] \in D => h[i] \in D
    BY <1>2, <1>8
  <2> QED
    BY <1>2, <1>7, <2>1, LoopStays
<1> QED
  BY <1>1, <1>8, <1>9 DEF n

(* The steps of TakeNotices stay in D, and h is what they make.            *)
TakesWithin(f0, m, D) ==
    \A i \in 1..Len(m) : \A d \in D : TakeNotice(f0, d, m[i]) \in D

TakesAll(h, f0, st, m, D) ==
    /\ h \in [0..Len(m) -> D] /\ h[0] = Untaken(st)
    /\ \A i \in 1..Len(m) : h[i] = TakeNotice(f0, h[i - 1], m[i])
    /\ TakeNotices(f0, st, m) = h[Len(m)]

(* The same of TakeNotices.                                                *)
LEMMA TakeLoop ==
    ASSUME NEW f0, NEW st, NEW D, NEW m, Len(m) \in Nat, Untaken(st) \in D,
           TakesWithin(f0, m, D)
    PROVE  \E h : TakesAll(h, f0, st, m, D)
<1> DEFINE n == Len(m)
           F == [i \in 1..n |-> [d \in D |-> TakeNotice(f0, d, m[i])]]
           Done(g) == g = [i \in 0..n |->
                               IF i = 0 THEN Untaken(st) ELSE TakeNotice(f0, g[i - 1], m[i])]
           h == CHOOSE g : Done(g)
<1>1. TakeNotices(f0, st, m) = h[n]
  BY DEF TakeNotices, ForEach
<1>2. n \in Nat /\ \A i \in 1..n : \A d \in D :
          F[i][d] = TakeNotice(f0, d, m[i]) /\ F[i][d] \in D
  BY DEF TakesWithin
<1> HIDE DEF n, F
<1>3. PICK f : Loop(f, D, Untaken(st), F, n)
  BY <1>2, LoopExists
<1>4. Done(f)
  BY <1>2, <1>3 DEF Loop
<1>5. Done(h)
  <2> HIDE DEF Done
  <2> QED
    BY <1>4
<1> HIDE DEF h
<1>6. \A i \in 0..n : h[i] = IF i = 0 THEN Untaken(st) ELSE TakeNotice(f0, h[i - 1], m[i])
  BY <1>5
<1>7. h = [i \in 0..n |-> h[i]]
  <2>1. DOMAIN h = 0..n /\ h = [i \in DOMAIN h |-> h[i]]
    BY <1>5
  <2> QED
    BY <2>1, Zenon
<1>8. h[0] = Untaken(st) /\ \A i \in 1..n : h[i] = TakeNotice(f0, h[i - 1], m[i])
  <2> HIDE DEF Done
  <2> QED
    BY <1>2, <1>6
<1>9. h \in [0..n -> D]
  <2>1. h[0] \in D /\ \A i \in 1..n : h[i - 1] \in D => h[i] \in D
    BY <1>2, <1>8
  <2> QED
    BY <1>2, <1>7, <2>1, LoopStays
<1> QED
  BY <1>1, <1>8, <1>9 DEF n, TakesAll

-----------------------------------------------------------------------------
(* Types                                                                   *)
Kinds ==
    {"text", "empty", "continue", "break", "notice", "result", "call", "system",
     "documentation", "thinking_mode", "truncation", "thinking_tags"}
Texts == Seq([what : Kinds, id : Int])
Noted == [id : Int, images : Seq(Int), noted : BOOLEAN]

(* What the core is given: calls of C and results of R, of users only.     *)
Turns(C, R) ==
    {m \in [role : {"user", "assistant", "developer"}, text : Texts, calls : Seq(C),
            results : Seq(R), images : Seq(Int), plain : BOOLEAN] :
        m.results # <<>> => m.role = "user"}

(* A fragment is a text, which is not empty.                               *)
LEMMA FragmentTexts ==
    ASSUME NEW what \in Kinds, NEW id \in Int
    PROVE  <<Fragment(what, id)>> \in Texts /\ <<Fragment(what, id)>> # <<>>
<1>1. Fragment(what, id) \in [what : Kinds, id : Int]
  BY DEF Fragment
<1> QED
  BY <1>1 DEF Texts

(* So are the texts that the gateway adds.                                 *)
LEMMA FixedTexts ==
    /\ Empty \in Texts /\ Empty # <<>> /\ Continue \in Texts /\ Continue # <<>>
    /\ Break \in Texts /\ <<>> \in Texts
<1>1. <<>> \in Texts
  BY EmptySeq DEF Texts
<1>2. /\ <<Fragment("empty", 0)>> \in Texts /\ <<Fragment("empty", 0)>> # <<>>
      /\ <<Fragment("continue", 0)>> \in Texts /\ <<Fragment("continue", 0)>> # <<>>
      /\ <<Fragment("break", 0)>> \in Texts
  <2>1. "empty" \in Kinds /\ "continue" \in Kinds /\ "break" \in Kinds
    BY DEF Kinds
  <2> QED
    BY <2>1, FragmentTexts
<1> QED
  BY <1>1, <1>2 DEF Empty, Continue, Break

(* Texts joined are a text, empty only if both are.                        *)
LEMMA JoinedTexts ==
    ASSUME NEW t \in Texts, NEW u \in Texts
    PROVE  /\ t \o u \in Texts
           /\ t # <<>> \/ u # <<>> => t \o u # <<>>
BY ConcatProperties, ConcatEqualIffEmpty DEF Texts

(* A sequence given by its elements.                                       *)
LEMMA MappedSeq ==
    ASSUME NEW D, NEW n \in Nat, NEW f \in [1..n -> D]
    PROVE  f \in Seq(D) /\ Len(f) = n
<1>1. f \in Seq(D)
  BY SeqDef
<1>2. Len(f) \in Nat /\ DOMAIN f = 1..Len(f) /\ DOMAIN f = 1..n
  BY <1>1, LenProperties
<1> QED
  BY <1>1, <1>2

(* Results written out are a text.                                         *)
LEMMA ResultsTextType ==
    ASSUME NEW results \in Seq(Noted)
    PROVE  ResultsText(results) \in Texts
<1> DEFINE f == [i \in DOMAIN results |-> ResultText(results[i])]
<1>1. \A r \in Noted : ResultText(r) \in Texts
  <2> SUFFICES ASSUME NEW r \in Noted PROVE ResultText(r) \in Texts
    OBVIOUS
  <2>1. r.id \in Int
    BY DEF Noted
  <2>2. <<Fragment("notice", r.id)>> \in Texts /\ <<Fragment("result", r.id)>> \in Texts
    <3>1. "notice" \in Kinds /\ "result" \in Kinds
      BY DEF Kinds
    <3> QED
      BY <2>1, <3>1, FragmentTexts
  <2> QED
    BY <2>2, FixedTexts, JoinedTexts DEF ResultText
<1>2. Len(results) \in Nat /\ DOMAIN results = 1..Len(results)
      /\ \A i \in DOMAIN results : results[i] \in Noted
  BY LenProperties
<1>3. f \in [1..Len(results) -> Texts]
  BY <1>1, <1>2
<1>4. ResultsText(results) = FlattenSeq(f)
  BY DEF ResultsText
<1> HIDE DEF f
<1>5. f \in Seq(Texts)
  BY <1>2, <1>3, MappedSeq
<1> QED
  BY <1>4, <1>5, Flattened DEF Texts

(* The images in results are images.                                       *)
LEMMA ImagesInType ==
    ASSUME NEW results \in Seq(Noted)
    PROVE  ImagesIn(results) \in Seq(Int)
<1> DEFINE f == [i \in DOMAIN results |-> results[i].images]
<1>1. Len(results) \in Nat /\ DOMAIN results = 1..Len(results)
      /\ \A i \in DOMAIN results : results[i].images \in Seq(Int)
  <2>1. Len(results) \in Nat /\ DOMAIN results = 1..Len(results)
        /\ \A i \in DOMAIN results : results[i] \in Noted
    BY LenProperties, ElementOfSeq
  <2> QED
    BY <2>1 DEF Noted
<1>2. f \in [1..Len(results) -> Seq(Int)]
  BY <1>1
<1>3. ImagesIn(results) = FlattenSeq(f)
  BY DEF ImagesIn
<1> HIDE DEF f
<1>4. f \in Seq(Seq(Int))
  BY <1>1, <1>2, MappedSeq
<1> QED
  BY <1>3, <1>4, Flattened

(* And calls are a text.                                                   *)
LEMMA CallsTextType ==
    ASSUME NEW calls \in Seq(Int)
    PROVE  CallsText(calls) \in Texts
<1>1. Len(calls) \in Nat /\ DOMAIN calls = 1..Len(calls)
      /\ \A i \in DOMAIN calls : calls[i] \in Int
  BY LenProperties
<1>2. CallsText(calls) \in [1..Len(calls) -> [what : Kinds, id : Int]]
  <2>1. "call" \in Kinds /\ \A id \in Int : Fragment("call", id) \in [what : Kinds, id : Int]
    BY DEF Fragment, Kinds
  <2> QED
    BY <1>1, <2>1 DEF CallsText
<1> QED
  BY <1>1, <1>2, MappedSeq DEF Texts
-----------------------------------------------------------------------------
(* What the steps of the core change of a turn.                            *)
LEMMA TurnParts ==
    ASSUME NEW C, NEW R, NEW x \in Turns(C, R)
    PROVE  /\ x.role \in {"user", "assistant", "developer"}
           /\ x.text \in Texts /\ x.calls \in Seq(C) /\ x.results \in Seq(R)
           /\ x.images \in Seq(Int) /\ x.plain \in BOOLEAN
           /\ x.results # <<>> => x.role = "user"
BY DEF Turns

(* A turn with nothing but a text.                                         *)
LEMMA TurnMade ==
    ASSUME NEW C, NEW R, NEW role \in {"user", "assistant", "developer"}, NEW t \in Texts
    PROVE  /\ Message(role, t) \in Turns(C, R)
           /\ Message(role, t).role = role /\ Message(role, t).results = <<>>
BY EmptySeq DEF Turns, Message

(* A turn whose calls and results became text.                             *)
LEMMA TurnStripped ==
    ASSUME NEW C, NEW R, NEW x \in Turns(C, R), NEW t \in Texts
    PROVE  /\ [x EXCEPT !.text = t, !.calls = <<>>, !.results = <<>>] \in Turns({}, {})
           /\ [x EXCEPT !.text = t, !.calls = <<>>, !.results = <<>>].role = x.role
BY EmptySeq DEF Turns

-----------------------------------------------------------------------------
(* Every result directly follows an assistant's message with calls.        *)
Follows(m) ==
    \A i \in 1..Len(m) : m[i].results # <<>> =>
        i > 1 /\ m[i - 1].role = "assistant" /\ m[i - 1].calls # <<>>

(* The same messages, as to their roles.                                   *)
SameRoles(m, other) ==
    Len(other) = Len(m) /\ \A i \in 1..Len(m) : other[i].role = m[i].role

(* The length and the last of a sequence.                                  *)
LEMMA EndOf ==
    ASSUME NEW D, NEW s \in Seq(D)
    PROVE  /\ Len(s) \in Nat /\ (s # <<>> <=> Len(s) # 0) /\ Last(s) = s[Len(s)]
           /\ \A i \in 1..Len(s) : s[i] \in D
BY LenProperties, EmptySeq, ElementOfSeq DEF Last

(* A turn whose results follow calls can be appended.                      *)
LEMMA FollowsAppended ==
    ASSUME NEW C, NEW R, NEW s \in Seq(Turns(C, R)), Follows(s), NEW x \in Turns(C, R),
           x.results # <<>> =>
               s # <<>> /\ Last(s).role = "assistant" /\ Last(s).calls # <<>>
    PROVE  Follows(Append(s, x))
<1>1. /\ Len(Append(s, x)) = Len(s) + 1
      /\ \A i \in 1..Len(s) : Append(s, x)[i] = s[i]
      /\ Append(s, x)[Len(s) + 1] = x
  BY Appended
<1>2. /\ Len(s) \in Nat /\ (s # <<>> <=> Len(s) # 0) /\ Last(s) = s[Len(s)]
  BY EndOf
<1>3. ASSUME NEW i \in 1..(Len(s) + 1), Append(s, x)[i].results # <<>>
      PROVE  /\ i > 1 /\ Append(s, x)[i - 1].role = "assistant"
             /\ Append(s, x)[i - 1].calls # <<>>
  <2>1. CASE i = Len(s) + 1
    <3>1. i - 1 = Len(s) /\ Len(s) \in 1..Len(s)
      BY <1>1, <1>2, <1>3, <2>1
    <3> QED
      BY <1>1, <1>2, <1>3, <2>1, <3>1
  <2>2. CASE i # Len(s) + 1
    <3>1. i \in 1..Len(s)
      BY <1>2, <2>2
    <3>2. i > 1 /\ s[i - 1].role = "assistant" /\ s[i - 1].calls # <<>>
      BY <1>1, <1>3, <3>1 DEF Follows
    <3>3. i - 1 \in 1..Len(s)
      BY <1>2, <3>1, <3>2
    <3> QED
      BY <1>1, <3>2, <3>3
  <2> QED
    BY <2>1, <2>2
<1> QED
  BY <1>1, <1>3 DEF Follows

(* AfterAssistant appends one.                                             *)
LEMMA AfterAssistantStep ==
    ASSUME NEW s \in Seq(Turns(Int, Noted)), NEW x \in Turns(Int, Noted)
    PROVE  \E y \in Turns(Int, Noted) :
               /\ AfterAssistant(s, x) = Append(s, y) /\ y.role = x.role
               /\ y.results # <<>> =>
                      s # <<>> /\ Last(s).role = "assistant" /\ Last(s).calls # <<>>
<1> DEFINE t == x.text \o ResultsText(x.results)
           y == [x EXCEPT !.text = t, !.results = <<>>]
           follows == s # <<>> /\ Last(s).role = "assistant" /\ Last(s).calls # <<>>
<1>1. t \in Texts
  BY TurnParts, ResultsTextType, JoinedTexts
<1>2. AfterAssistant(s, x) = Append(s, IF x.results = <<>> \/ follows THEN x ELSE y)
  BY DEF AfterAssistant
<1> HIDE DEF t
<1>3. y \in Turns(Int, Noted) /\ y.role = x.role /\ y.results = <<>>
  BY <1>1, EmptySeq DEF Turns
<1> HIDE DEF y
<1> QED
  BY <1>2, <1>3

(* With tools, results that nothing has called become text.                *)
LEMMA PairedByCalls ==
    ASSUME NEW m \in Seq(Turns(Int, Noted))
    PROVE  LET paired == EnsureAssistantBeforeToolResults(m)
           IN /\ paired \in Seq(Turns(Int, Noted))
              /\ SameRoles(m, paired) /\ Follows(paired)
<1> DEFINE T == Turns(Int, Noted)
           n == Len(m)
<1>1. n \in Nat /\ \A i \in 1..n : m[i] \in T
  BY EndOf
<1>2. <<>> \in Seq(T) /\ Len(<<>>) = 0
  BY EmptySeq
<1>3. ASSUME NEW i \in 1..n, NEW d \in Seq(T)
      PROVE  AfterAssistant(d, m[i]) \in Seq(T)
  <2>1. PICK y \in T : AfterAssistant(d, m[i]) = Append(d, y)
    BY <1>1, AfterAssistantStep
  <2> HIDE DEF T
  <2> QED
    BY <2>1, Appended
<1>4. PICK h \in [0..n -> Seq(T)] :
          /\ h[0] = <<>>
          /\ \A i \in 1..n : h[i] = AfterAssistant(h[i - 1], m[i])
          /\ EnsureAssistantBeforeToolResults(m) = h[n]
  <2> HIDE DEF T
  <2> QED
    BY <1>1, <1>2, <1>3, AfterAssistantLoop
<1> DEFINE S == {i \in 0..n : /\ Len(h[i]) = i /\ Follows(h[i])
                              /\ \A j \in 1..i : h[i][j].role = m[j].role}
<1>5. 0 \in S
  BY <1>1, <1>2, <1>4 DEF Follows
<1>6. ASSUME NEW i \in 1..n, i - 1 \in S
      PROVE  i \in S
  <2> DEFINE s == h[i - 1]
  <2>1. s \in Seq(T) /\ Len(s) = i - 1 /\ Follows(s)
        /\ \A j \in 1..(i - 1) : s[j].role = m[j].role
    BY <1>1, <1>4, <1>6
  <2>2. m[i] \in T
    BY <1>1
  <2> HIDE DEF s
  <2>3. PICK y \in T :
            /\ AfterAssistant(s, m[i]) = Append(s, y) /\ y.role = m[i].role
            /\ y.results # <<>> =>
                   s # <<>> /\ Last(s).role = "assistant" /\ Last(s).calls # <<>>
    BY <2>1, <2>2, AfterAssistantStep
  <2>4. h[i] = Append(s, y)
    BY <1>4, <2>3 DEF s
  <2>5. /\ Len(Append(s, y)) = i /\ Append(s, y)[i] = y
        /\ \A j \in 1..(i - 1) : Append(s, y)[j] = s[j]
    BY <1>1, <2>1, Appended
  <2>6. Follows(Append(s, y))
    BY <2>1, <2>3, FollowsAppended
  <2>7. \A j \in 1..i : Append(s, y)[j].role = m[j].role
    BY <1>1, <2>1, <2>3, <2>5
  <2>8. Len(h[i]) = i /\ Follows(h[i]) /\ \A j \in 1..i : h[i][j].role = m[j].role
    BY <2>4, <2>5, <2>6, <2>7
  <2>9. i \in 0..n
    BY <1>1
  <2> QED
    BY <2>8, <2>9
<1>7. \A i \in 0..n : i \in S
  <2> HIDE DEF S
  <2> QED
    BY <1>1, <1>5, <1>6, UpTo
<1>8. h[n] \in Seq(T) /\ n \in S
  BY <1>1, <1>4, <1>7
<1> QED
  BY <1>1, <1>4, <1>8 DEF SameRoles

(* Without tools, no calls and no results are left.                        *)
LEMMA PairedByStripping ==
    ASSUME NEW m \in Seq(Turns(Int, Noted))
    PROVE  LET stripped == StripToolContent(m)
           IN /\ stripped \in Seq(Turns({}, {}))
              /\ SameRoles(m, stripped) /\ Follows(stripped)
<1> DEFINE n == Len(m)
           y(i) == StripToolContent(m)[i]
<1>1. n \in Nat /\ DOMAIN m = 1..n /\ \A i \in 1..n : m[i] \in Turns(Int, Noted)
  BY LenProperties, ElementOfSeq
<1>2. ASSUME NEW i \in 1..n
      PROVE  y(i) \in Turns({}, {}) /\ y(i).role = m[i].role
  <2> DEFINE x == m[i]
             t == x.text \o CallsText(x.calls) \o ResultsText(x.results)
  <2>1. y(i) = IF ~HasTools(x) THEN x
               ELSE [x EXCEPT !.text = t, !.calls = <<>>, !.results = <<>>]
    BY <1>1 DEF StripToolContent
  <2>2. x \in Turns(Int, Noted)
    BY <1>1
  <2> HIDE DEF x, y
  <2>3. t \in Texts
    BY <2>2, TurnParts, ResultsTextType, CallsTextType, JoinedTexts
  <2>4. ~HasTools(x) => x \in Turns({}, {})
    BY <2>2, EmptySeq DEF HasTools, Turns
  <2> HIDE DEF t
  <2>5. /\ [x EXCEPT !.text = t, !.calls = <<>>, !.results = <<>>] \in Turns({}, {})
        /\ [x EXCEPT !.text = t, !.calls = <<>>, !.results = <<>>].role = x.role
    BY <2>2, <2>3, TurnStripped
  <2> QED
    BY <2>1, <2>4, <2>5 DEF x
<1>3. StripToolContent(m) \in [1..n -> Turns({}, {})]
  BY <1>1, <1>2 DEF StripToolContent
<1>4. StripToolContent(m) \in Seq(Turns({}, {})) /\ Len(StripToolContent(m)) = n
  BY <1>1, <1>3, MappedSeq
<1>5. \A x \in Turns({}, {}) : x.results = <<>>
  <2>1. \A s \in Seq({}) : s = <<>>
    BY EmptySeq, ElementOfSeq
  <2> QED
    BY <2>1, TurnParts
<1>6. Follows(StripToolContent(m))
  BY <1>2, <1>4, <1>5 DEF Follows
<1> QED
  BY <1>2, <1>4, <1>6 DEF SameRoles

-----------------------------------------------------------------------------
(* No neighbours have one role.                                            *)
Apart(m) == \A i \in 2..Len(m) : m[i].role # m[i - 1].role

(* x is the last message that went into s.                                 *)
EndsIn(s, x) ==
    /\ s # <<>> /\ Last(s).role = x.role
    /\ x.role = "assistant" /\ x.calls # <<>> => Last(s).calls # <<>>

(* A turn of another role than the last one can be appended.               *)
LEMMA ApartAppended ==
    ASSUME NEW D, NEW s \in Seq(D), Apart(s), NEW x \in D,
           s # <<>> => Last(s).role # x.role
    PROVE  Apart(Append(s, x))
<1>1. /\ Len(Append(s, x)) = Len(s) + 1
      /\ \A i \in 1..Len(s) : Append(s, x)[i] = s[i]
      /\ Append(s, x)[Len(s) + 1] = x
  BY Appended
<1>2. /\ Len(s) \in Nat /\ (s # <<>> <=> Len(s) # 0) /\ Last(s) = s[Len(s)]
  BY EndOf
<1>3. ASSUME NEW i \in 2..(Len(s) + 1)
      PROVE  Append(s, x)[i].role # Append(s, x)[i - 1].role
  <2>1. i - 1 \in 1..Len(s) /\ Append(s, x)[i - 1] = s[i - 1]
    BY <1>1, <1>2
  <2>2. CASE i = Len(s) + 1
    <3>1. i - 1 = Len(s) /\ s # <<>>
      BY <1>2, <2>2
    <3> QED
      BY <1>1, <1>2, <2>1, <2>2, <3>1
  <2>3. CASE i # Len(s) + 1
    <3>1. i \in 2..Len(s) /\ i \in 1..Len(s)
      BY <1>2, <2>3
    <3> QED
      BY <1>1, <2>1, <3>1 DEF Apart
  <2> QED
    BY <2>2, <2>3
<1> QED
  BY <1>1, <1>3 DEF Apart

(* A turn merged into the last one: of its role, with its calls and        *)
(* results.                                                                *)
LEMMA MergedTurn ==
    ASSUME NEW C, NEW R, NEW s \in Seq(Turns(C, R)), NEW x \in Turns(C, R),
           s # <<>>, Last(s).role = x.role
    PROVE  \E y \in Turns(C, R) :
               /\ MergeInto(s, x) = Append(Front(s), y)
               /\ y.role = x.role /\ (x.results = <<>> => y.results = Last(s).results)
               /\ x.role = "assistant" /\ (x.calls # <<>> \/ Last(s).calls # <<>>) =>
                      y.calls # <<>>
<1> DEFINE w == Last(s)
           t == w.text \o Break \o x.text
           c == IF x.role = "assistant" THEN w.calls \o x.calls ELSE w.calls
           r == IF x.role = "user" THEN w.results \o x.results ELSE w.results
           y == [w EXCEPT !.text = t, !.calls = c, !.results = r]
<1>1. MergeInto(s, x) = Append(Front(s), y)
  BY DEF MergeInto
<1>2. w \in Turns(C, R)
  BY EndOf
<1> HIDE DEF w
<1>3. t \in Texts
  BY <1>2, TurnParts, FixedTexts, JoinedTexts
<1>4. c \in Seq(C) /\ (x.role = "assistant" /\ (x.calls # <<>> \/ w.calls # <<>>) => c # <<>>)
  BY <1>2, TurnParts, ConcatProperties, ConcatEqualIffEmpty
<1>5. r \in Seq(R) /\ (x.results = <<>> => r = w.results)
  <2>1. w.results \in Seq(R) /\ x.results \in Seq(R)
    BY <1>2, TurnParts
  <2>2. w.results \o x.results \in Seq(R) /\ w.results \o <<>> = w.results
    BY <2>1, ConcatProperties, ConcatEmptySeq
  <2> QED
    BY <2>1, <2>2
<1>6. r # <<>> => w.role = "user"
  BY <1>2, TurnParts DEF w
<1> HIDE DEF t, c, r
<1>7. y \in Turns(C, R) /\ y.role = w.role /\ y.calls = c /\ y.results = r
  BY <1>2, <1>3, <1>4, <1>5, <1>6 DEF Turns
<1> HIDE DEF y
<1> QED
  BY <1>1, <1>4, <1>5, <1>7 DEF w

(* One step of the merge: results still follow calls, neighbours still     *)
(* differ.                                                                 *)
LEMMA MergeStep ==
    ASSUME NEW C, NEW R, NEW s \in Seq(Turns(C, R)), Follows(s), Apart(s),
           NEW x \in Turns(C, R),
           x.results # <<>> =>
               s # <<>> /\ Last(s).role = "assistant" /\ Last(s).calls # <<>>
    PROVE  LET t == MergeInto(s, x)
           IN t \in Seq(Turns(C, R)) /\ Follows(t) /\ Apart(t) /\ EndsIn(t, x)
<1>1. CASE s = <<>> \/ Last(s).role # x.role
  <2>1. MergeInto(s, x) = Append(s, x)
    <3>1. <<x>> = Append(<<>>, x)
      OBVIOUS
    <3> QED
      BY <1>1, <3>1 DEF MergeInto
  <2>2. Append(s, x) \in Seq(Turns(C, R)) /\ Append(s, x) # <<>> /\ Last(Append(s, x)) = x
    BY Appended
  <2>3. Follows(Append(s, x)) /\ Apart(Append(s, x))
    BY <1>1, FollowsAppended, ApartAppended
  <2> QED
    BY <2>1, <2>2, <2>3 DEF EndsIn
<1>2. CASE s # <<>> /\ Last(s).role = x.role
  <2>1. x.results = <<>>
    BY <1>2, TurnParts
  <2>2. PICK y \in Turns(C, R) :
            /\ MergeInto(s, x) = Append(Front(s), y)
            /\ y.role = x.role /\ (x.results = <<>> => y.results = Last(s).results)
            /\ x.role = "assistant" /\ (x.calls # <<>> \/ Last(s).calls # <<>>) =>
                   y.calls # <<>>
    BY <1>2, MergedTurn
  <2> DEFINE t == Append(Front(s), y)
  <2>3. /\ t \in Seq(Turns(C, R)) /\ Len(t) = Len(s)
        /\ \A i \in 1..(Len(s) - 1) : t[i] = s[i]
        /\ t[Len(s)] = y /\ Last(t) = y
    BY <1>2, Replaced
  <2>4. /\ Len(s) \in Nat /\ Len(s) # 0 /\ Last(s) = s[Len(s)]
    BY <1>2, EndOf
  <2> HIDE DEF t
  <2>5. \A i \in 1..Len(s) : t[i].role = s[i].role /\ t[i].results = s[i].results
    BY <1>2, <2>1, <2>2, <2>3, <2>4
  <2>6. Follows(t)
    <3> SUFFICES ASSUME NEW i \in 1..Len(s), t[i].results # <<>>
                 PROVE  i > 1 /\ t[i - 1].role = "assistant" /\ t[i - 1].calls # <<>>
      BY <2>3 DEF Follows
    <3>1. i > 1 /\ s[i - 1].role = "assistant" /\ s[i - 1].calls # <<>>
      BY <2>5 DEF Follows
    <3>2. i - 1 \in 1..(Len(s) - 1)
      BY <2>4, <3>1
    <3> QED
      BY <2>3, <3>1, <3>2
  <2>7. Apart(t)
    <3> SUFFICES ASSUME NEW i \in 2..Len(s) PROVE t[i].role # t[i - 1].role
      BY <2>3 DEF Apart
    <3>1. i \in 1..Len(s) /\ i - 1 \in 1..Len(s)
      BY <2>4
    <3> QED
      BY <2>5, <3>1 DEF Apart
  <2>8. EndsIn(t, x)
    <3>1. t # <<>>
      BY <2>3, <2>4, EndOf
    <3> QED
      BY <2>2, <2>3, <3>1 DEF EndsIn
  <2> QED
    BY <2>2, <2>3, <2>6, <2>7, <2>8 DEF t
<1> QED
  BY <1>1, <1>2

(* MergeAdjacentMessages: no neighbours of one role, results still follow  *)
(* calls, the last role is the same.                                       *)
LEMMA MergedTurns ==
    ASSUME NEW C, NEW R, NEW m \in Seq(Turns(C, R)), Follows(m)
    PROVE  LET merged == MergeAdjacentMessages(m)
           IN /\ merged \in Seq(Turns(C, R)) /\ Follows(merged) /\ Apart(merged)
              /\ merged = <<>> <=> m = <<>>
              /\ m # <<>> => Last(merged).role = Last(m).role
<1> DEFINE T == Turns(C, R)
           n == Len(m)
<1>1. n \in Nat /\ (m # <<>> <=> n # 0) /\ Last(m) = m[n] /\ \A i \in 1..n : m[i] \in T
  BY EndOf
<1>2. <<>> \in Seq(T) /\ Len(<<>>) = 0
  BY EmptySeq
<1>3. ASSUME NEW i \in 1..n, NEW d \in Seq(T)
      PROVE  MergeInto(d, m[i]) \in Seq(T)
  <2>1. m[i] \in T
    BY <1>1
  <2>2. CASE d = <<>> \/ Last(d).role # m[i].role
    <3>1. MergeInto(d, m[i]) = Append(d, m[i])
      <4>1. <<m[i]>> = Append(<<>>, m[i])
        OBVIOUS
      <4> QED
        BY <2>2, <4>1 DEF MergeInto
    <3> HIDE DEF T
    <3> QED
      BY <2>1, <3>1, Appended
  <2>3. CASE d # <<>> /\ Last(d).role = m[i].role
    <3>1. PICK y \in T : MergeInto(d, m[i]) = Append(Front(d), y)
      BY <2>1, <2>3, MergedTurn
    <3> HIDE DEF T
    <3> QED
      BY <2>3, <3>1, Replaced
  <2> QED
    BY <2>2, <2>3
<1>4. PICK h \in [0..n -> Seq(T)] :
          /\ h[0] = <<>>
          /\ \A i \in 1..n : h[i] = MergeInto(h[i - 1], m[i])
          /\ MergeAdjacentMessages(m) = h[n]
  <2> HIDE DEF T
  <2> QED
    BY <1>1, <1>2, <1>3, MergeLoop
<1> DEFINE S == {i \in 0..n : /\ Follows(h[i]) /\ Apart(h[i])
                              /\ i = 0 => h[i] = <<>>
                              /\ i # 0 => EndsIn(h[i], m[i])}
<1>5. 0 \in S
  BY <1>1, <1>2, <1>4 DEF Follows, Apart
<1>6. ASSUME NEW i \in 1..n, i - 1 \in S
      PROVE  i \in S
  <2> DEFINE s == h[i - 1]
  <2>1. s \in Seq(T) /\ Follows(s) /\ Apart(s) /\ (i - 1 = 0 => s = <<>>)
        /\ (i - 1 # 0 => EndsIn(s, m[i - 1]))
    BY <1>1, <1>4, <1>6
  <2> HIDE DEF s
  <2>2. m[i].results # <<>> =>
            s # <<>> /\ Last(s).role = "assistant" /\ Last(s).calls # <<>>
    <3> SUFFICES ASSUME m[i].results # <<>>
                 PROVE  s # <<>> /\ Last(s).role = "assistant" /\ Last(s).calls # <<>>
      OBVIOUS
    <3>1. i > 1 /\ m[i - 1].role = "assistant" /\ m[i - 1].calls # <<>>
      BY DEF Follows
    <3>2. i - 1 # 0
      BY <3>1
    <3> QED
      BY <2>1, <3>1, <3>2 DEF EndsIn
  <2>3. m[i] \in T
    BY <1>1
  <2> DEFINE t == MergeInto(s, m[i])
  <2>4. t \in Seq(T) /\ Follows(t) /\ Apart(t) /\ EndsIn(t, m[i])
    BY <2>1, <2>2, <2>3, MergeStep
  <2>5. h[i] = t
    BY <1>4 DEF s
  <2> HIDE DEF t
  <2>6. i \in 0..n /\ i # 0
    BY <1>1
  <2> QED
    BY <2>4, <2>5, <2>6
<1>7. \A i \in 0..n : i \in S
  <2> HIDE DEF S
  <2> QED
    BY <1>1, <1>5, <1>6, UpTo
<1>8. h[n] \in Seq(T) /\ n \in S
  BY <1>1, <1>4, <1>7
<1> QED
  BY <1>1, <1>4, <1>8 DEF EndsIn

-----------------------------------------------------------------------------
(* Odd and even numbers take turns.                                        *)
LEMMA Parity == \A k \in Nat : k % 2 = 1 <=> (k + 1) % 2 # 1
OBVIOUS

(* User and assistant take turns, the user first.                          *)
Turning(s) == \A i \in 1..Len(s) : s[i].role = IF i % 2 = 1 THEN "user" ELSE "assistant"

(* A turn of the other role than the last one can be appended.             *)
LEMMA TurningAppended ==
    ASSUME NEW D, NEW s \in Seq(D), Turning(s), NEW x \in D,
           x.role \in {"user", "assistant"},
           s = <<>> => x.role = "user", s # <<>> => x.role # Last(s).role
    PROVE  Turning(Append(s, x))
<1>1. /\ Len(Append(s, x)) = Len(s) + 1
      /\ \A i \in 1..Len(s) : Append(s, x)[i] = s[i]
      /\ Append(s, x)[Len(s) + 1] = x
  BY Appended
<1>2. /\ Len(s) \in Nat /\ (s # <<>> <=> Len(s) # 0) /\ Last(s) = s[Len(s)]
  BY EndOf
<1>3. x.role = IF (Len(s) + 1) % 2 = 1 THEN "user" ELSE "assistant"
  <2>1. CASE s = <<>>
    BY <1>2, <2>1
  <2>2. CASE s # <<>>
    <3>1. Last(s).role = IF Len(s) % 2 = 1 THEN "user" ELSE "assistant"
      BY <1>2, <2>2 DEF Turning
    <3>2. Len(s) % 2 = 1 <=> (Len(s) + 1) % 2 # 1
      BY <1>2, Parity
    <3> QED
      BY <2>2, <3>1, <3>2
  <2> QED
    BY <2>1, <2>2
<1>4. \A i \in 1..(Len(s) + 1) : i = Len(s) + 1 \/ i \in 1..Len(s)
  BY <1>2
<1> QED
  BY <1>1, <1>3, <1>4 DEF Turning

(* What the alternation is given.                                          *)
Regular(m) ==
    /\ Follows(m)
    /\ \A i \in 1..Len(m) :
          /\ m[i].role \in {"user", "assistant"}
          /\ i = 1 => m[i].role = "user"
          /\ i > 1 /\ m[i].role = "assistant" => m[i - 1].role # "assistant"

(* EnsureFirstMessageIsUser: the user is first, and nothing else changes.  *)
LEMMA FirstMade ==
    ASSUME NEW C, NEW R, NEW m \in Seq(Turns(C, R)), Follows(m), Apart(m)
    PROVE  LET t == EnsureFirstMessageIsUser(m)
           IN /\ t \in Seq(Turns(C, R)) /\ Follows(t) /\ Apart(t)
              /\ t = <<>> <=> m = <<>>
              /\ m # <<>> => t[1].role = "user" /\ Last(t).role = Last(m).role
<1>1. /\ Len(m) \in Nat /\ (m # <<>> <=> Len(m) # 0) /\ Last(m) = m[Len(m)]
      /\ Head(m) = m[1]
  BY EndOf
<1>2. CASE m = <<>> \/ Head(m).role = "user"
  BY <1>1, <1>2 DEF EnsureFirstMessageIsUser
<1>3. CASE m # <<>> /\ Head(m).role # "user"
  <2> DEFINE e == Message("user", Empty)
             t == <<e>> \o m
  <2>1. e \in Turns(C, R) /\ e.role = "user" /\ e.results = <<>>
    BY FixedTexts, TurnMade
  <2> HIDE DEF e
  <2>2. <<e>> \in Seq(Turns(C, R)) /\ Len(<<e>>) = 1 /\ <<e>>[1] = e
    BY <2>1
  <2>3. /\ t \in Seq(Turns(C, R)) /\ Len(t) = Len(m) + 1
        /\ \A i \in 1..(Len(m) + 1) : t[i] = IF i <= 1 THEN <<e>>[i] ELSE m[i - 1]
    BY <2>2, ConcatProperties
  <2>4. EnsureFirstMessageIsUser(m) = t
    BY <1>3 DEF EnsureFirstMessageIsUser, e
  <2> HIDE DEF t
  <2>5. t[1] = e /\ \A i \in 2..(Len(m) + 1) : t[i] = m[i - 1] /\ i - 1 \in 1..Len(m)
    BY <1>1, <2>2, <2>3
  <2>6. Follows(t)
    <3> SUFFICES ASSUME NEW i \in 1..(Len(m) + 1), t[i].results # <<>>
                 PROVE  i > 1 /\ t[i - 1].role = "assistant" /\ t[i - 1].calls # <<>>
      BY <2>3 DEF Follows
    <3>1. i # 1 /\ i \in 2..(Len(m) + 1)
      BY <1>1, <2>1, <2>5
    <3>2. i - 1 > 1 /\ m[i - 2].role = "assistant" /\ m[i - 2].calls # <<>>
      <4>1. (i - 1) - 1 = i - 2
        BY <3>1
      <4> QED
        BY <2>5, <3>1, <4>1 DEF Follows
    <3>3. i - 1 \in 2..(Len(m) + 1) /\ (i - 1) - 1 = i - 2
      BY <1>1, <3>1, <3>2
    <3> QED
      BY <2>5, <3>2, <3>3
  <2>7. Apart(t)
    <3> SUFFICES ASSUME NEW i \in 2..(Len(m) + 1) PROVE t[i].role # t[i - 1].role
      BY <2>3 DEF Apart
    <3>1. CASE i = 2
      <4>1. i - 1 = 1
        BY <3>1
      <4> QED
        BY <1>1, <1>3, <2>1, <2>5, <3>1, <4>1
    <3>2. CASE i # 2
      <4>1. i - 1 \in 2..(Len(m) + 1) /\ i - 1 \in 2..Len(m)
        BY <1>1, <3>2
      <4> QED
        BY <2>5, <4>1 DEF Apart
    <3> QED
      BY <3>1, <3>2
  <2>8. t # <<>> /\ Last(t) = Last(m)
    <3>1. t # <<>> /\ Last(t) = t[Len(t)]
      BY <1>1, <2>3, EndOf
    <3>2. Len(m) + 1 \in 2..(Len(m) + 1) /\ (Len(m) + 1) - 1 = Len(m)
      BY <1>1, <1>3
    <3> QED
      BY <1>1, <2>3, <2>5, <3>1, <3>2
  <2> QED
    BY <1>3, <2>1, <2>3, <2>4, <2>5, <2>6, <2>7, <2>8
<1> QED
  BY <1>2, <1>3

(* NormalizeMessageRoles: users and assistants only; two users may now be  *)
(* neighbours, two assistants may not.                                     *)
LEMMA RolesNormalized ==
    ASSUME NEW C, NEW R, NEW m \in Seq(Turns(C, R)), Follows(m), Apart(m),
           m # <<>> => m[1].role = "user"
    PROVE  LET t == NormalizeMessageRoles(m)
           IN /\ t \in Seq(Turns(C, R)) /\ Regular(t)
              /\ t = <<>> <=> m = <<>>
              /\ m # <<>> /\ Last(t).role = "assistant" => Last(m).role = "assistant"
<1> DEFINE n == Len(m)
           t == NormalizeMessageRoles(m)
<1>1. /\ n \in Nat /\ DOMAIN m = 1..n /\ (m # <<>> <=> n # 0) /\ Last(m) = m[n]
      /\ \A i \in 1..n : m[i] \in Turns(C, R)
  BY EndOf, LenProperties
<1>2. ASSUME NEW i \in 1..n
      PROVE  /\ t[i] \in Turns(C, R) /\ t[i].role \in {"user", "assistant"}
             /\ t[i].role = "assistant" <=> m[i].role = "assistant"
             /\ m[i].role = "user" => t[i].role = "user"
             /\ t[i].results = m[i].results /\ t[i].calls = m[i].calls
  <2> DEFINE x == m[i]
  <2>1. t[i] = IF x.role \in {"user", "assistant"} THEN x ELSE [x EXCEPT !.role = "user"]
    BY <1>1 DEF NormalizeMessageRoles
  <2>2. x \in Turns(C, R)
    BY <1>1
  <2> HIDE DEF x, t
  <2>3. /\ [x EXCEPT !.role = "user"] \in Turns(C, R)
        /\ [x EXCEPT !.role = "user"].role = "user"
        /\ [x EXCEPT !.role = "user"].results = x.results
        /\ [x EXCEPT !.role = "user"].calls = x.calls
    BY <2>2 DEF Turns
  <2> QED
    BY <2>1, <2>2, <2>3 DEF x
<1>3. t \in [1..n -> Turns(C, R)]
  BY <1>1, <1>2 DEF NormalizeMessageRoles
<1> HIDE DEF t
<1>4. t \in Seq(Turns(C, R)) /\ Len(t) = n
  BY <1>1, <1>3, MappedSeq
<1>5. (t # <<>> <=> n # 0) /\ Last(t) = t[n]
  BY <1>4, EndOf
<1>6. Follows(t)
  <2> SUFFICES ASSUME NEW i \in 1..n, t[i].results # <<>>
               PROVE  i > 1 /\ t[i - 1].role = "assistant" /\ t[i - 1].calls # <<>>
    BY <1>4 DEF Follows
  <2>1. i > 1 /\ m[i - 1].role = "assistant" /\ m[i - 1].calls # <<>>
    BY <1>2 DEF Follows
  <2>2. i - 1 \in 1..n
    BY <1>1, <2>1
  <2> QED
    BY <1>2, <2>1, <2>2
<1>7. Regular(t)
  <2> SUFFICES ASSUME NEW i \in 1..n
               PROVE  /\ t[i].role \in {"user", "assistant"}
                      /\ i = 1 => t[i].role = "user"
                      /\ i > 1 /\ t[i].role = "assistant" => t[i - 1].role # "assistant"
    BY <1>4, <1>6 DEF Regular
  <2>1. i = 1 => t[i].role = "user"
    BY <1>1, <1>2
  <2>2. i > 1 => i \in 2..n /\ i - 1 \in 1..n
    BY <1>1
  <2>3. i > 1 => m[i].role # m[i - 1].role
    BY <2>2 DEF Apart
  <2> QED
    BY <1>2, <2>1, <2>2, <2>3
<1> QED
  BY <1>1, <1>2, <1>4, <1>5, <1>7 DEF t

(* One step of the alternation.                                            *)
LEMMA AlternatingStep ==
    ASSUME NEW C, NEW R, NEW s \in Seq(Turns(C, R)), Follows(s), Turning(s),
           NEW x \in Turns(C, R), x.role \in {"user", "assistant"},
           s = <<>> => x.role = "user",
           s # <<>> /\ x.role = "assistant" => Last(s).role = "user",
           x.results # <<>> =>
               s # <<>> /\ Last(s).role = "assistant" /\ Last(s).calls # <<>>
    PROVE  LET t == Alternating(s, x)
           IN t \in Seq(Turns(C, R)) /\ Follows(t) /\ Turning(t) /\ t # <<>> /\ Last(t) = x
<1>1. CASE s # <<>> /\ x.role = "user" /\ Last(s).role = "user"
  <2> DEFINE e == Message("assistant", Empty)
             u == Append(s, e)
  <2>1. e \in Turns(C, R) /\ e.role = "assistant" /\ e.results = <<>>
    BY FixedTexts, TurnMade
  <2>2. Alternating(s, x) = s \o <<e, x>>
    BY <1>1 DEF Alternating
  <2> HIDE DEF e
  <2>3. s \o <<e, x>> = Append(u, x)
    BY <2>1
  <2>4. u \in Seq(Turns(C, R)) /\ u # <<>> /\ Last(u) = e
    BY <2>1, Appended
  <2>5. Follows(u) /\ Turning(u)
    BY <1>1, <2>1, FollowsAppended, TurningAppended
  <2>6. x.results = <<>>
    BY <1>1
  <2> HIDE DEF u
  <2>7. Follows(Append(u, x)) /\ Turning(Append(u, x))
    BY <1>1, <2>1, <2>4, <2>5, <2>6, FollowsAppended, TurningAppended
  <2>8. Append(u, x) \in Seq(Turns(C, R)) /\ Append(u, x) # <<>> /\ Last(Append(u, x)) = x
    BY <2>4, Appended
  <2> QED
    BY <2>2, <2>3, <2>7, <2>8
<1>2. CASE ~(s # <<>> /\ x.role = "user" /\ Last(s).role = "user")
  <2>1. Alternating(s, x) = Append(s, x)
    BY <1>2 DEF Alternating
  <2>2. Follows(Append(s, x)) /\ Turning(Append(s, x))
    BY <1>2, FollowsAppended, TurningAppended
  <2> QED
    BY <2>1, <2>2, Appended
<1> QED
  BY <1>1, <1>2

(* EnsureAlternatingRoles: user and assistant take turns, and results      *)
(* still follow calls.                                                     *)
LEMMA AlternatedTurns ==
    ASSUME NEW C, NEW R, NEW m \in Seq(Turns(C, R)), Regular(m)
    PROVE  LET t == EnsureAlternatingRoles(m)
           IN /\ t \in Seq(Turns(C, R)) /\ Follows(t) /\ Turning(t)
              /\ t = <<>> <=> m = <<>>
              /\ m # <<>> => Last(t) = Last(m)
<1> DEFINE T == Turns(C, R)
           n == Len(m)
<1>1. n \in Nat /\ (m # <<>> <=> n # 0) /\ Last(m) = m[n] /\ \A i \in 1..n : m[i] \in T
  BY EndOf
<1>2. <<>> \in Seq(T) /\ Len(<<>>) = 0
  BY EmptySeq
<1>3. ASSUME NEW i \in 1..n, NEW d \in Seq(T)
      PROVE  Alternating(d, m[i]) \in Seq(T)
  <2> DEFINE e == Message("assistant", Empty)
  <2>1. m[i] \in T /\ e \in T
    BY <1>1, FixedTexts, TurnMade
  <2>2. Alternating(d, m[i]) = Append(d, m[i]) \/ Alternating(d, m[i]) = d \o <<e, m[i]>>
    BY DEF Alternating
  <2> HIDE DEF T, e
  <2>3. <<e, m[i]>> \in Seq(T)
    BY <2>1
  <2>4. d \o <<e, m[i]>> \in Seq(T) /\ Append(d, m[i]) \in Seq(T)
    BY <2>1, <2>3, ConcatProperties, Appended
  <2> QED
    BY <2>2, <2>4
<1>4. PICK h \in [0..n -> Seq(T)] :
          /\ h[0] = <<>>
          /\ \A i \in 1..n : h[i] = Alternating(h[i - 1], m[i])
          /\ EnsureAlternatingRoles(m) = h[n]
  <2> HIDE DEF T
  <2> QED
    BY <1>1, <1>2, <1>3, AlternatingLoop
<1> DEFINE S == {i \in 0..n : /\ Follows(h[i]) /\ Turning(h[i])
                              /\ i = 0 => h[i] = <<>>
                              /\ i # 0 => h[i] # <<>> /\ Last(h[i]) = m[i]}
<1>5. 0 \in S
  BY <1>1, <1>2, <1>4 DEF Follows, Turning
<1>6. ASSUME NEW i \in 1..n, i - 1 \in S
      PROVE  i \in S
  <2> DEFINE s == h[i - 1]
             x == m[i]
  <2>1. s \in Seq(T) /\ Follows(s) /\ Turning(s) /\ (i - 1 = 0 => s = <<>>)
        /\ (i - 1 # 0 => s # <<>> /\ Last(s) = m[i - 1])
    BY <1>1, <1>4, <1>6
  <2>2. x \in T
    BY <1>1
  <2>3. /\ x.role \in {"user", "assistant"}
        /\ i = 1 => x.role = "user"
        /\ i > 1 /\ x.role = "assistant" => m[i - 1].role # "assistant"
    BY DEF Regular
  <2>4. i > 1 => m[i - 1].role \in {"user", "assistant"}
    <3>1. i > 1 => i - 1 \in 1..n
      BY <1>1
    <3> QED
      BY <3>1 DEF Regular
  <2>5. x.results # <<>> => i > 1 /\ m[i - 1].role = "assistant" /\ m[i - 1].calls # <<>>
    BY DEF Regular, Follows
  <2>6. (i - 1 = 0 <=> i = 1) /\ (i - 1 # 0 <=> i > 1)
    BY <1>1
  <2> HIDE DEF s, x
  <2> DEFINE t == Alternating(s, x)
  <2>7. /\ s = <<>> => x.role = "user"
        /\ s # <<>> /\ x.role = "assistant" => Last(s).role = "user"
        /\ x.results # <<>> => s # <<>> /\ Last(s).role = "assistant" /\ Last(s).calls # <<>>
    BY <2>1, <2>3, <2>4, <2>5, <2>6
  <2>8. t \in Seq(T) /\ Follows(t) /\ Turning(t) /\ t # <<>> /\ Last(t) = x
    BY <2>1, <2>2, <2>3, <2>7, AlternatingStep
  <2>9. h[i] = t
    BY <1>4 DEF s, x
  <2> HIDE DEF t
  <2>10. i \in 0..n /\ i # 0
    BY <1>1
  <2> QED
    BY <2>8, <2>9, <2>10 DEF x
<1>7. \A i \in 0..n : i \in S
  <2> HIDE DEF S
  <2> QED
    BY <1>1, <1>5, <1>6, UpTo
<1>8. h[n] \in Seq(T) /\ n \in S
  BY <1>1, <1>4, <1>7
<1> QED
  BY <1>1, <1>4, <1>8

(* The messages that the payload is made of.                               *)
LEMMA MergedWellFormed ==
    ASSUME NEW m \in Seq(Turns(Int, Noted)), NEW which
    PROVE  LET t == Merged(m, which)
           IN /\ t \in Seq(Turns(Int, Noted)) /\ Follows(t) /\ Turning(t)
              /\ which = "none" => t \in Seq(Turns({}, {}))
              /\ t # <<>> /\ Last(t).role = "assistant" =>
                     m # <<>> /\ Last(m).role = "assistant"
<1>1. ASSUME NEW C, NEW R, NEW paired \in Seq(Turns(C, R)), SameRoles(m, paired),
             Follows(paired)
      PROVE  LET t == EnsureAlternatingRoles(NormalizeMessageRoles(
                          EnsureFirstMessageIsUser(MergeAdjacentMessages(paired))))
             IN /\ t \in Seq(Turns(C, R)) /\ Follows(t) /\ Turning(t)
                /\ t # <<>> /\ Last(t).role = "assistant" =>
                       m # <<>> /\ Last(m).role = "assistant"
  <2> DEFINE a == MergeAdjacentMessages(paired)
             b == EnsureFirstMessageIsUser(a)
             c == NormalizeMessageRoles(b)
             d == EnsureAlternatingRoles(c)
  <2>1. /\ a \in Seq(Turns(C, R)) /\ Follows(a) /\ Apart(a)
        /\ a = <<>> <=> paired = <<>>
        /\ paired # <<>> => Last(a).role = Last(paired).role
    BY <1>1, MergedTurns
  <2> HIDE DEF a
  <2>2. /\ b \in Seq(Turns(C, R)) /\ Follows(b) /\ Apart(b)
        /\ b = <<>> <=> a = <<>>
        /\ a # <<>> => b[1].role = "user" /\ Last(b).role = Last(a).role
    BY <2>1, FirstMade
  <2> HIDE DEF b
  <2>3. /\ c \in Seq(Turns(C, R)) /\ Regular(c)
        /\ c = <<>> <=> b = <<>>
        /\ b # <<>> /\ Last(c).role = "assistant" => Last(b).role = "assistant"
    BY <2>2, RolesNormalized
  <2> HIDE DEF c
  <2>4. /\ d \in Seq(Turns(C, R)) /\ Follows(d) /\ Turning(d)
        /\ d = <<>> <=> c = <<>>
        /\ c # <<>> => Last(d) = Last(c)
    BY <2>3, AlternatedTurns
  <2> HIDE DEF d
  <2>5. /\ m = <<>> <=> paired = <<>>
        /\ m # <<>> => Last(paired).role = Last(m).role
    <3>1. /\ Len(m) \in Nat /\ (m # <<>> <=> Len(m) # 0) /\ Last(m) = m[Len(m)]
      BY EndOf
    <3>2. (paired # <<>> <=> Len(paired) # 0) /\ Last(paired) = paired[Len(paired)]
      BY EndOf
    <3> QED
      BY <1>1, <3>1, <3>2 DEF SameRoles
  <2> QED
    BY <2>1, <2>2, <2>3, <2>4, <2>5 DEF a, b, c, d
<1>2. CASE which = "none"
  <2> DEFINE paired == StripToolContent(m)
  <2>1. paired \in Seq(Turns({}, {})) /\ SameRoles(m, paired) /\ Follows(paired)
    BY PairedByStripping
  <2>2. Merged(m, which) = EnsureAlternatingRoles(NormalizeMessageRoles(
                               EnsureFirstMessageIsUser(MergeAdjacentMessages(paired))))
    BY <1>2 DEF Merged
  <2> HIDE DEF paired
  <2>3. /\ Merged(m, which) \in Seq(Turns({}, {})) /\ Follows(Merged(m, which))
        /\ Turning(Merged(m, which))
        /\ Merged(m, which) # <<>> /\ Last(Merged(m, which)).role = "assistant" =>
               m # <<>> /\ Last(m).role = "assistant"
    BY <1>1, <2>1, <2>2
  <2>4. Turns({}, {}) \subseteq Turns(Int, Noted)
    <3>1. \A D : Seq({}) \subseteq Seq(D)
      BY SeqMonotonic
    <3> QED
      BY <3>1 DEF Turns
  <2> QED
    BY <2>3, <2>4, SeqMonotonic
<1>3. CASE which # "none"
  <2> DEFINE paired == EnsureAssistantBeforeToolResults(m)
  <2>1. paired \in Seq(Turns(Int, Noted)) /\ SameRoles(m, paired) /\ Follows(paired)
    BY PairedByCalls
  <2>2. Merged(m, which) = EnsureAlternatingRoles(NormalizeMessageRoles(
                               EnsureFirstMessageIsUser(MergeAdjacentMessages(paired))))
    BY <1>3 DEF Merged
  <2> HIDE DEF paired
  <2> QED
    BY <1>1, <1>3, <2>1, <2>2
<1> QED
  BY <1>2, <1>3

-----------------------------------------------------------------------------
(* The adapters                                                            *)

(* A client's message of format f.                                         *)
Said(f) ==
    {m \in [role : {"user", "assistant", "system", "developer", "tool"}, text : Texts,
            calls : Seq(Int), results : Seq(Noted), images : Seq(Int), plain : BOOLEAN] :
        /\ m.results # <<>> => m.role = IF f = "anthropic" THEN "user" ELSE "tool"
        /\ m.role = "tool" => m.results # <<>>
        /\ f = "anthropic" => m.role \in {"user", "assistant"}}

(* Of the first n of them, the last but for system messages is one of the  *)
(* assistant.                                                              *)
EndsAssistant(m, n) ==
    \E k \in 1..n : m[k].role = "assistant" /\ \A j \in (k + 1)..n : m[j].role = "system"

(* What is appended decides it, but for a system message.                  *)
LEMMA EndsAppended ==
    ASSUME NEW D, NEW s \in Seq(D), NEW x \in D,
           EndsAssistant(Append(s, x), Len(Append(s, x)))
    PROVE  x.role = "assistant" \/ (x.role = "system" /\ EndsAssistant(s, Len(s)))
<1> DEFINE t == Append(s, x)
           n == Len(s)
<1>1. /\ Len(t) = n + 1 /\ \A i \in 1..n : t[i] = s[i]
      /\ t[n + 1] = x /\ n \in Nat
  BY Appended, EndOf
<1>2. PICK k \in 1..(n + 1) : /\ t[k].role = "assistant"
                              /\ \A j \in (k + 1)..(n + 1) : t[j].role = "system"
  BY <1>1 DEF EndsAssistant
<1> HIDE DEF t, n
<1>3. CASE k = n + 1
  BY <1>1, <1>2, <1>3
<1>4. CASE k # n + 1
  <2>1. k \in 1..n /\ n + 1 \in (k + 1)..(n + 1)
    BY <1>1, <1>2, <1>4
  <2>2. \A j \in (k + 1)..n : j \in (k + 1)..(n + 1) /\ j \in 1..n
    BY <1>1, <2>1
  <2>3. EndsAssistant(s, n)
    BY <1>1, <1>2, <2>1, <2>2 DEF EndsAssistant
  <2> QED
    BY <1>1, <1>2, <2>1, <2>3 DEF n
<1> QED
  BY <1>3, <1>4

(* And the other way round.                                                *)
LEMMA EndsExtended ==
    ASSUME NEW m, NEW n \in Nat \ {0},
           m[n].role = "assistant" \/ (m[n].role = "system" /\ EndsAssistant(m, n - 1))
    PROVE  EndsAssistant(m, n)
<1>1. CASE m[n].role = "assistant"
  <2>1. n \in 1..n /\ (n + 1)..n = {}
    OBVIOUS
  <2> QED
    BY <1>1, <2>1 DEF EndsAssistant
<1>2. CASE m[n].role = "system" /\ EndsAssistant(m, n - 1)
  <2>1. PICK k \in 1..(n - 1) : /\ m[k].role = "assistant"
                                /\ \A j \in (k + 1)..(n - 1) : m[j].role = "system"
    BY <1>2 DEF EndsAssistant
  <2>2. k \in 1..n /\ \A j \in (k + 1)..n : j = n \/ j \in (k + 1)..(n - 1)
    OBVIOUS
  <2> QED
    BY <1>2, <2>1, <2>2 DEF EndsAssistant
<1> QED
  BY <1>1, <1>2

(* What a message of a client consists of.                                 *)
LEMMA SaidParts ==
    ASSUME NEW f, NEW x \in Said(f)
    PROVE  /\ x.role \in {"user", "assistant", "system", "developer", "tool"}
           /\ x.text \in Texts /\ x.calls \in Seq(Int) /\ x.results \in Seq(Noted)
           /\ x.images \in Seq(Int) /\ x.plain \in BOOLEAN
           /\ x.results # <<>> => x.role = IF f = "anthropic" THEN "user" ELSE "tool"
           /\ x.role = "tool" => x.results # <<>>
           /\ f = "anthropic" => x.role \in {"user", "assistant"}
BY DEF Said

(* Results that are given their notices stay results.                      *)
LEMMA ResultsNoted ==
    ASSUME NEW st, NEW results \in Seq(Noted)
    PROVE  /\ NoteResults(st, results) \in Seq(Noted)
           /\ NoteResults(st, results) = <<>> <=> results = <<>>
<1>1. /\ Len(results) \in Nat /\ DOMAIN results = 1..Len(results)
      /\ \A i \in 1..Len(results) : results[i] \in Noted
  BY LenProperties, ElementOfSeq
<1>2. NoteResults(st, results) \in [1..Len(results) -> Noted]
  <2>1. ASSUME NEW i \in 1..Len(results)
        PROVE  /\ results[i] \in Noted
               /\ [results[i] EXCEPT !.noted = TRUE, !.images = <<>>] \in Noted
    BY <1>1, EmptySeq DEF Noted
  <2> QED
    BY <1>1, <2>1 DEF NoteResults
<1>3. NoteResults(st, results) \in Seq(Noted) /\ Len(NoteResults(st, results)) = Len(results)
  BY <1>1, <1>2, MappedSeq
<1> QED
  BY <1>3, EmptySeq

(* One message that is looked up: the notice that may be added is a        *)
(* message, of the user.                                                   *)
LEMMA TakeStep ==
    ASSUME NEW f \in {"anthropic", "openai"}, NEW st, [text |-> <<>>] \notin st,
           NEW d \in [done : Seq(Said(f)), store : SUBSET st], NEW x \in Said(f)
    PROVE  LET t == TakeNotice(f, d, x)
           IN /\ t \in [done : Seq(Said(f)), store : SUBSET st]
              /\ EndsAssistant(t.done, Len(t.done)) =>
                     x.role = "assistant"
                     \/ (x.role = "system" /\ EndsAssistant(d.done, Len(d.done)))
<1> DEFINE t == TakeNotice(f, d, x)
           D == [done : Seq(Said(f)), store : SUBSET st]
<1>0. d.done \in Seq(Said(f)) /\ d.store \in SUBSET st
  OBVIOUS
<1>1. CASE Noticed(f, x)
  <2> DEFINE y == [x EXCEPT !.results = NoteResults(d.store, x.results)]
             left == d.store \ {[call |-> x.results[i].id] : i \in DOMAIN x.results}
  <2>1. t = [done |-> Append(d.done, y), store |-> left]
    BY <1>1 DEF TakeNotice
  <2>2. y \in Said(f) /\ y.role = x.role
    <3> DEFINE r == NoteResults(d.store, x.results)
    <3>1. r \in Seq(Noted) /\ (r = <<>> <=> x.results = <<>>)
      BY SaidParts, ResultsNoted
    <3> HIDE DEF r
    <3>2. [x EXCEPT !.results = r] \in Said(f) /\ [x EXCEPT !.results = r].role = x.role
      BY <3>1 DEF Said
    <3> QED
      BY <3>2 DEF r
  <2>3. left \in SUBSET st
    BY <1>0
  <2> HIDE DEF y, left
  <2>4. Append(d.done, y) \in Seq(Said(f))
    BY <1>0, <2>2, Appended
  <2>5. EndsAssistant(Append(d.done, y), Len(Append(d.done, y))) =>
            y.role = "assistant" \/ (y.role = "system" /\ EndsAssistant(d.done, Len(d.done)))
    BY <1>0, <2>2, EndsAppended
  <2> HIDE DEF t
  <2>6. t.done = Append(d.done, y) /\ t \in D
    BY <2>1, <2>3, <2>4
  <2> QED
    BY <2>2, <2>5, <2>6 DEF t
<1>2. CASE ~Noticed(f, x) /\ x.role = "assistant" /\ x.plain /\ TextNotice(x) \in d.store
  <2> DEFINE e == Message("user", <<Fragment("notice", Head(x.text).id)>>)
             left == d.store \ {TextNotice(x)}
  <2>1. t = [done |-> d.done \o <<x, e>>, store |-> left]
    BY <1>2 DEF TakeNotice
  <2>2. x.text # <<>>
    BY <1>0, <1>2 DEF TextNotice
  <2>3. Head(x.text).id \in Int
    <3>1. x.text \in Seq([what : Kinds, id : Int])
      BY SaidParts DEF Texts
    <3>2. Head(x.text) \in [what : Kinds, id : Int]
      BY <2>2, <3>1, HeadTailProperties
    <3> QED
      BY <3>2
  <2>4. <<Fragment("notice", Head(x.text).id)>> \in Texts
    <3>1. "notice" \in Kinds
      BY DEF Kinds
    <3> QED
      BY <2>3, <3>1, FragmentTexts
  <2>5. e \in Said(f)
    BY <2>4, EmptySeq DEF Message, Said
  <2>6. left \in SUBSET st
    BY <1>0
  <2> HIDE DEF e, left
  <2>7. <<x, e>> \in Seq(Said(f))
    BY <2>5
  <2>8. d.done \o <<x, e>> \in Seq(Said(f))
    BY <1>0, <2>7, ConcatProperties
  <2> HIDE DEF t
  <2>9. t \in D
    BY <2>1, <2>6, <2>8
  <2> QED
    BY <1>2, <2>9 DEF t
<1>3. CASE ~Noticed(f, x) /\ ~(x.role = "assistant" /\ x.plain /\ TextNotice(x) \in d.store)
  <2>1. t = [d EXCEPT !.done = Append(d.done, x)]
    BY <1>3 DEF TakeNotice
  <2>2. Append(d.done, x) \in Seq(Said(f))
    BY <1>0, Appended
  <2>3. EndsAssistant(Append(d.done, x), Len(Append(d.done, x))) =>
            x.role = "assistant" \/ (x.role = "system" /\ EndsAssistant(d.done, Len(d.done)))
    BY <1>0, EndsAppended
  <2> HIDE DEF t
  <2>4. t.done = Append(d.done, x) /\ t \in D
    BY <1>0, <2>1, <2>2
  <2> QED
    BY <2>3, <2>4 DEF t
<1> QED
  BY <1>1, <1>2, <1>3

(* TakeNotices: what is left is a conversation, and ends with the          *)
(* assistant only if the client's did.                                     *)
LEMMA NoticesTaken ==
    ASSUME NEW f \in {"anthropic", "openai"}, NEW st, [text |-> <<>>] \notin st,
           NEW m \in Seq(Said(f))
    PROVE  LET t == TakeNotices(f, st, m)
           IN /\ t.done \in Seq(Said(f)) /\ t.store \subseteq st
              /\ EndsAssistant(t.done, Len(t.done)) => EndsAssistant(m, Len(m))
<1> DEFINE D == [done : Seq(Said(f)), store : SUBSET st]
           n == Len(m)
<1>1. n \in Nat /\ \A i \in 1..n : m[i] \in Said(f)
  BY EndOf
<1>2. Untaken(st) \in D /\ Untaken(st).done = <<>> /\ Len(<<>>) = 0
  BY EmptySeq DEF Untaken
<1>3. TakesWithin(f, m, D)
  BY <1>1, TakeStep DEF TakesWithin
<1>4. PICK h \in [0..n -> D] :
          /\ h[0] = Untaken(st)
          /\ \A i \in 1..n : h[i] = TakeNotice(f, h[i - 1], m[i])
          /\ TakeNotices(f, st, m) = h[n]
  <2>1. Untaken(st) \in D /\ Len(m) \in Nat
    BY <1>1, <1>2
  <2> HIDE DEF D
  <2>2. PICK h : TakesAll(h, f, st, m, D)
    BY <1>3, <2>1, TakeLoop
  <2> QED
    BY <2>2 DEF TakesAll
<1> DEFINE S == {i \in 0..n :
                    EndsAssistant(h[i].done, Len(h[i].done)) => EndsAssistant(m, i)}
<1>5. 0 \in S
  BY <1>1, <1>2, <1>4 DEF EndsAssistant
<1>6. ASSUME NEW i \in 1..n, i - 1 \in S
      PROVE  i \in S
  <2> DEFINE s == h[i - 1]
  <2>1. s \in D /\ m[i] \in Said(f)
        /\ (EndsAssistant(s.done, Len(s.done)) => EndsAssistant(m, i - 1))
    BY <1>1, <1>4, <1>6
  <2> HIDE DEF s
  <2> DEFINE t == TakeNotice(f, s, m[i])
  <2>2. EndsAssistant(t.done, Len(t.done)) =>
            m[i].role = "assistant"
            \/ (m[i].role = "system" /\ EndsAssistant(s.done, Len(s.done)))
    BY <2>1, TakeStep
  <2>3. h[i] = t
    BY <1>4 DEF s
  <2> HIDE DEF t
  <2>4. i \in 0..n /\ i \in Nat \ {0}
    BY <1>1
  <2>5. EndsAssistant(t.done, Len(t.done)) => EndsAssistant(m, i)
    BY <2>1, <2>2, <2>4, EndsExtended
  <2> QED
    BY <2>3, <2>4, <2>5
<1>7. \A i \in 0..n : i \in S
  <2> HIDE DEF S
  <2> QED
    BY <1>1, <1>5, <1>6, UpTo
<1>8. h[n] \in D /\ n \in S
  BY <1>1, <1>4, <1>7
<1> QED
  BY <1>4, <1>8

-----------------------------------------------------------------------------
(* What FromOpenAI keeps between two messages.                             *)
Converting == [done : Seq(Turns(Int, Noted)), results : Seq(Noted), images : Seq(Int)]

(* Nothing is pooled, and a message of the assistant is the last.          *)
Settled(c) == c.results = <<>> /\ c.done # <<>> /\ Last(c.done).role = "assistant"

(* The flush of the pooled results.                                        *)
LEMMA FlushStep ==
    ASSUME NEW c \in Converting
    PROVE  /\ Flush(c) \in Converting /\ Flush(c).results = <<>>
           /\ Settled(Flush(c)) => Settled(c)
<1>0. c.done \in Seq(Turns(Int, Noted)) /\ c.results \in Seq(Noted) /\ c.images \in Seq(Int)
  BY DEF Converting
<1>1. CASE c.results = <<>>
  BY <1>1 DEF Flush
<1>2. CASE c.results # <<>>
  <2> DEFINE y == [Message("user", <<>>) EXCEPT !.results = c.results, !.images = c.images]
  <2>1. Flush(c) = [done |-> Append(c.done, y), results |-> <<>>, images |-> <<>>]
    BY <1>2 DEF Flush
  <2>2. y \in Turns(Int, Noted) /\ y.role = "user"
    BY <1>0, FixedTexts, EmptySeq DEF Message, Turns
  <2> HIDE DEF y
  <2>3. /\ Append(c.done, y) \in Seq(Turns(Int, Noted))
        /\ Last(Append(c.done, y)) = y
    BY <1>0, <2>2, Appended
  <2> QED
    BY <2>1, <2>2, <2>3, EmptySeq DEF Converting, Settled
<1> QED
  BY <1>1, <1>2

(* One message of FromOpenAI.                                              *)
LEMMA ConvertStep ==
    ASSUME NEW c \in Converting, NEW x \in Said("openai")
    PROVE  /\ Convert(c, x) \in Converting
           /\ Settled(Convert(c, x)) =>
                  x.role = "assistant" \/ (x.role = "system" /\ Settled(c))
<1>0. c.done \in Seq(Turns(Int, Noted)) /\ c.results \in Seq(Noted) /\ c.images \in Seq(Int)
  BY DEF Converting
<1>1. CASE x.role = "system"
  BY <1>1 DEF Convert
<1>2. CASE x.role = "tool"
  <2> DEFINE r == c.results \o x.results
             i == c.images \o ImagesIn(x.results)
  <2>1. Convert(c, x) = [c EXCEPT !.results = r, !.images = i]
    BY <1>2 DEF Convert
  <2>2. x.results \in Seq(Noted) /\ ImagesIn(x.results) \in Seq(Int) /\ x.results # <<>>
    BY <1>2, SaidParts, ImagesInType
  <2>3. r \in Seq(Noted) /\ i \in Seq(Int) /\ r # <<>>
    BY <1>0, <2>2, ConcatProperties, ConcatEqualIffEmpty
  <2> HIDE DEF r, i
  <2>4. /\ [c EXCEPT !.results = r, !.images = i] \in Converting
        /\ [c EXCEPT !.results = r, !.images = i].results = r
    BY <2>3 DEF Converting
  <2> QED
    BY <2>1, <2>3, <2>4 DEF Settled
<1>3. CASE x.role \notin {"system", "tool"}
  <2> DEFINE d == Flush(c)
             s == Append(d.done, x)
  <2>1. Convert(c, x) = [d EXCEPT !.done = s]
    BY <1>3 DEF Convert
  <2>2. x \in Turns(Int, Noted)
    BY <1>3 DEF Said, Turns
  <2>3. d \in Converting
    BY FlushStep
  <2> HIDE DEF d
  <2>4. d.done \in Seq(Turns(Int, Noted))
    BY <2>3 DEF Converting
  <2>5. s \in Seq(Turns(Int, Noted)) /\ Last(s) = x
    BY <2>2, <2>4, Appended
  <2> HIDE DEF s
  <2>6. [d EXCEPT !.done = s] \in Converting /\ [d EXCEPT !.done = s].done = s
    BY <2>3, <2>5 DEF Converting
  <2> QED
    BY <2>1, <2>5, <2>6 DEF Settled
<1> QED
  BY <1>1, <1>2, <1>3, SaidParts

(* FromOpenAI: system and tool messages are gone, results are the user's.  *)
LEMMA Converted ==
    ASSUME NEW m \in Seq(Said("openai"))
    PROVE  LET t == FromOpenAI(m)
           IN /\ t \in Seq(Turns(Int, Noted))
              /\ t # <<>> /\ Last(t).role = "assistant" => EndsAssistant(m, Len(m))
<1> DEFINE n == Len(m)
           whole == ForEach(Convert, Unconverted, m)
<1>1. n \in Nat /\ \A i \in 1..n : m[i] \in Said("openai")
  BY EndOf
<1>2. Unconverted \in Converting /\ ~Settled(Unconverted)
  BY EmptySeq DEF Unconverted, Converting, Settled
<1>3. \A i \in 1..n : \A d \in Converting : Convert(d, m[i]) \in Converting
  BY <1>1, ConvertStep
<1>4. PICK h \in [0..n -> Converting] :
          /\ h[0] = Unconverted
          /\ \A i \in 1..n : h[i] = Convert(h[i - 1], m[i])
          /\ whole = h[n]
  BY <1>1, <1>2, <1>3, ConvertLoop
<1> DEFINE S == {i \in 0..n : Settled(h[i]) => EndsAssistant(m, i)}
<1>5. 0 \in S
  BY <1>1, <1>2, <1>4
<1>6. ASSUME NEW i \in 1..n, i - 1 \in S
      PROVE  i \in S
  <2> DEFINE s == h[i - 1]
  <2>1. s \in Converting /\ m[i] \in Said("openai")
        /\ (Settled(s) => EndsAssistant(m, i - 1))
    BY <1>1, <1>4, <1>6
  <2> HIDE DEF s
  <2> DEFINE t == Convert(s, m[i])
  <2>2. Settled(t) => m[i].role = "assistant" \/ (m[i].role = "system" /\ Settled(s))
    BY <2>1, ConvertStep
  <2>3. h[i] = t
    BY <1>4 DEF s
  <2> HIDE DEF t
  <2>4. i \in 0..n /\ i \in Nat \ {0}
    BY <1>1
  <2>5. Settled(t) => EndsAssistant(m, i)
    BY <2>1, <2>2, <2>4, EndsExtended
  <2> QED
    BY <2>3, <2>4, <2>5
<1>7. \A i \in 0..n : i \in S
  <2> HIDE DEF S
  <2> QED
    BY <1>1, <1>5, <1>6, UpTo
<1>8. whole \in Converting /\ (Settled(whole) => EndsAssistant(m, n))
  BY <1>1, <1>4, <1>7
<1>9. FromOpenAI(m) = Flush(whole).done
  BY DEF FromOpenAI
<1> HIDE DEF whole
<1>10. /\ Flush(whole) \in Converting /\ Flush(whole).results = <<>>
       /\ Settled(Flush(whole)) => Settled(whole)
  BY <1>8, FlushStep
<1>11. Flush(whole).done \in Seq(Turns(Int, Noted))
  BY <1>10 DEF Converting
<1> QED
  BY <1>8, <1>9, <1>10, <1>11 DEF Settled

(* Either format becomes turns, which end with the assistant only if the   *)
(* conversation did.                                                       *)
LEMMA UnifiedTurns ==
    ASSUME NEW f \in {"anthropic", "openai"}, NEW m \in Seq(Said(f))
    PROVE  LET t == IF f = "openai" THEN FromOpenAI(m) ELSE FromAnthropic(m)
           IN /\ t \in Seq(Turns(Int, Noted))
              /\ t # <<>> /\ Last(t).role = "assistant" => EndsAssistant(m, Len(m))
<1>1. CASE f = "openai"
  BY <1>1, Converted
<1>2. CASE f = "anthropic"
  <2> DEFINE n == Len(m)
             t == FromAnthropic(m)
  <2>1. n \in Nat /\ DOMAIN m = 1..n /\ \A i \in 1..n : m[i] \in Said(f)
    BY EndOf, LenProperties
  <2>2. ASSUME NEW i \in 1..n
        PROVE  t[i] \in Turns(Int, Noted) /\ t[i].role = m[i].role
    <3> DEFINE x == m[i]
               pictures == x.images \o ImagesIn(x.results)
    <3>1. t[i] = [x EXCEPT !.images = pictures]
      BY <2>1 DEF FromAnthropic
    <3>2. x \in Said("anthropic")
      BY <1>2, <2>1
    <3> HIDE DEF x
    <3>3. pictures \in Seq(Int)
      BY <3>2, SaidParts, ImagesInType, ConcatProperties
    <3> HIDE DEF pictures, t
    <3>4. /\ [x EXCEPT !.images = pictures] \in Turns(Int, Noted)
          /\ [x EXCEPT !.images = pictures].role = x.role
      BY <3>2, <3>3 DEF Said, Turns
    <3> QED
      BY <3>1, <3>4 DEF x
  <2>3. t \in [1..n -> Turns(Int, Noted)]
    BY <2>1, <2>2 DEF FromAnthropic
  <2> HIDE DEF t
  <2>4. t \in Seq(Turns(Int, Noted)) /\ Len(t) = n
    BY <2>1, <2>3, MappedSeq
  <2>5. ASSUME t # <<>>, Last(t).role = "assistant"
        PROVE  EndsAssistant(m, n)
    <3>1. n \in Nat \ {0} /\ t[n].role = "assistant"
      BY <2>1, <2>4, <2>5, EndOf
    <3>2. m[n].role = "assistant"
      BY <2>2, <3>1
    <3> QED
      BY <3>1, <3>2, EndsExtended
  <2> QED
    BY <1>2, <2>4, <2>5 DEF t
<1> QED
  BY <1>1, <1>2

-----------------------------------------------------------------------------
(* The entries of a payload, of a request that ends with the assistant's   *)
(* message or not.                                                         *)
EntriesOf(p) == p.history \o <<p.current>>

(* What Kiro can take.                                                     *)
Sendable(p, ended) ==
    \A i \in DOMAIN EntriesOf(p) :
        LET e == EntriesOf(p)[i] IN
        /\ e.role = IF i % 2 = 1 THEN "user" ELSE "assistant"
        /\ e.results # <<>> => i > 1 /\ EntriesOf(p)[i - 1].uses # <<>>
        /\ e.results # <<>> \/ e.uses # <<>> => p.tools
        /\ e.text # <<>> \/ (ended /\ i = Len(EntriesOf(p)) - 1)

(* A sequence and one more, by their elements.                             *)
LEMMA OneMore ==
    ASSUME NEW k \in Nat, NEW h, h = [i \in 1..k |-> h[i]], NEW x
    PROVE  /\ DOMAIN (h \o <<x>>) = 1..(k + 1) /\ Len(h \o <<x>>) = k + 1
           /\ \A i \in 1..k : (h \o <<x>>)[i] = h[i]
           /\ (h \o <<x>>)[k + 1] = x
           /\ h \o <<x>> = [i \in 1..(k + 1) |-> (h \o <<x>>)[i]]
<1> DEFINE D == {h[i] : i \in 1..k} \cup {x}
<1>1. h \in [1..k -> D]
  <2>1. \A i \in 1..k : h[i] \in D
    OBVIOUS
  <2> HIDE DEF D
  <2> QED
    BY <2>1
<1>2. x \in D
  OBVIOUS
<1> HIDE DEF D
<1>3. h \in Seq(D) /\ Len(h) = k
  BY <1>1, MappedSeq
<1>4. <<x>> \in Seq(D) /\ Len(<<x>>) = 1 /\ <<x>>[1] = x
  BY <1>2
<1>5. /\ h \o <<x>> \in Seq(D) /\ Len(h \o <<x>>) = k + 1
      /\ \A i \in 1..k : (h \o <<x>>)[i] = h[i]
      /\ (h \o <<x>>)[k + 1] = x
  BY <1>3, <1>4, ConcatProperties
<1>6. DOMAIN (h \o <<x>>) = 1..(k + 1)
  BY <1>5, LenProperties
<1>7. h \o <<x>> = [i \in 1..(k + 1) |-> (h \o <<x>>)[i]]
  <2> DEFINE g == h \o <<x>>
  <2>1. g \in Seq(D) /\ Len(g) = k + 1
    BY <1>5
  <2> HIDE DEF g
  <2>2. g = [i \in 1..(k + 1) |-> g[i]]
    BY <2>1, SeqDef
  <2> QED
    BY <2>2 DEF g
<1> QED
  BY <1>5, <1>6, <1>7

(* No text that went through NonEmpty is empty.                            *)
LEMMA NonEmptyText == \A t : NonEmpty(t) # <<>>
BY FixedTexts DEF NonEmpty

(* The history that is made of all but the last message.                   *)
Prefixed(t, full) ==
    IF Len(t) < 2 THEN <<>> ELSE [Front(t) EXCEPT ![1].text = full \o @]

(* The i-th entry of h is that of the i-th turn.                           *)
HistoryEntryOf(t, h, i) ==
    /\ h[i].role = t[i].role
    /\ h[i].uses = IF t[i].role = "assistant" THEN t[i].calls ELSE <<>>
    /\ h[i].results = t[i].results
    /\ h[i].text # <<>>

(* The i-th turn has its role, and calls for its results.                  *)
Placed(t, i) ==
    /\ t[i].role = IF i % 2 = 1 THEN "user" ELSE "assistant"
    /\ t[i].results # <<>> =>
           i > 1 /\ t[i - 1].role = "assistant" /\ t[i - 1].calls # <<>>

(* BuildKiroHistory: one entry for each turn but the last.                 *)
LEMMA HistoryMade ==
    ASSUME NEW t \in Seq(Turns(Int, Noted)), t # <<>>, NEW full
    PROVE  LET h == BuildKiroHistory(Prefixed(t, full))
           IN /\ h = [i \in 1..(Len(t) - 1) |-> h[i]]
              /\ \A i \in 1..(Len(t) - 1) :
                    /\ h[i].role = t[i].role
                    /\ h[i].uses = IF t[i].role = "assistant" THEN t[i].calls ELSE <<>>
                    /\ h[i].results = t[i].results
                    /\ h[i].text # <<>>
<1> DEFINE n == Len(t)
           p == Prefixed(t, full)
           h == BuildKiroHistory(p)
<1>1. n \in Nat \ {0} /\ \A i \in 1..n : t[i] \in Turns(Int, Noted)
  BY EndOf
<1>2. /\ DOMAIN p = 1..(n - 1)
      /\ \A i \in 1..(n - 1) : /\ p[i].role = t[i].role /\ p[i].calls = t[i].calls
                               /\ p[i].results = t[i].results
  <2>1. CASE n < 2
    <3>1. p = <<>>
      BY <2>1 DEF Prefixed
    <3>2. n - 1 = 0
      <4>1. n \in Nat \ {0} /\ n < 2
        BY <1>1, <2>1
      <4> HIDE DEF n
      <4> QED
        BY <4>1
    <3>3. <<>> \in Seq({}) /\ Len(<<>>) = 0
      BY EmptySeq
    <3>4. DOMAIN <<>> = 1..0
      BY <3>3, LenProperties
    <3>5. DOMAIN p = 1..0
      BY <3>1, <3>4
    <3> HIDE DEF p, n
    <3> QED
      BY <3>2, <3>5
  <2>2. CASE ~(n < 2)
    <3>1. p = [Front(t) EXCEPT ![1].text = full \o Front(t)[1].text]
      BY <2>2 DEF Prefixed
    <3>2. /\ Front(t) \in Seq(Turns(Int, Noted)) /\ Len(Front(t)) = n - 1
          /\ \A i \in 1..(n - 1) : Front(t)[i] = t[i]
      BY FrontOf
    <3>3. DOMAIN Front(t) = 1..(n - 1) /\ 1 \in 1..(n - 1)
      BY <1>1, <2>2, <3>2, LenProperties
    <3> DEFINE s == full \o Front(t)[1].text
               f == Front(t)
    <3> HIDE DEF s, n, p
    <3>4. DOMAIN p = 1..(n - 1)
      BY <3>1, <3>3 DEF s
    <3>5. p[1] = [t[1] EXCEPT !.text = s]
      BY <3>1, <3>2, <3>3 DEF s
    <3>6. t[1] \in Turns(Int, Noted)
      BY <1>1
    <3>7. p[1].role = t[1].role /\ p[1].calls = t[1].calls /\ p[1].results = t[1].results
      BY <3>5, <3>6 DEF Turns
    <3>8. \A i \in 1..(n - 1) : i # 1 => p[i] = t[i]
      BY <3>1, <3>2, <3>3 DEF s
    <3> QED
      BY <3>4, <3>7, <3>8
  <2> QED
    BY <2>1, <2>2
<1> HIDE DEF p
<1>3. h = [i \in 1..(n - 1) |-> HistoryEntry(p[i])]
  BY <1>2 DEF BuildKiroHistory
<1>4. ASSUME NEW i \in 1..(n - 1)
      PROVE  /\ h[i].role = t[i].role
             /\ h[i].uses = IF t[i].role = "assistant" THEN t[i].calls ELSE <<>>
             /\ h[i].results = t[i].results
             /\ h[i].text # <<>>
  <2>1. h[i] = HistoryEntry(p[i])
    BY <1>3
  <2>2. t[i] \in Turns(Int, Noted)
    BY <1>1
  <2>3. t[i].results # <<>> => t[i].role = "user"
    BY <2>2, TurnParts
  <2> HIDE DEF h, n
  <2> QED
    BY <1>2, <2>1, <2>3, NonEmptyText DEF HistoryEntry
<1>5. h = [i \in 1..(n - 1) |-> h[i]]
  <2>1. \A i \in 1..(n - 1) : h[i] = HistoryEntry(p[i])
    BY <1>3
  <2> HIDE DEF h
  <2> QED
    BY <1>3, <2>1, Zenon
<1> QED
  BY <1>4, <1>5 DEF p

(* The system prompt with what is added is a text.                         *)
LEMMA PromptText ==
    ASSUME NEW system \in Texts, NEW which
    PROVE  FullSystemPrompt(system, which) \in Texts
<1>1. {"documentation", "thinking_mode", "truncation"} \subseteq Kinds
  BY DEF Kinds
<1>2. <<Fragment("documentation", 0)>> \in Texts
  BY <1>1, FragmentTexts
<1>3. Fragment("thinking_mode", 0) \in [what : Kinds, id : Int]
      /\ Fragment("truncation", 0) \in [what : Kinds, id : Int]
  BY <1>1 DEF Fragment
<1>4. <<Fragment("thinking_mode", 0), Fragment("truncation", 0)>> \in Texts
  BY <1>3 DEF Texts
<1> QED
  BY <1>2, <1>4, FixedTexts, JoinedTexts DEF FullSystemPrompt

(* The only sequence of nothing.                                           *)
LEMMA NothingInNone == \A s \in Seq({}) : s = <<>>
<1> SUFFICES ASSUME NEW s \in Seq({}), s # <<>> PROVE FALSE
  OBVIOUS
<1>1. Len(s) \in Nat \ {0} /\ \A i \in 1..Len(s) : s[i] \in {}
  BY EndOf
<1>2. 1 \in 1..Len(s)
  BY <1>1
<1> QED
  BY <1>1, <1>2

(* BuildKiroPayload: whatever turns it is given, what it builds can be     *)
(* taken.                                                                  *)
LEMMA PayloadSendable ==
    ASSUME NEW u \in Seq(Turns(Int, Noted)), NEW system \in Texts, NEW which,
           BuildKiroPayload(u, system, which) # NoPayload
    PROVE  Sendable(BuildKiroPayload(u, system, which),
                    u # <<>> /\ Last(u).role = "assistant")
<1> DEFINE t == Merged(u, which)
           n == Len(t)
           last == Last(t)
           full == FullSystemPrompt(system, which)
           p == BuildKiroPayload(u, system, which)
           h == BuildKiroHistory(Prefixed(t, full))
           text == IF Prefixed(t, full) = <<>> THEN full \o last.text ELSE last.text
           continued == last.role = "assistant"
           asked == IF continued \/ text = <<>> THEN Continue ELSE text
           added == [role |-> "assistant", text |-> text, uses |-> <<>>,
                     results |-> <<>>, images |-> <<>>]
           ended == u # <<>> /\ Last(u).role = "assistant"
<1>1. /\ t \in Seq(Turns(Int, Noted)) /\ Follows(t) /\ Turning(t)
      /\ which = "none" => t \in Seq(Turns({}, {}))
      /\ t # <<>> /\ last.role = "assistant" => ended
  BY MergedWellFormed
<1>2. t # <<>>
  BY DEF BuildKiroPayload
<1>3. /\ p.history = h \o (IF continued THEN <<added>> ELSE <<>>)
      /\ p.current.role = "user" /\ p.current.uses = <<>>
      /\ p.current.results = last.results
      /\ p.current.text = IF continued THEN asked
                          ELSE <<Fragment("thinking_tags", 0)>> \o asked
      /\ p.tools = (which # "none")
  BY <1>2 DEF BuildKiroPayload, Prefixed
<1>4. full \in Texts
  BY PromptText
<1> HIDE DEF t, full, p, h
<1>5. /\ n \in Nat \ {0} /\ last = t[n]
      /\ \A i \in 1..n : /\ t[i] \in Turns(Int, Noted)
                         /\ t[i].role = IF i % 2 = 1 THEN "user" ELSE "assistant"
                         /\ t[i].results # <<>> =>
                                /\ t[i].role = "user" /\ i > 1
                                /\ t[i - 1].role = "assistant" /\ t[i - 1].calls # <<>>
  BY <1>1, <1>2, EndOf, TurnParts DEF Turning, Follows
<1>6. /\ h = [i \in 1..(n - 1) |-> h[i]]
      /\ \A i \in 1..(n - 1) :
            /\ h[i].role = t[i].role
            /\ h[i].uses = IF t[i].role = "assistant" THEN t[i].calls ELSE <<>>
            /\ h[i].results = t[i].results
            /\ h[i].text # <<>>
  BY <1>1, <1>2, HistoryMade DEF h
<1>7. which = "none" => \A i \in 1..n : t[i].calls = <<>> /\ t[i].results = <<>>
  <2>1. ASSUME which = "none", NEW i \in 1..n
        PROVE  t[i].calls = <<>> /\ t[i].results = <<>>
    <3>1. t[i] \in Turns({}, {})
      BY <1>1, <2>1, EndOf
    <3> QED
      BY <3>1, TurnParts, NothingInNone
  <2> QED
    BY <2>1
<1> HIDE DEF n, last
<1>8. ASSUME ~continued PROVE Sendable(p, ended)
  <2>1. last.text \in Texts
    BY <1>5, TurnParts
  <2>2. text \in Texts /\ asked \in Texts
    BY <1>4, <2>1, FixedTexts, JoinedTexts
  <2>3. <<Fragment("thinking_tags", 0)>> \in Texts /\ <<Fragment("thinking_tags", 0)>> # <<>>
    <3>1. "thinking_tags" \in Kinds
      BY DEF Kinds
    <3> QED
      BY <3>1, FragmentTexts
  <2>4. p.current.text # <<>>
    <3> HIDE DEF asked, text
    <3> QED
      BY <1>3, <1>8, <2>2, <2>3, JoinedTexts
  <2>5. p.history = h
    <3>1. h \in Seq({h[i] : i \in 1..(n - 1)})
      <4> DEFINE D == {h[i] : i \in 1..(n - 1)}
      <4>1. \A i \in 1..(n - 1) : h[i] \in D
        OBVIOUS
      <4> HIDE DEF D
      <4>2. h \in [1..(n - 1) -> D] /\ n - 1 \in Nat
        BY <1>5, <1>6, <4>1
      <4> QED
        BY <4>2, MappedSeq DEF D
    <3> QED
      BY <1>3, <1>8, <3>1, ConcatEmptySeq
  <2> DEFINE k == n - 1
             x == p.current
             e == EntriesOf(p)
  <2>6. k \in Nat /\ n = k + 1 /\ h = [i \in 1..k |-> h[i]]
    BY <1>5, <1>6
  <2>7. /\ DOMAIN e = 1..(k + 1) /\ Len(e) = k + 1
        /\ \A i \in 1..k : e[i] = h[i]
        /\ e[k + 1] = x
    <3>1. e = h \o <<x>>
      BY <2>5 DEF EntriesOf
    <3> HIDE DEF k, x, e
    <3> QED
      BY <2>6, <3>1, OneMore
  <2>8. ASSUME NEW i \in 1..k
        PROVE  /\ e[i].role = IF i % 2 = 1 THEN "user" ELSE "assistant"
               /\ e[i].results # <<>> => i > 1 /\ e[i - 1].uses # <<>>
               /\ e[i].results # <<>> \/ e[i].uses # <<>> => p.tools
               /\ e[i].text # <<>>
    <3>1. i \in 1..n /\ e[i] = h[i] /\ (i > 1 => i - 1 \in 1..k /\ e[i - 1] = h[i - 1])
      BY <2>6, <2>7
    <3> HIDE DEF k, e, x
    <3>2. i \in 1..(n - 1) /\ (i > 1 => i - 1 \in 1..(n - 1))
      BY <2>6, <3>1
    <3>3. HistoryEntryOf(t, h, i) /\ (i > 1 => HistoryEntryOf(t, h, i - 1))
      BY <1>6, <3>2 DEF HistoryEntryOf
    <3>4. Placed(t, i) /\ (which = "none" => t[i].calls = <<>> /\ t[i].results = <<>>)
      BY <1>5, <1>7, <3>1 DEF Placed
    <3> QED
      BY <1>3, <3>1, <3>3, <3>4 DEF HistoryEntryOf, Placed
  <2>9. /\ e[n].role = IF n % 2 = 1 THEN "user" ELSE "assistant"
        /\ e[n].results # <<>> => n > 1 /\ e[n - 1].uses # <<>>
        /\ e[n].results # <<>> \/ e[n].uses # <<>> => p.tools
        /\ e[n].text # <<>>
    <3>1. e[n] = x /\ n \in 1..n /\ (n > 1 => n - 1 \in 1..(n - 1) /\ e[n - 1] = h[n - 1])
      BY <1>5, <2>6, <2>7
    <3>2. x.role = "user" /\ x.uses = <<>> /\ x.results = last.results /\ x.text # <<>>
      BY <1>3, <2>4
    <3> HIDE DEF k, e, x
    <3>3. n > 1 => HistoryEntryOf(t, h, n - 1)
      BY <1>6, <3>1 DEF HistoryEntryOf
    <3>4. Placed(t, n) /\ (which = "none" => t[n].calls = <<>> /\ t[n].results = <<>>)
      BY <1>5, <1>7, <3>1 DEF Placed
    <3>5. t[n].role = "user"
      BY <1>5, <1>8, <3>4 DEF Placed
    <3> QED
      BY <1>3, <1>5, <3>1, <3>2, <3>3, <3>4, <3>5 DEF HistoryEntryOf, Placed
  <2>10. \A i \in DOMAIN e : i \in 1..k \/ i = n
    BY <2>6, <2>7
  <2>11. \A i \in DOMAIN e :
            /\ e[i].role = IF i % 2 = 1 THEN "user" ELSE "assistant"
            /\ e[i].results # <<>> => i > 1 /\ e[i - 1].uses # <<>>
            /\ e[i].results # <<>> \/ e[i].uses # <<>> => p.tools
            /\ e[i].text # <<>>
    <3> HIDE DEF k, x, e
    <3> QED
      BY <2>8, <2>9, <2>10
  <2> HIDE DEF ended
  <2> QED
    BY <2>11 DEF Sendable
<1>9. ASSUME continued PROVE Sendable(p, ended)
  <2> DEFINE g == h \o <<added>>
             k == n - 1
             x == p.current
             e == EntriesOf(p)
  <2>1. k \in Nat /\ n = k + 1 /\ h = [i \in 1..k |-> h[i]]
    BY <1>5, <1>6
  <2>2. /\ DOMAIN g = 1..(k + 1) /\ Len(g) = k + 1
        /\ \A i \in 1..k : g[i] = h[i]
        /\ g[k + 1] = added
    <3> HIDE DEF k, added
    <3> QED
      BY <2>1, OneMore
  <2>3. g = [i \in 1..(k + 1) |-> g[i]]
    <3> HIDE DEF k, added
    <3> QED
      BY <2>1, OneMore
  <2>4. p.history = g
    BY <1>3, <1>9
  <2>5. /\ DOMAIN e = 1..(k + 2) /\ Len(e) = k + 2
        /\ \A i \in 1..(k + 1) : e[i] = g[i]
        /\ e[k + 2] = x
    <3>1. e = g \o <<x>>
      BY <2>4 DEF EntriesOf
    <3>2. k + 1 \in Nat /\ k + 1 + 1 = k + 2
      BY <2>1
    <3> HIDE DEF k, x, e, g
    <3> QED
      BY <2>3, <3>1, <3>2, OneMore
  <2>6. ASSUME NEW i \in 1..k
        PROVE  /\ e[i].role = IF i % 2 = 1 THEN "user" ELSE "assistant"
               /\ e[i].results # <<>> => i > 1 /\ e[i - 1].uses # <<>>
               /\ e[i].results # <<>> \/ e[i].uses # <<>> => p.tools
               /\ e[i].text # <<>>
    <3>1. /\ i \in 1..n /\ i \in 1..(k + 1)
          /\ i > 1 => i - 1 \in 1..k /\ i - 1 \in 1..(k + 1)
      BY <2>1
    <3>2. e[i] = h[i] /\ (i > 1 => e[i - 1] = h[i - 1])
      BY <2>2, <2>5, <3>1
    <3> HIDE DEF k, e, x
    <3>3. i \in 1..(n - 1) /\ (i > 1 => i - 1 \in 1..(n - 1))
      BY <2>1, <3>1
    <3>4. HistoryEntryOf(t, h, i) /\ (i > 1 => HistoryEntryOf(t, h, i - 1))
      BY <1>6, <3>3 DEF HistoryEntryOf
    <3>5. Placed(t, i) /\ (which = "none" => t[i].calls = <<>> /\ t[i].results = <<>>)
      BY <1>5, <1>7, <3>1 DEF Placed
    <3> QED
      BY <1>3, <3>2, <3>4, <3>5 DEF HistoryEntryOf, Placed
  <2>7. n % 2 # 1 /\ (n + 1) % 2 = 1 /\ last.results = <<>> /\ n > 1
    <3>1. t[n].role = IF n % 2 = 1 THEN "user" ELSE "assistant"
      BY <1>5
    <3>2. n % 2 # 1 /\ last.results = <<>>
      BY <1>5, <1>9, <3>1
    <3>3. n \in Nat
      BY <1>5
    <3> QED
      BY <1>5, <3>2, <3>3, Parity
  <2>8. /\ e[n] = added /\ e[n + 1] = x /\ Len(e) = n + 1
    <3>1. k + 1 \in 1..(k + 1) /\ n = k + 1 /\ n + 1 = k + 2
      BY <2>1
    <3> HIDE DEF k, e, x
    <3> QED
      BY <2>2, <2>5, <3>1
  <2>9. /\ added.role = "assistant" /\ added.results = <<>> /\ added.uses = <<>>
        /\ x.role = "user" /\ x.results = <<>> /\ x.uses = <<>> /\ x.text # <<>>
    BY <1>3, <1>9, <2>7, FixedTexts
  <2>10. ended
    BY <1>1, <1>2, <1>9
  <2>11. \A i \in DOMAIN e : i \in 1..k \/ i = n \/ i = n + 1
    BY <2>1, <2>5
  <2>12. n + 1 - 1 = n
    BY <1>5
  <2>13. \A i \in DOMAIN e :
            /\ e[i].role = IF i % 2 = 1 THEN "user" ELSE "assistant"
            /\ e[i].results # <<>> => i > 1 /\ e[i - 1].uses # <<>>
            /\ e[i].results # <<>> \/ e[i].uses # <<>> => p.tools
            /\ e[i].text # <<>> \/ (ended /\ i = Len(e) - 1)
    <3> HIDE DEF k, x, e, added, ended
    <3> QED
      BY <2>6, <2>7, <2>8, <2>9, <2>10, <2>11, <2>12
  <2> HIDE DEF ended
  <2> QED
    BY <2>13 DEF Sendable
<1>10. Sendable(p, ended)
  BY <1>8, <1>9
<1> HIDE DEF continued
<1> QED
  BY <1>10 DEF p

-----------------------------------------------------------------------------
(* The conversations of a client, and what is remembered of them.          *)
Conversed ==
    /\ format \in {"anthropic", "openai"}
    /\ messages \in Seq(Said(format))
    /\ [text |-> <<>>] \notin store

(* Calls are numbers.                                                      *)
LEMMA CallsNumbered == ASSUME Conversed PROVE CallsSoFar \subseteq Int
<1>1. ASSUME NEW i \in DOMAIN messages
      PROVE  ToSet(messages[i].calls) \subseteq Int
  <2>1. messages[i] \in Said(format)
    BY LenProperties, ElementOfSeq DEF Conversed
  <2>2. messages[i].calls \in Seq(Int)
    BY <2>1, SaidParts
  <2> QED
    BY <2>2, LenProperties DEF ToSet
<1> QED
  BY <1>1 DEF CallsSoFar

(* And so is what the client numbers its texts by.                         *)
LEMMA HereNumbered ==
    ASSUME Conversed, NEW solid
    PROVE  Here \in Int /\ Here + 10 \in Int /\ Text(solid) \in Texts
           /\ (solid => Text(solid) # <<>>)
<1>1. Here \in Int
  BY EndOf DEF Here, Conversed
<1>2. <<Fragment("text", Here)>> \in Texts /\ <<Fragment("text", Here)>> # <<>>
  <2> HIDE DEF Here
  <2>1. "text" \in Kinds
    BY DEF Kinds
  <2> QED
    BY <1>1, <2>1, FragmentTexts
<1> HIDE DEF Here
<1> QED
  BY <1>1, <1>2, FixedTexts DEF Text

(* What the client may add is a message: one of the user,                  *)
LEMMA UserSays == ASSUME Conversed PROVE UserMessages \subseteq Said(format)
<1> DEFINE t == Text(TRUE)
<1>0. t \in Texts /\ Here \in Int
  BY HereNumbered
<1>1. t \in Texts /\ <<>> \in Seq(Int) /\ <<Here>> \in Seq(Int)
      /\ <<>> \in Seq(Noted)
  <2> HIDE DEF t
  <2> QED
    BY <1>0, EmptySeq
<1> HIDE DEF t
<1>2. ASSUME NEW pictures \in Seq(Int)
      PROVE  [Message("user", t) EXCEPT !.images = pictures] \in Said(format)
  BY <1>1 DEF Said, Message, Conversed
<1>3. ASSUME NEW msg \in UserMessages
      PROVE  msg \in Said(format)
  <2>1. PICK pictures \in {<<>>, <<Here>>} :
            msg = [Message("user", t) EXCEPT !.images = pictures]
    BY DEF UserMessages, t
  <2> QED
    BY <1>1, <1>2, <2>1
<1> QED
  BY <1>3

(* of results,                                                             *)
LEMMA AnsweringSays ==
    ASSUME Conversed, NEW r \in Seq(Noted), r # <<>>, NEW solid
    PROVE  Answering(r, solid) \in Said(format)
<1> DEFINE t == Text(solid)
<1>1. <<>> \in Seq(Int) /\ t \in Texts
  BY HereNumbered, EmptySeq
<1> HIDE DEF t
<1>2. [Message(AnswerRole, t) EXCEPT !.results = r, !.plain = FALSE] \in Said(format)
  BY <1>1 DEF AnswerRole, Said, Message, Conversed
<1> QED
  BY <1>2 DEF Answering, t

(* of any of the results that the client may answer,                       *)
LEMMA ResultsSay == ASSUME Conversed PROVE ResultMessages \subseteq Said(format)
<1>1. \A id \in CallsSoFar \cup {0} : Result(id) \in Noted
  <2> SUFFICES ASSUME NEW id \in CallsSoFar \cup {0} PROVE Result(id) \in Noted
    OBVIOUS
  <2>1. id \in Int /\ Here \in Int
    BY CallsNumbered, HereNumbered
  <2> HIDE DEF Here
  <2>2. <<100 * Here + id>> \in Seq(Int)
    BY <2>1
  <2> QED
    BY <2>1, <2>2 DEF Result, Noted
<1>2. ASSUME NEW r \in AnswersSoFar
      PROVE  r \in Seq(Noted) /\ r # <<>>
  <2>1. (\E id \in CallsSoFar \cup {0} : r = <<Result(id)>>)
        \/ (\E a, b \in CallsSoFar : r = <<Result(a), Result(b)>>)
    <3>1. CASE format = "anthropic"
      BY <1>2, <3>1 DEF AnswersSoFar
    <3>2. CASE format # "anthropic"
      BY <1>2, <3>2 DEF AnswersSoFar
    <3> QED
      BY <3>1, <3>2
  <2>2. \A id \in CallsSoFar \cup {0} :
            <<Result(id)>> \in Seq(Noted) /\ <<Result(id)>> # <<>>
    BY <1>1
  <2>3. \A a, b \in CallsSoFar :
            <<Result(a), Result(b)>> \in Seq(Noted) /\ <<Result(a), Result(b)>> # <<>>
    BY <1>1
  <2> QED
    BY <2>1, <2>2, <2>3
<1>3. ASSUME NEW msg \in ResultMessages
      PROVE  msg \in Said(format)
  <2>1. PICK r \in AnswersSoFar, solid \in TextBesides : msg = Answering(r, solid)
    BY <1>3 DEF ResultMessages
  <2> QED
    BY <1>2, <2>1, AnsweringSays
<1> QED
  BY <1>3

(* of the assistant,                                                       *)
LEMMA AssistantSays ==
    ASSUME Conversed
    PROVE  /\ AssistantMessages \subseteq Said(format)
           /\ \A msg \in AssistantMessages : msg.results = <<>>
<1> DEFINE Fits(msg) == msg \in Said(format) /\ msg.results = <<>>
<1>1. ASSUME NEW t \in Texts, NEW c \in Seq(Int), NEW b \in BOOLEAN
      PROVE  /\ Fits(Message("assistant", t))
             /\ Fits([Message("assistant", t) EXCEPT !.plain = b])
             /\ Fits([Message("assistant", t) EXCEPT !.plain = b, !.calls = c])
  BY EmptySeq DEF Said, Message, Conversed
<1>2. /\ <<>> \in Seq(Int) /\ <<Here>> \in Seq(Int) /\ <<Here, Here + 10>> \in Seq(Int)
      /\ \A solid \in BOOLEAN : Text(solid) \in Texts
      /\ <<>> \in Texts
  BY HereNumbered, FixedTexts, EmptySeq
<1> HIDE DEF Fits
<1>3. ASSUME NEW msg \in AssistantMessages
      PROVE  Fits(msg)
  <2>1. CASE \E plain \in BOOLEAN : msg = [Message("assistant", Text(TRUE)) EXCEPT !.plain = plain]
    <3>1. PICK plain \in BOOLEAN : msg = [Message("assistant", Text(TRUE)) EXCEPT !.plain = plain]
      BY <2>1
    <3> QED
      BY <1>1, <1>2, <3>1
  <2>2. CASE msg = Message("assistant", <<>>)
    BY <1>1, <1>2, <2>2
  <2>3. CASE \E solid \in BOOLEAN :
                 msg = [Message("assistant", Text(solid)) EXCEPT
                           !.plain = format = "openai",
                           !.calls = IF solid THEN <<Here>> ELSE <<Here, Here + 10>>]
    <3>1. PICK solid \in BOOLEAN :
                 msg = [Message("assistant", Text(solid)) EXCEPT
                           !.plain = format = "openai",
                           !.calls = IF solid THEN <<Here>> ELSE <<Here, Here + 10>>]
      BY <2>3
    <3> DEFINE b == format = "openai"
               c == IF solid THEN <<Here>> ELSE <<Here, Here + 10>>
               t == Text(solid)
    <3>2. b \in BOOLEAN /\ c \in Seq(Int) /\ t \in Texts
      BY <1>2
    <3>3. msg = [Message("assistant", t) EXCEPT !.plain = b, !.calls = c]
      BY <3>1
    <3> HIDE DEF b, c, t
    <3> QED
      BY <1>1, <3>2, <3>3
  <2> QED
    BY <2>1, <2>2, <2>3 DEF AssistantMessages
<1> QED
  BY <1>3 DEF Fits

(* and any other.                                                          *)
LEMMA OthersSay == ASSUME Conversed PROVE OtherMessages \subseteq Said(format)
<1> DEFINE t == Text(TRUE)
<1>1. t \in Texts
  BY HereNumbered
<1> HIDE DEF t
<1>2. ASSUME NEW role \in {"system", "developer"}, format = "openai"
      PROVE  Message(role, t) \in Said(format)
  BY <1>1, <1>2, EmptySeq DEF Said, Message
<1> QED
  BY <1>2 DEF OtherMessages, t

(* The system prompt is a text.                                            *)
LEMMA PromptSaid == ASSUME Conversed PROVE SystemPrompt(messages) \in Texts
<1>1. CASE format = "openai"
  <2> DEFINE f == [i \in DOMAIN messages |->
                      IF messages[i].role = "system" THEN messages[i].text ELSE <<>>]
             n == Len(messages)
  <2>1. n \in Nat /\ DOMAIN messages = 1..n /\ \A i \in 1..n : messages[i] \in Said(format)
    BY LenProperties, EndOf DEF Conversed
  <2>2. \A i \in 1..n : messages[i].text \in Texts
    BY <2>1, SaidParts
  <2>3. f \in [1..n -> Texts]
    BY <2>1, <2>2, FixedTexts
  <2>4. SystemPrompt(messages) = FlattenSeq(f)
    BY <1>1 DEF SystemPrompt, SystemText
  <2> HIDE DEF f, n
  <2>5. f \in Seq(Texts)
    BY <2>1, <2>3, MappedSeq
  <2> QED
    BY <2>4, <2>5, Flattened DEF Texts
<1>2. CASE format # "openai"
  <2>1. "system" \in Kinds
    BY DEF Kinds
  <2> QED
    BY <1>2, <2>1, FragmentTexts DEF SystemPrompt
<1> QED
  BY <1>1, <1>2

(* The last message but for system messages is the assistant's.            *)
LEMMA AssistantLast ==
    ASSUME Conversed, EndsAssistant(messages, Len(messages))
    PROVE  EndsWithAssistant
<1>1. Len(messages) \in Nat /\ DOMAIN messages = 1..Len(messages)
  BY LenProperties DEF Conversed
<1>2. PICK k \in 1..Len(messages) :
          /\ messages[k].role = "assistant"
          /\ \A j \in (k + 1)..Len(messages) : messages[j].role = "system"
  BY DEF EndsAssistant
<1>3. k \in LastSpoken /\ \A j \in LastSpoken : j \in Int /\ k >= j
  BY <1>1, <1>2 DEF LastSpoken
<1>4. Max(LastSpoken) = k
  <2> HIDE DEF LastSpoken
  <2>1. k \in Int
    BY <1>1
  <2>2. /\ Max(LastSpoken) \in LastSpoken
        /\ \A j \in LastSpoken : Max(LastSpoken) >= j
    BY <1>3 DEF Max
  <2> DEFINE x == Max(LastSpoken)
  <2>3. x \in Int /\ k >= x /\ x >= k
    BY <1>3, <2>2
  <2> HIDE DEF x
  <2>4. x = k
    BY <2>1, <2>3
  <2> QED
    BY <2>4 DEF x
<1> QED
  BY <1>2, <1>3, <1>4 DEF EndsWithAssistant
-----------------------------------------------------------------------------
(* At the start there is no conversation.                                  *)
LEMMA AtStart == DialogueInit => Conversed /\ WellFormed
<1> SUFFICES ASSUME DialogueInit PROVE Conversed /\ WellFormed
  OBVIOUS
<1>1. Conversed
  BY ClientFormatsAssumption, EmptySeq DEF DialogueInit, Conversed
<1>2. ~Built
  BY DEF DialogueInit, Built
<1> QED
  BY <1>1, <1>2 DEF WellFormed, Alternates, ResultsFollowCalls, ContentsNonEmpty

(* A message goes on a conversation.                                       *)
LEMMA SaidOn ==
    ASSUME Conversed, NEW msg \in Said(format), messages' = Append(messages, msg),
           format' = format, [text |-> <<>>] \notin store'
    PROVE  Conversed'
BY Appended DEF Conversed

(* The client's messages keep it one, and nothing is sent.                 *)
LEMMA SayKeeps == Conversed /\ Say => Conversed' /\ ~Built'
<1> SUFFICES ASSUME Conversed, Say PROVE Conversed' /\ ~Built'
  OBVIOUS
<1>1. PICK msg \in UserMessages \cup ResultMessages \cup AssistantMessages \cup OtherMessages :
          messages' = Append(messages, msg)
  BY DEF Say
<1>2. msg \in Said(format)
  BY <1>1, UserSays, ResultsSay, AssistantSays, OthersSay
<1>3. format' = format /\ store' = store /\ payload' = NoPayload
  BY DEF Say
<1>4. Conversed'
  BY <1>1, <1>2, <1>3, SaidOn DEF Conversed
<1> QED
  BY <1>3, <1>4 DEF Built

(* So do answers that are cut off; a notice is about a call or a text that *)
(* is there.                                                               *)
LEMMA CutKeeps == Conversed /\ Cut => Conversed' /\ ~Built'
<1> SUFFICES ASSUME Conversed, Cut PROVE Conversed' /\ ~Built'
  OBVIOUS
<1> DEFINE notice(msg) == IF msg.calls = <<>> THEN TextNotice(msg)
                          ELSE [call |-> Last(msg.calls)]
<1>1. PICK msg \in AssistantMessages :
          /\ HasTools(msg) \/ msg.text # <<>>
          /\ messages' = Append(messages, msg)
          /\ store' = store \cup {notice(msg)}
  BY DEF Cut
<1>2. msg \in Said(format) /\ msg.results = <<>>
  BY AssistantSays
<1>3. format' = format /\ payload' = NoPayload
  BY DEF Cut
<1>4. notice(msg) # [text |-> <<>>]
  <2>1. CASE msg.calls = <<>>
    <3>1. msg.text # <<>>
      BY <1>1, <1>2, <2>1 DEF HasTools
    <3>2. notice(msg) = [text |-> msg.text]
      BY <2>1 DEF TextNotice
    <3>3. [text |-> msg.text].text = msg.text /\ [text |-> <<>>].text = <<>>
      OBVIOUS
    <3> QED
      BY <3>1, <3>2, <3>3
  <2>2. CASE msg.calls # <<>>
    <3>1. notice(msg) = [call |-> Last(msg.calls)]
      BY <2>2
    <3>2. DOMAIN [call |-> Last(msg.calls)] = {"call"} /\ DOMAIN [text |-> <<>>] = {"text"}
      OBVIOUS
    <3> QED
      BY <3>1, <3>2
  <2> QED
    BY <2>1, <2>2
<1>5. [text |-> <<>>] \notin store'
  BY <1>1, <1>4 DEF Conversed
<1>6. Conversed'
  BY <1>1, <1>2, <1>3, <1>5, SaidOn
<1> QED
  BY <1>3, <1>6 DEF Built

(* A request is sent what Kiro can take.                                   *)
LEMMA SendKeeps ==
    Conversed /\ Send => Conversed' /\ (Built' => Sendable(payload', EndsWithAssistant'))
<1> SUFFICES ASSUME Conversed, Send
             PROVE  Conversed' /\ (Built' => Sendable(payload', EndsWithAssistant'))
  OBVIOUS
<1> DEFINE taken == TakeNotices(format, store, messages)
           u == IF format = "openai" THEN FromOpenAI(taken.done) ELSE FromAnthropic(taken.done)
           p == BuildKiroPayload(u, SystemPrompt(messages), tools)
           ended == u # <<>> /\ Last(u).role = "assistant"
<1>1. /\ format' = format /\ messages' = messages /\ store' = taken.store /\ payload' = p
  BY DEF Send
<1>2. /\ format \in {"anthropic", "openai"} /\ [text |-> <<>>] \notin store
      /\ messages \in Seq(Said(format))
  BY DEF Conversed
<1>3. /\ taken.done \in Seq(Said(format)) /\ taken.store \subseteq store
      /\ EndsAssistant(taken.done, Len(taken.done)) => EndsAssistant(messages, Len(messages))
  BY <1>2, NoticesTaken
<1> HIDE DEF taken
<1>4. /\ u \in Seq(Turns(Int, Noted))
      /\ ended => EndsAssistant(taken.done, Len(taken.done))
  BY <1>2, <1>3, UnifiedTurns
<1>5. ended => EndsWithAssistant
  BY <1>3, <1>4, AssistantLast
<1>6. EndsWithAssistant' = EndsWithAssistant
  BY <1>1 DEF EndsWithAssistant, LastSpoken
<1>7. SystemPrompt(messages) \in Texts
  BY PromptSaid
<1> HIDE DEF u
<1>8. p # NoPayload => Sendable(p, ended)
  BY <1>4, <1>7, PayloadSendable
<1> HIDE DEF p, ended
<1>9. p # NoPayload => Sendable(p, EndsWithAssistant)
  BY <1>5, <1>8 DEF Sendable
<1>10. Conversed'
  BY <1>1, <1>2, <1>3 DEF Conversed
<1> QED
  BY <1>1, <1>6, <1>9, <1>10 DEF Built

(* Which is what WellFormed says.                                          *)
LEMMA SentWellFormed ==
    ASSUME Built' => Sendable(payload', EndsWithAssistant')
    PROVE  WellFormed'
BY DEF WellFormed, Alternates, ResultsFollowCalls, ContentsNonEmpty, Sendable, EntriesOf,
       Entries

(* It stays so while nothing changes.                                      *)
LEMMA UnchangedWellFormed ==
    ASSUME WellFormed, UNCHANGED dialogueVars
    PROVE  WellFormed'
BY DEF WellFormed, Alternates, ResultsFollowCalls, ContentsNonEmpty, Entries, Built,
       EndsWithAssistant, LastSpoken, dialogueVars

(* Whatever conversation a client has, and however often it is sent: the   *)
(* payload that build_kiro_payload (converters_core.py) makes of it, if    *)
(* any, has entries of user and assistant in turns, the user first and     *)
(* last; results only after calls, and either only with tools; and no      *)
(* empty content, but for that of an assistant's message at the very end.  *)
THEOREM PayloadsWellFormed == DialogueSpec => []WellFormed
<1> DEFINE Inv == Conversed /\ WellFormed
<1>1. DialogueInit => Inv
  BY AtStart
<1>2. ASSUME Inv, [DialogueNext]_dialogueVars
      PROVE  Inv'
  <2>1. CASE Say
    BY <1>2, <2>1, SayKeeps, SentWellFormed
  <2>2. CASE Cut
    BY <1>2, <2>2, CutKeeps, SentWellFormed
  <2>3. CASE Send
    BY <1>2, <2>3, SendKeeps, SentWellFormed
  <2>4. CASE UNCHANGED dialogueVars
    <3>1. Conversed'
      BY <1>2, <2>4 DEF Conversed, dialogueVars
    <3> QED
      BY <1>2, <2>4, <3>1, UnchangedWellFormed
  <2> QED
    BY <1>2, <2>1, <2>2, <2>3, <2>4 DEF DialogueNext
<1>3. Inv /\ [DialogueNext]_dialogueVars => Inv'
  BY <1>2
<1> HIDE DEF Inv
<1>4. Inv => WellFormed
  BY DEF Inv
<1> QED
  BY <1>1, <1>3, <1>4, PTL DEF DialogueSpec
=============================================================================
