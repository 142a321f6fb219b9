------------------------------ MODULE AuthPool ------------------------------
(***************************************************************************)
(* kiro/auth_pool.py and the routes that use it: each request picks an     *)
(* account, is sent (module HttpRetries, here one wait), and tells the     *)
(* pool how that went.  Requests interleave while they wait; the pool is   *)
(* shared.  Between a wait and the next the code runs in one piece.        *)
(***************************************************************************)
EXTENDS Integers, FiniteSets

CONSTANTS
    Requests,                       \* requests at a time
    Slots,                          \* the accounts, in order
    QuotaCooldown, ErrorCooldown,   \* an hour and a minute
    MaxClock,                       \* bound: ticks
    MaxErrors                       \* bound: errors of an account in a row

ASSUME RequestsAssumption == IsFiniteSet(Requests)
ASSUME SlotsAssumption == Slots # {} /\ Slots \subseteq Nat \ {0}
ASSUME CooldownsAssumption == QuotaCooldown \in Nat /\ ErrorCooldown \in Nat
ASSUME BoundsAssumption == MaxClock \in Nat /\ MaxErrors \in Nat

VARIABLES
    formats,        \* the routes this gateway's clients use: a constant
    cooldowns, errors,
    clock,
    req,            \* for each request [format, slot]; Idle when there is none
    rests,          \* history: until when an account is out of quota
    failed          \* history: the account a request has just got a 402, 429
                    \* or 5xx with

vars == <<formats, cooldowns, errors, clock, req, rests, failed>>

Formats == {"anthropic", "openai"}
NoSlot == 0
Idle == [format |-> "none", slot |-> NoSlot]

Init ==
    /\ formats \in SUBSET Formats
    /\ cooldowns = [s \in Slots |-> 0] /\ errors = [s \in Slots |-> 0]
    /\ clock = 0
    /\ req = [r \in Requests |-> Idle]
    /\ rests = [s \in Slots |-> 0]
    /\ failed = NoSlot
-----------------------------------------------------------------------------
InFlight(s) == {r \in Requests : req[r].slot = s}

(* pick: one that is available, at random, or else the first to recover.   *)
Available == {s \in Slots : cooldowns[s] <= clock}
Earliest ==
    {s \in Slots : \A t \in Slots : \/ cooldowns[s] < cooldowns[t]
                                    \/ cooldowns[s] = cooldowns[t] /\ s <= t}
Pickable == IF Available # {} THEN Available ELSE Earliest

(* Defect: a success ends the cooldown but does not clear the errors.      *)
RecordSuccessOnce(s) ==
    /\ cooldowns' = [cooldowns EXCEPT ![s] = 0]
    /\ UNCHANGED errors

RecordSuccess(s) ==
    /\ errors' = [errors EXCEPT ![s] = 0]
    /\ cooldowns' = [cooldowns EXCEPT ![s] = 0]

(* Defect: the third error is looked at before the kind of error.          *)
CooldownAfterThird(s, status) ==
    IF status >= 500 \/ errors[s] + 1 >= 3 THEN clock + ErrorCooldown
    ELSE IF status \in {402, 429} THEN clock + QuotaCooldown
    ELSE cooldowns[s]

CooldownAfter(s, status) ==
    IF status \in {402, 429} THEN clock + QuotaCooldown
    ELSE IF status >= 500 \/ errors[s] + 1 >= 3 THEN clock + ErrorCooldown
    ELSE cooldowns[s]

RecordError(s, status) ==
    /\ errors' = [errors EXCEPT ![s] = @ + 1]
    /\ cooldowns' = [cooldowns EXCEPT ![s] = CooldownAfter(s, status)]

(* A request comes.  The Anthropic route records a success right away.     *)
Arrive(r, format, s) ==
    /\ req[r] = Idle
    /\ req' = [req EXCEPT ![r] = [format |-> format, slot |-> s]]
    /\ IF format = "anthropic" THEN RecordSuccess(s) ELSE UNCHANGED <<cooldowns, errors>>
    /\ rests' = IF s \in Available THEN rests ELSE [rests EXCEPT ![s] = 0]
    /\ failed' = NoSlot
    /\ UNCHANGED <<formats, clock>>

End(r) ==
    /\ req[r] # Idle
    /\ req' = [req EXCEPT ![r] = Idle]
    /\ UNCHANGED <<formats, clock>>

(* 200: the OpenAI route records the success now.                          *)
Accepted(r) ==
    /\ End(r)
    /\ IF req[r].format = "openai" THEN RecordSuccess(req[r].slot)
                                   ELSE UNCHANGED <<cooldowns, errors>>
    /\ failed' = NoSlot
    /\ UNCHANGED rests

(* A status that request_with_retry returns: it is neither 403, 429 nor    *)
(* 5xx.                                                                    *)
Rejected(r, status) ==
    LET s == req[r].slot IN
    /\ End(r)
    /\ errors[s] < MaxErrors
    /\ RecordError(s, status)
    /\ rests' = IF status # 402 THEN rests
                ELSE [rests EXCEPT ![s] = IF InFlight(s) = {r} THEN clock + QuotaCooldown ELSE 0]
    /\ failed' = IF status = 402 THEN s ELSE NoSlot

(* 403, 429, 5xx or nothing at all to the last attempt: an exception,      *)
(* which the routes answer without a word to the pool.                     *)
GivenUp(r, busy) ==
    /\ End(r)
    /\ failed' = IF busy THEN req[r].slot ELSE NoSlot
    /\ UNCHANGED <<cooldowns, errors, rests>>

Tick ==
    /\ clock < MaxClock
    /\ clock' = clock + 1
    /\ failed' = NoSlot
    /\ UNCHANGED <<formats, cooldowns, errors, req, rests>>

Next ==
    \/ \E r \in Requests, format \in formats, s \in Pickable : Arrive(r, format, s)
    \/ \E r \in Requests : Accepted(r)
    \/ \E r \in Requests, busy \in BOOLEAN : GivenUp(r, busy)
    \/ \E r \in Requests, status \in {400, 402} : Rejected(r, status)
    \/ Tick

Spec == Init /\ [][Next]_vars
-----------------------------------------------------------------------------
TypeOK ==
    /\ formats \subseteq Formats
    /\ cooldowns \in [Slots -> Nat] /\ errors \in [Slots -> Nat]
    /\ clock \in Nat
    /\ req \in [Requests -> {Idle} \cup [format : Formats, slot : Slots]]
    /\ rests \in [Slots -> Nat]
    /\ failed \in Slots \cup {NoSlot}

(* An account found out of quota rests for an hour: no request uses it,    *)
(* and nothing shortens its cooldown, unless a request for it was under    *)
(* way already, or no other account was left.                              *)
QuotaRests ==
    \A s \in Slots : rests[s] > clock => cooldowns[s] >= rests[s] /\ InFlight(s) = {}

(* Anthropic requests forgive an account its errors by being sent, not by  *)
(* being accepted: the three strikes that retire it for a minute take as   *)
(* many requests under way at once.                                        *)
StrikesNeedOverlap ==
    formats = {"anthropic"} =>
        \A s \in Slots : errors[s] + Cardinality(InFlight(s)) <= Cardinality(Requests)

(* "requests can randomly select accounts and fail over on 402/429/5xx"    *)
(* (main.py:357): an account whose request has failed so is in cooldown,   *)
(* and the next request goes to another.                                   *)
FailsOver == failed # NoSlot => cooldowns[failed] > clock
=============================================================================
