--------------------------- MODULE GatewayFailover ---------------------------
(***************************************************************************)
(* kiro-go in front of kiro-gateway (proxy/handler.go, proxyWithFailover): *)
(* a client request is sent to the gateway with the refresh token of one   *)
(* account after another until one answers it, up to a number of attempts, *)
(* and a model name the gateway rejects is replaced for two minutes by the *)
(* fallback model.  Requests run concurrently and share the running scores *)
(* of the account selection, the rejected models and the pool's breaker.   *)
(*                                                                         *)
(* The pool is taken at its contract, CircuitBreaker, which AccountPool    *)
(* implements: RecordError of a quota error trips the circuit, of another  *)
(* error trips it or not, and no request of this mode records a success.   *)
(***************************************************************************)
EXTENDS FiniteSets, SmoothWeighted, CircuitBreaker

CONSTANTS
    Requests,       \* client requests that can be in flight at once
    Models,         \* model names clients ask for
    FallbackModel,  \* gatewayModelFallbackID, claude-sonnet-4.5
    NoModel,        \* the model of a JSON body that names none
    NoBody,         \* the model of a request without a body (a GET)
    Weight,         \* Weight[a]: the configured weight of account a
    PostAttempts,   \* attempts for a request with a body (4 in the code)
    GetAttempts,    \* attempts for a GET (2 in the code)
    FallbackTime,   \* gatewayModelFallbackCooldown, in ticks
    OpenTime,       \* the time a circuit opens for, in ticks
    BreakerEnabled  \* whether errors open circuits (a setting)

Asked == Models \cup {FallbackModel, NoModel, NoBody}
Outcomes == {"ok", "quota", "fault", "refused", "invalid_model"}
Failing == {"quota", "fault"}    \* 402 or 429; 5xx
NotRejected == -1                \* no entry in modelFallbacks

ASSUME FailoverAssumption ==
    /\ Accounts \subseteq Nat /\ IsFiniteSet(Accounts)
    /\ Weight \in [Accounts -> Int]
    /\ PostAttempts \in Nat \ {0} /\ GetAttempts \in Nat \ {0}
    /\ FallbackTime \in Nat /\ OpenTime \in Nat \ {0}
    /\ BreakerEnabled \in BOOLEAN
    /\ {FallbackModel, NoModel, NoBody} \cap Models = {}
    /\ FallbackModel # NoModel /\ FallbackModel # NoBody /\ NoModel # NoBody

VARIABLES
    eligible,       \* accounts of the pool, enabled, with a refresh token
    gatewayWeights, \* h.gatewayWeights; a missing entry reads as 0
    rejected,       \* h.modelFallbacks, as time left
    request         \* where each call of proxyWithFailover is

failoverVars == <<eligible, gatewayWeights, rejected, request, abstractVars>>

(* The call's local variables: the model asked for and the one to send,    *)
(* the accounts tried, and account, model and outcome of the last attempt. *)
NotServed ==
    [phase |-> "idle", model |-> NoBody, active |-> NoBody, tried |-> {},
     account |-> 0, sent |-> NoBody, last |-> "none"]

-----------------------------------------------------------------------------
(* Models                                                                  *)

(* markGatewayModelFallback ignores the fallback itself and no name.       *)
Marked(model) ==
    IF model \in Models THEN [rejected EXCEPT ![model] = FallbackTime]
                        ELSE rejected

(* rewriteRequestModel succeeds on a JSON body that names another model.   *)
Rewritable(model) == model \notin {FallbackModel, NoBody}

(* Defect: the rejection of the fallback model marks the model again.      *)
FallsBackAlways(r) == TRUE

(* The loop reacts to a rejected name only while it is the client's own.   *)
FallsBack(r) == request[r].active = request[r].model

MaxAttempts(model) == IF model = NoBody THEN GetAttempts ELSE PostAttempts

-----------------------------------------------------------------------------
(* One request                                                             *)

(* gatewayModelForRequest: the fallback while the name is marked.          *)
Arrive(r, model) ==
    /\ request[r].phase = "idle"
    /\ request' = [request EXCEPT ![r] =
           [NotServed EXCEPT !.phase = "select", !.model = model,
              !.active = IF model \in Models /\ rejected[model] # NotRejected
                         THEN FallbackModel ELSE model]]
    /\ UNCHANGED <<eligible, gatewayWeights, rejected, abstractVars>>

(* Defect: accounts are marked as tried for all requests together.         *)
CandidatesShared(r) == eligible \ UNION {request[q].tried : q \in Requests}

Candidates(r) == eligible \ request[r].tried

(* Defect: only the winner's score outlives the pick.                      *)
KeptWinnerOnly(score, a, candidates) ==
    [b \in Accounts |-> IF b = a THEN score[b] ELSE 0]

(* pickSmoothWeightedGateway drops the scores of all that are no candidate *)
(* in this very pick, the accounts this request has tried among them.      *)
Kept(score, a, candidates) ==
    [b \in Accounts |-> IF b \in candidates THEN score[b] ELSE 0]

Send(r) ==
    LET candidates == Candidates(r)
        credited == Credited(gatewayWeights, Weight, candidates)
    IN /\ request[r].phase = "select"
       /\ \E a \in candidates :
            /\ Wins(a, credited, candidates)
            /\ gatewayWeights' =
                   Kept(Charged(a, credited, Weight, candidates), a, candidates)
            /\ request' = [request EXCEPT ![r] =
                   [@ EXCEPT !.phase = "upstream", !.sent = request[r].active,
                             !.account = a, !.tried = request[r].tried \cup {a}]]
       /\ UNCHANGED <<eligible, rejected, abstractVars>>

(* No account is left: the last answer is passed on, or a 503.             *)
NoneLeft(r) ==
    /\ request[r].phase = "select"
    /\ Candidates(r) = {}
    /\ request' = [request EXCEPT ![r].phase = "done"]
    /\ UNCHANGED <<eligible, gatewayWeights, rejected, abstractVars>>

Tripped(a) ==
    /\ openFor' = [openFor EXCEPT ![a] = OpenTime]
    /\ Trip(a)

FailsOver(outcome) == outcome \in Failing

(* The gateway answers.  The attempt after this one needs a free attempt.  *)
Answer(r, outcome) ==
    LET q == request[r]
        fallsBack == outcome = "invalid_model" /\ FallsBack(r)
        rewrites == fallsBack /\ Rewritable(q.model)
        again == /\ rewrites \/ FailsOver(outcome)
                 /\ Cardinality(q.tried) < MaxAttempts(q.model)
    IN /\ q.phase = "upstream"
       /\ rejected' = IF fallsBack THEN Marked(q.model) ELSE rejected
       /\ request' = [request EXCEPT ![r] =
              [q EXCEPT !.phase = IF again THEN "select" ELSE "done",
                        !.active = IF rewrites THEN FallbackModel ELSE @,
                        !.last = outcome]]
       /\ \/ FailsOver(outcome) /\ BreakerEnabled /\ Tripped(q.account)
          \/ ~(outcome = "quota" /\ BreakerEnabled) /\ UNCHANGED abstractVars
       /\ UNCHANGED <<eligible, gatewayWeights>>

(* The answer is written and the call returns.                             *)
Return(r) ==
    /\ request[r].phase = "done"
    /\ request' = [request EXCEPT ![r] = NotServed]
    /\ UNCHANGED <<eligible, gatewayWeights, rejected, abstractVars>>

-----------------------------------------------------------------------------
(* Everything else                                                         *)

(* The administrator enables or disables an account, the pool reloads.     *)
Reload(a) ==
    /\ eligible' = IF a \in eligible THEN eligible \ {a} ELSE eligible \cup {a}
    /\ IF a \in eligible THEN Reset({a}) ELSE UNCHANGED abstractVars
    /\ UNCHANGED <<gatewayWeights, rejected, request>>

ForceOpenCircuit(a) ==
    /\ Tripped(a)
    /\ UNCHANGED <<eligible, gatewayWeights, rejected, request>>

CloseCircuit(a) ==
    /\ Reset({a})
    /\ UNCHANGED <<eligible, gatewayWeights, rejected, request>>

(* The admin page puts circuits on probation whose time has run out.       *)
BreakerSnapshot ==
    /\ Probation({a \in Accounts : state[a] = "open" /\ openFor[a] < 0})
    /\ UNCHANGED <<eligible, gatewayWeights, rejected, request>>

(* A mark is dropped by the first request strictly after its time: from    *)
(* then on nothing can tell it from no mark.                               *)
Expires(left) == IF left = NotRejected THEN NotRejected ELSE left - 1

Tick ==
    /\ rejected' = [m \in Models |-> Expires(rejected[m])]
    /\ Pace
    /\ UNCHANGED <<eligible, gatewayWeights, request>>

-----------------------------------------------------------------------------
Init ==
    /\ eligible \in SUBSET Accounts
    /\ gatewayWeights = [a \in Accounts |-> 0]
    /\ rejected = [m \in Models |-> NotRejected]
    /\ request = [r \in Requests |-> NotServed]
    /\ needed = 1  \* no success is ever recorded: any number will do
    /\ Start

Proceed(r) ==
    \/ Send(r)
    \/ NoneLeft(r)
    \/ \E outcome \in Outcomes : Answer(r, outcome)
    \/ Return(r)

RequestStep ==
    \E r \in Requests : Proceed(r) \/ \E model \in Asked : Arrive(r, model)

Next ==
    \/ RequestStep
    \/ \E a \in Accounts : Reload(a) \/ ForceOpenCircuit(a) \/ CloseCircuit(a)
    \/ BreakerSnapshot
    \/ Tick

Spec == Init /\ [][Next]_failoverVars

(* Clients keep asking, the gateway answers or its client gives up (an     *)
(* error of the reverse proxy is a 502), and time passes.                  *)
Fairness ==
    /\ \A r \in Requests :
          /\ WF_failoverVars(Proceed(r))
          /\ WF_failoverVars(\E model \in Asked : Arrive(r, model))
    /\ WF_failoverVars(Tick)

FairSpec == Spec /\ Fairness

-----------------------------------------------------------------------------
(* Properties                                                              *)

Calls ==
    [phase : {"idle", "select", "upstream", "done"}, model : Asked,
     active : Asked, tried : SUBSET Accounts, account : Accounts \cup {0},
     sent : Asked, last : Outcomes \cup {"none"}]

CallsTypeOK ==
    /\ eligible \in SUBSET Accounts
    /\ rejected \in [Models -> (0..FallbackTime) \cup {NotRejected}]
    /\ request \in [Requests -> Calls]

TypeOK == CallsTypeOK /\ gatewayWeights \in [Accounts -> Int]

(* A client gets an account's failure (402, 429, 5xx) or "no available     *)
(* account" only after its attempts are used up or every account that      *)
(* could serve it now has been tried for it, whatever other requests do.   *)
FailsExhausted ==
    \A r \in DOMAIN request :
        LET q == request'[r]
        IN /\ request[r].phase # "done" /\ q.phase = "done"
           /\ q.last \in Failing \cup {"none"}
           => \/ Cardinality(q.tried) = MaxAttempts(q.model)
              \/ eligible \subseteq q.tried

FailsOnlyExhausted == [][FailsExhausted]_failoverVars

(* "After a cooldown of 2 minutes the original target model is tried again *)
(* automatically": a mark expires, although requests that were sent with   *)
(* the model before it was marked renew it when their rejections arrive.   *)
ModelTriedAgain ==
    \A m \in Models : rejected[m] # NotRejected ~> rejected[m] = NotRejected

(* No account that stays in the pool is passed over for ever, although     *)
(* every failover drops the scores of the accounts it has tried.           *)
NoAccountStarved ==
    \A a \in Accounts :
        <>[](a \in eligible) =>
            []<>(\E r \in Requests : request[r].account = a)

=============================================================================
