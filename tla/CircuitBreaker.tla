--------------------------- MODULE CircuitBreaker ---------------------------
(***************************************************************************)
(* What the account circuit breaker promises, without how it decides: a    *)
(* circuit that trips stays open for its whole time unless it is reset,    *)
(* then admits requests on probation, and closes by itself only when that  *)
(* probation was passed by enough successes in a row, any failure on       *)
(* probation opening it again.  No failure counting, no event window, no   *)
(* cooldown, no account list.  AccountPool implements this specification.  *)
(***************************************************************************)
EXTENDS Integers

CONSTANT Accounts

VARIABLES
    state,      \* closed, open or half_open
    openFor,    \* of an open circuit: time left before it may be probed
    streak,     \* of a circuit on probation: successes in a row so far
    needed      \* successes in a row that end a probation (a setting)

abstractVars == <<state, openFor, streak, needed>>

CircuitState == {"closed", "open", "half_open"}

Start ==
    /\ state = [a \in Accounts |-> "closed"]
    /\ openFor = [a \in Accounts |-> 0]
    /\ streak = [a \in Accounts |-> 0]
    /\ needed \in Nat \ {0}

(* A failure or an operator opens the circuit, for a positive time.        *)
Trip(a) ==
    /\ state' = [state EXCEPT ![a] = "open"]
    /\ openFor'[a] \in Nat \ {0}
    /\ openFor' = [openFor EXCEPT ![a] = openFor'[a]]
    /\ streak' = [streak EXCEPT ![a] = 0]
    /\ UNCHANGED needed

(* Some circuits whose time has run out go on probation, together.         *)
Probation(S) ==
    /\ \A a \in S : state[a] = "open" /\ openFor[a] <= 0
    /\ state' = [a \in Accounts |-> IF a \in S THEN "half_open" ELSE state[a]]
    /\ openFor' = [a \in Accounts |-> IF a \in S THEN 0 ELSE openFor[a]]
    /\ UNCHANGED <<streak, needed>>

(* A success on probation: one step closer, or the end of the probation.   *)
Pass(a) ==
    /\ state[a] = "half_open"
    /\ IF streak[a] + 1 >= needed
         THEN /\ state' = [state EXCEPT ![a] = "closed"]
              /\ streak' = [streak EXCEPT ![a] = 0]
         ELSE /\ streak' = [streak EXCEPT ![a] = @ + 1]
              /\ UNCHANGED state
    /\ UNCHANGED <<openFor, needed>>

(* The circuits of S are reset: an operator closed them, or their accounts *)
(* left the pool.                                                          *)
Reset(S) ==
    /\ state' = [a \in Accounts |-> IF a \in S THEN "closed" ELSE state[a]]
    /\ openFor' = [a \in Accounts |-> IF a \in S THEN 0 ELSE openFor[a]]
    /\ streak' = [a \in Accounts |-> IF a \in S THEN 0 ELSE streak[a]]
    /\ UNCHANGED needed

(* Time passes for the open circuits.                                      *)
Pace ==
    /\ openFor' = [a \in Accounts |->
           IF state[a] = "open" /\ openFor[a] >= 0 THEN openFor[a] - 1
                                                   ELSE openFor[a]]
    /\ UNCHANGED <<state, streak, needed>>

Retune ==
    /\ needed' \in Nat \ {0}
    /\ UNCHANGED <<state, openFor, streak>>

Evolve ==
    \/ \E a \in Accounts : Trip(a) \/ Pass(a)
    \/ \E S \in SUBSET Accounts : Probation(S) \/ Reset(S)
    \/ Pace
    \/ Retune

Contract == Start /\ [][Evolve]_abstractVars
=============================================================================
