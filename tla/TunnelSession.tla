---------------------------- MODULE TunnelSession ----------------------------
(***************************************************************************)
(* The sessions of a tunnel proxy in kiro-go (config/config.go): the       *)
(* session name put into the tunnel's URL is replaced when enough requests *)
(* in a row were disconnected, at most once per cooldown.  The state of a  *)
(* scope lives in a sync.Map and is read, changed and stored back by every *)
(* request in flight without a lock: each Load and each Store is atomic,   *)
(* a pair of them is not.                                                  *)
(*                                                                         *)
(* One scope; a URL with a {session} placeholder, which is what sessions   *)
(* are for.  Times are kept as the time left.                              *)
(***************************************************************************)
EXTENDS Integers

CONSTANTS
    Users,         \* requests that can use the tunnel at once
    Results,       \* how their upstream calls may end: "ok", "error"
    Threshold,     \* FailureThreshold
    CooldownSec,   \* the least time between two rotations, in ticks
    MaxSessions    \* sessions are only told apart up to this many

ASSUME TunnelAssumption ==
    /\ Results \subseteq {"ok", "error"}
    /\ Threshold \in Nat /\ CooldownSec \in Nat /\ MaxSessions \in Nat

NoSession == 0

(* tunnelRuntimeState.  More failures than the threshold count as that.    *)
States == [Session : 0..MaxSessions, Failures : 0..Threshold,
           CooldownLeft : 0..CooldownSec]
Missing == [Session |-> NoSession, Failures |-> 0, CooldownLeft |-> 0]

VARIABLES
    stored,       \* the scope's entry in tunnelStates
    serial,       \* sessionSerial
    step,         \* where each request is
    loaded,       \* the copy of the entry each request works on
    disconnects   \* failures in a row whose reports overlapped no other store

tunnelVars == <<stored, serial, step, loaded, disconnects>>

-----------------------------------------------------------------------------
(* The entry was stored by another request since this one loaded it.       *)
Overlapped(r) == loaded[r] # stored

(* newTunnelSession counts sessionSerial up, atomically.                   *)
NextSerial == IF serial < MaxSessions THEN serial + 1 ELSE serial

(* ResolveTunnelProxy, when a request builds its client.                   *)
ResolveLoad(r) ==
    /\ step[r] = "idle"
    /\ loaded' = [loaded EXCEPT ![r] = stored]
    /\ step' = [step EXCEPT ![r] =
           IF stored.Session = NoSession THEN "create" ELSE "upstream"]
    /\ UNCHANGED <<stored, serial, disconnects>>

ResolveStore(r) ==
    /\ step[r] = "create"
    /\ serial' = NextSerial
    /\ stored' = [loaded[r] EXCEPT !.Session = NextSerial]
    /\ disconnects' = IF Overlapped(r) THEN 0 ELSE disconnects
    /\ step' = [step EXCEPT ![r] = "upstream"]
    /\ UNCHANGED loaded

(* RecordTunnelResult: getTunnelState, when the upstream call has ended.   *)
RecordLoad(r, result) ==
    /\ step[r] = "upstream"
    /\ loaded' = [loaded EXCEPT ![r] = stored]
    /\ step' = [step EXCEPT ![r] = result]
    /\ UNCHANGED <<stored, serial, disconnects>>

Healthy(st) == [st EXCEPT !.Failures = 0]

RecordOk(r) ==
    /\ step[r] = "ok"
    /\ stored' = Healthy(loaded[r])
    /\ disconnects' = 0
    /\ step' = [step EXCEPT ![r] = "idle"]
    /\ UNCHANGED <<serial, loaded>>

(* Defect: the limit must be exceeded.                                     *)
FailedTooOftenLate(failures) == failures > Threshold

FailedTooOften(failures) == failures >= Threshold

(* Defect: the comparison with the end of the cooldown is turned around.   *)
MayRotateInside(st) == st.CooldownLeft > 0

MayRotate(st) == st.CooldownLeft = 0

Rotates(st) == FailedTooOften(st.Failures + 1) /\ MayRotate(st)

RecordError(r) ==
    LET st == loaded[r]
        failures == IF st.Failures < Threshold THEN st.Failures + 1 ELSE Threshold
    IN /\ step[r] = "error"
       /\ IF Rotates(st)
            THEN /\ serial' = NextSerial
                 /\ stored' = [Session |-> NextSerial, Failures |-> 0,
                               CooldownLeft |-> CooldownSec]
                 /\ disconnects' = 0
            ELSE /\ stored' = [st EXCEPT !.Failures = failures]
                 /\ disconnects' = IF Overlapped(r) THEN 0
                                   ELSE IF disconnects < Threshold
                                   THEN disconnects + 1 ELSE Threshold
                 /\ UNCHANGED serial
       /\ step' = [step EXCEPT ![r] = "idle"]
       /\ UNCHANGED loaded

(* A tick, for the stored deadline and for the copies of it.               *)
Tick ==
    LET Sooner(st) == [st EXCEPT !.CooldownLeft = IF @ > 0 THEN @ - 1 ELSE 0]
    IN /\ stored' = Sooner(stored)
       /\ loaded' = [r \in Users |-> Sooner(loaded[r])]
       /\ UNCHANGED <<serial, step, disconnects>>

-----------------------------------------------------------------------------
TunnelInit ==
    /\ stored = Missing
    /\ serial = 0
    /\ step = [r \in Users |-> "idle"]
    /\ loaded = [r \in Users |-> Missing]
    /\ disconnects = 0

Proceed(r) ==
    \/ ResolveLoad(r) \/ ResolveStore(r)
    \/ \E result \in Results : RecordLoad(r, result)
    \/ RecordOk(r) \/ RecordError(r)

TunnelNext == Tick \/ \E r \in Users : Proceed(r)

TunnelSpec == TunnelInit /\ [][TunnelNext]_tunnelVars

(* Requests keep coming, their calls end (the clients have timeouts), and  *)
(* time passes.                                                            *)
FairTunnelSpec ==
    /\ TunnelSpec
    /\ WF_tunnelVars(Tick)
    /\ \A r \in Users : WF_tunnelVars(Proceed(r))

-----------------------------------------------------------------------------
(* Properties                                                              *)

TunnelTypeOK ==
    /\ stored \in States
    /\ serial \in 0..MaxSessions
    /\ step \in [Users -> {"idle", "create", "upstream", "ok", "error"}]
    /\ loaded \in [Users -> States]
    /\ disconnects \in 0..Threshold

Recording(r) == step[r] \in {"ok", "error"} /\ step'[r] = "idle"

(* "When the URL has a {session} placeholder and enough disconnects        *)
(* happen, a new session is generated" (config.go:738): of the failures    *)
(* that are reported without overlapping, with stale stores in between,    *)
(* the one that makes the threshold, out of a cooldown, rotates it; and a  *)
(* report that overlaps no other neither shortens nor renews a cooldown    *)
(* that runs (config.go:758).                                              *)
RotationDue ==
    [][\A r \in Users :
          Recording(r) /\ ~Overlapped(r) =>
              IF stored.CooldownLeft > 0
              THEN stored'.CooldownLeft = stored.CooldownLeft
              ELSE step[r] = "error" /\ disconnects + 1 >= Threshold
                       => stored'.CooldownLeft = CooldownSec]_tunnelVars

(* A tunnel whose requests all fail from some time on gets new sessions    *)
(* for ever, however many of their reports are lost to each other's stores *)
(* (config.go:748).                                                        *)
RotatesForEver ==
    <>[](\A r \in Users : step[r] # "ok") =>
        []<>(stored.CooldownLeft = CooldownSec)
=============================================================================
