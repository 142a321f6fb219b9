---------------------------- MODULE ProxyProofs ----------------------------
(***************************************************************************)
(* Theorems about the proxies that kiro-go reaches its upstreams through.  *)
(* ClashRepair, for any number of admin calls, requests, jumps and         *)
(* versions of the subscription: its types, and that what overlapping      *)
(* calls leave behind is set right by the next change of the jump that     *)
(* runs alone, and stays right until calls overlap again.  TunnelSession,  *)
(* for any number of requests, thresholds, cooldowns and sessions: a       *)
(* rotation comes when it is due and not within a cooldown, although the   *)
(* reports of requests overwrite each other.                               *)
(***************************************************************************)
EXTENDS ClashRepair, TunnelSession, TLAPS

-----------------------------------------------------------------------------
(* Overlapping changes of the Clash manager                                *)

SetsJump == {"outbound", "dns"}

(* Which steps each operation goes through.                                *)
StepsOf == [none     |-> {"idle"},
            load     |-> {"fetch", "commit", "push", "invalidate", "write"},
            clear    |-> {"commit", "push", "invalidate", "remove"},
            outbound |-> {"jump", "reparse", "commit", "push", "invalidate",
                          "flush", "save"},
            dns      |-> {"jump", "reparse", "commit", "push", "invalidate",
                          "flush"}]

InStep ==
    \A p \in Admins : /\ admin[p].step \in StepsOf[admin[p].op]
                      /\ admin[p].op = "none" => admin[p] = NoCall

(* Nodes stamped with the jump now in use.                                 *)
Fits(n) == n.chained = (jump # NoJump)

(* What a call that runs alone has done so far: it has installed its jump, *)
(* parsed the nodes with the jump in use, committed and pushed them.       *)
DoneSoFar(c) ==
    /\ c.op \in SetsJump /\ c.step # "jump" => jump = c.arg
    /\ c.op = "clear" \/ c.step \in {"fetch", "jump", "reparse"} => c.parsed = NoNodes
    /\ c.op # "clear" /\ c.step \in {"commit", "push", "invalidate", "write"} =>
           c.parsed # NoNodes
    /\ c.parsed # NoNodes => Fits(c.parsed)
    /\ c.step = "push" => nodes = c.parsed /\ c.copied = jump
    /\ c.step \in {"invalidate", "write", "remove"} =>
           nodes = c.parsed /\ registry.jump = jump
    /\ c.step \in {"flush", "save"} =>
           IF c.parsed = NoNodes THEN disk = 0
           ELSE nodes = c.parsed /\ registry.jump = jump

(* What is right while the call c, or none, runs alone after everything    *)
(* has been set right.                                                     *)
RightBut(c) ==
    /\ c.op = "dns" => c.arg = savedJump
    /\ c.op # "outbound" \/ c.step = "jump" => jump = savedJump
    /\ c.op \notin SetsJump \/ c.step \notin {"reparse", "commit"} =>
           (disk # 0 /\ nodes.version # 0 => Fits(nodes))
    /\ c.step # "push" => (nodes.chained => registry.jump # NoJump)

HistoryCoherent ==
    /\ overlapped \in BOOLEAN /\ settled \in BOOLEAN
    /\ overlapped => Busy # {}
    /\ ~overlapped => ~Several
    /\ settled => ~overlapped

AloneDone == ~overlapped => \A p \in Busy : DoneSoFar(admin[p])

StaysRight ==
    settled => /\ Busy = {} => RightBut(NoCall)
               /\ \A p \in Busy : RightBut(admin[p])

RepairInv ==
    /\ TypeOK
    /\ InStep
    /\ HistoryCoherent
    /\ AloneDone
    /\ StaysRight
-----------------------------------------------------------------------------
(* Types                                                                   *)

LEMMA LiteralTypes ==
    /\ NoNodes \in Nodes /\ NoCall \in Calls
    /\ NoLookup \in Lookups /\ [nodes |-> NoNodes, jump |-> NoJump] \in Registered
    /\ NoCall.op = "none" /\ NoCall.step = "idle" /\ NoCall.parsed = NoNodes
<1>1. NoNodes \in Nodes
  BY ClashAssumption DEF NoNodes, Nodes
<1> QED
  BY <1>1 DEF NoCall, Calls, NoLookup, Lookups, Registered

(* A call is replaced, and no other.                                       *)
LEMMA CallReplaced ==
    ASSUME NEW p \in Admins, NEW c \in Calls, admin \in [Admins -> Calls],
           admin' = [admin EXCEPT ![p] = c]
    PROVE  /\ admin' \in [Admins -> Calls] /\ admin'[p] = c
           /\ \A q \in Admins \ {p} : admin'[q] = admin[q]
OBVIOUS

LEMMA ParsedType ==
    ASSUME TypeOK, NEW version \in 0..MaxVersions
    PROVE  /\ Parsed(version) \in Nodes /\ Parsed(version).version = version
           /\ Parsed(version).chained = (jump # NoJump)
BY DEF Parsed, Nodes

(* What a call on its way becomes.                                         *)
LEMMA StartType ==
    ASSUME TypeOK, NEW p \in Admins,
           NEW op \in {"load", "clear", "outbound", "dns"},
           NEW at \in {"fetch", "commit", "jump"}, NEW arg \in Jumps \cup {NoJump},
           Call(p, op, at, arg)
    PROVE  /\ admin' \in [Admins -> Calls]
           /\ admin'[p].op = op /\ admin'[p].step = at /\ admin'[p].arg = arg
           /\ admin'[p].parsed = NoNodes
           /\ \A q \in Admins \ {p} : admin'[q] = admin[q]
<1> DEFINE c == [NoCall EXCEPT !.op = op, !.step = at, !.arg = arg]
<1>1. /\ c \in Calls /\ c.op = op /\ c.step = at /\ c.arg = arg
      /\ c.parsed = NoNodes
  BY LiteralTypes DEF Calls, NoCall
<1>2. admin' = [admin EXCEPT ![p] = c]
  BY DEF Call
<1> HIDE DEF c
<1>3. /\ admin' \in [Admins -> Calls] /\ admin'[p] = c
      /\ \A q \in Admins \ {p} : admin'[q] = admin[q]
  BY <1>1, <1>2, CallReplaced DEF TypeOK
<1> QED
  BY <1>1, <1>3

LEMMA GotoType ==
    ASSUME TypeOK, NEW p \in Admins,
           NEW at \in {"reparse", "invalidate", "write", "remove", "flush", "save"},
           Goto(p, at)
    PROVE  /\ admin' \in [Admins -> Calls]
           /\ admin'[p].op = admin[p].op /\ admin'[p].step = at
           /\ admin'[p].arg = admin[p].arg /\ admin'[p].parsed = admin[p].parsed
           /\ admin'[p].copied = admin[p].copied
           /\ \A q \in Admins \ {p} : admin'[q] = admin[q]
<1> DEFINE c == [admin[p] EXCEPT !.step = at]
<1>1. /\ c \in Calls /\ c.step = at /\ c.op = admin[p].op
      /\ c.arg = admin[p].arg /\ c.parsed = admin[p].parsed
      /\ c.copied = admin[p].copied
  BY DEF TypeOK, Calls
<1>2. admin' = [admin EXCEPT ![p] = c]
  BY DEF Goto
<1> HIDE DEF c
<1>3. /\ admin' \in [Admins -> Calls] /\ admin'[p] = c
      /\ \A q \in Admins \ {p} : admin'[q] = admin[q]
  BY <1>1, <1>2, CallReplaced DEF TypeOK
<1> QED
  BY <1>1, <1>3

LEMMA InitTypeOK == Init => TypeOK
<1> SUFFICES ASSUME Init PROVE TypeOK
  OBVIOUS
<1>1. admin \in [Admins -> Calls]
  BY LiteralTypes DEF Init
<1>2. caller \in [Callers -> Lookups]
  BY LiteralTypes DEF Init
<1>3. /\ nodes \in Nodes /\ registry \in Registered
      /\ clients \in SUBSET Clients /\ generation \in Nat
  BY LiteralTypes DEF Init
<1>4. disk \in 0..MaxVersions
  BY ClashAssumption DEF Init
<1> QED
  BY <1>1, <1>2, <1>3, <1>4 DEF Init, TypeOK

LEMMA CallTypeOK ==
    ASSUME TypeOK, NEW p \in Admins, AdminCall(p)
    PROVE  TypeOK'
<1>1. ASSUME NEW url \in BOOLEAN, UpdateClash(p, url)
      PROVE  TypeOK'
  <2>1. CASE url
    BY <1>1, <2>1, StartType DEF UpdateClash, TypeOK
  <2>2. CASE ~url
    BY <1>1, <2>2, StartType DEF UpdateClash, TypeOK
  <2> QED
    BY <2>1, <2>2
<1>2. CASE RefreshClash(p)
  BY <1>2, StartType DEF RefreshClash, TypeOK
<1>3. ASSUME NEW j \in Jumps \cup {NoJump}, UpdateOutbound(p, j)
      PROVE  TypeOK'
  BY <1>3, StartType DEF UpdateOutbound, TypeOK
<1>4. CASE UpdateDNS(p)
  BY <1>4, StartType DEF UpdateDNS, TypeOK
<1> QED
  BY <1>1, <1>2, <1>3, <1>4 DEF AdminCall

LEMMA StepTypeOK ==
    ASSUME TypeOK, NEW p \in Admins, AdminStep(p)
    PROVE  TypeOK'
<1>1. ASSUME NEW version \in Versions, Fetch(p, version)
      PROVE  TypeOK'
  <2>1. [admin[p] EXCEPT !.step = "commit", !.parsed = Parsed(version)] \in Calls
    <3>1. Parsed(version) \in Nodes
      BY ParsedType, ClashAssumption DEF Versions
    <3> QED
      BY <3>1 DEF TypeOK, Calls
  <2> QED
    BY <1>1, <2>1, CallReplaced DEF Fetch, TypeOK
<1>2. CASE FetchFails(p)
  BY <1>2, LiteralTypes, CallReplaced DEF FetchFails, TypeOK
<1>3. CASE InstallJump(p)
  <2>1. admin[p].arg \in Jumps \cup {NoJump}
    BY DEF TypeOK, Calls
  <2>2. admin' \in [Admins -> Calls]
    BY <1>3, GotoType DEF InstallJump
  <2> QED
    BY <1>3, <2>1, <2>2 DEF InstallJump, TypeOK
<1>4. CASE Reparse(p)
  <2>1. CASE disk = 0
    <3>1. [admin[p] EXCEPT !.step = "flush"] \in Calls
      BY DEF TypeOK, Calls
    <3> QED
      BY <1>4, <2>1, <3>1, CallReplaced DEF Reparse, TypeOK
  <2>2. CASE disk # 0
    <3>1. [admin[p] EXCEPT !.step = "commit", !.parsed = Parsed(disk)] \in Calls
      <4>1. Parsed(disk) \in Nodes
        BY ParsedType DEF TypeOK
      <4> QED
        BY <4>1 DEF TypeOK, Calls
    <3> QED
      BY <1>4, <2>2, <3>1, CallReplaced DEF Reparse, TypeOK
  <2> QED
    BY <2>1, <2>2
<1>5. CASE Commit(p)
  <2>1. /\ [admin[p] EXCEPT !.step = "push", !.copied = jump] \in Calls
        /\ admin[p].parsed \in Nodes
    BY DEF TypeOK, Calls
  <2> QED
    BY <1>5, <2>1, CallReplaced DEF Commit, TypeOK
<1>6. CASE Push(p)
  <2>1. Pushed(p) \in Registered
    BY DEF Pushed, Registered, TypeOK, Calls
  <2> QED
    BY <1>6, <2>1, GotoType DEF Push, TypeOK
<1>7. CASE Invalidate(p)
  <2>1. PICK at \in {"write", "remove", "flush"} : Goto(p, at)
    BY <1>7 DEF Invalidate
  <2> QED
    BY <1>7, <2>1, GotoType DEF Invalidate, TypeOK
<1>8. CASE WriteFile(p)
  <2>1. admin[p].parsed.version \in 0..MaxVersions
    BY DEF TypeOK, Calls, Nodes
  <2> QED
    BY <1>8, <2>1, LiteralTypes, CallReplaced DEF WriteFile, TypeOK
<1>9. CASE RemoveFile(p)
  BY <1>9, LiteralTypes, CallReplaced, ClashAssumption DEF RemoveFile, TypeOK
<1>10. CASE Flush(p)
  <2>1. Goto(p, "save") \/ admin' = [admin EXCEPT ![p] = NoCall]
    BY <1>10 DEF Flush
  <2> QED
    BY <1>10, <2>1, LiteralTypes, GotoType DEF Flush, TypeOK
<1>11. CASE SaveJump(p)
  <2>1. admin[p].arg \in Jumps \cup {NoJump}
    BY DEF TypeOK, Calls
  <2> QED
    BY <1>11, <2>1, LiteralTypes, CallReplaced DEF SaveJump, TypeOK
<1> QED
  BY <1>1, <1>2, <1>3, <1>4, <1>5, <1>6, <1>7, <1>8, <1>9, <1>10, <1>11
     DEF AdminStep

LEMMA LookupTypeOK ==
    ASSUME TypeOK, NEW c \in Callers, Lookup(c)
    PROVE  TypeOK'
<1>1. CASE GetNode(c)
  <2>1. [caller[c] EXCEPT !.step = "generation", !.found = nodes] \in Lookups
    BY DEF TypeOK, Lookups
  <2> QED
    BY <1>1, <2>1 DEF GetNode, TypeOK
<1>2. CASE GetGeneration(c)
  <2>1. [caller[c] EXCEPT !.step = "client", !.generation = generation] \in Lookups
    BY DEF TypeOK, Lookups
  <2> QED
    BY <1>2, <2>1 DEF GetGeneration, TypeOK
<1>3. CASE GetClient(c)
  <2>1. [generation |-> caller[c].generation, nodes |-> caller[c].found]
            \in Clients
    BY DEF TypeOK, Lookups, Clients
  <2>2. clients' \in SUBSET Clients
    BY <1>3, <2>1 DEF GetClient, TypeOK
  <2> QED
    BY <1>3, <2>2, LiteralTypes DEF GetClient, TypeOK
<1> QED
  BY <1>1, <1>2, <1>3 DEF Lookup

LEMMA RestartTypeOK ==
    ASSUME TypeOK, Restart
    PROVE  TypeOK'
<1>1. LET start == [version |-> disk, chained |-> savedJump # NoJump]
      IN  start \in Nodes /\ [nodes |-> start, jump |-> savedJump] \in Registered
  BY DEF TypeOK, Nodes, Registered
<1> QED
  BY <1>1, LiteralTypes DEF Restart, StartJump, TypeOK

LEMMA NextTypeOK ==
    ASSUME TypeOK, [Next]_clashVars
    PROVE  TypeOK'
<1>1. CASE Running
  BY <1>1, CallTypeOK, StepTypeOK, LookupTypeOK DEF Running
<1>2. CASE Restart
  BY <1>2, RestartTypeOK
<1>3. CASE UNCHANGED clashVars
  BY <1>3 DEF clashVars, TypeOK
<1> QED
  BY <1>1, <1>2, <1>3 DEF Next

(* Whatever admin calls and requests overlap, and whenever the process is  *)
(* restarted, the manager's fields, the registry, the cached file and      *)
(* every call on its way keep their types (manager.go:24).                 *)
THEOREM ClashTypeCorrect == Spec => []TypeOK
BY InitTypeOK, NextTypeOK, PTL DEF Spec

-----------------------------------------------------------------------------
(* What is left behind is set right                                        *)

(* A step of the call p, seen as one of a call that runs alone.            *)
StepKeeps(p) ==
    /\ \A q \in Admins \ {p} : admin'[q] = admin[q]
    /\ admin'[p].step \in StepsOf[admin'[p].op]
    /\ admin'[p].op = "none" => admin'[p] = NoCall
    /\ DoneSoFar(admin[p]) => DoneSoFar(admin[p])'
    /\ DoneSoFar(admin[p]) /\ RightBut(admin[p]) => RightBut(admin[p])'
    /\ DoneSoFar(admin[p]) /\ admin[p].step = "save" /\ admin[p].parsed # NoNodes =>
           RightBut(admin[p])'

(* Operation and step of a call go together.                               *)
LEMMA StepsByOperation ==
    ASSUME TypeOK, InStep, NEW p \in Admins
    PROVE  LET c == admin[p] IN
           /\ c \in Calls
           /\ c.step = "idle" => c = NoCall
           /\ c.step = "fetch" => c.op = "load"
           /\ c.step \in {"jump", "reparse", "flush"} => c.op \in SetsJump
           /\ c.step = "write" => c.op = "load"
           /\ c.step = "remove" => c.op = "clear"
           /\ c.step = "save" => c.op = "outbound"
           /\ c.step \in {"commit", "push", "invalidate"} =>
                  c.op \in {"load", "clear", "outbound", "dns"}
BY DEF TypeOK, InStep, StepsOf, Calls, SetsJump

LEMMA StartKeeps ==
    ASSUME TypeOK, InStep, NEW p \in Admins,
           NEW op \in {"load", "clear", "outbound", "dns"},
           NEW at \in {"fetch", "commit", "jump"}, NEW arg \in Jumps \cup {NoJump},
           at \in StepsOf[op], op = "clear" <=> at = "commit",
           op = "dns" => arg = savedJump,
           Call(p, op, at, arg), UNCHANGED <<savedJump, disk, nodes, jump, registry>>
    PROVE  StepKeeps(p)
<1>1. /\ admin'[p].op = op /\ admin'[p].step = at /\ admin'[p].arg = arg
      /\ admin'[p].parsed = NoNodes
      /\ \A q \in Admins \ {p} : admin'[q] = admin[q]
  BY StartType
<1>2. admin[p] = NoCall
  BY StepsByOperation DEF Call
<1>3. op \in SetsJump <=> at = "jump"
  BY DEF StepsOf, SetsJump
<1>4. DoneSoFar(admin[p])'
  BY <1>1, <1>3 DEF DoneSoFar
<1>5. RightBut(admin[p]) => RightBut(admin[p])'
  BY <1>1, <1>2, <1>3, LiteralTypes DEF RightBut, Fits, SetsJump
<1> QED
  BY <1>1, <1>2, <1>4, <1>5, LiteralTypes DEF StepKeeps

LEMMA CallKeeps ==
    ASSUME TypeOK, InStep, NEW p \in Admins, AdminCall(p)
    PROVE  StepKeeps(p)
<1>1. ASSUME NEW url \in BOOLEAN, UpdateClash(p, url)
      PROVE  StepKeeps(p)
  BY <1>1, StartKeeps DEF UpdateClash, StepsOf
<1>2. CASE RefreshClash(p)
  BY <1>2, StartKeeps DEF RefreshClash, StepsOf
<1>3. ASSUME NEW j \in Jumps \cup {NoJump}, UpdateOutbound(p, j)
      PROVE  StepKeeps(p)
  BY <1>3, StartKeeps DEF UpdateOutbound, StepsOf
<1>4. CASE UpdateDNS(p)
  <2>1. savedJump \in Jumps \cup {NoJump}
    BY DEF TypeOK
  <2> QED
    BY <1>4, <2>1, StartKeeps DEF UpdateDNS, StepsOf
<1> QED
  BY <1>1, <1>2, <1>3, <1>4 DEF AdminCall

LEMMA FetchKeeps ==
    ASSUME TypeOK, InStep, NEW p \in Admins, NEW version \in Versions,
           Fetch(p, version)
    PROVE  StepKeeps(p)
<1>1. /\ admin[p].op = "load" /\ admin[p].step = "fetch" /\ admin[p] \in Calls
      /\ UNCHANGED <<savedJump, disk, nodes, jump, registry>>
  BY StepsByOperation DEF Fetch
<1>2. /\ Parsed(version) \in Nodes /\ Parsed(version) # NoNodes
      /\ Fits(Parsed(version))
  <2>1. version \in 0..MaxVersions /\ version # 0
    BY ClashAssumption DEF Versions
  <2> QED
    BY <2>1, ParsedType DEF NoNodes, Fits
<1>3. /\ admin'[p].op = "load" /\ admin'[p].step = "commit"
      /\ admin'[p].parsed = Parsed(version)
      /\ \A q \in Admins \ {p} : admin'[q] = admin[q]
  <2> DEFINE c == [admin[p] EXCEPT !.step = "commit", !.parsed = Parsed(version)]
  <2>1. /\ c \in Calls /\ c.op = "load" /\ c.step = "commit"
        /\ c.parsed = Parsed(version)
    BY <1>1, <1>2 DEF Calls
  <2>2. admin' = [admin EXCEPT ![p] = c]
    BY DEF Fetch
  <2> HIDE DEF c
  <2> QED
    BY <2>1, <2>2, CallReplaced DEF TypeOK
<1>4. DoneSoFar(admin[p])'
  BY <1>1, <1>2, <1>3 DEF DoneSoFar, SetsJump, Fits
<1>5. RightBut(admin[p]) => RightBut(admin[p])'
  BY <1>1, <1>3 DEF RightBut, Fits, SetsJump
<1> QED
  BY <1>1, <1>3, <1>4, <1>5 DEF StepKeeps, StepsOf

LEMMA InstallJumpKeeps ==
    ASSUME TypeOK, InStep, NEW p \in Admins, InstallJump(p)
    PROVE  StepKeeps(p)
<1>1. /\ admin[p].op \in SetsJump /\ admin[p].step = "jump"
      /\ jump' = admin[p].arg /\ UNCHANGED <<savedJump, disk, nodes, registry>>
  BY StepsByOperation DEF InstallJump
<1>2. /\ admin'[p].op = admin[p].op /\ admin'[p].step = "reparse"
      /\ admin'[p].arg = admin[p].arg /\ admin'[p].parsed = admin[p].parsed
      /\ \A q \in Admins \ {p} : admin'[q] = admin[q]
  BY GotoType DEF InstallJump
<1>3. DoneSoFar(admin[p]) => DoneSoFar(admin[p])'
  BY <1>1, <1>2 DEF DoneSoFar, SetsJump
<1>4. RightBut(admin[p]) => RightBut(admin[p])'
  BY <1>1, <1>2 DEF RightBut, SetsJump
<1> QED
  BY <1>1, <1>2, <1>3, <1>4 DEF StepKeeps, StepsOf, SetsJump

LEMMA ReparseKeeps ==
    ASSUME TypeOK, InStep, NEW p \in Admins, Reparse(p)
    PROVE  StepKeeps(p)
<1>1. /\ admin[p].op \in SetsJump /\ admin[p].step = "reparse" /\ admin[p] \in Calls
      /\ UNCHANGED <<savedJump, disk, nodes, jump, registry>>
  BY StepsByOperation DEF Reparse
<1> DEFINE c == IF disk = 0 THEN [admin[p] EXCEPT !.step = "flush"]
                ELSE [admin[p] EXCEPT !.step = "commit", !.parsed = Parsed(disk)]
<1>2. Parsed(disk) \in Nodes /\ Fits(Parsed(disk)) /\ Parsed(disk).version = disk
  BY ParsedType DEF TypeOK, Fits
<1>3. disk # 0 => Parsed(disk) # NoNodes
  BY <1>2 DEF NoNodes
<1>4. /\ c \in Calls /\ c.op = admin[p].op /\ c.arg = admin[p].arg
      /\ c.step = IF disk = 0 THEN "flush" ELSE "commit"
      /\ c.parsed = IF disk = 0 THEN admin[p].parsed ELSE Parsed(disk)
  BY <1>1, <1>2 DEF Calls
<1>5. admin' = [admin EXCEPT ![p] = c]
  BY DEF Reparse
<1> HIDE DEF c
<1>6. admin'[p] = c /\ \A q \in Admins \ {p} : admin'[q] = admin[q]
  BY <1>4, <1>5, CallReplaced DEF TypeOK
<1>7. ASSUME DoneSoFar(admin[p]) PROVE DoneSoFar(admin[p])'
  BY <1>1, <1>2, <1>3, <1>4, <1>6, <1>7 DEF DoneSoFar, SetsJump, Fits
<1>8. RightBut(admin[p]) => RightBut(admin[p])'
  BY <1>1, <1>4, <1>6 DEF RightBut, Fits, SetsJump
<1> QED
  BY <1>1, <1>4, <1>6, <1>7, <1>8 DEF StepKeeps, StepsOf, SetsJump

LEMMA CommitKeeps ==
    ASSUME TypeOK, InStep, NEW p \in Admins, Commit(p)
    PROVE  StepKeeps(p)
<1>1. /\ admin[p].op \in {"load", "clear", "outbound", "dns"}
      /\ admin[p].step = "commit" /\ admin[p] \in Calls
      /\ nodes' = admin[p].parsed /\ UNCHANGED <<savedJump, disk, jump, registry>>
  BY StepsByOperation DEF Commit
<1> DEFINE c == [admin[p] EXCEPT !.step = "push", !.copied = jump]
<1>2. /\ c \in Calls /\ c.op = admin[p].op /\ c.arg = admin[p].arg
      /\ c.step = "push" /\ c.parsed = admin[p].parsed /\ c.copied = jump
  BY <1>1 DEF Calls, TypeOK
<1>3. admin' = [admin EXCEPT ![p] = c]
  BY DEF Commit
<1> HIDE DEF c
<1>4. admin'[p] = c /\ \A q \in Admins \ {p} : admin'[q] = admin[q]
  BY <1>2, <1>3, CallReplaced DEF TypeOK
<1>5. DoneSoFar(admin[p]) => DoneSoFar(admin[p])'
  BY <1>1, <1>2, <1>4 DEF DoneSoFar, SetsJump, Fits
<1>6. DoneSoFar(admin[p]) /\ RightBut(admin[p]) => RightBut(admin[p])'
  BY <1>1, <1>2, <1>4 DEF DoneSoFar, RightBut, Fits, SetsJump, NoNodes
<1> QED
  BY <1>1, <1>2, <1>4, <1>5, <1>6 DEF StepKeeps, StepsOf

LEMMA PushKeeps ==
    ASSUME TypeOK, InStep, NEW p \in Admins, Push(p)
    PROVE  StepKeeps(p)
<1>1. /\ admin[p].op \in {"load", "clear", "outbound", "dns"}
      /\ admin[p].step = "push" /\ registry' = Pushed(p)
      /\ UNCHANGED <<savedJump, disk, nodes, jump>>
  BY StepsByOperation DEF Push
<1>2. /\ admin'[p].op = admin[p].op /\ admin'[p].step = "invalidate"
      /\ admin'[p].arg = admin[p].arg /\ admin'[p].parsed = admin[p].parsed
      /\ \A q \in Admins \ {p} : admin'[q] = admin[q]
  BY GotoType DEF Push
<1>3. registry'.jump = admin[p].copied
  BY <1>1 DEF Pushed
<1>4. DoneSoFar(admin[p]) => DoneSoFar(admin[p])'
  BY <1>1, <1>2, <1>3 DEF DoneSoFar, SetsJump, Fits
<1>5. DoneSoFar(admin[p]) /\ RightBut(admin[p]) => RightBut(admin[p])'
  <2> SUFFICES ASSUME DoneSoFar(admin[p]), RightBut(admin[p])
               PROVE  RightBut(admin[p])'
    OBVIOUS
  <2>1. nodes = admin[p].parsed /\ registry'.jump = jump
    BY <1>1, <1>3 DEF DoneSoFar
  <2>2. nodes.chained => jump # NoJump
    <3>1. CASE nodes = NoNodes
      BY <3>1 DEF NoNodes
    <3>2. CASE nodes # NoNodes
      BY <2>1, <3>2 DEF DoneSoFar, Fits
    <3> QED
      BY <3>1, <3>2
  <2> QED
    BY <1>1, <1>2, <2>1, <2>2 DEF RightBut, Fits
<1> QED
  BY <1>1, <1>2, <1>4, <1>5 DEF StepKeeps, StepsOf

LEMMA InvalidateKeeps ==
    ASSUME TypeOK, InStep, NEW p \in Admins, Invalidate(p)
    PROVE  StepKeeps(p)
<1>1. /\ admin[p].op \in {"load", "clear", "outbound", "dns"}
      /\ admin[p].step = "invalidate"
      /\ UNCHANGED <<savedJump, disk, nodes, jump, registry>>
  BY StepsByOperation DEF Invalidate
<1> DEFINE at == IF admin[p].op = "load" THEN "write"
                   ELSE IF admin[p].op = "clear" THEN "remove" ELSE "flush"
<1>2. at \in {"write", "remove", "flush"} /\ Goto(p, at)
  BY DEF Invalidate
<1>3. /\ admin'[p].op = admin[p].op /\ admin'[p].step = at
      /\ admin'[p].arg = admin[p].arg /\ admin'[p].parsed = admin[p].parsed
      /\ \A q \in Admins \ {p} : admin'[q] = admin[q]
  BY <1>2, GotoType
<1>4. DoneSoFar(admin[p]) => DoneSoFar(admin[p])'
  BY <1>1, <1>3 DEF DoneSoFar, SetsJump, Fits
<1>5. RightBut(admin[p]) => RightBut(admin[p])'
  BY <1>1, <1>3 DEF RightBut, Fits, SetsJump
<1> QED
  BY <1>1, <1>3, <1>4, <1>5 DEF StepKeeps, StepsOf

(* The call is over: what it leaves is what no call at all would.          *)
LEMMA LastStepKeeps ==
    ASSUME TypeOK, InStep, NEW p \in Admins, admin' = [admin EXCEPT ![p] = NoCall],
           DoneSoFar(admin[p]) /\ RightBut(admin[p]) => RightBut(NoCall)',
           DoneSoFar(admin[p]) /\ admin[p].step = "save" /\ admin[p].parsed # NoNodes =>
               RightBut(NoCall)'
    PROVE  StepKeeps(p)
<1>1. admin'[p] = NoCall /\ \A q \in Admins \ {p} : admin'[q] = admin[q]
  BY LiteralTypes, CallReplaced DEF TypeOK
<1>2. DoneSoFar(NoCall)'
  BY LiteralTypes DEF DoneSoFar, SetsJump
<1> QED
  BY <1>1, <1>2, LiteralTypes DEF StepKeeps, StepsOf

LEMMA FetchFailsKeeps ==
    ASSUME TypeOK, InStep, NEW p \in Admins, FetchFails(p)
    PROVE  StepKeeps(p)
<1>1. /\ admin[p].op = "load" /\ admin[p].step = "fetch"
      /\ UNCHANGED <<savedJump, disk, nodes, jump, registry>>
  BY StepsByOperation DEF FetchFails
<1>2. RightBut(admin[p]) => RightBut(NoCall)'
  BY <1>1, LiteralTypes DEF RightBut, Fits, SetsJump
<1> QED
  BY <1>1, <1>2, LastStepKeeps DEF FetchFails

LEMMA WriteFileKeeps ==
    ASSUME TypeOK, InStep, NEW p \in Admins, WriteFile(p)
    PROVE  StepKeeps(p)
<1>1. /\ admin[p].op = "load" /\ admin[p].step = "write"
      /\ UNCHANGED <<savedJump, nodes, jump, registry>>
  BY StepsByOperation DEF WriteFile
<1>2. DoneSoFar(admin[p]) /\ RightBut(admin[p]) => RightBut(NoCall)'
  BY <1>1, LiteralTypes DEF DoneSoFar, RightBut, Fits, SetsJump
<1> QED
  BY <1>1, <1>2, LastStepKeeps DEF WriteFile

LEMMA RemoveFileKeeps ==
    ASSUME TypeOK, InStep, NEW p \in Admins, RemoveFile(p)
    PROVE  StepKeeps(p)
<1>1. /\ admin[p].op = "clear" /\ admin[p].step = "remove"
      /\ disk' = 0 /\ UNCHANGED <<savedJump, nodes, jump, registry>>
  BY StepsByOperation DEF RemoveFile
<1>2. RightBut(admin[p]) => RightBut(NoCall)'
  BY <1>1, LiteralTypes DEF RightBut, Fits, SetsJump
<1> QED
  BY <1>1, <1>2, LastStepKeeps DEF RemoveFile

LEMMA FlushKeeps ==
    ASSUME TypeOK, InStep, NEW p \in Admins, Flush(p)
    PROVE  StepKeeps(p)
<1>1. /\ admin[p].op \in SetsJump /\ admin[p].step = "flush"
      /\ UNCHANGED <<savedJump, disk, nodes, jump, registry>>
  BY StepsByOperation DEF Flush
<1>2. CASE admin[p].op = "outbound"
  <2>1. Goto(p, "save")
    BY <1>2 DEF Flush
  <2>2. /\ admin'[p].op = "outbound" /\ admin'[p].step = "save"
        /\ admin'[p].arg = admin[p].arg /\ admin'[p].parsed = admin[p].parsed
        /\ \A q \in Admins \ {p} : admin'[q] = admin[q]
    BY <1>2, <2>1, GotoType
  <2>3. DoneSoFar(admin[p]) => DoneSoFar(admin[p])'
    BY <1>1, <1>2, <2>2 DEF DoneSoFar, SetsJump, Fits
  <2>4. RightBut(admin[p]) => RightBut(admin[p])'
    BY <1>1, <1>2, <2>2 DEF RightBut, Fits, SetsJump
  <2> QED
    BY <1>1, <2>2, <2>3, <2>4 DEF StepKeeps, StepsOf
<1>3. CASE admin[p].op # "outbound"
  <2>1. RightBut(admin[p]) => RightBut(NoCall)'
    BY <1>1, <1>3, LiteralTypes DEF RightBut, Fits, SetsJump
  <2> QED
    BY <1>1, <1>3, <2>1, LastStepKeeps DEF Flush
<1> QED
  BY <1>2, <1>3

(* The change of the jump returns: whatever was wrong before, nodes,       *)
(* registry and the saved jump now agree with the jump in use.             *)
LEMMA SaveJumpKeeps ==
    ASSUME TypeOK, InStep, NEW p \in Admins, SaveJump(p)
    PROVE  StepKeeps(p)
<1>1. /\ admin[p].op = "outbound" /\ admin[p].step = "save"
      /\ savedJump' = admin[p].arg /\ UNCHANGED <<disk, nodes, jump, registry>>
  BY StepsByOperation DEF SaveJump
<1>2. DoneSoFar(admin[p]) => savedJump' = jump
  BY <1>1 DEF DoneSoFar, SetsJump
<1>3. DoneSoFar(admin[p]) /\ RightBut(admin[p]) => RightBut(NoCall)'
  BY <1>1, <1>2, LiteralTypes DEF RightBut, Fits, SetsJump
<1>4. DoneSoFar(admin[p]) /\ admin[p].parsed # NoNodes => RightBut(NoCall)'
  BY <1>1, <1>2, LiteralTypes DEF DoneSoFar, RightBut, Fits, SetsJump
<1> QED
  BY <1>3, <1>4, LastStepKeeps DEF SaveJump

LEMMA StepsKeep ==
    ASSUME TypeOK, InStep, NEW p \in Admins, AdminStep(p)
    PROVE  StepKeeps(p)
BY FetchKeeps, FetchFailsKeeps, InstallJumpKeeps, ReparseKeeps, CommitKeeps,
   PushKeeps, InvalidateKeeps, WriteFileKeeps, RemoveFileKeeps, FlushKeeps,
   SaveJumpKeeps DEF AdminStep

-----------------------------------------------------------------------------
(* The history: when nothing has overlapped, the call that steps is the    *)
(* only one.                                                               *)

LEMMA OthersIdle ==
    ASSUME RepairInv, NEW p \in Busy \cup Busy', History,
           \A q \in Admins \ {p} : admin'[q] = admin[q], ~overlapped'
    PROVE  /\ Busy \subseteq {p} /\ Busy' \subseteq {p}
           /\ overlapped => Busy' = {}
<1>1. ~Several' /\ (overlapped => Busy' = {})
  BY DEF History
<1>2. ASSUME NEW q \in Busy \cup Busy', q # p
      PROVE  FALSE
  <2>1. q \in Busy /\ q \in Busy'
    BY <1>2 DEF Busy
  <2>2. ~Several
    BY <1>1, <2>1 DEF RepairInv, HistoryCoherent
  <2> QED
    BY <1>1, <1>2, <2>1, <2>2 DEF Several
<1> QED
  BY <1>1, <1>2

LEMMA StepRepairs ==
    ASSUME RepairInv, NEW p \in Admins, p \in Busy \cup Busy', History,
           TypeOK', StepKeeps(p)
    PROVE  RepairInv'
<1>1. \A q \in Admins \ {p} : admin'[q] = admin[q]
  BY DEF StepKeeps
<1>2. InStep'
  BY <1>1 DEF RepairInv, InStep, StepKeeps
<1>3. ASSUME p \notin Busy
      PROVE  admin[p] = NoCall /\ DoneSoFar(admin[p])
  <2>1. admin[p] = NoCall
    BY <1>3, StepsByOperation DEF RepairInv, Busy
  <2> QED
    BY <2>1, LiteralTypes DEF DoneSoFar, SetsJump
<1>4. ASSUME ~overlapped
      PROVE  DoneSoFar(admin[p])
  BY <1>3, <1>4 DEF RepairInv, AloneDone
<1>5. HistoryCoherent'
  <2>1. ~overlapped' => ~Several'
    BY DEF History
  <2>2. overlapped' => Busy' # {}
    BY DEF History, Several
  <2>3. settled' => ~overlapped'
    BY DEF History, RepairInv, HistoryCoherent
  <2>4. overlapped' \in BOOLEAN /\ settled' \in BOOLEAN
    BY DEF History, RepairInv, HistoryCoherent
  <2> QED
    BY <2>1, <2>2, <2>3, <2>4 DEF HistoryCoherent
<1>6. AloneDone'
  <2> SUFFICES ASSUME ~overlapped', NEW q \in Busy'
               PROVE  DoneSoFar(admin[q])'
    BY DEF AloneDone
  <2>1. q = p /\ ~overlapped
    BY <1>1, OthersIdle
  <2>2. DoneSoFar(admin[p])
    BY <1>4, <2>1
  <2> QED
    BY <2>1, <2>2 DEF StepKeeps
<1>7. StaysRight'
  <2> SUFFICES ASSUME settled'
               PROVE  /\ Busy' = {} => RightBut(NoCall)'
                      /\ \A q \in Busy' : RightBut(admin[q])'
    BY DEF StaysRight
  <2>1. ~overlapped /\ ~overlapped' /\ (settled \/ JumpChanged)
    BY <1>5 DEF History, RepairInv, HistoryCoherent
  <2>2. DoneSoFar(admin[p])
    BY <1>4, <2>1
  <2>3. Busy \subseteq {p} /\ Busy' \subseteq {p}
    BY <1>1, <2>1, OthersIdle
  <2>4. RightBut(admin[p])'
    <3>1. CASE settled
      <4>1. RightBut(admin[p])
        <5>1. CASE p \in Busy
          BY <3>1, <5>1 DEF RepairInv, StaysRight
        <5>2. CASE p \notin Busy
          BY <1>3, <2>3, <3>1, <5>2 DEF RepairInv, StaysRight
        <5> QED
          BY <5>1, <5>2
      <4> QED
        BY <2>2, <4>1 DEF StepKeeps
    <3>2. CASE JumpChanged
      <4>1. admin[p].step = "save" /\ admin[p].parsed # NoNodes
        BY <2>3, <3>2 DEF JumpChanged
      <4> QED
        BY <2>2, <4>1 DEF StepKeeps
    <3> QED
      BY <2>1, <3>1, <3>2
  <2>5. CASE p \in Busy'
    BY <2>3, <2>4, <2>5
  <2>6. CASE p \notin Busy'
    <3>1. admin'[p] = NoCall
      BY <1>2, <2>6, StepsByOperation DEF InStep, Busy, StepsOf, TypeOK, Calls
    <3> QED
      BY <2>3, <2>4, <2>6, <3>1
  <2> QED
    BY <2>5, <2>6
<1> QED
  BY <1>2, <1>5, <1>6, <1>7 DEF RepairInv

LEMMA InitRepairInv == RepairInit => RepairInv
<1> SUFFICES ASSUME RepairInit PROVE RepairInv
  OBVIOUS
<1>1. TypeOK /\ \A p \in Admins : admin[p] = NoCall
  BY InitTypeOK DEF RepairInit, Init
<1>2. Busy = {}
  BY <1>1, LiteralTypes DEF Busy
<1>3. InStep
  BY <1>1, LiteralTypes DEF InStep, StepsOf
<1>4. RightBut(NoCall)
  BY LiteralTypes DEF RepairInit, Init, RightBut, NoNodes
<1> QED
  BY <1>1, <1>2, <1>3, <1>4 DEF RepairInv, RepairInit, HistoryCoherent, AloneDone,
     StaysRight, Several

LEMMA RestartRepairInv ==
    ASSUME RepairInv, Restart, overlapped' = FALSE, settled' = TRUE
    PROVE  RepairInv'
<1>1. TypeOK' /\ \A p \in Admins : admin'[p] = NoCall
  BY RestartTypeOK DEF RepairInv, Restart
<1>2. Busy' = {}
  BY <1>1, LiteralTypes DEF Busy
<1>3. InStep'
  BY <1>1, LiteralTypes DEF InStep, StepsOf
<1>4. RightBut(NoCall)'
  <2>1. jump' = savedJump'
    BY DEF Restart, StartJump
  <2>2. CASE nodes' = NoNodes
    BY <2>1, <2>2, LiteralTypes DEF RightBut, NoNodes
  <2>3. CASE nodes' # NoNodes
    <3>1. /\ nodes' = [version |-> disk, chained |-> savedJump # NoJump]
          /\ registry'.jump = savedJump /\ jump' = savedJump
      BY <2>3 DEF Restart, StartJump
    <3> QED
      BY <2>1, <3>1, LiteralTypes DEF RightBut, Fits
  <2> QED
    BY <2>2, <2>3
<1> QED
  BY <1>1, <1>2, <1>3, <1>4 DEF RepairInv, HistoryCoherent, AloneDone, StaysRight,
     Several

LEMMA NextRepairInv ==
    ASSUME RepairInv, [RepairNext]_repairVars
    PROVE  RepairInv'
<1>1. TypeOK'
  <2>1. TypeOK /\ [Next]_clashVars
    BY DEF RepairInv, RepairNext, Next, repairVars
  <2> QED
    BY <2>1, NextTypeOK
<1>2. ASSUME NEW p \in Admins, AdminCall(p), History
      PROVE  RepairInv'
  <2>1. p \in Busy'
    BY <1>2, StartType DEF AdminCall, UpdateClash, RefreshClash, UpdateOutbound,
       UpdateDNS, Busy, RepairInv, TypeOK
  <2> QED
    BY <1>1, <1>2, <2>1, CallKeeps, StepRepairs DEF RepairInv
<1>3. ASSUME NEW p \in Admins, AdminStep(p), History
      PROVE  RepairInv'
  <2>1. p \in Busy
    BY <1>3 DEF AdminStep, Fetch, FetchFails, InstallJump, Reparse, Commit, Push,
       Invalidate, WriteFile, RemoveFile, Flush, SaveJump, Busy
  <2> QED
    BY <1>1, <1>3, <2>1, StepsKeep, StepRepairs DEF RepairInv
<1>4. ASSUME UNCHANGED <<savedJump, disk, nodes, jump, registry, admin>>,
             UNCHANGED <<overlapped, settled>> \/ History
      PROVE  RepairInv'
  <2>1. /\ UNCHANGED Busy /\ UNCHANGED Several /\ UNCHANGED InStep
        /\ \A p \in Busy : UNCHANGED <<DoneSoFar(admin[p]), RightBut(admin[p])>>
        /\ UNCHANGED RightBut(NoCall)
    BY <1>4 DEF Busy, Several, InStep, DoneSoFar, RightBut, Fits
  <2>2. ~JumpChanged
    BY <1>4 DEF JumpChanged
  <2>3. UNCHANGED <<overlapped, settled>>
    BY <1>4, <2>1, <2>2 DEF History, RepairInv, HistoryCoherent
  <2> QED
    BY <1>1, <1>4, <2>1, <2>3 DEF RepairInv, HistoryCoherent, AloneDone, StaysRight
<1>5. CASE UNCHANGED repairVars
  BY <1>4, <1>5 DEF repairVars, clashVars
<1>6. ASSUME NEW c \in Callers, Lookup(c), History
      PROVE  RepairInv'
  BY <1>4, <1>6 DEF Lookup, GetNode, GetGeneration, GetClient
<1> QED
  BY <1>2, <1>3, <1>5, <1>6, RestartRepairInv DEF RepairNext, Running

(* Admin calls may overlap in any way and leave the nodes stamped with     *)
(* another jump than the one in use, a registry without it and another     *)
(* jump saved; a change of the jump that runs alone (clash_handlers.go:70, *)
(* manager.go:237), or a restart, sets all of it right, and it stays right *)
(* until calls overlap again.                                              *)
THEOREM RepairedHolds == RepairSpec => []Repaired
<1>1. RepairInv => Repaired
  <2> SUFFICES ASSUME RepairInv, settled
               PROVE  ChainFollowsJump /\ ChainResolves /\ LiveJumpIsSaved
    BY DEF Repaired
  <2>1. Quiet => Busy = {}
    BY DEF Quiet, Busy
  <2>2. Quiet => RightBut(NoCall)
    BY <2>1 DEF RepairInv, StaysRight
  <2> QED
    BY <2>2, LiteralTypes DEF RightBut, Fits, SetsJump, ChainFollowsJump,
       ChainResolves, LiveJumpIsSaved
<1> QED
  BY <1>1, InitRepairInv, NextRepairInv, PTL DEF RepairSpec

-----------------------------------------------------------------------------
(* The sessions of a tunnel                                                *)

LEMMA MissingType == Missing \in States
BY TunnelAssumption DEF Missing, States, NoSession

LEMMA NextSerialType ==
    ASSUME serial \in 0..MaxSessions
    PROVE  NextSerial \in 0..MaxSessions
BY TunnelAssumption DEF NextSerial

LEMMA TunnelTypeInitial == TunnelInit => TunnelTypeOK
BY MissingType, TunnelAssumption DEF TunnelInit, TunnelTypeOK

LEMMA TunnelTypeKept ==
    ASSUME TunnelTypeOK, [TunnelNext]_tunnelVars
    PROVE  TunnelTypeOK'
<1>1. ASSUME NEW r \in Users, ResolveLoad(r)
      PROVE  TunnelTypeOK'
  BY <1>1 DEF ResolveLoad, TunnelTypeOK
<1>2. ASSUME NEW r \in Users, ResolveStore(r)
      PROVE  TunnelTypeOK'
  <2>1. NextSerial \in 0..MaxSessions /\ loaded[r] \in States
    BY NextSerialType DEF TunnelTypeOK
  <2>2. [loaded[r] EXCEPT !.Session = NextSerial] \in States
    BY <2>1 DEF States
  <2>3. disconnects' \in 0..Threshold
    BY <1>2, TunnelAssumption DEF ResolveStore, TunnelTypeOK
  <2> QED
    BY <1>2, <2>1, <2>2, <2>3 DEF ResolveStore, TunnelTypeOK
<1>3. ASSUME NEW r \in Users, NEW outcome \in Results, RecordLoad(r, outcome)
      PROVE  TunnelTypeOK'
  BY <1>3, TunnelAssumption DEF RecordLoad, TunnelTypeOK
<1>4. ASSUME NEW r \in Users, RecordOk(r)
      PROVE  TunnelTypeOK'
  <2>1. Healthy(loaded[r]) \in States
    BY TunnelAssumption DEF Healthy, TunnelTypeOK, States
  <2> QED
    BY <1>4, <2>1, TunnelAssumption DEF RecordOk, TunnelTypeOK
<1>5. ASSUME NEW r \in Users, RecordError(r)
      PROVE  TunnelTypeOK'
  <2>1. loaded[r] \in States /\ NextSerial \in 0..MaxSessions
    BY NextSerialType DEF TunnelTypeOK
  <2>2. CASE Rotates(loaded[r])
    <3>1. [Session |-> NextSerial, Failures |-> 0, CooldownLeft |-> CooldownSec] \in States
      BY <2>1, TunnelAssumption DEF States
    <3> QED
      BY <1>5, <2>1, <2>2, <3>1, TunnelAssumption DEF RecordError, TunnelTypeOK
  <2>3. CASE ~ Rotates(loaded[r])
    <3> DEFINE failures == IF loaded[r].Failures < Threshold
                           THEN loaded[r].Failures + 1 ELSE Threshold
    <3>1. failures \in 0..Threshold
      BY <2>1, TunnelAssumption DEF States
    <3>2. stored' = [loaded[r] EXCEPT !.Failures = failures]
      BY <1>5, <2>3 DEF RecordError
    <3> HIDE DEF failures
    <3>3. stored' \in States
      BY <2>1, <3>1, <3>2 DEF States
    <3>4. disconnects' \in 0..Threshold
      BY <1>5, <2>3, TunnelAssumption DEF RecordError, TunnelTypeOK
    <3> QED
      BY <1>5, <2>3, <3>3, <3>4 DEF RecordError, TunnelTypeOK
  <2> QED
    BY <2>2, <2>3
<1>6. CASE Tick
  <2> DEFINE Sooner(st) ==
        [st EXCEPT !.CooldownLeft =
            IF st.CooldownLeft > 0 THEN st.CooldownLeft - 1 ELSE 0]
  <2>1. \A st \in States : Sooner(st) \in States
    BY TunnelAssumption DEF States
  <2>2. stored' = Sooner(stored) /\ loaded' = [r \in Users |-> Sooner(loaded[r])]
    BY <1>6 DEF Tick
  <2> HIDE DEF Sooner
  <2> QED
    BY <1>6, <2>1, <2>2 DEF Tick, TunnelTypeOK
<1>7. CASE UNCHANGED tunnelVars
  BY <1>7 DEF tunnelVars, TunnelTypeOK
<1> QED
  BY <1>1, <1>2, <1>3, <1>4, <1>5, <1>6, <1>7 DEF TunnelNext, Proceed
-----------------------------------------------------------------------------
(* A report that overlaps no other store adds to what is stored, one that  *)
(* does starts the history over: no failure counted in it is missing there.*)
FailuresKept == disconnects <= stored.Failures

LEMMA NextFailuresKept ==
    ASSUME TunnelTypeOK, FailuresKept, [TunnelNext]_tunnelVars
    PROVE  FailuresKept'
<1>1. stored.Failures \in Nat /\ disconnects \in Nat
      /\ \A r \in Users : loaded[r] \in States /\ loaded[r].Failures \in Nat
  BY TunnelAssumption DEF TunnelTypeOK, States
<1>2. ASSUME NEW r \in Users,
             \/ ResolveLoad(r)
             \/ \E outcome \in Results : RecordLoad(r, outcome)
      PROVE  FailuresKept'
  BY <1>2 DEF ResolveLoad, RecordLoad, FailuresKept
<1>3. ASSUME NEW r \in Users, ResolveStore(r)
      PROVE  FailuresKept'
  <2>1. stored'.Failures = loaded[r].Failures
    BY <1>1, <1>3 DEF ResolveStore, States
  <2>2. \/ disconnects' = 0
        \/ disconnects' = disconnects /\ loaded[r] = stored
    BY <1>3 DEF ResolveStore, Overlapped
  <2> QED
    BY <1>1, <2>1, <2>2 DEF FailuresKept
<1>4. ASSUME NEW r \in Users, RecordOk(r)
      PROVE  FailuresKept'
  <2>1. stored'.Failures = 0 /\ disconnects' = 0
    BY <1>1, <1>4 DEF RecordOk, Healthy, States
  <2> QED
    BY <2>1 DEF FailuresKept
<1>5. ASSUME NEW r \in Users, RecordError(r)
      PROVE  FailuresKept'
  <2>1. CASE Rotates(loaded[r])
    BY <1>5, <2>1 DEF RecordError, FailuresKept
  <2>2. CASE ~ Rotates(loaded[r])
    <3> DEFINE Counted(n) == IF n < Threshold THEN n + 1 ELSE Threshold
    <3>1. stored' = [loaded[r] EXCEPT !.Failures = Counted(loaded[r].Failures)]
      BY <1>5, <2>2 DEF RecordError
    <3>2. stored'.Failures = Counted(loaded[r].Failures)
      BY <1>1, <3>1 DEF States
    <3>3. \/ disconnects' = 0
          \/ disconnects' = Counted(disconnects) /\ loaded[r] = stored
      BY <1>5, <2>2 DEF RecordError, Overlapped
    <3>4. disconnects <= stored.Failures
      BY DEF FailuresKept
    <3>5. disconnects' <= stored'.Failures
      BY <1>1, <3>2, <3>3, <3>4, TunnelAssumption
    <3> QED
      BY <3>5 DEF FailuresKept
  <2> QED
    BY <2>1, <2>2
<1>6. CASE Tick
  <2>1. stored'.Failures = stored.Failures /\ disconnects' = disconnects
    BY <1>6 DEF Tick, TunnelTypeOK, States
  <2> QED
    BY <2>1 DEF FailuresKept
<1>7. CASE UNCHANGED tunnelVars
  BY <1>7 DEF tunnelVars, FailuresKept
<1> QED
  BY <1>2, <1>3, <1>4, <1>5, <1>6, <1>7 DEF TunnelNext, Proceed

(* Only the two Record steps end a report.                                 *)
LEMMA ReportStep ==
    ASSUME TunnelTypeOK, [TunnelNext]_tunnelVars, NEW r \in Users, Recording(r)
    PROVE  \/ step[r] = "ok" /\ RecordOk(r)
           \/ step[r] = "error" /\ RecordError(r)
<1>1. PICK q \in Users : Proceed(q)
  BY DEF TunnelNext, Recording, Tick, tunnelVars
<1>2. CASE q = r
  <2>1. step'[r] # "idle" \/ RecordOk(r) \/ RecordError(r)
    BY <1>1, <1>2, TunnelAssumption
    DEF Proceed, TunnelTypeOK, ResolveLoad, ResolveStore, RecordLoad
  <2> QED
    BY <2>1 DEF Recording, RecordOk, RecordError
<1>3. CASE q # r
  <2>1. step'[r] = step[r]
    BY <1>1, <1>3 DEF Proceed, TunnelTypeOK, ResolveLoad, ResolveStore, RecordLoad,
                      RecordOk, RecordError
  <2> QED
    BY <2>1 DEF Recording
<1> QED
  BY <1>2, <1>3

LEMMA RotatesWhenDue ==
    ASSUME TunnelTypeOK, FailuresKept, [TunnelNext]_tunnelVars,
           NEW r \in Users, Recording(r), ~ Overlapped(r)
    PROVE  IF stored.CooldownLeft > 0
           THEN stored'.CooldownLeft = stored.CooldownLeft
           ELSE step[r] = "error" /\ disconnects + 1 >= Threshold
                    => stored'.CooldownLeft = CooldownSec
<1>1. loaded[r] = stored
  BY DEF Overlapped
<1>2. /\ stored \in States /\ stored.Failures \in Nat
      /\ stored.CooldownLeft \in Nat /\ disconnects \in Nat
  BY TunnelAssumption DEF TunnelTypeOK, States
<1>3. CASE RecordOk(r) /\ step[r] = "ok"
  <2>1. stored' = [stored EXCEPT !.Failures = 0]
    BY <1>1, <1>3 DEF RecordOk, Healthy
  <2>2. stored'.CooldownLeft = stored.CooldownLeft
    BY <1>2, <2>1 DEF States
  <2> QED
    BY <1>3, <2>2
<1>4. CASE RecordError(r) /\ Rotates(stored)
  <2>1. stored.CooldownLeft = 0
    BY <1>4 DEF Rotates, MayRotate
  <2>2. stored'.CooldownLeft = CooldownSec
    BY <1>1, <1>4 DEF RecordError
  <2> QED
    BY <2>1, <2>2
<1>5. CASE RecordError(r) /\ ~ Rotates(stored)
  <2>1. PICK failures : stored' = [stored EXCEPT !.Failures = failures]
    BY <1>1, <1>5 DEF RecordError
  <2>2. stored'.CooldownLeft = stored.CooldownLeft
    BY <1>2, <2>1 DEF States
  <2>3. stored.CooldownLeft = 0 => ~ (disconnects + 1 >= Threshold)
    BY <1>2, <1>5, TunnelAssumption DEF Rotates, MayRotate, FailedTooOften, FailuresKept
  <2> QED
    BY <1>2, <2>2, <2>3
<1> QED
  BY <1>3, <1>4, <1>5, ReportStep

(* Of the failures reported without overlapping, the one that makes the    *)
(* threshold outside a cooldown rotates the session, and no such report    *)
(* shortens or renews a cooldown (config.go:738, 758).                     *)
THEOREM RotationDueHolds == TunnelSpec => RotationDue
<1>1. TunnelInit => TunnelTypeOK /\ FailuresKept
  BY TunnelTypeInitial DEF TunnelInit, FailuresKept, Missing
<1>2. TunnelTypeOK /\ FailuresKept /\ [TunnelNext]_tunnelVars => TunnelTypeOK' /\ FailuresKept'
  BY TunnelTypeKept, NextFailuresKept
<1>3. TunnelTypeOK /\ FailuresKept /\ [TunnelNext]_tunnelVars =>
          [\A r \in Users :
              Recording(r) /\ ~Overlapped(r) =>
                  IF stored.CooldownLeft > 0
                  THEN stored'.CooldownLeft = stored.CooldownLeft
                  ELSE step[r] = "error" /\ disconnects + 1 >= Threshold
                           => stored'.CooldownLeft = CooldownSec]_tunnelVars
  BY RotatesWhenDue
<1> QED
  BY <1>1, <1>2, <1>3, PTL DEF TunnelSpec, RotationDue
=============================================================================
