---------------------------- MODULE ClashManager ----------------------------
(***************************************************************************)
(* The proxy nodes of kiro-go (clash/manager.go, clash/dial.go and their   *)
(* admin handlers in proxy/clash_handlers.go).  A subscription is fetched, *)
(* parsed into nodes and committed; a global jump proxy is stamped onto    *)
(* every node when it is parsed ("chained") and looked up by name, in      *)
(* mihomo's registry, when it is dialled.  Admin calls run concurrently:   *)
(* only Loads exclude each other, by fetchMu, and the manager's own mutex  *)
(* covers single reads and updates.  Requests build HTTP clients on a node *)
(* and cache them per generation of the nodes.                             *)
(*                                                                         *)
(* The nodes of one subscription are loaded, stamped and replaced together *)
(* so one value [version, chained] stands for all of them.                 *)
(***************************************************************************)
EXTENDS Integers, FiniteSets

CONSTANTS
    Admins,        \* admin calls that can run at once
    Callers,       \* requests that can look for a node's client at once
    Jumps,         \* jump proxies an administrator may set
    NoJump,        \* none
    MaxVersions,   \* the subscription's content changes this often
    MaxGenerations \* bound on m.generation in one life of the process

ASSUME ClashAssumption ==
    /\ NoJump \notin Jumps
    /\ MaxVersions \in Nat /\ MaxGenerations \in Nat

Versions == 1..MaxVersions
NoNodes == [version |-> 0, chained |-> FALSE]
Nodes == [version : 0..MaxVersions, chained : BOOLEAN]

VARIABLES
    subscribed,  \* config: a subscription URL is set
    savedJump,   \* config: GlobalOutboundProxy
    disk,        \* version in clash-cache.yaml, 0 when there is no file
    nodes,       \* m.proxies
    jump,        \* m.jump and m.jumpRawURL
    generation,  \* m.generation
    registry,    \* mihomo's tunnel.Proxies: nodes and jump last pushed
    fetching,    \* whether fetchMu is held
    clients,     \* clientCache: per generation, the nodes a client dials
    admin,       \* where each admin call is
    caller       \* where each ClientForNode call is

clashVars == <<subscribed, savedJump, disk, nodes, jump, generation, registry,
               fetching, clients, admin, caller>>

(* An admin call: its operation, its next step, the jump it was given, and *)
(* what it has parsed, or copied of the jump, on the way.                  *)
NoCall == [op |-> "none", step |-> "idle", arg |-> NoJump,
           parsed |-> NoNodes, copied |-> NoJump]
NoLookup == [step |-> "idle", found |-> NoNodes, generation |-> 0]

Goto(p, step) == admin' = [admin EXCEPT ![p].step = step]

-----------------------------------------------------------------------------
(* Starting admin calls                                                    *)

Call(p, op, step, arg) ==
    /\ admin[p].step = "idle"
    /\ admin' = [admin EXCEPT ![p] =
           [NoCall EXCEPT !.op = op, !.step = step, !.arg = arg]]

(* POST /clash with a URL stores it and loads it, with none clears.        *)
UpdateClash(p, url) ==
    /\ IF url THEN Call(p, "load", "fetch", NoJump)
              ELSE Call(p, "clear", "commit", NoJump)
    /\ subscribed' = url
    /\ UNCHANGED <<savedJump, disk, nodes, jump, generation, registry,
                   fetching, clients, caller>>

RefreshClash(p) ==
    /\ subscribed
    /\ Call(p, "load", "fetch", NoJump)
    /\ UNCHANGED <<subscribed, savedJump, disk, nodes, jump, generation,
                   registry, fetching, clients, caller>>

(* POST /outbound: SetJump first, the config afterwards.                   *)
UpdateOutbound(p, j) ==
    /\ Call(p, "outbound", "jump", j)
    /\ UNCHANGED <<subscribed, savedJump, disk, nodes, jump, generation,
                   registry, fetching, clients, caller>>

(* A change of the DNS settings re-parses by setting the saved jump again. *)
UpdateDNS(p) ==
    /\ subscribed
    /\ Call(p, "dns", "jump", savedJump)
    /\ UNCHANGED <<subscribed, savedJump, disk, nodes, jump, generation,
                   registry, fetching, clients, caller>>

-----------------------------------------------------------------------------
(* Their steps                                                             *)

(* Defect: the jump is read from the config, which is updated last.        *)
ParsedWithSaved(version) == [version |-> version, chained |-> savedJump # NoJump]

(* parseSubscription with the jump of the moment it starts.                *)
Parsed(version) == [version |-> version, chained |-> jump # NoJump]

(* Load: take fetchMu, fetch, read the jump and parse.                     *)
Fetch(p, version) ==
    /\ admin[p].step = "fetch" /\ ~fetching
    /\ fetching' = TRUE
    /\ admin' = [admin EXCEPT ![p] =
           [@ EXCEPT !.step = "commit", !.parsed = Parsed(version)]]
    /\ UNCHANGED <<subscribed, savedJump, disk, nodes, jump, generation,
                   registry, clients, caller>>

(* The fetch or the parse fails: only the error text changes.              *)
FetchFails(p) ==
    /\ admin[p].step = "fetch" /\ ~fetching
    /\ admin' = [admin EXCEPT ![p] = NoCall]
    /\ UNCHANGED <<subscribed, savedJump, disk, nodes, jump, generation,
                   registry, fetching, clients, caller>>

(* SetJump, first critical section.                                        *)
InstallJump(p) ==
    /\ admin[p].step = "jump" /\ generation < MaxGenerations
    /\ jump' = admin[p].arg
    /\ generation' = generation + 1
    /\ Goto(p, "reparse")
    /\ UNCHANGED <<subscribed, savedJump, disk, nodes, registry, fetching,
                   clients, caller>>

(* SetJump reads the cached subscription, if there is one, and parses it.  *)
Reparse(p) ==
    /\ admin[p].step = "reparse"
    /\ admin' = [admin EXCEPT ![p] =
           IF disk = 0 THEN [@ EXCEPT !.step = "flush"]
           ELSE [@ EXCEPT !.step = "commit", !.parsed = Parsed(disk)]]
    /\ UNCHANGED <<subscribed, savedJump, disk, nodes, jump, generation,
                   registry, fetching, clients, caller>>

(* commit, under the mutex.                                                *)
Commit(p) ==
    /\ admin[p].step = "commit" /\ generation < MaxGenerations
    /\ nodes' = admin[p].parsed
    /\ generation' = generation + 1
    /\ admin' = [admin EXCEPT ![p] =
           [@ EXCEPT !.step = "push", !.copied = jump]]
    /\ UNCHANGED <<subscribed, savedJump, disk, jump, registry, fetching,
                   clients, caller>>

Pushed(p) == [nodes |-> admin[p].parsed, jump |-> admin[p].copied]

(* commit, after the mutex: mihomo's registry, then the client cache.      *)
Push(p) ==
    /\ admin[p].step = "push"
    /\ registry' = Pushed(p)
    /\ Goto(p, "invalidate")
    /\ UNCHANGED <<subscribed, savedJump, disk, nodes, jump, generation,
                   fetching, clients, caller>>

Invalidate(p) ==
    /\ admin[p].step = "invalidate"
    /\ clients' = {}
    /\ Goto(p, IF admin[p].op = "load" THEN "write"
               ELSE IF admin[p].op = "clear" THEN "remove" ELSE "flush")
    /\ UNCHANGED <<subscribed, savedJump, disk, nodes, jump, generation,
                   registry, fetching, caller>>

(* Load writes the file if it can, and releases fetchMu.                   *)
WriteFile(p) ==
    /\ admin[p].step = "write"
    /\ disk' \in {disk, admin[p].parsed.version}
    /\ fetching' = FALSE
    /\ admin' = [admin EXCEPT ![p] = NoCall]
    /\ UNCHANGED <<subscribed, savedJump, nodes, jump, generation, registry,
                   clients, caller>>

RemoveFile(p) ==
    /\ admin[p].step = "remove"
    /\ disk' = 0
    /\ admin' = [admin EXCEPT ![p] = NoCall]
    /\ UNCHANGED <<subscribed, savedJump, nodes, jump, generation, registry,
                   fetching, clients, caller>>

(* The last step of SetJump, with what its caller does next.               *)
Flush(p) ==
    /\ admin[p].step = "flush"
    /\ clients' = {}
    /\ IF admin[p].op = "outbound" THEN Goto(p, "save")
                                   ELSE admin' = [admin EXCEPT ![p] = NoCall]
    /\ UNCHANGED <<subscribed, savedJump, disk, nodes, jump, generation,
                   registry, fetching, caller>>

SaveJump(p) ==
    /\ admin[p].step = "save"
    /\ savedJump' = admin[p].arg
    /\ admin' = [admin EXCEPT ![p] = NoCall]
    /\ UNCHANGED <<subscribed, disk, nodes, jump, generation, registry,
                   fetching, clients, caller>>

-----------------------------------------------------------------------------
(* ClientForNode                                                           *)

GetNode(c) ==
    /\ caller[c].step = "idle"
    /\ nodes.version # 0
    /\ caller' = [caller EXCEPT ![c] =
           [@ EXCEPT !.step = "generation", !.found = nodes]]
    /\ UNCHANGED <<subscribed, savedJump, disk, nodes, jump, generation,
                   registry, fetching, clients, admin>>

GetGeneration(c) ==
    /\ caller[c].step = "generation"
    /\ caller' = [caller EXCEPT ![c] =
           [@ EXCEPT !.step = "client", !.generation = generation]]
    /\ UNCHANGED <<subscribed, savedJump, disk, nodes, jump, generation,
                   registry, fetching, clients, admin>>

(* Under clientCacheMu: a client cached under the key, or a new one on the *)
(* node found before.                                                      *)
GetClient(c) ==
    LET key == caller[c].generation
        hit == \E k \in clients : k.generation = key
    IN /\ caller[c].step = "client"
       /\ clients' = IF hit THEN clients
                     ELSE clients \cup {[generation |-> key,
                                         nodes |-> caller[c].found]}
       /\ caller' = [caller EXCEPT ![c] = NoLookup]
       /\ UNCHANGED <<subscribed, savedJump, disk, nodes, jump, generation,
                      registry, fetching, admin>>

-----------------------------------------------------------------------------
StartJump == savedJump

(* Init, before the server listens, in a process that starts or restarts:  *)
(* SetJump, which parses the file, is called for a saved jump only; then   *)
(* the file is parsed again if there is a subscription.                    *)
Restart ==
    LET loads == disk # 0 /\ (StartJump # NoJump \/ subscribed)
        loaded == [version |-> disk, chained |-> StartJump # NoJump]
    IN /\ jump' = StartJump
       /\ nodes' = IF loads THEN loaded ELSE NoNodes
       /\ registry' = IF loads THEN [nodes |-> loaded, jump |-> StartJump]
                               ELSE [nodes |-> NoNodes, jump |-> NoJump]
       /\ generation' = 0
       /\ fetching' = FALSE
       /\ clients' = {}
       /\ admin' = [p \in Admins |-> NoCall]
       /\ caller' = [c \in Callers |-> NoLookup]
       /\ UNCHANGED <<subscribed, savedJump, disk>>

Init ==
    /\ subscribed = FALSE
    /\ savedJump = NoJump
    /\ disk = 0
    /\ nodes = NoNodes
    /\ jump = NoJump
    /\ generation = 0
    /\ registry = [nodes |-> NoNodes, jump |-> NoJump]
    /\ fetching = FALSE
    /\ clients = {}
    /\ admin = [p \in Admins |-> NoCall]
    /\ caller = [c \in Callers |-> NoLookup]

AdminCall(p) ==
    \/ \E url \in BOOLEAN : UpdateClash(p, url)
    \/ RefreshClash(p)
    \/ \E j \in Jumps \cup {NoJump} : UpdateOutbound(p, j)
    \/ UpdateDNS(p)

AdminStep(p) ==
    \/ \E version \in Versions : Fetch(p, version)
    \/ FetchFails(p)
    \/ InstallJump(p) \/ Reparse(p) \/ Commit(p) \/ Push(p) \/ Invalidate(p)
    \/ WriteFile(p) \/ RemoveFile(p) \/ Flush(p) \/ SaveJump(p)

Lookup(c) == GetNode(c) \/ GetGeneration(c) \/ GetClient(c)

Running ==
    \/ \E p \in Admins : AdminCall(p) \/ AdminStep(p)
    \/ \E c \in Callers : Lookup(c)

Next == Running \/ Restart

Spec == Init /\ [][Next]_clashVars

-----------------------------------------------------------------------------
(* Properties                                                              *)

Calls ==
    [op : {"none", "load", "clear", "outbound", "dns"},
     step : {"idle", "fetch", "jump", "reparse", "commit", "push",
             "invalidate", "write", "remove", "flush", "save"},
     arg : Jumps \cup {NoJump}, parsed : Nodes, copied : Jumps \cup {NoJump}]

Registered == [nodes : Nodes, jump : Jumps \cup {NoJump}]
Clients == [generation : Nat, nodes : Nodes]
Lookups == [step : {"idle", "generation", "client"}, found : Nodes,
            generation : Nat]

TypeOK ==
    /\ subscribed \in BOOLEAN /\ fetching \in BOOLEAN
    /\ savedJump \in Jumps \cup {NoJump} /\ jump \in Jumps \cup {NoJump}
    /\ disk \in 0..MaxVersions
    /\ nodes \in Nodes
    /\ generation \in Nat
    /\ registry \in Registered
    /\ clients \in SUBSET Clients
    /\ admin \in [Admins -> Calls]
    /\ caller \in [Callers -> Lookups]

(* No admin call is running.                                               *)
Quiet == \A p \in Admins : admin[p].step = "idle"

(* Once a change of the jump has returned, "the chain takes effect": the   *)
(* nodes go through the jump if and only if one is set.  (While there is a *)
(* file to parse them from: a Load that could not write it leaves none.)   *)
ChainFollowsJump ==
    Quiet /\ disk # 0 /\ nodes.version # 0 => nodes.chained = (jump # NoJump)

(* Nodes stamped with the jump find it in the registry when dialled.       *)
ChainResolves == Quiet /\ nodes.chained => registry.jump # NoJump

(* "On save we also install it into the live Clash manager": the jump in   *)
(* use is the one that is saved.                                           *)
LiveJumpIsSaved == Quiet => jump = savedJump

=============================================================================
