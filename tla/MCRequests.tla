----------------------------- MODULE MCRequests -----------------------------
(* Model checking instances of what requests to kiro-gateway go through,   *)
(* one of them in each behaviour: the accounts that they share (AuthPool), *)
(* and the payloads made of a conversation (Dialogue).  Each module        *)
(* explains its own properties.                                            *)
EXTENDS AuthPool, Dialogue

VARIABLE scenario

allVars == <<scenario, vars, dialogueVars>>
-----------------------------------------------------------------------------
NoPool ==
    /\ formats = {} /\ clock = 0 /\ failed = NoSlot
    /\ cooldowns = [s \in Slots |-> 0] /\ errors = [s \in Slots |-> 0]
    /\ req = [r \in Requests |-> Idle] /\ rests = [s \in Slots |-> 0]

NoTalk ==
    /\ format = "openai" /\ tools = "none" /\ messages = <<>> /\ store = {}
    /\ payload = NoPayload /\ answered = {} /\ sends = 0

MCInit ==
    \/ scenario = "pool" /\ Init /\ NoTalk
    \/ scenario = "conversation" /\ NoPool /\ DialogueInit

MCNext ==
    /\ UNCHANGED scenario
    /\ \/ scenario = "pool" /\ Next /\ UNCHANGED dialogueVars
       \/ scenario = "conversation" /\ DialogueNext /\ UNCHANGED vars

MCSpec == MCInit /\ [][MCNext]_allVars
=============================================================================
