----------------------------- MODULE RemoteCall -----------------------------
(***************************************************************************)
(* What a caller of the tool broker may rely on, without sockets, locks or *)
(* generations: a call leaves the bridge at most once and only while its   *)
(* caller still waits, Home Assistant acts on it at most once and only if  *)
(* it left, and the caller is told Home Assistant's own answer or that the *)
(* outcome is unknown, exactly once.                                       *)
(***************************************************************************)
CONSTANT Calls

VARIABLES
    told,     \* what the caller knows
    sent,     \* calls that have left the bridge
    acted     \* what Home Assistant did

vars == <<told, sent, acted>>

Answers == {"succeeded", "failed"}

Init ==
    /\ told = [c \in Calls |-> "nothing"]
    /\ sent = {}
    /\ acted = [c \in Calls |-> "none"]

Ask(c) ==
    /\ told[c] = "nothing"
    /\ told' = [told EXCEPT ![c] = "waiting"]
    /\ sent' \in {sent, sent \cup {c}}
    /\ UNCHANGED acted

Leave(c) ==
    /\ told[c] = "waiting"
    /\ c \notin sent
    /\ sent' = sent \cup {c}
    /\ UNCHANGED <<told, acted>>

Begin(c) ==
    /\ c \in sent
    /\ acted[c] = "none"
    /\ acted' = [acted EXCEPT ![c] = "begun"]
    /\ UNCHANGED <<told, sent>>

Answer(c, answer) ==
    /\ acted[c] = "begun"
    /\ acted' = [acted EXCEPT ![c] = answer]
    /\ UNCHANGED <<told, sent>>

Tell(c) ==
    /\ told[c] = "waiting"
    /\ \/ acted[c] \in Answers /\ told' = [told EXCEPT ![c] = acted[c]]
       \/ told' = [told EXCEPT ![c] = "unknown"]
    /\ UNCHANGED <<sent, acted>>

Next ==
    \E c \in Calls :
        \/ Ask(c) \/ Leave(c) \/ Begin(c) \/ Tell(c)
        \/ \E answer \in Answers : Answer(c, answer)

Spec == Init /\ [][Next]_vars
=============================================================================
