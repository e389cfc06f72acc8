------------------------- MODULE MCExecutorSpeaking -------------------------
(***************************************************************************)
(* ExecutorTurns for TLC, begun in the middle of a conversation, so that   *)
(* the answer of a third turn meets one that is still spoken: the answer   *)
(* of t1 to the request of generation 1 has the render slot, and t2 runs   *)
(* for that of generation 2.  Init of ExecutorTurns leads to this state:   *)
(* a request, its turn and its answer, then a second request whose turn is *)
(* taken up, with all tasks back in their loops.                           *)
(***************************************************************************)
EXTENDS ExecutorTurns

CONSTANTS t1, t2
ASSUME t1 # t2 /\ {t1, t2} \subseteq Turns

Chosen(t, first, second, other) == IF t = t1 THEN first ELSE IF t = t2 THEN second ELSE other

Speaking ==
    /\ generation = 2 /\ requested = 2
    /\ user = [pending |-> 0, handled |-> TRUE]
    /\ userGen = [u \in UserTurns |-> 0] /\ claimed = {}
    /\ owner = [Nobody EXCEPT !.turn = t2, !.gen = 2]
    /\ finished = {t1} /\ starting = FALSE
    /\ early = <<>> /\ heard = {} /\ queued = 0
    /\ render = 1
    /\ spoken = {[turn |-> t1, gen |-> 1, said |-> {<<t1, 1>>}]} /\ lost = {}
    /\ pc = [task \in Tasks |-> "idle"] /\ job = [task \in Tasks |-> NoJob]
    /\ lockQueue = <<>> /\ running = None
    /\ tool = [r \in Reqs |-> "unseen"] /\ failedClosed = FALSE /\ crossed = {}
    /\ phase = "live" /\ failure = FALSE
    /\ ordered = FALSE /\ reply = None /\ inbox = <<>>
    /\ turnState = [t \in Turns |-> Chosen(t, "over", "running", "unborn")]
    /\ parts = [t \in Turns |-> Chosen(t, 1, 0, 0)]
    /\ asked = [r \in Reqs |-> None]
    /\ interruptedFor = [t \in Turns |-> {}]
    /\ startedFor = [t \in Turns |-> Chosen(t, 1, 2, 0)]

SpeakingSpec == Speaking /\ [][Next]_vars /\ Fairness
=============================================================================
