--------------------------- MODULE RenderGateProofs ---------------------------
(***************************************************************************)
(* Proofs about RenderGate for any set of turns and any bounds.            *)
(***************************************************************************)
EXTENDS RenderGate, QueueProofs, FiniteSetTheorems

(***************************************************************************)
(* The inductive invariant, in parts.                                      *)
(***************************************************************************)

(* Who waits for the lock or has it is in its queue, once.                 *)
InQueue == Locked \cup {"stopping", "starting", "started", "writing"}

LockInv ==
    /\ \A task \in Tasks : task \in ToSet(lock) <=> at[task] \in InQueue
    /\ "timer" \in ToSet(lock) <=> timer = "waiting"

(* The timeout runs only while the output is armed.                        *)
TimerInv == timer # "off" => armed

(* A turn is known once it began; only one speaks.                         *)
TurnInv ==
    /\ \A t \in Turns : turn[t] = "unborn" =>
          /\ made[t] = 0 /\ render.turn # t /\ chunk.turn # t
          /\ t \notin ToSet(air) \cup ToSet(media)
          /\ \A h \in heard : h.turn # t
          /\ \A i \in DOMAIN controls : controls[i].turn # t
    /\ \A t, o \in Turns : turn[t] = "speaking" /\ turn[o] = "speaking" => t = o
    /\ \A i \in DOMAIN controls : controls[i].kind \in {"created", "done"} =>
          controls[i].turn \in Turns
    /\ \A i, j \in DOMAIN controls :
          controls[i].kind = "created" /\ controls[i] = controls[j] => i = j
    /\ \A i \in DOMAIN controls : controls[i].kind = "done" => turn[controls[i].turn] = "over"

(* A generation is answered once, so that it is asked for once and one     *)
(* turn is made for it.                                                    *)
Submitting == at["exec"] \in {"retiring", "quieting", "ending", "stopping"}

OnceInv ==
    /\ 0 \in answered /\ render.gen \in answered
    /\ \A t \in Turns : made[t] \in answered
    /\ \A t, o \in Turns : made[t] = made[o] /\ made[t] # 0 => t = o
    /\ asked # 0 => \A t \in Turns : made[t] # asked
    /\ pending # 0 => \A t \in Turns : made[t] # pending
    /\ Submitting =>
          /\ answering \in answered /\ answering # 0
          /\ render.gen # answering
          /\ \A t \in Turns : made[t] # answering

(* The provider follows the slot: asked, acknowledged, bound; a turn made  *)
(* for a render speaks only while the render is in the slot.               *)
IsAcked == \E i \in DOMAIN controls : controls[i].kind = "ack"

SlotInv ==
    /\ render.gen = 0 => render = Free
    /\ asked # 0 => render = [gen |-> asked, acked |-> FALSE, turn |-> None] /\ pending = 0
    /\ pending # 0 => render.gen = pending /\ render.turn = None /\ (render.acked \/ IsAcked)
    /\ IsAcked => render.gen # 0 /\ ~render.acked /\ asked = 0
    /\ render.gen # 0 /\ ~render.acked /\ asked = 0 => IsAcked
    /\ render.turn # None =>
          render.acked /\ made[render.turn] = render.gen /\ turn[render.turn] # "unborn"
    /\ closing => render.turn # None /\ turn[render.turn] = "over"
    /\ \A t \in Turns : turn[t] = "speaking" /\ made[t] # 0 => made[t] = render.gen

(* Of the turns that began after the acknowledgement of a render without   *)
(* a turn, the first is the one made for it.                               *)
AfterAck(i) ==
    /\ controls[i].kind = "created"
    /\ render.acked \/ \E j \in DOMAIN controls : j < i /\ controls[j].kind = "ack"

AckOnce == \A i, j \in DOMAIN controls :
    controls[i].kind = "ack" /\ controls[j].kind = "ack" => i = j

Ordered ==
    /\ pending # 0 => \A i \in DOMAIN controls : ~AfterAck(i)
    /\ asked = 0 /\ pending = 0 => \E i \in DOMAIN controls : AfterAck(i)
    /\ \A i \in DOMAIN controls :
          AfterAck(i) /\ (\A j \in DOMAIN controls : AfterAck(j) => i <= j) =>
              made[controls[i].turn] = render.gen

OrderInv == AckOnce /\ (render.gen # 0 /\ render.turn = None => Ordered)

(* While a render is in the slot there are no frames of another; an answer *)
(* is handed in when there are none of any render.                         *)
FrameInv ==
    /\ render.gen # 0 =>
          \A t \in ToSet(air) \cup ToSet(media) : made[t] \in {0, render.gen}
    /\ render.gen = 0 /\ ~quiet => \A t \in ToSet(air) : made[t] = 0
    /\ at["exec"] = "quieting" => render.gen = 0
    /\ at["exec"] \in {"ending", "stopping"} =>
          render.gen = 0 /\ ~quiet /\ \A t \in ToSet(media) : made[t] = 0

(* The gate is open for the render in the slot, which is bound.            *)
GateInv == gate # 0 => gate = render.gen /\ render.turn # None

(* The frame at hand was read under the gate of its turn.                  *)
ChunkInv ==
    /\ at["audio"] \in {"delivering", "starting", "started", "writing"} => chunk.turn # None
    /\ chunk.turn # None => made[chunk.turn] \in {0, chunk.gate}

(* An epoch needs an armed output, which takes a turn that was bound.      *)
Begun == {t \in Turns :
    made[t] # 0 /\ \A i \in DOMAIN controls : controls[i] # [kind |-> "created", turn |-> t]}

EpochInv == epoch + (IF armed THEN 1 ELSE 0) + (IF at["data"] = "arming" THEN 1 ELSE 0)
               <= Cardinality(Begun)

IInv == /\ TypeOK /\ LockInv /\ TimerInv /\ TurnInv /\ OnceInv /\ SlotInv /\ OrderInv /\ FrameInv
        /\ GateInv /\ ChunkInv /\ EpochInv /\ HeardIsCurrent

-----------------------------------------------------------------------------
(* The types, in parts.                                                    *)

EventType == [kind : {"ack", "created", "done", "speech"}, turn : Turns \cup {None}]

SlotType ==
    /\ generation \in Generations
    /\ render \in [gen : Generations, acked : BOOLEAN, turn : Turns \cup {None}]
    /\ quiet \in BOOLEAN /\ closing \in BOOLEAN
    /\ gate \in {0, generation}
    /\ chunk \in [turn : Turns \cup {None}, gate : Generations]
    /\ answering \in Generations /\ answered \subseteq Generations
    /\ asked \in Generations /\ pending \in Generations

OutputType ==
    /\ armed \in BOOLEAN /\ speaking \in BOOLEAN /\ over \in BOOLEAN
    /\ timer \in {"off", "asleep", "waiting"}
    /\ epoch \in Epochs /\ tailed \in Epochs /\ open \in Epochs

Awaits == {"idle", "waiting", "sleeping", "retiring", "quieting", "appending"}
             \cup Locked \cup Sending

AwaitType == at \in [Tasks -> Awaits]

TurnType ==
    made \in [Turns -> Generations] /\ turn \in [Turns -> {"unborn", "speaking", "over"}]

WireType == air \in Seq(Turns) /\ media \in Seq(Turns) /\ controls \in Seq(EventType)

HeardType == heard \subseteq [turn : Turns, gen : Generations, epoch : Epochs]

QueueType == lock \in Seq(Tasks \cup {"timer"}) /\ IsInjective(lock)

LEMMA TypeParts ==
    TypeOK <=> /\ SlotType /\ OutputType /\ AwaitType /\ TurnType /\ WireType /\ HeardType
               /\ QueueType
  BY DEF TypeOK, SlotType, OutputType, AwaitType, Awaits, TurnType, WireType, EventType,
         HeardType, QueueType

-----------------------------------------------------------------------------
(* Facts about the helpers.                                                *)

(* The first event is handled: the others move up.                         *)
LEMMA HandledEvent ==
    ASSUME TypeOK, NEW kind, Handles(kind)
    PROVE  /\ controls' \in Seq(EventType)
           /\ 1 \in DOMAIN controls /\ controls[1] = Head(controls) /\ controls[1].kind = kind
           /\ \A i \in DOMAIN controls' :
                 i \in Nat \ {0} /\ i + 1 \in DOMAIN controls /\ controls'[i] = controls[i + 1]
           /\ \A i \in DOMAIN controls :
                 /\ i \in Nat \ {0}
                 /\ i # 1 => i - 1 \in DOMAIN controls' /\ controls'[i - 1] = controls[i]
<1>1. controls \in Seq(EventType)
  BY DEF TypeOK, EventType
<1>2. controls # <<>> /\ Head(controls).kind = kind /\ controls' = Tail(controls)
  BY DEF Handles
<1>3. /\ Len(controls) \in Nat \ {0} /\ DOMAIN controls = 1..Len(controls)
      /\ DOMAIN Tail(controls) = 1..(Len(controls) - 1)
      /\ \A i \in 1..(Len(controls) - 1) : Tail(controls)[i] = controls[i + 1]
      /\ Head(controls) = controls[1] /\ Tail(controls) \in Seq(EventType)
  BY <1>1, <1>2
<1> DEFINE tail == Tail(controls)
           N == Len(controls)
<1> HIDE DEF tail, N
<1>4. /\ \A i \in DOMAIN tail :
            i \in Nat \ {0} /\ i + 1 \in DOMAIN controls /\ tail[i] = controls[i + 1]
      /\ \A i \in DOMAIN controls :
            i \in Nat \ {0} /\ (i # 1 => i - 1 \in DOMAIN tail /\ tail[i - 1] = controls[i])
  BY <1>3 DEF tail, N
<1>5. controls' = tail /\ tail \in Seq(EventType) /\ 1 \in DOMAIN controls
  BY <1>2, <1>3 DEF tail, N
<1>6. QED
  BY <1>2, <1>3, <1>4, <1>5

(* The provider sends one more event.                                      *)
LEMMA NewEvent ==
    ASSUME TypeOK, NEW kind \in {"ack", "created", "done", "speech"},
           NEW t \in Turns \cup {None}, Event(kind, t)
    PROVE  /\ controls' \in Seq(EventType)
           /\ \E n \in Nat \ {0} :
                 /\ n \notin DOMAIN controls /\ DOMAIN controls' = DOMAIN controls \cup {n}
                 /\ controls'[n] = [kind |-> kind, turn |-> t]
                 /\ \A i \in DOMAIN controls :
                       i \in Nat \ {0} /\ i < n /\ controls'[i] = controls[i]
<1>1. controls \in Seq(EventType) /\ [kind |-> kind, turn |-> t] \in EventType
  BY DEF TypeOK, EventType
<1> DEFINE event == [kind |-> kind, turn |-> t]
           longer == Append(controls, event)
           N == Len(controls)
<1> HIDE DEF event
<1>2. /\ N \in Nat /\ DOMAIN controls = 1..N /\ DOMAIN longer = 1..(N + 1)
      /\ \A i \in 1..N : longer[i] = controls[i]
      /\ longer[N + 1] = event /\ longer \in Seq(EventType)
  BY <1>1 DEF event
<1>3. controls' = longer
  BY DEF Event, event
<1> HIDE DEF longer, N
<1>4. /\ N + 1 \in Nat \ {0} /\ N + 1 \notin DOMAIN controls
      /\ DOMAIN longer = DOMAIN controls \cup {N + 1}
      /\ \A i \in DOMAIN controls : i \in Nat \ {0} /\ i < N + 1 /\ longer[i] = controls[i]
  BY <1>2
<1>5. QED
  BY <1>2, <1>3, <1>4 DEF event

(* The slot, field by field.                                               *)
LEMMA RenderFields ==
    ASSUME TypeOK
    PROVE  /\ Free.gen = 0 /\ ~Free.acked /\ Free.turn = None
           /\ \A t : /\ [render EXCEPT !.turn = t].gen = render.gen
                     /\ [render EXCEPT !.turn = t].acked = render.acked
                     /\ [render EXCEPT !.turn = t].turn = t
           /\ [render EXCEPT !.acked = TRUE].gen = render.gen
           /\ [render EXCEPT !.acked = TRUE].acked
           /\ [render EXCEPT !.acked = TRUE].turn = render.turn
           /\ render.gen \in Nat /\ render.acked \in BOOLEAN /\ render.turn \in Turns \cup {None}
  BY DEF TypeOK, Free, Generations

(* The steps of arm_output and end_output, by what they do to the slot:    *)
(* the terminal of its render is done,                                     *)
RenderOver ==
    /\ closing /\ closing' = FALSE
    /\ gate' = 0
    /\ render' = Free
    /\ quiet' = TRUE
    /\ media' = <<>>
    /\ at' = [at EXCEPT !["data"] = "idle"]
    /\ UNCHANGED <<asked, generation, chunk, answering, answered, pending, made, turn, air,
                   controls, heard>>

(* or an answer is handed in,                                              *)
AnswerTaken ==
    /\ at["exec"] \in {"ending", "stopping"} /\ answering = generation
    /\ render' = [gen |-> answering, acked |-> FALSE, turn |-> None]
    /\ asked' = answering
    /\ at' = [at EXCEPT !["exec"] = "appending"]
    /\ UNCHANGED <<gate, quiet, media, closing, generation, chunk, answering, answered,
                   pending, made, turn, air, controls, heard>>

(* or nothing happens to it.                                               *)
OutputMoves(task) ==
    /\ task = "exec" => at["exec"] \in {"ending", "stopping"}
    /\ \E there \in {"idle", "stopping", "finishing"} :
          at' = [at EXCEPT ![task] = there] /\ (there = "finishing" => task = "data")
    /\ UNCHANGED <<render, quiet, gate, media, asked, closing, generation, chunk, answering,
                   answered, pending, made, turn, air, controls, heard>>

LEMMA LeavesLock ==
    ASSUME TypeOK, NEW task \in Tasks, NEW rest, Leaves(task, rest)
    PROVE  lock' = rest /\ \E there \in {"idle", "appending"} : Goes(task, there)
<1>1. CASE task = "exec" /\ answering = generation
  BY <1>1 DEF Leaves
<1>2. CASE ~(task = "exec" /\ answering = generation)
  BY <1>2 DEF Leaves
<1>3. QED
  BY <1>1, <1>2

(* Who leaves the lock for good: data_events may have a terminal to end,   *)
(* an answer may be handed in.                                             *)
LEMMA LeavesSlot ==
    ASSUME TypeOK, NEW task \in Tasks, NEW rest, Leaves(task, rest),
           UNCHANGED <<generation, chunk, answering, answered, pending, made, turn, air,
                       controls, heard>>,
           task = "exec" => at["exec"] \in {"ending", "stopping"}
    PROVE  RenderOver \/ AnswerTaken \/ OutputMoves(task)
<1>1. CASE task = "data" /\ closing
  <2>1. Closes /\ Goes("data", "idle")
    BY <1>1 DEF Leaves
  <2>2. RenderOver
    BY <1>1, <2>1 DEF Closes, Drains, Goes, RenderOver
  <2>3. QED
    BY <2>2
<1>2. CASE task = "exec" /\ answering = generation
  <2>1. Submits /\ Goes("exec", "appending")
    BY <1>2 DEF Leaves
  <2>2. render' = [gen |-> answering, acked |-> FALSE, turn |-> None] /\ asked' = answering
    BY <1>2, <2>1 DEF Submits, Free
  <2>3. AnswerTaken
    BY <1>2, <2>1, <2>2 DEF Submits, Goes, AnswerTaken
  <2>4. QED
    BY <2>3
<1>3. CASE task = "exec" /\ answering # generation
  <2>1. Submits /\ Goes("exec", "idle")
    BY <1>3 DEF Leaves
  <2>2. OutputMoves("exec")
    BY <1>3, <2>1 DEF Submits, Goes, OutputMoves
  <2>3. QED
    BY <1>3, <2>2
<1>4. CASE task # "exec" /\ ~(task = "data" /\ closing)
  <2>1. UNCHANGED afterVars /\ Goes(task, "idle")
    BY <1>4 DEF Leaves
  <2>2. OutputMoves(task)
    BY <1>4, <2>1 DEF afterVars, slotVars, Goes, OutputMoves
  <2>3. QED
    BY <2>2
<1>5. QED
  BY <1>1, <1>2, <1>3, <1>4

LEMMA OutputSteps ==
    ASSUME TypeOK
    PROVE  /\ Arms \/ Tails \/ Finishes => RenderOver \/ AnswerTaken \/ OutputMoves("data")
           /\ \A task \in Tasks : Ends(task) \/ Stopped(task) =>
                 RenderOver \/ AnswerTaken \/ OutputMoves(task)
<1>1. "data" \in Tasks
  BY DEF Tasks
<1> DEFINE Still == UNCHANGED <<generation, chunk, answering, answered, pending, made, turn,
                                air, controls, heard>>
<1>2. /\ Arms \/ Tails \/ Finishes => Still
      /\ \A task \in Tasks : Ends(task) \/ Stopped(task) => Still
  BY DEF Arms, Tails, Finishes, Ends, Stopped, outputVars, deviceVars
<1> HIDE DEF Still
<1>3. ASSUME NEW task \in Tasks, NEW rest, Leaves(task, rest), Still,
             task = "exec" => at["exec"] \in {"ending", "stopping"}
      PROVE  RenderOver \/ AnswerTaken \/ OutputMoves(task)
  BY <1>3, LeavesSlot DEF Still
<1>4. ASSUME NEW task \in Tasks, StopsSpeaking(task) \/ StaysSilent(task), Still,
             task = "exec" => at["exec"] = "ending"
      PROVE  RenderOver \/ AnswerTaken \/ OutputMoves(task)
  <2>1. CASE StopsSpeaking(task)
    BY <1>4, <2>1 DEF StopsSpeaking, Goes, afterVars, slotVars, Still, OutputMoves
  <2>2. CASE StaysSilent(task)
    BY <1>3, <1>4, <2>2 DEF StaysSilent
  <2>3. QED
    BY <1>4, <2>1, <2>2
<1>5. ASSUME Arms PROVE RenderOver \/ AnswerTaken \/ OutputMoves("data")
  BY <1>1, <1>2, <1>3, <1>5 DEF Arms
<1>6. ASSUME Tails PROVE RenderOver \/ AnswerTaken \/ OutputMoves("data")
  <2>1. CASE Rejoins("data", "finishing") /\ UNCHANGED afterVars
    BY <1>2, <1>6, <2>1 DEF Rejoins, Goes, afterVars, slotVars, Still, OutputMoves
  <2>2. CASE Leaves("data", Tail(lock))
    BY <1>1, <1>2, <1>3, <1>6, <2>2
  <2>3. QED
    BY <1>6, <2>1, <2>2 DEF Tails
<1>7. ASSUME Finishes PROVE RenderOver \/ AnswerTaken \/ OutputMoves("data")
  BY <1>1, <1>2, <1>4, <1>7 DEF Finishes
<1>8. ASSUME NEW task \in Tasks, Ends(task)
      PROVE  RenderOver \/ AnswerTaken \/ OutputMoves(task)
  BY <1>2, <1>4, <1>8 DEF Ends, Has
<1>9. ASSUME NEW task \in Tasks, Stopped(task)
      PROVE  RenderOver \/ AnswerTaken \/ OutputMoves(task)
  BY <1>2, <1>3, <1>9 DEF Stopped
<1>10. QED
  BY <1>5, <1>6, <1>7, <1>8, <1>9

(* What the queue of the lock is after who joins, leaves or stays.         *)
Queue(queue, tasks) ==
    /\ queue \in Seq(Tasks \cup {"timer"}) /\ IsInjective(queue)
    /\ ToSet(queue) = tasks

LEMMA TailQueue ==
    ASSUME NEW tasks, NEW queue, Queue(queue, tasks), queue # <<>>
    PROVE  Queue(Tail(queue), tasks \ {Head(queue)}) /\ Head(queue) \in tasks
  BY TailSet, TailOnce DEF Queue

LEMMA JoinsQueue ==
    ASSUME NEW tasks, NEW queue, Queue(queue, tasks),
           NEW task \in Tasks \cup {"timer"}, task \notin tasks
    PROVE  Queue(Append(queue, task), tasks \cup {task})
  BY AppendSet, JoinsOnce DEF Queue

LEMMA WithoutQueue ==
    ASSUME NEW tasks, NEW queue, Queue(queue, tasks), NEW task
    PROVE  Queue(Without(queue, task), tasks \ {task})
  BY DroppingKeeps DEF Queue, Without

LEMMA LockFacts ==
    ASSUME TypeOK
    PROVE  /\ \A task \in (Tasks \cup {"timer"}) \ ToSet(lock) :
                 Queue(Append(lock, task), ToSet(lock) \cup {task})
           /\ lock # <<>> =>
                 /\ Head(lock) \in ToSet(lock)
                 /\ Queue(Tail(lock), ToSet(lock) \ {Head(lock)})
                 /\ Queue(Append(Tail(lock), Head(lock)), ToSet(lock))
                 /\ Queue(Disarmed(Tail(lock)), ToSet(lock) \ {Head(lock), "timer"})
           /\ \A task : Queue(Without(lock, task), ToSet(lock) \ {task})
           /\ Queue(Disarmed(lock), ToSet(lock) \ {"timer"})
           /\ Queue(lock, ToSet(lock))
<1>1. Queue(lock, ToSet(lock))
  BY DEF TypeOK, Queue
<1>2. \A task \in (Tasks \cup {"timer"}) \ ToSet(lock) :
         Queue(Append(lock, task), ToSet(lock) \cup {task})
  BY <1>1, JoinsQueue
<1>3. \A task : Queue(Without(lock, task), ToSet(lock) \ {task})
  BY <1>1, WithoutQueue
<1>4. Queue(Disarmed(lock), ToSet(lock) \ {"timer"})
  BY <1>1, WithoutQueue DEF Disarmed
<1>5. ASSUME lock # <<>>
      PROVE  /\ Head(lock) \in ToSet(lock)
             /\ Queue(Tail(lock), ToSet(lock) \ {Head(lock)})
             /\ Queue(Append(Tail(lock), Head(lock)), ToSet(lock))
             /\ Queue(Disarmed(Tail(lock)), ToSet(lock) \ {Head(lock), "timer"})
  <2> DEFINE head == Head(lock)
             tail == Tail(lock)
             others == ToSet(lock) \ {head}
  <2>1. head \in ToSet(lock) /\ Queue(tail, others)
    BY <1>1, <1>5, TailQueue
  <2>2. head \in Tasks \cup {"timer"} /\ head \notin others
    BY <1>5 DEF TypeOK
  <2> HIDE DEF tail, others, head
  <2>3. Queue(Append(tail, head), others \cup {head})
    BY <2>1, <2>2, JoinsQueue
  <2>4. Queue(Without(tail, "timer"), others \ {"timer"})
    BY <2>1, WithoutQueue
  <2>5. others \cup {head} = ToSet(lock) /\ others \ {"timer"} = ToSet(lock) \ {head, "timer"}
    BY <2>1 DEF others
  <2>6. QED
    BY <2>1, <2>3, <2>4, <2>5 DEF Disarmed, tail, head, others
<1>6. QED
  BY <1>1, <1>2, <1>3, <1>4, <1>5

(* A task moves on, and joins the queue, leaves it or stays where it is.   *)
Moves(task, there) ==
    /\ at' = [at EXCEPT ![task] = there]
    /\ \/ UNCHANGED <<lock, timer>> /\ (there \in InQueue <=> at[task] \in InQueue)
       \/ /\ at[task] \notin InQueue /\ there \in InQueue
          /\ lock' = Append(lock, task) /\ UNCHANGED timer
       \/ /\ lock # <<>> /\ Head(lock) = task
          /\ \/ lock' = Append(Tail(lock), task) /\ UNCHANGED timer /\ there \in InQueue
             \/ /\ lock' = Tail(lock) /\ (timer' = "waiting" <=> timer = "waiting")
                /\ there \notin InQueue
             \/ lock' = Disarmed(Tail(lock)) /\ timer' = "off" /\ there \notin InQueue
       \/ /\ at[task] \in InQueue /\ there \in InQueue
          /\ lock' = Disarmed(lock) /\ timer' = "off"
       \/ lock' = Without(lock, task) /\ UNCHANGED timer /\ there \notin InQueue

LEMMA MovesKeep ==
    ASSUME TypeOK, LockInv, NEW task \in Tasks, NEW there, Moves(task, there)
    PROVE  /\ LockInv'
           /\ Queue(lock', ToSet(lock'))
           /\ \A o \in Tasks \ {task} : at'[o] = at[o]
<1>1. /\ at \in [Tasks -> {at[o] : o \in Tasks}] /\ "timer" \notin Tasks
      /\ at' = [at EXCEPT ![task] = there]
  BY DEF TypeOK, Tasks, Moves
<1>2. /\ at'[task] = there /\ \A o \in Tasks \ {task} : at'[o] = at[o]
      /\ task # "timer"
  BY <1>1
<1>3. /\ task \in ToSet(lock) <=> at[task] \in InQueue
      /\ \A o \in Tasks \ {task} : o \in ToSet(lock) <=> at'[o] \in InQueue
      /\ "timer" \in ToSet(lock) <=> timer = "waiting"
  BY <1>2 DEF LockInv
<1>4. SUFFICES /\ Queue(lock', ToSet(lock'))
               /\ ToSet(lock') \ {task, "timer"} = ToSet(lock) \ {task, "timer"}
               /\ task \in ToSet(lock') <=> there \in InQueue
               /\ "timer" \in ToSet(lock') <=> timer' = "waiting"
  <2>1. ASSUME NEW o \in Tasks \ {task} PROVE o \in ToSet(lock') <=> o \in ToSet(lock)
    BY <1>1, <1>4
  <2>2. QED
    BY <1>2, <1>3, <1>4, <2>1 DEF LockInv
<1> DEFINE set == ToSet(lock)
<1>5. CASE UNCHANGED <<lock, timer>> /\ (there \in InQueue <=> at[task] \in InQueue)
  BY <1>3, <1>5, LockFacts
<1>6. CASE /\ at[task] \notin InQueue /\ there \in InQueue
           /\ lock' = Append(lock, task) /\ UNCHANGED timer
  <2>1. Queue(lock', set \cup {task})
    BY <1>3, <1>6, LockFacts
  <2>2. QED
    BY <1>2, <1>3, <1>6, <2>1 DEF Queue
<1>7. CASE /\ at[task] \in InQueue /\ there \in InQueue
           /\ lock' = Disarmed(lock) /\ timer' = "off"
  <2>1. Queue(lock', set \ {"timer"})
    BY <1>7, LockFacts
  <2>2. QED
    BY <1>2, <1>3, <1>7, <2>1 DEF Queue
<1>8. CASE lock' = Without(lock, task) /\ UNCHANGED timer /\ there \notin InQueue
  <2>1. Queue(lock', set \ {task})
    BY <1>8, LockFacts
  <2>2. QED
    BY <1>2, <1>3, <1>8, <2>1 DEF Queue
<1>9. CASE lock # <<>> /\ Head(lock) = task
  <2>1. CASE lock' = Append(Tail(lock), task) /\ UNCHANGED timer /\ there \in InQueue
    <3>1. task \in set /\ Queue(lock', set)
      BY <1>9, <2>1, LockFacts
    <3>2. QED
      BY <1>2, <1>3, <2>1, <3>1 DEF Queue
  <2>2. CASE /\ lock' = Tail(lock) /\ (timer' = "waiting" <=> timer = "waiting")
             /\ there \notin InQueue
    <3>1. Queue(lock', set \ {task})
      BY <1>9, <2>2, LockFacts
    <3>2. QED
      BY <1>2, <1>3, <2>2, <3>1 DEF Queue
  <2>3. CASE lock' = Disarmed(Tail(lock)) /\ timer' = "off" /\ there \notin InQueue
    <3>1. Queue(lock', set \ {task, "timer"})
      BY <1>9, <2>3, LockFacts
    <3>2. QED
      BY <1>2, <1>3, <2>3, <3>1 DEF Queue
  <2>4. QED
    BY <1>5, <1>6, <1>7, <1>8, <2>1, <2>2, <2>3 DEF Moves
<1>10. QED
  BY <1>5, <1>6, <1>7, <1>8, <1>9 DEF Moves

LEMMA StepsMove ==
    ASSUME TypeOK, TimerInv
    PROVE  /\ ClientBegins => \E there : Moves("receive", there)
           /\ AnswerReady \/ SlotFreed \/ QuietTail \/ Submitted =>
                 \E there : Moves("exec", there)
           /\ (HandleSpeech \/ SpeechTold \/ HandleCreated \/ HandleDone \/ Looks \/
               LooksAgain \/ Wakes \/ Arms \/ Tails \/ Finishes) =>
                 \E there : Moves("data", there)
           /\ Receive \/ Deliver \/ EpochOpens \/ EpochOpened \/ Write =>
                 \E there : Moves("audio", there)
           /\ \A task \in Tasks : Ends(task) \/ Stopped(task) => \E there : Moves(task, there)
<1>1. /\ at \in [Tasks -> {at[o] : o \in Tasks}]
      /\ {"receive", "data", "exec", "audio"} \subseteq Tasks
  BY DEF TypeOK, Tasks
<1>2. /\ {"ending", "looking", "lateLook", "tailing", "finishing", "arming", "delivering",
          "stopping", "starting", "started", "writing"} \subseteq InQueue
      /\ {"idle", "waiting", "sleeping", "retiring", "quieting", "appending", "telling"}
            \cap InQueue = {}
  BY DEF InQueue, Locked
<1>3. \A task, there :
         /\ Joins(task, there) /\ at[task] \notin InQueue /\ there \in InQueue
         /\ UNCHANGED timer
      => Moves(task, there)
  BY DEF Joins, Goes, Moves
<1>4. \A task, there, here :
         Has(task, here) /\ Rejoins(task, there) /\ there \in InQueue /\ UNCHANGED timer
      => Moves(task, there)
  BY DEF Rejoins, Has, Goes, Moves
<1>5. \A task, there :
         /\ UNCHANGED <<lock, timer>> /\ Goes(task, there)
         /\ (there \in InQueue <=> at[task] \in InQueue)
      => Moves(task, there)
  BY DEF Goes, Moves
<1>6. \A task, there, here :
         /\ Has(task, here) /\ Goes(task, there) /\ there \notin InQueue
         /\ lock' = Tail(lock) /\ UNCHANGED timer
      => Moves(task, there)
  BY DEF Has, Goes, Moves
<1>7. \A task, there :
         /\ at[task] \in InQueue /\ there \in InQueue /\ Goes(task, there)
         /\ lock' = Disarmed(lock) /\ timer' = "off"
      => Moves(task, there)
  BY DEF Goes, Moves
<1>8. ClientBegins => \E there : Moves("receive", there)
  <2>1. SUFFICES ASSUME ClientBegins PROVE Moves("receive", "ending")
    OBVIOUS
  <2>2. QED
    BY <1>2, <1>3, <2>1 DEF ClientBegins, Idle, EndsOutput, outputVars
<1>9. AnswerReady \/ SlotFreed \/ QuietTail \/ Submitted => \E there : Moves("exec", there)
  <2>1. ASSUME AnswerReady PROVE \E there : Moves("exec", there)
    BY <1>2, <1>5, <2>1 DEF AnswerReady, Idle, outputVars
  <2>2. ASSUME SlotFreed PROVE \E there : Moves("exec", there)
    BY <1>2, <1>5, <2>2 DEF SlotFreed, outputVars
  <2>3. ASSUME QuietTail PROVE \E there : Moves("exec", there)
    BY <1>2, <1>3, <1>5, <2>3 DEF QuietTail, outputVars
  <2>4. ASSUME Submitted PROVE \E there : Moves("exec", there)
    BY <1>2, <1>5, <2>4 DEF Submitted, outputVars
  <2>5. QED
    BY <2>1, <2>2, <2>3, <2>4
<1>10. ASSUME NEW task \in Tasks
       PROVE  /\ \A rest : Leaves(task, rest) =>
                    \E there \in {"idle", "appending"} : Goes(task, there) /\ lock' = rest
              /\ StopsSpeaking(task) /\ at[task] \in InQueue => \E there : Moves(task, there)
              /\ StaysSilent(task) /\ lock # <<>> /\ Head(lock) = task =>
                    \E there : Moves(task, there)
  <2>1. ASSUME NEW rest, Leaves(task, rest)
        PROVE  \E there \in {"idle", "appending"} : Goes(task, there) /\ lock' = rest
    BY <2>1, LeavesLock
  <2>2. ASSUME StopsSpeaking(task), at[task] \in InQueue PROVE \E there : Moves(task, there)
    BY <1>2, <1>7, <2>2 DEF StopsSpeaking, Disarms
  <2>3. ASSUME StaysSilent(task), lock # <<>>, Head(lock) = task
        PROVE  \E there : Moves(task, there)
    <3>1. PICK there \in {"idle", "appending"} :
             Goes(task, there) /\ lock' = Disarmed(Tail(lock))
      BY <2>1, <2>3 DEF StaysSilent
    <3>2. Moves(task, there)
      BY <1>2, <2>3, <3>1 DEF StaysSilent, Disarms, Goes, Moves
    <3>3. QED
      BY <3>2
  <2>4. QED
    BY <2>1, <2>2, <2>3
<1>11. (HandleSpeech \/ SpeechTold \/ HandleCreated \/ HandleDone \/ Looks \/ LooksAgain
        \/ Wakes \/ Arms \/ Tails \/ Finishes) =>
          \E there : Moves("data", there)
  <2>1. ASSUME HandleSpeech PROVE \E there : Moves("data", there)
    BY <1>2, <1>5, <2>1 DEF HandleSpeech, Handles, Idle, outputVars
  <2>2. ASSUME SpeechTold PROVE \E there : Moves("data", there)
    BY <1>2, <1>3, <2>2 DEF SpeechTold, EndsOutput, outputVars
  <2>3. ASSUME HandleCreated PROVE \E there : Moves("data", there)
    <3>1. at["data"] = "idle" /\ UNCHANGED timer
      BY <2>3 DEF HandleCreated, Handles, Idle, outputVars
    <3>2. \/ Joins("data", "arming") \/ Joins("data", "ending")
          \/ UNCHANGED lock /\ Goes("data", "idle")
      BY <1>1, <2>3, <3>1 DEF HandleCreated, EndsOutput, Goes
    <3>3. QED
      BY <1>2, <1>3, <1>5, <3>1, <3>2
  <2>4. ASSUME HandleDone PROVE \E there : Moves("data", there)
    <3>1. at["data"] = "idle" /\ UNCHANGED timer
      BY <2>4 DEF HandleDone, Handles, Idle, outputVars
    <3>2. \/ Joins("data", "looking") \/ Joins("data", "ending")
          \/ UNCHANGED lock /\ Goes("data", "idle")
      BY <1>1, <2>4, <3>1 DEF HandleDone, Goes
    <3>3. QED
      BY <1>2, <1>3, <1>5, <3>1, <3>2
  <2>5. ASSUME Looks PROVE \E there : Moves("data", there)
    BY <1>2, <1>4, <1>6, <2>5 DEF Looks, outputVars
  <2>6. ASSUME LooksAgain PROVE \E there : Moves("data", there)
    BY <1>2, <1>4, <1>6, <2>6 DEF LooksAgain, outputVars
  <2>7. ASSUME Wakes PROVE \E there : Moves("data", there)
    BY <1>2, <1>3, <2>7 DEF Wakes, outputVars
  <2>8. ASSUME Arms PROVE \E there : Moves("data", there)
    <3>1. PICK there \in {"idle", "appending"} : Goes("data", there) /\ lock' = Tail(lock)
      BY <1>1, <1>10, <2>8 DEF Arms
    <3>2. Has("data", "arming") /\ (timer' = "waiting" <=> timer = "waiting")
      BY <2>8 DEF Arms, TimerInv
    <3>3. QED
      BY <1>2, <3>1, <3>2 DEF Has, Goes, Moves
  <2>9. ASSUME Tails PROVE \E there : Moves("data", there)
    <3>1. CASE Rejoins("data", "finishing")
      BY <1>2, <1>4, <2>9, <3>1 DEF Tails, outputVars
    <3>2. CASE Leaves("data", Tail(lock))
      <4>1. PICK there \in {"idle", "appending"} : Goes("data", there) /\ lock' = Tail(lock)
        BY <1>1, <1>10, <3>2
      <4>2. QED
        BY <1>2, <1>6, <2>9, <4>1 DEF Tails, outputVars
    <3>3. QED
      BY <2>9, <3>1, <3>2 DEF Tails
  <2>10. ASSUME Finishes PROVE \E there : Moves("data", there)
    BY <1>1, <1>2, <1>10, <2>10 DEF Finishes, Has
  <2>11. QED
    BY <2>1, <2>2, <2>3, <2>4, <2>5, <2>6, <2>7, <2>8, <2>9, <2>10
<1>12. Receive \/ Deliver \/ EpochOpens \/ EpochOpened \/ Write =>
          \E there : Moves("audio", there)
  <2>1. ASSUME Receive PROVE \E there : Moves("audio", there)
    <3>1. at["audio"] = "idle" /\ UNCHANGED timer
      BY <2>1 DEF Receive, Idle, outputVars
    <3>2. Joins("audio", "delivering") \/ UNCHANGED <<lock, at>>
      BY <2>1 DEF Receive
    <3>3. UNCHANGED at => Goes("audio", "idle")
      BY <1>1, <3>1 DEF Goes
    <3>4. QED
      BY <1>2, <1>3, <1>5, <3>1, <3>2, <3>3
  <2>2. ASSUME Deliver PROVE \E there : Moves("audio", there)
    BY <1>2, <1>5, <1>6, <1>7, <2>2 DEF Deliver, Disarms, GivesUpFrame, Has, outputVars
  <2>3. ASSUME EpochOpens PROVE \E there : Moves("audio", there)
    BY <1>2, <1>5, <2>3 DEF EpochOpens, Has, outputVars
  <2>4. ASSUME EpochOpened PROVE \E there : Moves("audio", there)
    BY <1>2, <1>5, <1>6, <2>4 DEF EpochOpened, Has, GivesUpFrame, outputVars
  <2>5. ASSUME Write PROVE \E there : Moves("audio", there)
    BY <1>2, <1>6, <2>5 DEF Write, GivesUpFrame, outputVars
  <2>6. QED
    BY <2>1, <2>2, <2>3, <2>4, <2>5
<1>13. ASSUME NEW task \in Tasks, Ends(task) \/ Stopped(task)
       PROVE  \E there : Moves(task, there)
  <2>1. CASE Ends(task)
    BY <1>2, <1>10, <2>1 DEF Ends, Has
  <2>2. CASE Stopped(task)
    <3>1. PICK there \in {"idle", "appending"} : Goes(task, there) /\ lock' = Without(lock, task)
      BY <1>10, <2>2 DEF Stopped
    <3>2. QED
      BY <1>2, <2>2, <3>1 DEF Stopped, outputVars, Goes, Moves
  <2>3. QED
    BY <1>13, <2>1, <2>2
<1>14. QED
  BY <1>8, <1>9, <1>11, <1>12, <1>13

(* The tasks do not move each other.                                       *)
LEMMA Elsewhere ==
    ASSUME TypeOK, LockInv, TimerInv
    PROVE  /\ (ClientBegins \/ HandleSpeech \/ SpeechTold \/ HandleAck \/ HandleCreated \/
               HandleDone \/ Looks \/ LooksAgain \/ Wakes \/ Receive \/ Deliver \/
               EpochOpens \/ EpochOpened \/ Write \/ RenderOver) =>
                 at'["exec"] = at["exec"]
           /\ (ClientBegins \/ AnswerReady \/ HandleSpeech \/ SpeechTold \/ HandleAck \/
               HandleCreated \/ HandleDone \/ Looks \/ LooksAgain \/ Wakes \/ SlotFreed \/
               QuietTail \/ Submitted \/ RenderOver \/ AnswerTaken) =>
                 at'["audio"] = at["audio"]
           /\ \A task \in {"receive", "exec", "audio"} : Ends(task) \/ Stopped(task) =>
                 at'["data"] = at["data"]
           /\ (ClientBegins \/ AnswerReady \/ HandleAck \/ SlotFreed \/ QuietTail \/
               Submitted \/ Receive \/ Deliver \/ EpochOpens \/ EpochOpened \/ Write \/
               AnswerTaken) =>
                 at'["data"] = at["data"]
<1>1. /\ "receive" \in Tasks \ {"exec", "audio", "data"}
      /\ "data" \in Tasks \ {"exec", "audio", "receive"}
      /\ "exec" \in Tasks \ {"data", "audio", "receive"}
      /\ "audio" \in Tasks \ {"data", "exec", "receive"}
  BY DEF Tasks
<1>2. \A task \in Tasks : (\E there : Moves(task, there)) =>
         \A o \in Tasks \ {task} : at'[o] = at[o]
  BY MovesKeep
<1>3. HandleAck => UNCHANGED at
  BY DEF HandleAck
<1>4. /\ RenderOver => at'["exec"] = at["exec"] /\ at'["audio"] = at["audio"]
      /\ AnswerTaken => at'["data"] = at["data"] /\ at'["audio"] = at["audio"]
  BY <1>1 DEF RenderOver, AnswerTaken, TypeOK
<1>5. QED
  BY <1>1, <1>2, <1>3, <1>4, StepsMove

(* The steps of the session, those of arm_output and end_output as one.    *)
LEMMA SlotSteps ==
    ASSUME TypeOK, [Next]_vars
    PROVE  \/ ClientBegins \/ AnswerReady
           \/ HandleSpeech \/ SpeechTold \/ HandleAck \/ HandleCreated \/ HandleDone
           \/ Looks \/ LooksAgain \/ Wakes
           \/ SlotFreed \/ SlotKept \/ QuietTail \/ Submitted
           \/ Receive \/ Deliver \/ EpochOpens \/ EpochOpened \/ Write
           \/ ArmExpires
           \/ Acknowledges \/ Arrives \/ UserSpeaks \/ QuietPasses
           \/ \E t \in Turns : TurnBegins(t) \/ TurnEnds(t) \/ Speaks(t)
           \/ RenderOver \/ AnswerTaken
           \/ \E task \in Tasks : OutputMoves(task) \/ SendFails(task)
           \/ UNCHANGED vars
<1>1. "data" \in Tasks
  BY DEF Tasks
<1>2. CASE Data
  BY <1>1, <1>2, OutputSteps DEF Data
<1>3. CASE \E task \in Tasks : AnyTask(task)
  BY <1>3, OutputSteps DEF AnyTask
<1>4. QED
  BY <1>2, <1>3 DEF Next, Exec, Audio, Provider

(* The frames on their way.                                                *)
LEMMA Frames ==
    ASSUME TypeOK
    PROVE  /\ ToSet(air) \subseteq Turns /\ ToSet(media) \subseteq Turns
           /\ media # <<>> =>
                 /\ Head(media) \in ToSet(media) /\ ToSet(Tail(media)) \subseteq ToSet(media)
                 /\ Tail(media) \in Seq(Turns)
           /\ air # <<>> =>
                 /\ Head(air) \in ToSet(air) /\ ToSet(Tail(air)) \subseteq ToSet(air)
                 /\ Tail(air) \in Seq(Turns)
           /\ \A t \in Turns :
                 /\ ToSet(Append(air, t)) = ToSet(air) \cup {t}
                 /\ ToSet(Append(media, t)) = ToSet(media) \cup {t}
                 /\ Append(air, t) \in Seq(Turns) /\ Append(media, t) \in Seq(Turns)
           /\ ToSet(<<>>) = {} /\ <<>> \in Seq(Turns)
           /\ \A t \in ToSet(air) : \E i \in DOMAIN air : air[i] = t
<1>1. air \in Seq(Turns) /\ media \in Seq(Turns)
  BY DEF TypeOK
<1>2. ToSet(air) \subseteq Turns /\ ToSet(media) \subseteq Turns
  BY <1>1, SeqFacts DEF ToSet
<1>3. \A t \in ToSet(air) : \E i \in DOMAIN air : air[i] = t
  BY DEF ToSet
<1>4. ToSet(<<>>) = {} /\ <<>> \in Seq(Turns)
  BY DEF ToSet
<1>5. QED
  BY <1>1, <1>2, <1>3, <1>4, TailSet, AppendSet

(* An event that is handled moves the order up; an acknowledgement only    *)
(* changes places with the slot.                                           *)
LEMMA HandledOrder ==
    ASSUME TypeOK, NEW kind, Handles(kind),
           render'.acked <=> render.acked \/ kind = "ack"
    PROVE  /\ \A i \in DOMAIN controls' : AfterAck(i)' <=> AfterAck(i + 1)
           /\ \A i \in DOMAIN controls : i # 1 => (AfterAck(i) <=> AfterAck(i - 1)')
           /\ AfterAck(1) => kind = "created" /\ render.acked
<1>1. ASSUME NEW i \in DOMAIN controls' PROVE AfterAck(i)' <=> AfterAck(i + 1)
  <2>1. /\ i \in Nat \ {0} /\ i + 1 \in DOMAIN controls /\ controls'[i] = controls[i + 1]
        /\ 1 \in DOMAIN controls /\ controls[1].kind = kind
    BY HandledEvent
  <2>2. ASSUME NEW j \in DOMAIN controls', j < i, controls'[j].kind = "ack"
        PROVE  AfterAck(i)' => AfterAck(i + 1)
    <3>1. j \in Nat \ {0} /\ j + 1 \in DOMAIN controls /\ controls'[j] = controls[j + 1]
      BY HandledEvent
    <3>2. QED
      BY <2>1, <2>2, <3>1 DEF AfterAck
  <2>3. ASSUME NEW j \in DOMAIN controls, j < i + 1, controls[j].kind = "ack"
        PROVE  AfterAck(i + 1) => AfterAck(i)'
    <3>1. /\ j \in Nat \ {0}
          /\ j # 1 => j - 1 \in DOMAIN controls' /\ controls'[j - 1] = controls[j]
      BY HandledEvent
    <3>2. j = 1 => kind = "ack"
      BY <2>1, <2>3
    <3>3. QED
      BY <2>1, <2>3, <3>1, <3>2 DEF AfterAck
  <2>4. render'.acked /\ AfterAck(i)' => AfterAck(i + 1)
    BY <2>1 DEF AfterAck
  <2>5. render.acked /\ AfterAck(i + 1) => AfterAck(i)'
    BY <2>1 DEF AfterAck
  <2>6. AfterAck(i)' =>
           render'.acked \/ \E j \in DOMAIN controls' : j < i /\ controls'[j].kind = "ack"
    BY DEF AfterAck
  <2>7. AfterAck(i + 1) =>
           render.acked \/ \E j \in DOMAIN controls : j < i + 1 /\ controls[j].kind = "ack"
    BY DEF AfterAck
  <2>8. QED
    BY <2>2, <2>3, <2>4, <2>5, <2>6, <2>7
<1>2. ASSUME NEW i \in DOMAIN controls, i # 1 PROVE AfterAck(i) <=> AfterAck(i - 1)'
  <2>1. i \in Nat \ {0} /\ i - 1 \in DOMAIN controls'
    BY <1>2, HandledEvent
  <2>2. AfterAck(i - 1)' <=> AfterAck(i - 1 + 1)
    BY <1>1, <2>1
  <2>3. i - 1 + 1 = i
    BY <2>1
  <2>4. QED
    BY <2>2, <2>3
<1>3. AfterAck(1) => kind = "created" /\ render.acked
  <2>1. \A j \in DOMAIN controls : ~ (j < 1)
    <3>1. \A j \in DOMAIN controls : j \in Nat \ {0}
      BY HandledEvent
    <3>2. QED
      BY <3>1
  <2>2. controls[1].kind = kind
    BY HandledEvent
  <2>3. QED
    BY <2>1, <2>2 DEF AfterAck
<1>4. QED
  BY <1>1, <1>2, <1>3

(* A new event comes after all others.                                     *)
LEMMA NewOrder ==
    ASSUME TypeOK, NEW kind \in {"ack", "created", "done", "speech"},
           NEW t \in Turns \cup {None}, Event(kind, t), UNCHANGED render
    PROVE  \E n \in Nat \ {0} :
              /\ n \notin DOMAIN controls /\ DOMAIN controls' = DOMAIN controls \cup {n}
              /\ controls'[n] = [kind |-> kind, turn |-> t]
              /\ \A i \in DOMAIN controls : i \in Nat \ {0} /\ i < n /\ controls'[i] = controls[i]
              /\ \A i \in DOMAIN controls : AfterAck(i)' <=> AfterAck(i)
              /\ AfterAck(n)' <=> kind = "created" /\ (render.acked \/ IsAcked)
              /\ IsAcked' <=> IsAcked \/ kind = "ack"
<1>1. PICK n \in Nat \ {0} :
         /\ n \notin DOMAIN controls /\ DOMAIN controls' = DOMAIN controls \cup {n}
         /\ controls'[n] = [kind |-> kind, turn |-> t]
         /\ \A i \in DOMAIN controls : i \in Nat \ {0} /\ i < n /\ controls'[i] = controls[i]
  BY ZenonT(40), NewEvent
<1>2. ASSUME NEW i \in DOMAIN controls PROVE AfterAck(i)' <=> AfterAck(i)
  <2>1. \A j \in DOMAIN controls' : j < i => j \in DOMAIN controls
    BY <1>1
  <2>2. QED
    BY <1>1, <2>1 DEF AfterAck
<1>3. AfterAck(n)' <=> kind = "created" /\ (render.acked \/ IsAcked)
  <2>1. \A j \in DOMAIN controls' : j < n <=> j \in DOMAIN controls
    BY <1>1
  <2>2. controls'[n].kind = kind
    BY <1>1
  <2>3. QED
    BY <1>1, <2>1, <2>2 DEF AfterAck, IsAcked
<1>4. IsAcked' <=> IsAcked \/ kind = "ack"
  <2>1. controls'[n].kind = kind
    BY <1>1
  <2>2. QED
    BY <1>1, <2>1 DEF IsAcked
<1>5. QED
  BY <1>1, <1>2, <1>3, <1>4

(* The lock's queue at every step.                                         *)
LEMMA LockStep ==
    TypeOK /\ LockInv /\ TimerInv /\ [Next]_vars => LockInv' /\ Queue(lock', ToSet(lock'))
<1> SUFFICES ASSUME TypeOK, LockInv, TimerInv, [Next]_vars
             PROVE  LockInv' /\ Queue(lock', ToSet(lock'))
  OBVIOUS
<1>1. CASE \E task \in Tasks : \E there : Moves(task, there)
  BY <1>1, MovesKeep
<1>2. CASE ArmExpires
  <2>1. UNCHANGED at /\ "timer" \notin Tasks
    BY <1>2 DEF ArmExpires, Tasks
  <2>2. CASE timer = "asleep" /\ timer' = "waiting" /\ lock' = Append(lock, "timer")
    <3>1. "timer" \notin ToSet(lock)
      BY <2>2 DEF LockInv
    <3>2. Queue(lock', ToSet(lock) \cup {"timer"})
      BY <2>2, <3>1, LockFacts
    <3>3. QED
      BY <2>1, <2>2, <3>2 DEF LockInv, Queue
  <2>3. CASE lock # <<>> /\ Head(lock) = "timer" /\ timer' = "off" /\ lock' = Tail(lock)
    <3>1. Queue(lock', ToSet(lock) \ {"timer"})
      BY <2>3, LockFacts
    <3>2. QED
      BY <2>1, <2>3, <3>1 DEF LockInv, Queue
  <2>4. QED
    BY <1>2, <2>2, <2>3 DEF ArmExpires
<1>3. ASSUME UNCHANGED <<at, lock, timer>> PROVE LockInv' /\ Queue(lock', ToSet(lock'))
  BY <1>3, LockFacts DEF LockInv
<1>4. CASE HandleAck \/ SlotKept
  <2>1. UNCHANGED <<at, lock, timer>>
    BY <1>4 DEF HandleAck, SlotKept, Handles, outputVars
  <2>2. QED
    BY <1>3, <2>1
<1>5. CASE \E task \in Tasks : SendFails(task)
  <2>1. UNCHANGED <<at, lock, timer>>
    BY <1>5 DEF SendFails, outputVars
  <2>2. QED
    BY <1>3, <2>1
<1>6. CASE Provider
  <2>1. UNCHANGED <<at, lock, timer>>
    BY <1>6 DEF Provider, Acknowledges, Arrives, UserSpeaks, QuietPasses, TurnBegins, TurnEnds,
           Speaks, bridgeVars, taskVars, outputVars
  <2>2. QED
    BY <1>3, <2>1
<1>7. CASE UNCHANGED vars
  BY <1>3, <1>7 DEF vars, taskVars, outputVars
<1>8. {"receive", "data", "exec", "audio"} \subseteq Tasks
  BY DEF Tasks
<1>9. CASE ClientBegins \/ AnswerReady \/ Audio
  BY <1>1, <1>8, <1>9, StepsMove DEF Audio
<1>10. CASE Data
  BY <1>1, <1>4, <1>8, <1>10, StepsMove DEF Data
<1>11. CASE Exec
  BY <1>1, <1>4, <1>8, <1>11, StepsMove DEF Exec
<1>12. CASE \E task \in Tasks : AnyTask(task)
  BY <1>1, <1>5, <1>12, StepsMove DEF AnyTask
<1>13. QED
  BY <1>2, <1>6, <1>7, <1>9, <1>10, <1>11, <1>12 DEF Next

(* The turns that began are fewer than the turns.                          *)
LEMMA BegunFacts ==
    ASSUME TypeOK
    PROVE  /\ Cardinality(Begun) \in Nat /\ Cardinality(Turns) \in Nat
           /\ Cardinality(Begun) <= Cardinality(Turns)
           /\ \A more : more \subseteq Turns /\ Begun \subseteq more =>
                 Cardinality(more) \in Nat /\ Cardinality(Begun) <= Cardinality(more)
           /\ \A more : more \subseteq Turns /\ Begun \subseteq more /\ more # Begun =>
                 Cardinality(Begun) + 1 <= Cardinality(more)
<1>1. IsFiniteSet(Turns) /\ Begun \subseteq Turns
  BY TurnsAssumption DEF Begun
<1>2. ASSUME NEW few, NEW more, more \subseteq Turns, few \subseteq more
      PROVE  /\ IsFiniteSet(more) /\ Cardinality(more) \in Nat /\ Cardinality(few) \in Nat
             /\ Cardinality(few) <= Cardinality(more)
  BY <1>1, <1>2, FS_Subset, FS_CardinalityType
<1>3. ASSUME NEW more, more \subseteq Turns, Begun \subseteq more, more # Begun
      PROVE  Cardinality(Begun) + 1 <= Cardinality(more)
  <2>1. PICK t \in more : t \notin Begun
    BY <1>3
  <2>2. IsFiniteSet(Begun) /\ Cardinality(Begun) \in Nat
    BY <1>1, <1>2
  <2>3. Cardinality(Begun \cup {t}) = Cardinality(Begun) + 1
    BY <2>1, <2>2, FS_AddElement
  <2>4. Begun \cup {t} \subseteq more
    BY <1>3, <2>1
  <2>5. Cardinality(Begun \cup {t}) <= Cardinality(more)
    BY <1>2, <1>3, <2>4
  <2>6. QED
    BY <2>3, <2>5
<1>4. QED
  BY <1>1, <1>2, <1>3

LEMMA EpochKept ==
    ASSUME TypeOK, EpochInv, Begun \subseteq Begun', UNCHANGED epoch, armed' => armed,
           at'["data"] = "arming" => at["data"] = "arming"
    PROVE  EpochInv'
<1>1. Cardinality(Begun) \in Nat /\ Cardinality(Begun') \in Nat
      /\ Cardinality(Begun) <= Cardinality(Begun')
  <2>1. Begun' \subseteq Turns
    BY DEF Begun
  <2>2. QED
    BY <2>1, BegunFacts
<1>2. epoch \in Nat
  BY BegunFacts DEF TypeOK, Epochs
<1> DEFINE A == IF armed THEN 1 ELSE 0
           B == IF at["data"] = "arming" THEN 1 ELSE 0
<1>3. A \in 0..1 /\ B \in 0..1 /\ A' \in 0..1 /\ B' \in 0..1 /\ A' <= A /\ B' <= B
  OBVIOUS
<1>4. epoch + A + B <= Cardinality(Begun)
  BY DEF EpochInv
<1> HIDE DEF A, B
<1>5. epoch' + A' + B' <= Cardinality(Begun')
  BY <1>1, <1>2, <1>3, <1>4
<1>6. QED
  BY <1>5 DEF EpochInv, A, B

(* A turn that began stays so.                                             *)
LEMMA BegunStays ==
    ASSUME TypeOK, TurnInv
    PROVE  /\ \A kind : Handles(kind) => Begun \subseteq Begun'
           /\ \A kind \in {"ack", "speech", "done"}, t \in Turns \cup {None} :
                 Event(kind, t) /\ UNCHANGED made => Begun \subseteq Begun'
           /\ \A t \in Turns : TurnBegins(t) => Begun \subseteq Begun'
           /\ UNCHANGED <<made, controls>> => Begun \subseteq Begun'
<1>1. ASSUME NEW kind, Handles(kind) PROVE Begun \subseteq Begun'
  <2>1. UNCHANGED made /\ \A i \in DOMAIN controls' :
                             i + 1 \in DOMAIN controls /\ controls'[i] = controls[i + 1]
    BY <1>1, HandledEvent DEF Handles
  <2>2. QED
    BY <2>1 DEF Begun
<1>2. ASSUME NEW kind \in {"ack", "speech", "done"}, NEW t \in Turns \cup {None},
             Event(kind, t), UNCHANGED made
      PROVE  Begun \subseteq Begun'
  <2>1. PICK n \in Nat \ {0} :
           /\ n \notin DOMAIN controls /\ DOMAIN controls' = DOMAIN controls \cup {n}
           /\ controls'[n] = [kind |-> kind, turn |-> t]
           /\ \A i \in DOMAIN controls : i \in Nat \ {0} /\ i < n /\ controls'[i] = controls[i]
    <3>1. kind \in {"ack", "created", "done", "speech"}
      OBVIOUS
    <3>2. QED
      BY <1>2, <3>1, NewEvent, ZenonT(40)
  <2>2. \A o : [kind |-> kind, turn |-> t] # [kind |-> "created", turn |-> o]
    OBVIOUS
  <2>3. QED
    BY <1>2, <2>1, <2>2 DEF Begun
<1>3. ASSUME NEW t \in Turns, TurnBegins(t) PROVE Begun \subseteq Begun'
  <2>1. PICK n : /\ DOMAIN controls' = DOMAIN controls \cup {n}
                 /\ controls'[n] = [kind |-> "created", turn |-> t]
                 /\ \A i \in DOMAIN controls : controls'[i] = controls[i]
    BY ZenonT(40), <1>3, NewEvent DEF TurnBegins
  <2>2. made[t] = 0 /\ \A o \in Turns \ {t} : made'[o] = made[o]
    BY <1>3 DEF TurnBegins, TurnInv, TypeOK
  <2>3. \A o : o # t => [kind |-> "created", turn |-> t] # [kind |-> "created", turn |-> o]
    OBVIOUS
  <2>4. QED
    BY <2>1, <2>2, <2>3 DEF Begun
<1>4. QED
  BY <1>1, <1>2, <1>3 DEF Begun

(* The types: of the slot,                                                 *)
LEMMA SlotTypeStep ==
    TypeOK /\ [Next]_vars => SlotType'
<1> SUFFICES ASSUME TypeOK, [Next]_vars PROVE SlotType'
  OBVIOUS
<1>types. SlotType
  BY TypeParts
<1>1. ASSUME SpeechTold \/ Looks \/ LooksAgain \/ Wakes \/ SlotFreed \/ SlotKept \/ QuietTail
                \/ Submitted \/ EpochOpens \/ ArmExpires \/ Arrives \/ UserSpeaks
      PROVE  SlotType'
  <2>1. UNCHANGED <<generation, render, quiet, gate, answered, asked, pending, answering, closing,
                   chunk>>
    BY <1>1
       DEF SpeechTold, Looks, LooksAgain, Wakes, SlotFreed, SlotKept, QuietTail, Submitted,
           EpochOpens, ArmExpires, Arrives, UserSpeaks, slotVars, outputVars, taskVars,
           providerVars, deviceVars, bridgeVars
  <2>2. QED
    BY <2>1, <1>types DEF SlotType
<1>2. ASSUME NEW task \in Tasks, OutputMoves(task) \/ SendFails(task)
      PROVE  SlotType'
  <2>1. UNCHANGED <<generation, render, quiet, gate, answered, asked, pending, answering, closing,
                   chunk>>
    BY <1>2
       DEF OutputMoves, SendFails, slotVars, outputVars, taskVars, providerVars, deviceVars,
           bridgeVars
  <2>2. QED
    BY <2>1, <1>types DEF SlotType
<1>3. ASSUME NEW t \in Turns, TurnEnds(t) \/ Speaks(t)
      PROVE  SlotType'
  <2>1. UNCHANGED <<generation, render, quiet, gate, answered, asked, pending, answering, closing,
                   chunk>>
    BY <1>3
       DEF TurnEnds, Speaks, slotVars, outputVars, taskVars, providerVars, deviceVars,
           bridgeVars
  <2>2. QED
    BY <2>1, <1>types DEF SlotType
<1>4. ASSUME ClientBegins PROVE SlotType'
  BY <1>4, <1>types, BoundsAssumption
     DEF ClientBegins, NextGeneration, ShutsGate, SlotType, Generations, Free, NoChunk,
         slotVars, providerVars, taskVars, bridgeVars
<1>5. ASSUME AnswerReady PROVE SlotType'
  BY <1>5, <1>types DEF AnswerReady, SlotType, slotVars, providerVars
<1>6. ASSUME HandleSpeech PROVE SlotType'
  BY <1>6, <1>types, BoundsAssumption
     DEF HandleSpeech, Handles, NextGeneration, ShutsGate, SlotType, Generations, Free,
         NoChunk, slotVars, providerVars, taskVars, bridgeVars
<1>7. ASSUME HandleAck PROVE SlotType'
  BY <1>7, <1>types DEF HandleAck, Handles, SlotType
<1>8. ASSUME HandleCreated PROVE SlotType'
  <2>1. /\ UNCHANGED <<generation, quiet, closing, chunk, answering, answered, asked, pending>>
        /\ gate' \in {gate, generation}
        /\ render' \in {render, [render EXCEPT !.turn = Head(controls).turn]}
    BY <1>8 DEF HandleCreated, Handles
  <2>2. Head(controls).turn \in Turns \cup {None}
    <3>1. controls \in Seq(EventType) /\ controls # <<>>
      BY <1>8, TypeParts DEF WireType, HandleCreated, Handles
    <3>2. Head(controls) \in EventType
      BY <3>1
    <3>3. QED
      BY <3>2 DEF EventType
  <2>3. QED
    BY <1>types, <2>1, <2>2 DEF SlotType
<1>9. ASSUME HandleDone PROVE SlotType'
  BY <1>9, <1>types DEF HandleDone, Handles, SlotType
<1>10. ASSUME RenderOver PROVE SlotType'
  <2>1. /\ UNCHANGED <<generation, chunk, answering, answered, asked, pending>>
        /\ render' = Free /\ quiet' = TRUE /\ closing' = FALSE /\ gate' = 0
    BY <1>10 DEF RenderOver
  <2>2. Free \in [gen : Generations, acked : BOOLEAN, turn : Turns \cup {None}]
    BY BoundsAssumption DEF Free, Generations
  <2>3. QED
    BY <1>types, <2>1, <2>2 DEF SlotType
<1>11. ASSUME AnswerTaken PROVE SlotType'
  BY <1>11, <1>types DEF AnswerTaken, SlotType
<1>12. ASSUME Receive PROVE SlotType'
  <2>1. /\ UNCHANGED <<generation, render, quiet, closing, gate, answering, answered, asked,
                       pending>>
        /\ media # <<>> /\ chunk' \in {chunk, [turn |-> Head(media), gate |-> gate]}
    BY <1>12 DEF Receive, slotVars, providerVars
  <2>2. Head(media) \in Turns
    BY <2>1, Frames
  <2>3. gate \in Generations
    BY <1>types, BoundsAssumption DEF SlotType, Generations
  <2>4. QED
    BY <1>types, <2>1, <2>2, <2>3 DEF SlotType
<1>13. ASSUME Deliver PROVE SlotType'
  BY <1>13, <1>types, BoundsAssumption
     DEF Deliver, GivesUpFrame, SlotType, Generations, Free, NoChunk, slotVars, providerVars,
         taskVars, bridgeVars
<1>14. ASSUME EpochOpened PROVE SlotType'
  BY <1>14, <1>types, BoundsAssumption
     DEF EpochOpened, GivesUpFrame, SlotType, Generations, Free, NoChunk, slotVars,
         providerVars, taskVars, bridgeVars
<1>15. ASSUME Write PROVE SlotType'
  BY <1>15, <1>types, BoundsAssumption
     DEF Write, GivesUpFrame, SlotType, Generations, Free, NoChunk, slotVars, providerVars,
         taskVars, bridgeVars
<1>16. ASSUME Acknowledges PROVE SlotType'
  BY <1>16, <1>types DEF Acknowledges, bridgeVars, SlotType, slotVars, taskVars
<1>17. ASSUME QuietPasses PROVE SlotType'
  BY <1>17, <1>types DEF QuietPasses, SlotType, providerVars, taskVars
<1>18. ASSUME NEW t \in Turns, TurnBegins(t) PROVE SlotType'
  BY <1>18, <1>types, BoundsAssumption
     DEF TurnBegins, bridgeVars, SlotType, Generations, Free, NoChunk, slotVars, providerVars,
         taskVars
<1>19. CASE UNCHANGED vars
  BY <1>19, <1>types
     DEF vars, slotVars, outputVars, taskVars, providerVars, deviceVars, SlotType
<1> QED
  BY <1>1, <1>2, <1>3, <1>4, <1>5, <1>6, <1>7, <1>8, <1>9, <1>10, <1>11, <1>12, <1>13, <1>14,
     <1>15, <1>16, <1>17, <1>18, <1>19, SlotSteps

(* of the output,                                                          *)
LEMMA OutputTypeStep ==
    TypeOK /\ EpochInv /\ [Next]_vars => OutputType'
<1> SUFFICES ASSUME TypeOK, EpochInv, [Next]_vars PROVE OutputType'
  OBVIOUS
<1>types. OutputType
  BY TypeParts
<1>1. ASSUME ClientBegins \/ AnswerReady \/ HandleSpeech \/ SpeechTold \/ HandleAck \/
                HandleCreated \/ HandleDone \/ Tails \/ Wakes \/ SlotFreed \/ QuietTail \/
                Receive \/ EpochOpened \/ Write \/ Acknowledges \/ Arrives \/ UserSpeaks \/
                QuietPasses
      PROVE  OutputType'
  <2>1. UNCHANGED <<armed, speaking, over, timer, epoch, tailed, open>>
    BY <1>1
       DEF ClientBegins, AnswerReady, HandleSpeech, SpeechTold, HandleAck, HandleCreated,
           HandleDone, Tails, Wakes, SlotFreed, QuietTail, Receive, EpochOpened, Write,
           Acknowledges, Arrives, UserSpeaks, QuietPasses, Handles, slotVars, outputVars,
           taskVars, providerVars, deviceVars, bridgeVars
  <2>2. QED
    BY <2>1, <1>types DEF OutputType
<1>2. ASSUME NEW t \in Turns, TurnBegins(t) \/ TurnEnds(t) \/ Speaks(t)
      PROVE  OutputType'
  <2>1. UNCHANGED <<armed, speaking, over, timer, epoch, tailed, open>>
    BY <1>2
       DEF TurnBegins, TurnEnds, Speaks, slotVars, outputVars, taskVars, providerVars,
           deviceVars, bridgeVars
  <2>2. QED
    BY <2>1, <1>types DEF OutputType
<1>3. ASSUME Arms PROVE OutputType'
  <2>1. /\ UNCHANGED <<speaking, over, epoch, tailed, open>>
        /\ armed' \in {armed, TRUE}
        /\ timer' \in {timer, "asleep"}
    BY <1>3 DEF Arms, deviceVars
  <2>2. QED
    BY <1>types, <2>1 DEF OutputType
<1>4. ASSUME Finishes PROVE OutputType'
  BY <1>4, <1>types DEF Finishes, Disarms, StopsSpeaking, StaysSilent, OutputType, deviceVars
<1>5. ASSUME NEW task \in Tasks, Ends(task) PROVE OutputType'
  BY <1>5, <1>types DEF Ends, Disarms, StopsSpeaking, StaysSilent, OutputType, deviceVars
<1>6. ASSUME NEW task \in Tasks, Stopped(task) PROVE OutputType'
  <2>1. UNCHANGED <<armed, speaking, over, timer, epoch, tailed>> /\ open' \in {open, 0}
    BY <1>6 DEF Stopped, outputVars
  <2>2. 0 \in Epochs
    BY BegunFacts DEF Epochs
  <2>3. QED
    BY <1>types, <2>1, <2>2 DEF OutputType
<1>7. ASSUME Looks PROVE OutputType'
  <2>1. UNCHANGED <<armed, speaking, over, timer, epoch, open>> /\ tailed' \in {epoch, 0}
    BY <1>7 DEF Looks, outputVars, deviceVars
  <2>2. 0 \in Epochs
    BY BegunFacts DEF Epochs
  <2>3. QED
    BY <1>types, <2>1, <2>2 DEF OutputType
<1>8. ASSUME LooksAgain PROVE OutputType'
  <2>1. UNCHANGED <<armed, speaking, over, timer, epoch, open>> /\ tailed' \in {epoch, 0}
    BY <1>8 DEF LooksAgain, outputVars, deviceVars
  <2>2. 0 \in Epochs
    BY BegunFacts DEF Epochs
  <2>3. QED
    BY <1>types, <2>1, <2>2 DEF OutputType
<1>9. ASSUME SlotKept PROVE OutputType'
  BY <1>9, <1>types DEF SlotKept, OutputType, outputVars, deviceVars
<1>10. ASSUME Submitted PROVE OutputType'
  BY <1>10, <1>types DEF Submitted, OutputType, outputVars, deviceVars
<1>11. ASSUME Deliver PROVE OutputType'
  <2>1. UNCHANGED <<over, tailed, open>>
    BY <1>11 DEF Deliver, deviceVars
  <2>2. \/ UNCHANGED <<armed, speaking, timer, epoch>>
        \/ /\ armed /\ epoch' = epoch + 1
           /\ armed' = FALSE /\ speaking' = TRUE /\ timer' = "off"
    BY <1>11 DEF Deliver, Disarms, outputVars
  <2>3. epoch \in Nat
    BY <1>types, BegunFacts DEF OutputType, Epochs
  <2>4. armed => epoch + 1 \in Epochs
    <3>1. armed => epoch + 1 <= Cardinality(Begun)
      BY <2>3, BegunFacts DEF EpochInv
    <3>2. QED
      BY <2>3, <3>1, BegunFacts DEF Epochs
  <2>5. QED
    BY <1>types, <2>1, <2>2, <2>4 DEF OutputType
<1>12. ASSUME EpochOpens PROVE OutputType'
  BY <1>12, <1>types DEF EpochOpens, OutputType, outputVars
<1>13. ASSUME ArmExpires PROVE OutputType'
  <2>1. UNCHANGED <<speaking, over, epoch, tailed, open>> /\ timer' \in {"waiting", "off"}
    BY <1>13 DEF ArmExpires, deviceVars
  <2>2. armed' = armed \/ armed' = (armed /\ speaking)
    BY <1>13 DEF ArmExpires
  <2>3. armed' \in BOOLEAN
    <3>1. armed \in BOOLEAN
      BY <1>types DEF OutputType
    <3>2. QED
      BY <2>2, <3>1
  <2>4. QED
    BY <1>types, <2>1, <2>3 DEF OutputType
<1>14. ASSUME NEW task \in Tasks, SendFails(task) PROVE OutputType'
  BY <1>14, <1>types DEF SendFails, OutputType, outputVars, deviceVars
<1>15. CASE UNCHANGED vars
  BY <1>15, <1>types
     DEF vars, slotVars, outputVars, taskVars, providerVars, deviceVars, OutputType
<1> QED
  BY <1>1, <1>2, <1>3, <1>4, <1>5, <1>6, <1>7, <1>8, <1>9, <1>10, <1>11, <1>12, <1>13, <1>14,
     <1>15
     DEF Next, Data, Exec, Audio, AnyTask, Provider

(* of what the tasks await,                                                *)
LEMMA AwaitTypeStep ==
    TypeOK /\ [Next]_vars => AwaitType'
<1> SUFFICES ASSUME TypeOK, [Next]_vars PROVE AwaitType'
  OBVIOUS
<1>types. AwaitType
  BY TypeParts
<1>1. ASSUME HandleAck \/ SlotKept \/ ArmExpires \/ Acknowledges \/ Arrives \/ UserSpeaks \/
                QuietPasses
      PROVE  AwaitType'
  <2>1. UNCHANGED at
    BY <1>1
       DEF HandleAck, SlotKept, ArmExpires, Acknowledges, Arrives, UserSpeaks, QuietPasses,
           Handles, slotVars, outputVars, taskVars, providerVars, deviceVars, bridgeVars
  <2>2. QED
    BY <2>1, <1>types DEF AwaitType
<1>2. ASSUME NEW task \in Tasks, SendFails(task)
      PROVE  AwaitType'
  <2>1. UNCHANGED at
    BY <1>2
       DEF SendFails, slotVars, outputVars, taskVars, providerVars, deviceVars, bridgeVars
  <2>2. QED
    BY <2>1, <1>types DEF AwaitType
<1>3. ASSUME NEW t \in Turns, TurnBegins(t) \/ TurnEnds(t) \/ Speaks(t)
      PROVE  AwaitType'
  <2>1. UNCHANGED at
    BY <1>3
       DEF TurnBegins, TurnEnds, Speaks, slotVars, outputVars, taskVars, providerVars,
           deviceVars, bridgeVars
  <2>2. QED
    BY <2>1, <1>types DEF AwaitType
<1>4. ASSUME ClientBegins PROVE AwaitType'
  <2>1. \E task \in Tasks, there \in Awaits : at' \in {at, [at EXCEPT ![task] = there]}
    BY <1>4 DEF ClientBegins, EndsOutput, Joins, Goes, Tasks, Awaits, Locked, Sending
  <2>2. QED
    BY <1>types, <2>1 DEF AwaitType
<1>5. ASSUME AnswerReady PROVE AwaitType'
  <2>1. \E task \in Tasks, there \in Awaits : at' \in {at, [at EXCEPT ![task] = there]}
    BY <1>5 DEF AnswerReady, Goes, Tasks, Awaits, Locked, Sending
  <2>2. QED
    BY <1>types, <2>1 DEF AwaitType
<1>6. ASSUME HandleSpeech PROVE AwaitType'
  <2>1. \E task \in Tasks, there \in Awaits : at' \in {at, [at EXCEPT ![task] = there]}
    BY <1>6 DEF HandleSpeech, Goes, Tasks, Awaits, Locked, Sending
  <2>2. QED
    BY <1>types, <2>1 DEF AwaitType
<1>7. ASSUME SpeechTold PROVE AwaitType'
  <2>1. \E task \in Tasks, there \in Awaits : at' \in {at, [at EXCEPT ![task] = there]}
    BY <1>7 DEF SpeechTold, EndsOutput, Joins, Goes, Tasks, Awaits, Locked, Sending
  <2>2. QED
    BY <1>types, <2>1 DEF AwaitType
<1>8. ASSUME HandleCreated PROVE AwaitType'
  <2>1. \E task \in Tasks, there \in Awaits : at' \in {at, [at EXCEPT ![task] = there]}
    BY <1>8 DEF HandleCreated, EndsOutput, Joins, Goes, Tasks, Awaits, Locked, Sending
  <2>2. QED
    BY <1>types, <2>1 DEF AwaitType
<1>9. ASSUME HandleDone PROVE AwaitType'
  <2>1. \E task \in Tasks, there \in Awaits : at' \in {at, [at EXCEPT ![task] = there]}
    BY <1>9 DEF HandleDone, Joins, Goes, Tasks, Awaits, Locked, Sending
  <2>2. QED
    BY <1>types, <2>1 DEF AwaitType
<1>10. ASSUME RenderOver PROVE AwaitType'
  <2>1. \E task \in Tasks, there \in Awaits : at' \in {at, [at EXCEPT ![task] = there]}
    BY <1>10 DEF RenderOver, Tasks, Awaits
  <2>2. QED
    BY <1>types, <2>1 DEF AwaitType
<1>11. ASSUME AnswerTaken PROVE AwaitType'
  <2>1. \E task \in Tasks, there \in Awaits : at' \in {at, [at EXCEPT ![task] = there]}
    BY <1>11 DEF AnswerTaken, Tasks, Awaits
  <2>2. QED
    BY <1>types, <2>1 DEF AwaitType
<1>12. ASSUME NEW task \in Tasks, OutputMoves(task) PROVE AwaitType'
  <2>1. \E one \in Tasks, there \in Awaits : at' \in {at, [at EXCEPT ![one] = there]}
    BY <1>12 DEF OutputMoves, Tasks, Awaits, Locked, Sending
  <2>2. QED
    BY <1>types, <2>1 DEF AwaitType
<1>13. ASSUME Looks PROVE AwaitType'
  <2>1. \E task \in Tasks, there \in Awaits : at' \in {at, [at EXCEPT ![task] = there]}
    BY <1>13 DEF Looks, Rejoins, Goes, Tasks, Awaits, Locked, Sending
  <2>2. QED
    BY <1>types, <2>1 DEF AwaitType
<1>14. ASSUME LooksAgain PROVE AwaitType'
  <2>1. \E task \in Tasks, there \in Awaits : at' \in {at, [at EXCEPT ![task] = there]}
    BY <1>14 DEF LooksAgain, Rejoins, Goes, Tasks, Awaits, Locked, Sending
  <2>2. QED
    BY <1>types, <2>1 DEF AwaitType
<1>15. ASSUME Wakes PROVE AwaitType'
  <2>1. \E task \in Tasks, there \in Awaits : at' \in {at, [at EXCEPT ![task] = there]}
    BY <1>15 DEF Wakes, Joins, Goes, Tasks, Awaits, Locked, Sending
  <2>2. QED
    BY <1>types, <2>1 DEF AwaitType
<1>16. ASSUME SlotFreed PROVE AwaitType'
  <2>1. \E task \in Tasks, there \in Awaits : at' \in {at, [at EXCEPT ![task] = there]}
    BY <1>16 DEF SlotFreed, Goes, Tasks, Awaits, Locked, Sending
  <2>2. QED
    BY <1>types, <2>1 DEF AwaitType
<1>17. ASSUME QuietTail PROVE AwaitType'
  <2>1. \E task \in Tasks, there \in Awaits : at' \in {at, [at EXCEPT ![task] = there]}
    BY <1>17 DEF QuietTail, Joins, Goes, Tasks, Awaits, Locked, Sending
  <2>2. QED
    BY <1>types, <2>1 DEF AwaitType
<1>18. ASSUME Submitted PROVE AwaitType'
  <2>1. \E task \in Tasks, there \in Awaits : at' \in {at, [at EXCEPT ![task] = there]}
    BY <1>18 DEF Submitted, Goes, Tasks, Awaits, Locked, Sending
  <2>2. QED
    BY <1>types, <2>1 DEF AwaitType
<1>19. ASSUME Receive PROVE AwaitType'
  <2>1. \E task \in Tasks, there \in Awaits : at' \in {at, [at EXCEPT ![task] = there]}
    BY <1>19 DEF Receive, Joins, Goes, Tasks, Awaits, Locked, Sending
  <2>2. QED
    BY <1>types, <2>1 DEF AwaitType
<1>20. ASSUME Deliver PROVE AwaitType'
  <2>1. \E task \in Tasks, there \in Awaits : at' \in {at, [at EXCEPT ![task] = there]}
    BY <1>20 DEF Deliver, GivesUpFrame, Goes, Tasks, Awaits, Locked, Sending
  <2>2. QED
    BY <1>types, <2>1 DEF AwaitType
<1>21. ASSUME EpochOpens PROVE AwaitType'
  <2>1. \E task \in Tasks, there \in Awaits : at' \in {at, [at EXCEPT ![task] = there]}
    BY <1>21 DEF EpochOpens, Goes, Tasks, Awaits, Locked, Sending
  <2>2. QED
    BY <1>types, <2>1 DEF AwaitType
<1>22. ASSUME EpochOpened PROVE AwaitType'
  <2>1. \E task \in Tasks, there \in Awaits : at' \in {at, [at EXCEPT ![task] = there]}
    BY <1>22 DEF EpochOpened, GivesUpFrame, Goes, Tasks, Awaits, Locked, Sending
  <2>2. QED
    BY <1>types, <2>1 DEF AwaitType
<1>23. ASSUME Write PROVE AwaitType'
  <2>1. \E task \in Tasks, there \in Awaits : at' \in {at, [at EXCEPT ![task] = there]}
    BY <1>23 DEF Write, GivesUpFrame, Goes, Tasks, Awaits, Locked, Sending
  <2>2. QED
    BY <1>types, <2>1 DEF AwaitType
<1>24. CASE UNCHANGED vars
  BY <1>24, <1>types
     DEF vars, slotVars, outputVars, taskVars, providerVars, deviceVars, AwaitType
<1> QED
  BY <1>1, <1>2, <1>3, <1>4, <1>5, <1>6, <1>7, <1>8, <1>9, <1>10, <1>11, <1>12, <1>13, <1>14,
     <1>15, <1>16, <1>17, <1>18, <1>19, <1>20, <1>21, <1>22, <1>23, <1>24, SlotSteps

(* of the turns,                                                           *)
LEMMA TurnTypeStep ==
    TypeOK /\ [Next]_vars => TurnType'
<1> SUFFICES ASSUME TypeOK, [Next]_vars PROVE TurnType'
  OBVIOUS
<1>1. ASSUME ClientBegins \/ AnswerReady \/ HandleSpeech \/ SpeechTold \/ HandleAck \/
                HandleCreated \/ HandleDone \/ RenderOver \/ AnswerTaken \/ Looks \/
                LooksAgain \/ Wakes \/ SlotFreed \/ SlotKept \/ QuietTail \/ Submitted \/
                Receive \/ Deliver \/ EpochOpens \/ EpochOpened \/ Write \/ ArmExpires \/
                Acknowledges \/ Arrives \/ UserSpeaks \/ QuietPasses
      PROVE  TurnType'
  <2>1. UNCHANGED <<made, turn>>
    BY <1>1
       DEF ClientBegins, AnswerReady, HandleSpeech, SpeechTold, HandleAck, HandleCreated,
           HandleDone, RenderOver, AnswerTaken, Looks, LooksAgain, Wakes, SlotFreed, SlotKept,
           QuietTail, Submitted, Receive, Deliver, EpochOpens, EpochOpened, Write, ArmExpires,
           Acknowledges, Arrives, UserSpeaks, QuietPasses, Handles, slotVars, outputVars,
           taskVars, providerVars, deviceVars, bridgeVars
  <2>2. QED
    BY <2>1 DEF TurnType, TypeOK
<1>2. ASSUME NEW task \in Tasks, OutputMoves(task) \/ SendFails(task)
      PROVE  TurnType'
  <2>1. UNCHANGED <<made, turn>>
    BY <1>2
       DEF OutputMoves, SendFails, slotVars, outputVars, taskVars, providerVars, deviceVars,
           bridgeVars
  <2>2. QED
    BY <2>1 DEF TurnType, TypeOK
<1>3. ASSUME NEW t \in Turns, Speaks(t)
      PROVE  TurnType'
  <2>1. UNCHANGED <<made, turn>>
    BY <1>3 DEF Speaks, slotVars, outputVars, taskVars, providerVars, deviceVars, bridgeVars
  <2>2. QED
    BY <2>1 DEF TurnType, TypeOK
<1>4. ASSUME NEW t \in Turns, TurnBegins(t) PROVE TurnType'
  BY <1>4 DEF TurnBegins, TurnType, TypeOK
<1>5. ASSUME NEW t \in Turns, TurnEnds(t) PROVE TurnType'
  BY <1>5 DEF TurnEnds, TurnType, TypeOK
<1>6. CASE UNCHANGED vars
  BY <1>6 DEF vars, slotVars, outputVars, taskVars, providerVars, deviceVars, TurnType, TypeOK
<1> QED
  BY <1>1, <1>2, <1>3, <1>4, <1>5, <1>6, SlotSteps

(* of what is on its way,                                                  *)
LEMMA WireTypeStep ==
    TypeOK /\ [Next]_vars => WireType'
<1> SUFFICES ASSUME TypeOK, [Next]_vars PROVE WireType'
  OBVIOUS
<1>types. WireType
  BY TypeParts
<1>1. ASSUME ClientBegins \/ AnswerReady \/ SpeechTold \/ AnswerTaken \/ Looks \/ LooksAgain
                \/ Wakes \/ SlotFreed \/ SlotKept \/ Submitted \/ Deliver \/ EpochOpens \/
                EpochOpened \/ Write \/ ArmExpires \/ QuietPasses
      PROVE  WireType'
  <2>1. UNCHANGED <<air, media, controls>>
    BY <1>1
       DEF ClientBegins, AnswerReady, SpeechTold, AnswerTaken, Looks, LooksAgain, Wakes,
           SlotFreed, SlotKept, Submitted, Deliver, EpochOpens, EpochOpened, Write,
           ArmExpires, QuietPasses, slotVars, outputVars, taskVars, providerVars, deviceVars,
           bridgeVars
  <2>2. QED
    BY <2>1, <1>types DEF WireType
<1>2. ASSUME NEW task \in Tasks, OutputMoves(task) \/ SendFails(task)
      PROVE  WireType'
  <2>1. UNCHANGED <<air, media, controls>>
    BY <1>2
       DEF OutputMoves, SendFails, slotVars, outputVars, taskVars, providerVars, deviceVars,
           bridgeVars
  <2>2. QED
    BY <2>1, <1>types DEF WireType
<1>3. ASSUME HandleSpeech PROVE WireType'
  <2>1. UNCHANGED <<air, media>> /\ controls' \in Seq(EventType)
    BY <1>3, HandledEvent DEF HandleSpeech, Handles
  <2>2. QED
    BY <1>types, <2>1 DEF WireType
<1>4. ASSUME HandleAck PROVE WireType'
  <2>1. UNCHANGED <<air, media>> /\ controls' \in Seq(EventType)
    BY <1>4, HandledEvent DEF HandleAck, Handles
  <2>2. QED
    BY <1>types, <2>1 DEF WireType
<1>5. ASSUME HandleCreated PROVE WireType'
  <2>1. UNCHANGED <<air, media>> /\ controls' \in Seq(EventType)
    BY <1>5, HandledEvent DEF HandleCreated, Handles
  <2>2. QED
    BY <1>types, <2>1 DEF WireType
<1>6. ASSUME HandleDone PROVE WireType'
  <2>1. UNCHANGED <<air, media>> /\ controls' \in Seq(EventType)
    BY <1>6, HandledEvent DEF HandleDone, Handles
  <2>2. QED
    BY <1>types, <2>1 DEF WireType
<1>7. ASSUME RenderOver PROVE WireType'
  <2>1. UNCHANGED <<air, controls>> /\ media' = <<>>
    BY <1>7 DEF RenderOver
  <2>2. QED
    BY <1>types, <2>1, Frames DEF WireType
<1>8. ASSUME QuietTail PROVE WireType'
  <2>1. UNCHANGED <<air, controls>> /\ media' = <<>>
    BY <1>8 DEF QuietTail, Drains, providerVars
  <2>2. QED
    BY <1>types, <2>1, Frames DEF WireType
<1>9. ASSUME Receive PROVE WireType'
  <2>1. UNCHANGED <<air, controls>> /\ media # <<>> /\ media' = Tail(media)
    BY <1>9 DEF Receive, providerVars
  <2>2. QED
    BY <1>types, <2>1, Frames DEF WireType
<1>10. ASSUME Acknowledges PROVE WireType'
  <2>1. UNCHANGED <<air, media>> /\ Event("ack", None)
    BY <1>10 DEF Acknowledges
  <2>2. controls' \in Seq(EventType)
    BY <2>1, NewEvent
  <2>3. QED
    BY <1>types, <2>1, <2>2 DEF WireType
<1>11. ASSUME Arrives PROVE WireType'
  <2>1. UNCHANGED controls /\ air # <<>> /\ air' = Tail(air) /\ media' = Append(media, Head(air))
    BY <1>11 DEF Arrives
  <2>2. Head(air) \in Turns /\ Tail(air) \in Seq(Turns)
    BY <2>1, Frames
  <2>3. QED
    BY <1>types, <2>1, <2>2, Frames DEF WireType
<1>12. ASSUME UserSpeaks PROVE WireType'
  <2>1. UNCHANGED <<air, media>> /\ Event("speech", None)
    BY <1>12 DEF UserSpeaks
  <2>2. controls' \in Seq(EventType)
    BY <2>1, NewEvent
  <2>3. QED
    BY <1>types, <2>1, <2>2 DEF WireType
<1>13. ASSUME NEW t \in Turns, TurnBegins(t) PROVE WireType'
  <2>1. UNCHANGED <<air, media>> /\ Event("created", t)
    BY <1>13 DEF TurnBegins
  <2>2. controls' \in Seq(EventType)
    BY <2>1, NewEvent
  <2>3. QED
    BY <1>types, <2>1, <2>2 DEF WireType
<1>14. ASSUME NEW t \in Turns, TurnEnds(t) PROVE WireType'
  <2>1. UNCHANGED <<air, media>> /\ Event("done", t)
    BY <1>14 DEF TurnEnds
  <2>2. controls' \in Seq(EventType)
    BY <2>1, NewEvent
  <2>3. QED
    BY <1>types, <2>1, <2>2 DEF WireType
<1>15. ASSUME NEW t \in Turns, Speaks(t) PROVE WireType'
  <2>1. UNCHANGED <<media, controls>> /\ air' = Append(air, t)
    BY <1>15 DEF Speaks
  <2>2. QED
    BY <1>types, <2>1, Frames DEF WireType
<1>16. CASE UNCHANGED vars
  BY <1>16, <1>types
     DEF vars, slotVars, outputVars, taskVars, providerVars, deviceVars, WireType
<1> QED
  BY <1>1, <1>2, <1>3, <1>4, <1>5, <1>6, <1>7, <1>8, <1>9, <1>10, <1>11, <1>12, <1>13, <1>14,
     <1>15, <1>16, SlotSteps

(* and of what was heard.                                                  *)
LEMMA HeardTypeStep ==
    TypeOK /\ ChunkInv /\ [Next]_vars => HeardType'
<1> SUFFICES ASSUME TypeOK, ChunkInv, [Next]_vars PROVE HeardType'
  OBVIOUS
<1>1. ASSUME ClientBegins \/ AnswerReady \/ HandleSpeech \/ SpeechTold \/ HandleAck \/
                HandleCreated \/ HandleDone \/ RenderOver \/ AnswerTaken \/ Looks \/
                LooksAgain \/ Wakes \/ SlotFreed \/ SlotKept \/ QuietTail \/ Submitted \/
                Receive \/ Deliver \/ EpochOpens \/ EpochOpened \/ ArmExpires \/ Acknowledges
                \/ Arrives \/ UserSpeaks \/ QuietPasses
      PROVE  HeardType'
  <2>1. UNCHANGED heard
    BY <1>1
       DEF ClientBegins, AnswerReady, HandleSpeech, SpeechTold, HandleAck, HandleCreated,
           HandleDone, RenderOver, AnswerTaken, Looks, LooksAgain, Wakes, SlotFreed, SlotKept,
           QuietTail, Submitted, Receive, Deliver, EpochOpens, EpochOpened, ArmExpires,
           Acknowledges, Arrives, UserSpeaks, QuietPasses, Handles, slotVars, outputVars,
           taskVars, providerVars, deviceVars, bridgeVars
  <2>2. QED
    BY <2>1 DEF HeardType, TypeOK
<1>2. ASSUME NEW task \in Tasks, OutputMoves(task) \/ SendFails(task)
      PROVE  HeardType'
  <2>1. UNCHANGED heard
    BY <1>2
       DEF OutputMoves, SendFails, slotVars, outputVars, taskVars, providerVars, deviceVars,
           bridgeVars
  <2>2. QED
    BY <2>1 DEF HeardType, TypeOK
<1>3. ASSUME NEW t \in Turns, TurnBegins(t) \/ TurnEnds(t) \/ Speaks(t)
      PROVE  HeardType'
  <2>1. UNCHANGED heard
    BY <1>3
       DEF TurnBegins, TurnEnds, Speaks, slotVars, outputVars, taskVars, providerVars,
           deviceVars, bridgeVars
  <2>2. QED
    BY <2>1 DEF HeardType, TypeOK
<1>4. ASSUME Write PROVE HeardType'
  BY <1>4 DEF Write, Has, HeardType, TypeOK, ChunkInv
<1>5. CASE UNCHANGED vars
  BY <1>5
     DEF vars, slotVars, outputVars, taskVars, providerVars, deviceVars, HeardType, TypeOK
<1> QED
  BY <1>1, <1>2, <1>3, <1>4, <1>5, SlotSteps

(* The timeout of an armed output.                                         *)
LEMMA TimerStep ==
    TypeOK /\ TimerInv /\ [Next]_vars => TimerInv'
<1> SUFFICES ASSUME TypeOK, TimerInv, [Next]_vars PROVE TimerInv'
  OBVIOUS
<1>1. ASSUME ClientBegins \/ AnswerReady \/ HandleSpeech \/ SpeechTold \/ HandleAck \/
                HandleCreated \/ HandleDone \/ Tails \/ Looks \/ LooksAgain \/ Wakes \/
                SlotFreed \/ SlotKept \/ QuietTail \/ Submitted \/ Receive \/ EpochOpens \/
                EpochOpened \/ Write \/ Acknowledges \/ Arrives \/ UserSpeaks \/ QuietPasses
      PROVE  TimerInv'
  <2>1. UNCHANGED <<timer, armed>>
    BY <1>1
       DEF ClientBegins, AnswerReady, HandleSpeech, SpeechTold, HandleAck, HandleCreated,
           HandleDone, Tails, Looks, LooksAgain, Wakes, SlotFreed, SlotKept, QuietTail,
           Submitted, Receive, EpochOpens, EpochOpened, Write, Acknowledges, Arrives,
           UserSpeaks, QuietPasses, Handles, slotVars, outputVars, taskVars, providerVars,
           deviceVars, bridgeVars
  <2>2. QED
    BY <2>1 DEF TimerInv
<1>2. ASSUME NEW task \in Tasks, Stopped(task) \/ SendFails(task)
      PROVE  TimerInv'
  <2>1. UNCHANGED <<timer, armed>>
    BY <1>2
       DEF Stopped, SendFails, slotVars, outputVars, taskVars, providerVars, deviceVars,
           bridgeVars
  <2>2. QED
    BY <2>1 DEF TimerInv
<1>3. ASSUME NEW t \in Turns, TurnBegins(t) \/ TurnEnds(t) \/ Speaks(t)
      PROVE  TimerInv'
  <2>1. UNCHANGED <<timer, armed>>
    BY <1>3
       DEF TurnBegins, TurnEnds, Speaks, slotVars, outputVars, taskVars, providerVars,
           deviceVars, bridgeVars
  <2>2. QED
    BY <2>1 DEF TimerInv
<1>4. ASSUME Arms PROVE TimerInv'
  BY <1>4 DEF Arms, TimerInv
<1>5. ASSUME Finishes PROVE TimerInv'
  BY <1>5 DEF Finishes, Disarms, StopsSpeaking, StaysSilent, TimerInv
<1>6. ASSUME NEW task \in Tasks, Ends(task) PROVE TimerInv'
  BY <1>6 DEF Ends, Disarms, StopsSpeaking, StaysSilent, TimerInv
<1>7. ASSUME Deliver PROVE TimerInv'
  BY <1>7 DEF Deliver, Disarms, outputVars, TimerInv
<1>8. ASSUME ArmExpires PROVE TimerInv'
  BY <1>8 DEF ArmExpires, TimerInv
<1>9. CASE UNCHANGED vars
  BY <1>9 DEF vars, slotVars, outputVars, taskVars, providerVars, deviceVars, TimerInv
<1> QED
  BY <1>1, <1>2, <1>3, <1>4, <1>5, <1>6, <1>7, <1>8, <1>9
     DEF Next, Data, Exec, Audio, AnyTask, Provider

(* The turns begin, speak and end.                                         *)
LEMMA TurnStep ==
    TypeOK /\ TurnInv /\ [Next]_vars => TurnInv'
<1> SUFFICES ASSUME TypeOK, TurnInv, [Next]_vars PROVE TurnInv'
  OBVIOUS
<1>types. made \in [Turns -> Generations] /\ turn \in [Turns -> {"unborn", "speaking", "over"}]
  BY DEF TypeOK
<1>1. ASSUME ClientBegins \/ AnswerReady \/ SpeechTold \/ Looks \/ LooksAgain \/ Wakes \/
                SlotFreed \/ SlotKept \/ Submitted \/ EpochOpens \/ ArmExpires \/ QuietPasses
      PROVE  TurnInv'
  <2>1. UNCHANGED <<made, render, chunk, air, media, heard, controls, turn>>
    BY <1>1
       DEF ClientBegins, AnswerReady, SpeechTold, Looks, LooksAgain, Wakes, SlotFreed,
           SlotKept, Submitted, EpochOpens, ArmExpires, QuietPasses, slotVars, outputVars,
           taskVars, providerVars, deviceVars, bridgeVars
  <2>2. QED
    BY <2>1 DEF TurnInv
<1>2. ASSUME NEW task \in Tasks, OutputMoves(task) \/ SendFails(task)
      PROVE  TurnInv'
  <2>1. UNCHANGED <<made, render, chunk, air, media, heard, controls, turn>>
    BY <1>2
       DEF OutputMoves, SendFails, slotVars, outputVars, taskVars, providerVars, deviceVars,
           bridgeVars
  <2>2. QED
    BY <2>1 DEF TurnInv
<1>3. ASSUME HandleSpeech PROVE TurnInv'
  <2>1. UNCHANGED <<made, render, chunk, air, media, heard, turn>>
    BY <1>3 DEF HandleSpeech, Handles, deviceVars
  <2>2. QED
    BY <1>3, <2>1, HandledEvent DEF HandleSpeech, TurnInv
<1>4. ASSUME HandleAck PROVE TurnInv'
  <2>1. /\ UNCHANGED <<made, chunk, air, media, heard, turn>>
        /\ render' \in {render, [render EXCEPT !.acked = TRUE]}
    BY <1>4 DEF HandleAck, Handles, deviceVars
  <2>2. render'.turn = render.turn
    BY <1>4, <2>1, RenderFields
  <2>3. /\ \A i \in DOMAIN controls' :
              i + 1 \in DOMAIN controls /\ controls'[i] = controls[i + 1] /\ i \in Nat
        /\ 1 \in DOMAIN controls
    BY <1>4, HandledEvent DEF HandleAck
  <2>4. QED
    BY <2>1, <2>2, <2>3 DEF TurnInv
<1>5. ASSUME HandleCreated PROVE TurnInv'
  <2>1. /\ UNCHANGED <<made, chunk, air, media, heard, turn>>
        /\ render' \in {render, [render EXCEPT !.turn = controls[1].turn]}
    BY <1>5, HandledEvent DEF HandleCreated, Handles, deviceVars
  <2>2. render'.turn \in {render.turn, controls[1].turn}
    BY ZenonT(40), <1>5, <2>1, RenderFields
  <2>3. /\ \A i \in DOMAIN controls' :
              i + 1 \in DOMAIN controls /\ controls'[i] = controls[i + 1] /\ i \in Nat
        /\ 1 \in DOMAIN controls
    BY <1>5, HandledEvent DEF HandleCreated
  <2>4. QED
    BY <2>1, <2>2, <2>3 DEF TurnInv
<1>6. ASSUME HandleDone PROVE TurnInv'
  <2>1. UNCHANGED <<made, render, chunk, air, media, heard, turn>>
    BY <1>6 DEF HandleDone, Handles, deviceVars
  <2>2. QED
    BY <1>6, <2>1, HandledEvent DEF HandleDone, TurnInv
<1>7. ASSUME RenderOver PROVE TurnInv'
  <2>1. /\ UNCHANGED <<made, chunk, air, heard, controls, turn>>
        /\ render' = Free /\ media' = <<>>
    BY <1>7 DEF RenderOver
  <2>2. QED
    BY <2>1, RenderFields, Frames, NoneAssumption DEF TurnInv
<1>8. ASSUME AnswerTaken PROVE TurnInv'
  <2>1. UNCHANGED <<made, chunk, air, media, heard, controls, turn>> /\ render'.turn = None
    BY <1>8 DEF AnswerTaken
  <2>2. QED
    BY <2>1, NoneAssumption DEF TurnInv
<1>9. ASSUME QuietTail PROVE TurnInv'
  <2>1. UNCHANGED <<made, render, chunk, air, heard, controls, turn>> /\ media' = <<>>
    BY <1>9 DEF QuietTail, Drains, slotVars, providerVars, deviceVars
  <2>2. QED
    BY <2>1, Frames DEF TurnInv
<1>10. ASSUME Receive PROVE TurnInv'
  <2>1. /\ UNCHANGED <<made, render, air, heard, controls, turn>>
        /\ media # <<>> /\ media' = Tail(media)
        /\ chunk' \in {chunk, [turn |-> Head(media), gate |-> gate]}
    BY <1>10 DEF Receive, slotVars, providerVars, deviceVars
  <2>2. Head(media) \in ToSet(media) /\ ToSet(media') \subseteq ToSet(media)
    BY <2>1, Frames
  <2>3. chunk'.turn \in {chunk.turn, Head(media)}
    BY <2>1
  <2>4. QED
    BY <2>1, <2>2, <2>3 DEF TurnInv
<1>11. ASSUME Deliver PROVE TurnInv'
  <2>1. /\ UNCHANGED <<made, render, air, media, heard, controls, turn>>
        /\ chunk' \in {chunk, NoChunk}
    BY <1>11 DEF Deliver, GivesUpFrame, slotVars, providerVars, deviceVars
  <2>2. chunk'.turn \in {chunk.turn, None}
    BY <2>1 DEF NoChunk
  <2>3. QED
    BY <2>1, <2>2, NoneAssumption DEF TurnInv
<1>12. ASSUME EpochOpened PROVE TurnInv'
  <2>1. /\ UNCHANGED <<made, render, air, media, heard, controls, turn>>
        /\ chunk' \in {chunk, NoChunk}
    BY <1>12 DEF EpochOpened, GivesUpFrame, slotVars, providerVars, deviceVars
  <2>2. chunk'.turn \in {chunk.turn, None}
    BY <2>1 DEF NoChunk
  <2>3. QED
    BY <2>1, <2>2, NoneAssumption DEF TurnInv
<1>13. ASSUME Write PROVE TurnInv'
  <2>1. /\ UNCHANGED <<made, render, air, media, controls, turn>> /\ chunk' = NoChunk
        /\ heard' \subseteq heard \cup {[turn |-> chunk.turn, gen |-> generation, epoch |-> open]}
    BY <1>13 DEF Write, GivesUpFrame, slotVars, providerVars
  <2>2. chunk'.turn = None
    BY <2>1 DEF NoChunk
  <2>3. QED
    BY <2>1, <2>2, NoneAssumption DEF TurnInv
<1>14. ASSUME Acknowledges PROVE TurnInv'
  <2>1. /\ UNCHANGED <<made, render, chunk, air, media, heard, turn>> /\ Event("ack", None)
    BY <1>14 DEF Acknowledges, bridgeVars, slotVars, taskVars, deviceVars
  <2>2. PICK n \in Nat \ {0} :
           /\ n \notin DOMAIN controls /\ DOMAIN controls' = DOMAIN controls \cup {n}
           /\ controls'[n] = [kind |-> "ack", turn |-> None]
           /\ \A i \in DOMAIN controls : controls'[i] = controls[i]
    BY <2>1, NewEvent
  <2>3. QED
    BY <2>1, <2>2, NoneAssumption DEF TurnInv
<1>15. ASSUME Arrives PROVE TurnInv'
  <2>1. /\ UNCHANGED <<made, render, chunk, heard, controls, turn>> /\ air # <<>>
        /\ air' = Tail(air) /\ media' = Append(media, Head(air))
    BY <1>15 DEF Arrives, bridgeVars, slotVars, taskVars, deviceVars
  <2>2. /\ Head(air) \in ToSet(air) /\ ToSet(air') \subseteq ToSet(air)
        /\ ToSet(media') = ToSet(media) \cup {Head(air)}
    BY <2>1, Frames
  <2>3. QED
    BY <2>1, <2>2 DEF TurnInv
<1>16. ASSUME UserSpeaks PROVE TurnInv'
  <2>1. /\ UNCHANGED <<made, render, chunk, air, media, heard, turn>> /\ Event("speech", None)
    BY <1>16 DEF UserSpeaks, bridgeVars, slotVars, taskVars, deviceVars
  <2>2. PICK n \in Nat \ {0} :
           /\ n \notin DOMAIN controls /\ DOMAIN controls' = DOMAIN controls \cup {n}
           /\ controls'[n] = [kind |-> "speech", turn |-> None]
           /\ \A i \in DOMAIN controls : controls'[i] = controls[i]
    BY <2>1, NewEvent
  <2>3. QED
    BY <2>1, <2>2, NoneAssumption DEF TurnInv
<1>17. ASSUME NEW t \in Turns, TurnBegins(t) PROVE TurnInv'
  <2>1. /\ UNCHANGED <<render, chunk, air, media, heard>> /\ Event("created", t)
        /\ turn[t] = "unborn"
        /\ (\A o \in Turns : turn[o] # "speaking")
        /\ turn' = [turn EXCEPT ![t] = "speaking"] /\ made' = [made EXCEPT ![t] = pending]
    BY <1>17 DEF TurnBegins, bridgeVars, slotVars, taskVars, deviceVars
  <2>2. PICK n \in Nat \ {0} :
           /\ n \notin DOMAIN controls /\ DOMAIN controls' = DOMAIN controls \cup {n}
           /\ controls'[n] = [kind |-> "created", turn |-> t]
           /\ \A i \in DOMAIN controls : controls'[i] = controls[i]
    BY <2>1, NewEvent
  <2>3. /\ turn'[t] = "speaking"
        /\ \A o \in Turns \ {t} : made'[o] = made[o] /\ turn'[o] = turn[o]
    BY <2>1, <1>types
  <2>4. \A i \in DOMAIN controls : controls[i].turn # t
    BY <2>1 DEF TurnInv
  <2>5. QED
    BY <2>1, <2>2, <2>3, <2>4 DEF TurnInv
<1>18. ASSUME NEW t \in Turns, TurnEnds(t) PROVE TurnInv'
  <2>1. /\ UNCHANGED <<made, render, chunk, air, media, heard>> /\ Event("done", t)
        /\ turn[t] = "speaking"
        /\ turn' = [turn EXCEPT ![t] = "over"]
    BY <1>18 DEF TurnEnds, bridgeVars, slotVars, taskVars, deviceVars
  <2>2. PICK n \in Nat \ {0} :
           /\ n \notin DOMAIN controls /\ DOMAIN controls' = DOMAIN controls \cup {n}
           /\ controls'[n] = [kind |-> "done", turn |-> t]
           /\ \A i \in DOMAIN controls : controls'[i] = controls[i]
    BY <2>1, NewEvent
  <2>3. turn'[t] = "over" /\ \A o \in Turns \ {t} : turn'[o] = turn[o]
    BY <2>1, <1>types
  <2>4. QED
    BY <2>1, <2>2, <2>3 DEF TurnInv
<1>19. ASSUME NEW t \in Turns, Speaks(t) PROVE TurnInv'
  <2>1. /\ UNCHANGED <<made, render, chunk, media, heard, controls, turn>>
        /\ turn[t] = "speaking" /\ air' = Append(air, t)
    BY <1>19 DEF Speaks, bridgeVars, slotVars, taskVars, deviceVars
  <2>2. ToSet(air') = ToSet(air) \cup {t}
    BY <2>1, Frames
  <2>3. QED
    BY <2>1, <2>2 DEF TurnInv
<1>20. CASE UNCHANGED vars
  BY <1>20 DEF vars, slotVars, outputVars, taskVars, providerVars, deviceVars, TurnInv
<1> QED
  BY <1>1, <1>2, <1>3, <1>4, <1>5, <1>6, <1>7, <1>8, <1>9, <1>10, <1>11, <1>12, <1>13, <1>14,
     <1>15, <1>16, <1>17, <1>18, <1>19, <1>20, SlotSteps

(* A generation is answered once.                                          *)
LEMMA OnceStep ==
    TypeOK /\ SlotInv /\ TurnInv /\ LockInv /\ TimerInv /\ OnceInv /\ [Next]_vars => OnceInv'
<1> SUFFICES ASSUME TypeOK, SlotInv, TurnInv, LockInv, TimerInv, OnceInv, [Next]_vars
             PROVE  OnceInv'
  OBVIOUS
<1>types. made \in [Turns -> Generations] /\ at \in [Tasks -> {at[o] : o \in Tasks}]
  BY DEF TypeOK
<1>1. ASSUME ClientBegins \/ HandleSpeech \/ SpeechTold \/ HandleDone \/ Looks \/ LooksAgain
                \/ Wakes \/ Receive \/ Deliver \/ EpochOpens \/ EpochOpened \/ Write
      PROVE  OnceInv'
  <2>1. UNCHANGED <<answered, render, made, asked, pending, answering>>
    BY <1>1
       DEF ClientBegins, HandleSpeech, SpeechTold, HandleDone, Looks, LooksAgain, Wakes,
           Receive, Deliver, EpochOpens, EpochOpened, Write, Handles, slotVars, outputVars,
           taskVars, providerVars, deviceVars, bridgeVars
  <2>2. at'["exec"] = at["exec"]
    BY <1>1, Elsewhere
  <2>3. QED
    BY <2>1, <2>2 DEF OnceInv, Submitting
<1>2. ASSUME SlotKept \/ ArmExpires \/ Arrives \/ UserSpeaks \/ QuietPasses
      PROVE  OnceInv'
  <2>1. UNCHANGED <<answered, render, made, asked, pending, answering, at["exec"]>>
    BY <1>2
       DEF SlotKept, ArmExpires, Arrives, UserSpeaks, QuietPasses, slotVars, outputVars,
           taskVars, providerVars, deviceVars, bridgeVars
  <2>2. QED
    BY <2>1 DEF OnceInv, Submitting
<1>3. ASSUME NEW task \in Tasks, SendFails(task)
      PROVE  OnceInv'
  <2>1. UNCHANGED <<answered, render, made, asked, pending, answering, at["exec"]>>
    BY <1>3
       DEF SendFails, slotVars, outputVars, taskVars, providerVars, deviceVars, bridgeVars
  <2>2. QED
    BY <2>1 DEF OnceInv, Submitting
<1>4. ASSUME NEW t \in Turns, TurnEnds(t) \/ Speaks(t)
      PROVE  OnceInv'
  <2>1. UNCHANGED <<answered, render, made, asked, pending, answering, at["exec"]>>
    BY <1>4
       DEF TurnEnds, Speaks, slotVars, outputVars, taskVars, providerVars, deviceVars,
           bridgeVars
  <2>2. QED
    BY <2>1 DEF OnceInv, Submitting
<1>5. ASSUME AnswerReady PROVE OnceInv'
  <2>1. /\ UNCHANGED <<render, made, asked, pending>> /\ generation \notin answered
        /\ answered' = answered \cup {generation} /\ answering' = generation
    BY <1>5 DEF AnswerReady, slotVars, providerVars
  <2>2. QED
    BY <2>1, RenderFields DEF OnceInv
<1>6. ASSUME HandleAck PROVE OnceInv'
  <2>1. /\ UNCHANGED <<answered, made, asked, pending, answering>>
        /\ render' \in {render, [render EXCEPT !.acked = TRUE]}
    BY <1>6 DEF HandleAck, Handles
  <2>2. render'.gen = render.gen
    BY <2>1, RenderFields
  <2>3. at'["exec"] = at["exec"]
    BY <1>6, Elsewhere
  <2>4. QED
    BY <2>1, <2>2, <2>3 DEF OnceInv, Submitting
<1>7. ASSUME HandleCreated PROVE OnceInv'
  <2>1. /\ UNCHANGED <<answered, made, asked, pending, answering>>
        /\ render' \in {render, [render EXCEPT !.turn = Head(controls).turn]}
    BY <1>7 DEF HandleCreated, Handles
  <2>2. render'.gen = render.gen
    BY <2>1, RenderFields
  <2>3. at'["exec"] = at["exec"]
    BY <1>7, Elsewhere
  <2>4. QED
    BY <2>1, <2>2, <2>3 DEF OnceInv, Submitting
<1>8. ASSUME RenderOver PROVE OnceInv'
  BY <1>8 DEF RenderOver, Free, OnceInv, Submitting
<1>9. ASSUME AnswerTaken PROVE OnceInv'
  <2>1. /\ UNCHANGED <<answered, made, pending, answering>> /\ Submitting
        /\ render'.gen = answering /\ asked' = answering
        /\ at' = [at EXCEPT !["exec"] = "appending"]
    BY <1>9 DEF AnswerTaken, Submitting
  <2>2. ~Submitting'
    BY <2>1, <1>types DEF Submitting, Tasks
  <2>3. QED
    BY <2>1, <2>2 DEF OnceInv
<1>10. ASSUME NEW task \in Tasks, OutputMoves(task) PROVE OnceInv'
  BY <1>10 DEF OutputMoves, OnceInv, Submitting
<1>11. ASSUME SlotFreed PROVE OnceInv'
  <2>1. UNCHANGED <<answered, render, made, asked, pending, answering>> /\ at["exec"] = "retiring"
    BY <1>11 DEF SlotFreed, slotVars, providerVars
  <2>2. QED
    BY <2>1 DEF OnceInv, Submitting
<1>12. ASSUME QuietTail PROVE OnceInv'
  <2>1. UNCHANGED <<answered, render, made, asked, pending, answering>> /\ at["exec"] = "quieting"
    BY <1>12 DEF QuietTail, slotVars, providerVars
  <2>2. QED
    BY <2>1 DEF OnceInv, Submitting
<1>13. ASSUME Submitted PROVE OnceInv'
  <2>1. /\ UNCHANGED <<answered, render, made, asked, pending, answering>>
        /\ at' = [at EXCEPT !["exec"] = "idle"]
    BY <1>13 DEF Submitted, Goes, slotVars, providerVars
  <2>2. ~Submitting'
    BY <2>1, <1>types DEF Submitting, Tasks
  <2>3. QED
    BY <2>1, <2>2 DEF OnceInv
<1>14. ASSUME Acknowledges PROVE OnceInv'
  <2>1. /\ UNCHANGED <<answered, made, render, answering, at>>
        /\ asked # 0 /\ asked' = 0 /\ pending' = asked
    BY <1>14 DEF Acknowledges, bridgeVars, slotVars, taskVars
  <2>2. QED
    BY <2>1 DEF OnceInv, Submitting
<1>15. ASSUME NEW t \in Turns, TurnBegins(t) PROVE OnceInv'
  <2>1. /\ UNCHANGED <<answered, render, answering, at, asked>> /\ made[t] = 0
        /\ pending' = 0 /\ made' = [made EXCEPT ![t] = pending]
    BY <1>15 DEF TurnBegins, bridgeVars, slotVars, taskVars, TurnInv
  <2>2. made'[t] = pending /\ \A o \in Turns \ {t} : made'[o] = made[o]
    BY <2>1, <1>types
  <2>3. pending # 0 => pending = render.gen /\ asked = 0
    BY DEF SlotInv
  <2>4. Submitting => pending # answering
    BY <2>3 DEF OnceInv
  <2>5. asked # 0 => pending = 0
    BY <2>3
  <2>6. pending \in answered
    BY <2>3 DEF OnceInv
  <2>7. QED
    BY <2>1, <2>2, <2>3, <2>4, <2>5, <2>6 DEF OnceInv, Submitting
<1>16. CASE UNCHANGED vars
  BY <1>16
     DEF vars, slotVars, outputVars, taskVars, providerVars, deviceVars, OnceInv, Submitting
<1> QED
  BY <1>1, <1>2, <1>3, <1>4, <1>5, <1>6, <1>7, <1>8, <1>9, <1>10, <1>11, <1>12, <1>13, <1>14,
     <1>15, <1>16, SlotSteps

(* The provider follows the slot.                                          *)
LEMMA SlotStep ==
    TypeOK /\ TurnInv /\ OnceInv /\ OrderInv /\ FrameInv /\ SlotInv /\ [Next]_vars => SlotInv'
<1> SUFFICES ASSUME TypeOK, TurnInv, OnceInv, OrderInv, FrameInv, SlotInv, [Next]_vars
             PROVE  SlotInv'
  OBVIOUS
<1>types. made \in [Turns -> Generations] /\ turn \in [Turns -> {"unborn", "speaking", "over"}]
  BY DEF TypeOK
<1>1. ASSUME ClientBegins \/ AnswerReady \/ SpeechTold \/ Looks \/ LooksAgain \/ Wakes \/
                SlotFreed \/ SlotKept \/ QuietTail \/ Submitted \/ Receive \/ Deliver \/
                EpochOpens \/ EpochOpened \/ Write \/ ArmExpires \/ Arrives \/ QuietPasses
      PROVE  SlotInv'
  <2>1. UNCHANGED <<render, asked, pending, controls, made, turn, closing>>
    BY <1>1
       DEF ClientBegins, AnswerReady, SpeechTold, Looks, LooksAgain, Wakes, SlotFreed,
           SlotKept, QuietTail, Submitted, Receive, Deliver, EpochOpens, EpochOpened, Write,
           ArmExpires, Arrives, QuietPasses, slotVars, outputVars, taskVars, providerVars,
           deviceVars, bridgeVars
  <2>2. QED
    BY <2>1 DEF SlotInv, IsAcked
<1>2. ASSUME NEW task \in Tasks, OutputMoves(task) \/ SendFails(task)
      PROVE  SlotInv'
  <2>1. UNCHANGED <<render, asked, pending, controls, made, turn, closing>>
    BY <1>2
       DEF OutputMoves, SendFails, slotVars, outputVars, taskVars, providerVars, deviceVars,
           bridgeVars
  <2>2. QED
    BY <2>1 DEF SlotInv, IsAcked
<1>3. ASSUME NEW t \in Turns, Speaks(t)
      PROVE  SlotInv'
  <2>1. UNCHANGED <<render, asked, pending, controls, made, turn, closing>>
    BY <1>3 DEF Speaks, slotVars, outputVars, taskVars, providerVars, deviceVars, bridgeVars
  <2>2. QED
    BY <2>1 DEF SlotInv, IsAcked
<1>4. ASSUME HandleSpeech PROVE SlotInv'
  <2>1. UNCHANGED <<render, asked, pending, made, turn, closing>>
    BY <1>4 DEF HandleSpeech, Handles
  <2>2. IsAcked' <=> IsAcked
    <3>1. /\ \A i \in DOMAIN controls' :
                i + 1 \in DOMAIN controls /\ controls'[i] = controls[i + 1]
          /\ \A i \in DOMAIN controls :
                i # 1 => i - 1 \in DOMAIN controls' /\ controls'[i - 1] = controls[i]
          /\ controls[1].kind # "ack"
      BY <1>4, HandledEvent DEF HandleSpeech
    <3>2. QED
      BY <3>1 DEF IsAcked
  <2>3. QED
    BY <2>1, <2>2 DEF SlotInv
<1>5. ASSUME HandleAck PROVE SlotInv'
  <2>1. UNCHANGED <<asked, pending, made, turn, closing>>
    BY <1>5 DEF HandleAck, Handles
  <2>2. /\ \A i \in DOMAIN controls' :
              /\ i \in Nat \ {0} /\ i + 1 \in DOMAIN controls
              /\ controls'[i] = controls[i + 1]
        /\ 1 \in DOMAIN controls /\ controls[1].kind = "ack"
    BY <1>5, HandledEvent DEF HandleAck
  <2>3. IsAcked /\ ~IsAcked'
    BY <2>2 DEF IsAcked, OrderInv, AckOnce
  <2>4. render.gen # 0 /\ ~render.acked /\ asked = 0 /\ render.turn = None
    BY <2>3 DEF SlotInv
  <2>5. render'.gen = render.gen /\ render'.acked /\ render'.turn = None
    BY <1>5, <2>4, RenderFields DEF HandleAck
  <2>6. ~closing
    BY <2>4 DEF SlotInv
  <2>7. QED
    BY <2>1, <2>3, <2>4, <2>5, <2>6 DEF SlotInv
<1>6. ASSUME HandleCreated PROVE SlotInv'
  <2>1. UNCHANGED <<asked, pending, made, turn, closing>>
    BY <1>6 DEF HandleCreated, Handles
  <2>2. IsAcked' <=> IsAcked
    <3>1. /\ \A i \in DOMAIN controls' :
                i + 1 \in DOMAIN controls /\ controls'[i] = controls[i + 1]
          /\ \A i \in DOMAIN controls :
                i # 1 => i - 1 \in DOMAIN controls' /\ controls'[i - 1] = controls[i]
          /\ controls[1].kind # "ack"
      BY <1>6, HandledEvent DEF HandleCreated
    <3>2. QED
      BY <3>1 DEF IsAcked
  <2>3. CASE ~Binds
    BY <1>6, <2>1, <2>2, <2>3 DEF HandleCreated, SlotInv
  <2>4. CASE Binds
    <3>1. /\ 1 \in DOMAIN controls /\ controls[1] = Head(controls)
          /\ controls[1].kind = "created" /\ \A i \in DOMAIN controls : i \in Nat \ {0}
      BY <1>6, HandledEvent DEF HandleCreated
    <3>2. render.gen # 0 /\ render.acked /\ render.turn = None
      BY <2>4 DEF Binds
    <3>3. AfterAck(1) /\ \A j \in DOMAIN controls : AfterAck(j) => 1 <= j
      BY <3>1, <3>2 DEF AfterAck
    <3>4. made[controls[1].turn] = render.gen /\ pending = 0
      BY <3>1, <3>2, <3>3 DEF OrderInv, Ordered
    <3>5. controls[1].turn \in Turns /\ turn[controls[1].turn] # "unborn"
      BY <3>1 DEF TurnInv
    <3>6. /\ render'.gen = render.gen /\ render'.acked = render.acked
          /\ render'.turn = controls[1].turn
      <4>1. render' = [render EXCEPT !.turn = controls[1].turn]
        BY <1>6, <2>4, <3>1 DEF HandleCreated
      <4>2. QED
        BY <4>1, RenderFields
    <3>7. asked = 0 /\ ~IsAcked /\ ~closing
      BY <3>2 DEF SlotInv
    <3>8. QED
      BY <2>1, <2>2, <3>2, <3>4, <3>5, <3>6, <3>7 DEF SlotInv
  <2>5. QED
    BY <2>3, <2>4
<1>7. ASSUME HandleDone PROVE SlotInv'
  <2>1. /\ UNCHANGED <<render, asked, pending, made, turn>>
        /\ \/ UNCHANGED closing
           \/ closing' = TRUE /\ render.turn = Head(controls).turn
    BY <1>7 DEF HandleDone, Handles, TerminalMatches
  <2>2. IsAcked' <=> IsAcked
    <3>1. /\ \A i \in DOMAIN controls' :
                i + 1 \in DOMAIN controls /\ controls'[i] = controls[i + 1]
          /\ \A i \in DOMAIN controls :
                i # 1 => i - 1 \in DOMAIN controls' /\ controls'[i - 1] = controls[i]
          /\ controls[1].kind # "ack"
      BY <1>7, HandledEvent DEF HandleDone
    <3>2. QED
      BY <3>1 DEF IsAcked
  <2>3. Head(controls).turn \in Turns /\ turn[Head(controls).turn] = "over"
    BY <1>7, HandledEvent DEF HandleDone, TurnInv
  <2>4. QED
    BY <2>1, <2>2, <2>3, NoneAssumption DEF SlotInv
<1>8. ASSUME RenderOver PROVE SlotInv'
  <2>1. /\ closing /\ ~closing' /\ render' = Free
        /\ UNCHANGED <<asked, pending, controls, made, turn>>
    BY <1>8 DEF RenderOver
  <2>2. /\ render.turn # None /\ turn[render.turn] = "over" /\ render.acked
        /\ made[render.turn] = render.gen /\ render.turn \in Turns
    BY <2>1, RenderFields DEF SlotInv
  <2>3. asked = 0 /\ pending = 0 /\ ~IsAcked
    BY <2>2 DEF SlotInv
  <2>4. \A t \in Turns : ~ (turn[t] = "speaking" /\ made[t] # 0)
    <3>1. SUFFICES ASSUME NEW t \in Turns, turn[t] = "speaking", made[t] # 0 PROVE FALSE
      OBVIOUS
    <3>2. made[t] = made[render.turn]
      BY <2>2, <3>1 DEF SlotInv
    <3>3. t = render.turn
      BY <2>2, <3>1, <3>2 DEF OnceInv
    <3>4. QED
      BY <2>2, <3>1, <3>3
  <2>5. ~IsAcked'
    BY <2>1, <2>3 DEF IsAcked
  <2>6. QED
    BY <2>1, <2>3, <2>4, <2>5, RenderFields DEF SlotInv
<1>9. ASSUME AnswerTaken PROVE SlotInv'
  <2>1. /\ at["exec"] \in {"ending", "stopping"}
        /\ render' = [gen |-> answering, acked |-> FALSE, turn |-> None] /\ asked' = answering
        /\ UNCHANGED <<pending, controls, made, turn, closing>>
    BY <1>9 DEF AnswerTaken
  <2>2. render.gen = 0 /\ answering # 0
    BY <2>1 DEF FrameInv, OnceInv, Submitting
  <2>3. pending = 0 /\ ~IsAcked /\ ~closing
    BY <2>2, RenderFields DEF SlotInv
  <2>4. \A t \in Turns : ~ (turn[t] = "speaking" /\ made[t] # 0)
    BY <2>2 DEF SlotInv
  <2>5. ~IsAcked'
    BY <2>1, <2>3 DEF IsAcked
  <2>6. QED
    BY <2>1, <2>2, <2>3, <2>4, <2>5 DEF SlotInv
<1>10. ASSUME Acknowledges PROVE SlotInv'
  <2>1. /\ UNCHANGED <<render, made, turn, closing>> /\ Event("ack", None)
        /\ asked # 0 /\ asked' = 0 /\ pending' = asked
    BY <1>10 DEF Acknowledges, bridgeVars, slotVars, taskVars
  <2>2. IsAcked' <=> TRUE
    BY <2>1, NewOrder
  <2>3. QED
    BY <2>1, <2>2 DEF SlotInv
<1>11. ASSUME UserSpeaks PROVE SlotInv'
  <2>1. /\ UNCHANGED <<render, asked, pending, made, turn, closing>> /\ Event("speech", None)
    BY <1>11 DEF UserSpeaks, bridgeVars, slotVars, taskVars
  <2>2. IsAcked' <=> IsAcked
    BY <2>1, NewOrder
  <2>3. QED
    BY <2>1, <2>2 DEF SlotInv
<1>12. ASSUME NEW t \in Turns, TurnBegins(t) PROVE SlotInv'
  <2>1. /\ UNCHANGED <<render, asked, closing>> /\ Event("created", t)
        /\ turn[t] = "unborn" /\ turn' = [turn EXCEPT ![t] = "speaking"]
        /\ made' = [made EXCEPT ![t] = pending] /\ pending' = 0
    BY <1>12 DEF TurnBegins, bridgeVars, slotVars, taskVars
  <2>2. IsAcked' <=> IsAcked
    BY <2>1, NewOrder
  <2>3. /\ turn'[t] = "speaking" /\ made'[t] = pending
        /\ \A o \in Turns \ {t} : turn'[o] = turn[o] /\ made'[o] = made[o]
    BY <2>1, <1>types
  <2>4. render.turn \in Turns \cup {None} /\ render.turn # t
    BY <2>1, RenderFields DEF TurnInv
  <2>5. \A o \in Turns : turn'[o] = "speaking" /\ made'[o] # 0 => made'[o] = render.gen
    BY <2>3 DEF SlotInv
  <2>6. render.turn # None => /\ made'[render.turn] = made[render.turn]
                              /\ turn'[render.turn] = turn[render.turn]
    BY <2>3, <2>4
  <2>7. QED
    BY <2>1, <2>2, <2>5, <2>6 DEF SlotInv
<1>13. ASSUME NEW t \in Turns, TurnEnds(t) PROVE SlotInv'
  <2>1. /\ UNCHANGED <<render, asked, pending, made, closing>> /\ Event("done", t)
        /\ turn' = [turn EXCEPT ![t] = "over"]
    BY <1>13 DEF TurnEnds, bridgeVars, slotVars, taskVars
  <2>2. IsAcked' <=> IsAcked
    BY <2>1, NewOrder
  <2>3. turn'[t] = "over" /\ \A o \in Turns \ {t} : turn'[o] = turn[o]
    BY <2>1, <1>types
  <2>4. render.turn \in Turns \cup {None}
    BY RenderFields
  <2>5. QED
    BY <2>1, <2>2, <2>3, <2>4 DEF SlotInv
<1>14. CASE UNCHANGED vars
  BY <1>14
     DEF vars, slotVars, outputVars, taskVars, providerVars, deviceVars, SlotInv, IsAcked
<1> QED
  BY <1>1, <1>2, <1>3, <1>4, <1>5, <1>6, <1>7, <1>8, <1>9, <1>10, <1>11, <1>12, <1>13, <1>14,
     SlotSteps

(* The turn made for a render is the first after its acknowledgement.      *)
LEMMA OrderStep ==
    TypeOK /\ SlotInv /\ TurnInv /\ OnceInv /\ FrameInv /\ OrderInv /\ [Next]_vars =>
       OrderInv'
<1> SUFFICES ASSUME TypeOK, SlotInv, TurnInv, OnceInv, FrameInv, OrderInv, [Next]_vars
             PROVE  OrderInv'
  OBVIOUS
<1>types. made \in [Turns -> Generations]
  BY DEF TypeOK
<1>1. ASSUME ClientBegins \/ AnswerReady \/ SpeechTold \/ Looks \/ LooksAgain \/ Wakes \/
                SlotFreed \/ SlotKept \/ QuietTail \/ Submitted \/ Receive \/ Deliver \/
                EpochOpens \/ EpochOpened \/ Write \/ ArmExpires \/ Arrives \/ QuietPasses
      PROVE  OrderInv'
  <2>1. UNCHANGED <<controls, render, pending, asked, made>>
    BY <1>1
       DEF ClientBegins, AnswerReady, SpeechTold, Looks, LooksAgain, Wakes, SlotFreed,
           SlotKept, QuietTail, Submitted, Receive, Deliver, EpochOpens, EpochOpened, Write,
           ArmExpires, Arrives, QuietPasses, slotVars, outputVars, taskVars, providerVars,
           deviceVars, bridgeVars
  <2>2. QED
    BY <2>1 DEF OrderInv, AckOnce, Ordered, AfterAck
<1>2. ASSUME NEW task \in Tasks, OutputMoves(task) \/ SendFails(task)
      PROVE  OrderInv'
  <2>1. UNCHANGED <<controls, render, pending, asked, made>>
    BY <1>2
       DEF OutputMoves, SendFails, slotVars, outputVars, taskVars, providerVars, deviceVars,
           bridgeVars
  <2>2. QED
    BY <2>1 DEF OrderInv, AckOnce, Ordered, AfterAck
<1>3. ASSUME NEW t \in Turns, Speaks(t)
      PROVE  OrderInv'
  <2>1. UNCHANGED <<controls, render, pending, asked, made>>
    BY <1>3 DEF Speaks, slotVars, outputVars, taskVars, providerVars, deviceVars, bridgeVars
  <2>2. QED
    BY <2>1 DEF OrderInv, AckOnce, Ordered, AfterAck
<1>4. ASSUME HandleSpeech PROVE OrderInv'
  <2>1. /\ UNCHANGED <<asked, pending, made>> /\ Handles("speech")
        /\ render' = render
    BY <1>4 DEF HandleSpeech, Handles
  <2>2. render'.gen = render.gen /\ render'.turn = render.turn /\ (render'.acked <=> render.acked)
    BY <2>1
  <2>3. /\ \A i \in DOMAIN controls' :
              /\ i \in Nat \ {0} /\ i + 1 \in DOMAIN controls
              /\ controls'[i] = controls[i + 1]
        /\ \A i \in DOMAIN controls :
              i \in Nat \ {0} /\ (i # 1 => i - 1 \in DOMAIN controls')
    BY <2>1, HandledEvent
  <2>4. /\ \A i \in DOMAIN controls' : AfterAck(i)' <=> AfterAck(i + 1)
        /\ \A i \in DOMAIN controls : i # 1 => (AfterAck(i) <=> AfterAck(i - 1)')
        /\ ~AfterAck(1)
    BY <2>1, <2>2, HandledOrder
  <2>5. AckOnce'
    <3>1. \A i, j \in DOMAIN controls' : i + 1 = j + 1 => i = j
      BY <2>3
    <3>2. QED
      BY <2>3, <3>1 DEF OrderInv, AckOnce
  <2>6. ASSUME Ordered PROVE Ordered'
    <3>1. pending' # 0 => \A i \in DOMAIN controls' : ~AfterAck(i)'
      BY <2>1, <2>3, <2>4, <2>6 DEF Ordered
    <3>2. asked' = 0 /\ pending' = 0 => \E i \in DOMAIN controls' : AfterAck(i)'
      <4>1. SUFFICES ASSUME NEW i \in DOMAIN controls, AfterAck(i)
                     PROVE  \E k \in DOMAIN controls' : AfterAck(k)'
        BY <2>1, <2>6 DEF Ordered
      <4>2. i # 1
        BY <2>4, <4>1
      <4>3. QED
        BY <2>3, <2>4, <4>1, <4>2
    <3>3. ASSUME NEW i \in DOMAIN controls', AfterAck(i)',
                 \A j \in DOMAIN controls' : AfterAck(j)' => i <= j
          PROVE  made'[controls'[i].turn] = render'.gen
      <4>1. i + 1 \in DOMAIN controls /\ AfterAck(i + 1) /\ i \in Nat
        BY <2>3, <2>4, <3>3
      <4>2. ASSUME NEW j \in DOMAIN controls, AfterAck(j) PROVE i + 1 <= j
        <5>1. j # 1 /\ j \in Nat \ {0}
          BY <2>3, <2>4, <4>2
        <5>2. i <= j - 1
          BY <2>3, <2>4, <3>3, <4>2, <5>1
        <5>3. QED
          BY <4>1, <5>1, <5>2
      <4>3. made[controls[i + 1].turn] = render.gen
        BY <2>6, <4>1, <4>2 DEF Ordered
      <4>4. QED
        BY <2>1, <2>2, <2>3, <4>3
    <3>4. QED
      BY <3>1, <3>2, <3>3 DEF Ordered
  <2>7. QED
    BY <2>2, <2>5, <2>6 DEF OrderInv
<1>5. ASSUME HandleAck PROVE OrderInv'
  <2>1. /\ UNCHANGED <<asked, pending, made>> /\ Handles("ack")
        /\ render' \in {render, [render EXCEPT !.acked = TRUE]}
    BY <1>5 DEF HandleAck, Handles
  <2>2. /\ render'.gen = render.gen /\ render'.turn = render.turn
        /\ render'.acked <=> render.acked \/ "ack" = "ack"
    <3>1. 1 \in DOMAIN controls /\ controls[1].kind = "ack"
      BY <2>1, HandledEvent
    <3>2. render.gen # 0
      BY <3>1 DEF SlotInv, IsAcked
    <3>3. render' = [render EXCEPT !.acked = TRUE]
      BY <1>5, <3>2 DEF HandleAck
    <3>4. QED
      BY <3>3, RenderFields
  <2>3. /\ \A i \in DOMAIN controls' :
              /\ i \in Nat \ {0} /\ i + 1 \in DOMAIN controls
              /\ controls'[i] = controls[i + 1]
        /\ \A i \in DOMAIN controls :
              i \in Nat \ {0} /\ (i # 1 => i - 1 \in DOMAIN controls')
    BY <2>1, HandledEvent
  <2>4. /\ \A i \in DOMAIN controls' : AfterAck(i)' <=> AfterAck(i + 1)
        /\ \A i \in DOMAIN controls : i # 1 => (AfterAck(i) <=> AfterAck(i - 1)')
        /\ ~AfterAck(1)
    BY <2>1, <2>2, HandledOrder
  <2>5. AckOnce'
    <3>1. \A i, j \in DOMAIN controls' : i + 1 = j + 1 => i = j
      BY <2>3
    <3>2. QED
      BY <2>3, <3>1 DEF OrderInv, AckOnce
  <2>6. ASSUME Ordered PROVE Ordered'
    <3>1. pending' # 0 => \A i \in DOMAIN controls' : ~AfterAck(i)'
      BY <2>1, <2>3, <2>4, <2>6 DEF Ordered
    <3>2. asked' = 0 /\ pending' = 0 => \E i \in DOMAIN controls' : AfterAck(i)'
      <4>1. SUFFICES ASSUME NEW i \in DOMAIN controls, AfterAck(i)
                     PROVE  \E k \in DOMAIN controls' : AfterAck(k)'
        BY <2>1, <2>6 DEF Ordered
      <4>2. i # 1
        BY <2>4, <4>1
      <4>3. QED
        BY <2>3, <2>4, <4>1, <4>2
    <3>3. ASSUME NEW i \in DOMAIN controls', AfterAck(i)',
                 \A j \in DOMAIN controls' : AfterAck(j)' => i <= j
          PROVE  made'[controls'[i].turn] = render'.gen
      <4>1. i + 1 \in DOMAIN controls /\ AfterAck(i + 1) /\ i \in Nat
        BY <2>3, <2>4, <3>3
      <4>2. ASSUME NEW j \in DOMAIN controls, AfterAck(j) PROVE i + 1 <= j
        <5>1. j # 1 /\ j \in Nat \ {0}
          BY <2>3, <2>4, <4>2
        <5>2. i <= j - 1
          BY <2>3, <2>4, <3>3, <4>2, <5>1
        <5>3. QED
          BY <4>1, <5>1, <5>2
      <4>3. made[controls[i + 1].turn] = render.gen
        BY <2>6, <4>1, <4>2 DEF Ordered
      <4>4. QED
        BY <2>1, <2>2, <2>3, <4>3
    <3>4. QED
      BY <3>1, <3>2, <3>3 DEF Ordered
  <2>7. QED
    BY <2>2, <2>5, <2>6 DEF OrderInv
<1>6. ASSUME HandleCreated PROVE OrderInv'
  <2>1. UNCHANGED <<asked, pending, made>> /\ Handles("created")
    BY <1>6 DEF HandleCreated, Handles
  <2>2. render'.gen = render.gen /\ (render'.acked <=> render.acked)
    <3>1. render' \in {render, [render EXCEPT !.turn = Head(controls).turn]}
      BY <1>6 DEF HandleCreated, Handles
    <3>2. QED
      BY ZenonT(40), <3>1, RenderFields
  <2>3. /\ \A i \in DOMAIN controls' :
              /\ i \in Nat \ {0} /\ i + 1 \in DOMAIN controls
              /\ controls'[i] = controls[i + 1]
        /\ \A i \in DOMAIN controls :
              i \in Nat \ {0} /\ (i # 1 => i - 1 \in DOMAIN controls')
    BY <2>1, HandledEvent
  <2>4. /\ \A i \in DOMAIN controls' : AfterAck(i)' <=> AfterAck(i + 1)
        /\ \A i \in DOMAIN controls : i # 1 => (AfterAck(i) <=> AfterAck(i - 1)')
        /\ AfterAck(1) => render.acked
    BY <2>1, <2>2, HandledOrder
  <2>5. AckOnce'
    <3>1. \A i, j \in DOMAIN controls' : i + 1 = j + 1 => i = j
      BY <2>3
    <3>2. QED
      BY <2>3, <3>1 DEF OrderInv, AckOnce
  <2>6. ASSUME Ordered, ~AfterAck(1) PROVE Ordered'
    <3>1. pending' # 0 => \A i \in DOMAIN controls' : ~AfterAck(i)'
      BY <2>1, <2>3, <2>4, <2>6 DEF Ordered
    <3>2. asked' = 0 /\ pending' = 0 => \E i \in DOMAIN controls' : AfterAck(i)'
      <4>1. SUFFICES ASSUME NEW i \in DOMAIN controls, AfterAck(i)
                     PROVE  \E k \in DOMAIN controls' : AfterAck(k)'
        BY <2>1, <2>6 DEF Ordered
      <4>2. i # 1
        BY <2>6, <4>1
      <4>3. QED
        BY <2>3, <2>4, <4>1, <4>2
    <3>3. ASSUME NEW i \in DOMAIN controls', AfterAck(i)',
                 \A j \in DOMAIN controls' : AfterAck(j)' => i <= j
          PROVE  made'[controls'[i].turn] = render'.gen
      <4>1. i + 1 \in DOMAIN controls /\ AfterAck(i + 1) /\ i \in Nat
        BY <2>3, <2>4, <3>3
      <4>2. ASSUME NEW j \in DOMAIN controls, AfterAck(j) PROVE i + 1 <= j
        <5>1. j # 1 /\ j \in Nat \ {0}
          BY <2>3, <2>6, <4>2
        <5>2. i <= j - 1
          BY <2>3, <2>4, <3>3, <4>2, <5>1
        <5>3. QED
          BY <4>1, <5>1, <5>2
      <4>3. made[controls[i + 1].turn] = render.gen
        BY <2>6, <4>1, <4>2 DEF Ordered
      <4>4. QED
        BY <2>1, <2>2, <2>3, <4>3
    <3>4. QED
      BY <3>1, <3>2, <3>3 DEF Ordered
  <2>7. CASE Binds
    <3>1. render' = [render EXCEPT !.turn = controls[1].turn]
      BY <1>6, <2>7, HandledEvent DEF HandleCreated
    <3>2. controls[1].turn \in Turns
      BY <1>6, HandledEvent DEF HandleCreated, TurnInv
    <3>3. render'.turn # None
      BY <3>1, <3>2, RenderFields, NoneAssumption
    <3>4. QED
      BY <2>5, <3>3 DEF OrderInv
  <2>8. CASE ~Binds
    <3>1. UNCHANGED render
      BY <1>6, <2>8 DEF HandleCreated
    <3>2. render.gen # 0 /\ render.turn = None => ~AfterAck(1)
      BY <2>4, <2>8 DEF Binds
    <3>3. QED
      BY <2>5, <2>6, <3>1, <3>2 DEF OrderInv
  <2>9. QED
    BY <2>7, <2>8
<1>7. ASSUME HandleDone PROVE OrderInv'
  <2>1. /\ UNCHANGED <<asked, pending, made>> /\ Handles("done")
        /\ render' = render
    BY <1>7 DEF HandleDone, Handles
  <2>2. render'.gen = render.gen /\ render'.turn = render.turn /\ (render'.acked <=> render.acked)
    BY <2>1
  <2>3. /\ \A i \in DOMAIN controls' :
              /\ i \in Nat \ {0} /\ i + 1 \in DOMAIN controls
              /\ controls'[i] = controls[i + 1]
        /\ \A i \in DOMAIN controls :
              i \in Nat \ {0} /\ (i # 1 => i - 1 \in DOMAIN controls')
    BY <2>1, HandledEvent
  <2>4. /\ \A i \in DOMAIN controls' : AfterAck(i)' <=> AfterAck(i + 1)
        /\ \A i \in DOMAIN controls : i # 1 => (AfterAck(i) <=> AfterAck(i - 1)')
        /\ ~AfterAck(1)
    BY <2>1, <2>2, HandledOrder
  <2>5. AckOnce'
    <3>1. \A i, j \in DOMAIN controls' : i + 1 = j + 1 => i = j
      BY <2>3
    <3>2. QED
      BY <2>3, <3>1 DEF OrderInv, AckOnce
  <2>6. ASSUME Ordered PROVE Ordered'
    <3>1. pending' # 0 => \A i \in DOMAIN controls' : ~AfterAck(i)'
      BY <2>1, <2>3, <2>4, <2>6 DEF Ordered
    <3>2. asked' = 0 /\ pending' = 0 => \E i \in DOMAIN controls' : AfterAck(i)'
      <4>1. SUFFICES ASSUME NEW i \in DOMAIN controls, AfterAck(i)
                     PROVE  \E k \in DOMAIN controls' : AfterAck(k)'
        BY <2>1, <2>6 DEF Ordered
      <4>2. i # 1
        BY <2>4, <4>1
      <4>3. QED
        BY <2>3, <2>4, <4>1, <4>2
    <3>3. ASSUME NEW i \in DOMAIN controls', AfterAck(i)',
                 \A j \in DOMAIN controls' : AfterAck(j)' => i <= j
          PROVE  made'[controls'[i].turn] = render'.gen
      <4>1. i + 1 \in DOMAIN controls /\ AfterAck(i + 1) /\ i \in Nat
        BY <2>3, <2>4, <3>3
      <4>2. ASSUME NEW j \in DOMAIN controls, AfterAck(j) PROVE i + 1 <= j
        <5>1. j # 1 /\ j \in Nat \ {0}
          BY <2>3, <2>4, <4>2
        <5>2. i <= j - 1
          BY <2>3, <2>4, <3>3, <4>2, <5>1
        <5>3. QED
          BY <4>1, <5>1, <5>2
      <4>3. made[controls[i + 1].turn] = render.gen
        BY <2>6, <4>1, <4>2 DEF Ordered
      <4>4. QED
        BY <2>1, <2>2, <2>3, <4>3
    <3>4. QED
      BY <3>1, <3>2, <3>3 DEF Ordered
  <2>7. QED
    BY <2>2, <2>5, <2>6 DEF OrderInv
<1>8. ASSUME RenderOver PROVE OrderInv'
  <2>1. render' = Free /\ UNCHANGED controls
    BY <1>8 DEF RenderOver
  <2>2. QED
    BY <2>1, RenderFields DEF OrderInv, AckOnce
<1>9. ASSUME AnswerTaken PROVE OrderInv'
  <2>1. /\ at["exec"] \in {"ending", "stopping"}
        /\ render' = [gen |-> answering, acked |-> FALSE, turn |-> None] /\ asked' = answering
        /\ UNCHANGED <<pending, controls, made>>
    BY <1>9 DEF AnswerTaken
  <2>2. render.gen = 0 /\ answering # 0
    BY <2>1 DEF FrameInv, OnceInv, Submitting
  <2>3. ~IsAcked /\ pending = 0
    BY <2>2 DEF SlotInv
  <2>4. \A i \in DOMAIN controls : ~AfterAck(i)'
    BY <2>1, <2>3 DEF AfterAck, IsAcked
  <2>5. Ordered'
    BY <2>1, <2>2, <2>3, <2>4 DEF Ordered
  <2>6. AckOnce'
    BY <2>1 DEF OrderInv, AckOnce
  <2>7. QED
    BY <2>5, <2>6 DEF OrderInv
<1>10. ASSUME Acknowledges PROVE OrderInv'
  <2>1. /\ UNCHANGED <<render, made>> /\ Event("ack", None)
        /\ asked # 0 /\ pending' = asked
    BY <1>10 DEF Acknowledges, bridgeVars, slotVars
  <2>2. PICK n \in Nat \ {0} :
           /\ n \notin DOMAIN controls /\ DOMAIN controls' = DOMAIN controls \cup {n}
           /\ controls'[n] = [kind |-> "ack", turn |-> None]
           /\ \A i \in DOMAIN controls : i \in Nat \ {0} /\ i < n /\ controls'[i] = controls[i]
           /\ \A i \in DOMAIN controls : AfterAck(i)' <=> AfterAck(i)
           /\ AfterAck(n)' <=> FALSE
    BY <2>1, NewOrder
  <2>3. AckOnce'
    BY <2>2, <2>1 DEF OrderInv, AckOnce, SlotInv, IsAcked
  <2>4. ~render.acked /\ ~IsAcked
    BY <2>1 DEF SlotInv
  <2>5. \A i \in DOMAIN controls' : ~AfterAck(i)'
    BY <2>2, <2>4 DEF AfterAck, IsAcked
  <2>6. Ordered'
    BY <2>1, <2>5 DEF Ordered
  <2>7. QED
    BY <2>3, <2>6 DEF OrderInv
<1>11. ASSUME UserSpeaks PROVE OrderInv'
  <2>1. /\ UNCHANGED <<render, asked, pending, made>> /\ Event("speech", None)
    BY <1>11 DEF UserSpeaks, bridgeVars, slotVars
  <2>2. PICK n \in Nat \ {0} :
           /\ n \notin DOMAIN controls /\ DOMAIN controls' = DOMAIN controls \cup {n}
           /\ controls'[n] = [kind |-> "speech", turn |-> None]
           /\ \A i \in DOMAIN controls : i \in Nat \ {0} /\ i < n /\ controls'[i] = controls[i]
           /\ \A i \in DOMAIN controls : AfterAck(i)' <=> AfterAck(i)
           /\ AfterAck(n)' <=> FALSE
    BY <2>1, NewOrder
  <2>3. AckOnce'
    BY <2>2 DEF OrderInv, AckOnce
  <2>4. Ordered => Ordered'
    BY <2>1, <2>2 DEF Ordered
  <2>5. QED
    BY <2>1, <2>3, <2>4 DEF OrderInv
<1>12. ASSUME NEW t \in Turns, TurnBegins(t) PROVE OrderInv'
  <2>1. /\ UNCHANGED <<render, asked>> /\ Event("created", t)
        /\ turn[t] = "unborn" /\ made' = [made EXCEPT ![t] = pending] /\ pending' = 0
    BY <1>12 DEF TurnBegins, bridgeVars, slotVars
  <2>2. PICK n \in Nat \ {0} :
           /\ n \notin DOMAIN controls /\ DOMAIN controls' = DOMAIN controls \cup {n}
           /\ controls'[n] = [kind |-> "created", turn |-> t]
           /\ \A i \in DOMAIN controls : i \in Nat \ {0} /\ i < n /\ controls'[i] = controls[i]
           /\ \A i \in DOMAIN controls : AfterAck(i)' <=> AfterAck(i)
           /\ AfterAck(n)' <=> render.acked \/ IsAcked
    BY <2>1, NewOrder
  <2>3. AckOnce'
    BY <2>2 DEF OrderInv, AckOnce
  <2>4. /\ made'[t] = pending
        /\ \A i \in DOMAIN controls : AfterAck(i) =>
              made'[controls[i].turn] = made[controls[i].turn]
    <3>1. \A i \in DOMAIN controls : AfterAck(i) =>
             controls[i].turn \in Turns /\ controls[i].turn # t
      BY <2>1 DEF TurnInv, AfterAck
    <3>2. QED
      BY <2>1, <3>1, <1>types
  <2>5. ASSUME Ordered, render.gen # 0, render.turn = None PROVE Ordered'
    <3>1. CASE pending # 0
      <4>1. /\ \A i \in DOMAIN controls : ~AfterAck(i)'
            /\ AfterAck(n)' /\ made'[t] = render.gen
        BY <2>2, <2>4, <2>5, <3>1 DEF Ordered, SlotInv
      <4>2. controls'[n].turn = t
        BY <2>2
      <4>3. QED
        BY <2>1, <2>2, <4>1, <4>2 DEF Ordered
    <3>2. CASE pending = 0 /\ asked = 0
      <4>1. PICK k \in DOMAIN controls : AfterAck(k)
        BY <2>5, <3>2 DEF Ordered
      <4>2. AfterAck(k)' /\ k < n /\ k \in Nat
        BY <2>2, <4>1
      <4>3. ASSUME NEW i \in DOMAIN controls', AfterAck(i)',
                   \A j \in DOMAIN controls' : AfterAck(j)' => i <= j
            PROVE  made'[controls'[i].turn] = render.gen
        <5>1. i \in DOMAIN controls /\ AfterAck(i)
          BY <2>2, <4>2, <4>3
        <5>2. \A j \in DOMAIN controls : AfterAck(j) => i <= j
          BY <2>2, <4>3
        <5>3. made[controls[i].turn] = render.gen
          BY <2>5, <5>1, <5>2 DEF Ordered
        <5>4. QED
          BY <2>2, <2>4, <5>1, <5>3
      <4>4. QED
        BY <2>1, <2>2, <4>2, <4>3 DEF Ordered
    <3>3. CASE asked # 0
      <4>1. ~render.acked /\ ~IsAcked
        BY <3>3 DEF SlotInv
      <4>2. \A i \in DOMAIN controls' : ~AfterAck(i)'
        BY <2>2, <4>1 DEF AfterAck, IsAcked
      <4>3. QED
        BY <2>1, <3>3, <4>2 DEF Ordered
    <3>4. QED
      BY <3>1, <3>2, <3>3
  <2>6. QED
    BY <2>1, <2>3, <2>5 DEF OrderInv
<1>13. ASSUME NEW t \in Turns, TurnEnds(t) PROVE OrderInv'
  <2>1. /\ UNCHANGED <<render, asked, pending, made>> /\ Event("done", t)
    BY <1>13 DEF TurnEnds, bridgeVars, slotVars
  <2>2. PICK n \in Nat \ {0} :
           /\ n \notin DOMAIN controls /\ DOMAIN controls' = DOMAIN controls \cup {n}
           /\ controls'[n] = [kind |-> "done", turn |-> t]
           /\ \A i \in DOMAIN controls : i \in Nat \ {0} /\ i < n /\ controls'[i] = controls[i]
           /\ \A i \in DOMAIN controls : AfterAck(i)' <=> AfterAck(i)
           /\ AfterAck(n)' <=> FALSE
    BY <2>1, NewOrder
  <2>3. AckOnce'
    BY <2>2 DEF OrderInv, AckOnce
  <2>4. Ordered => Ordered'
    BY <2>1, <2>2 DEF Ordered
  <2>5. QED
    BY <2>1, <2>3, <2>4 DEF OrderInv
<1>14. CASE UNCHANGED vars
  BY <1>14
     DEF vars, slotVars, outputVars, taskVars, providerVars, deviceVars, OrderInv, AckOnce,
         Ordered, AfterAck
<1> QED
  BY <1>1, <1>2, <1>3, <1>4, <1>5, <1>6, <1>7, <1>8, <1>9, <1>10, <1>11, <1>12, <1>13, <1>14,
     SlotSteps

(* The frames that are on their way.                                       *)
LEMMA FrameStep ==
    TypeOK /\ SlotInv /\ OnceInv /\ TurnInv /\ LockInv /\ TimerInv /\ FrameInv /\ [Next]_vars
       => FrameInv'
<1> SUFFICES ASSUME TypeOK, SlotInv, OnceInv, TurnInv, LockInv, TimerInv, FrameInv,
                    [Next]_vars
             PROVE  FrameInv'
  OBVIOUS
<1>types. made \in [Turns -> Generations] /\ at \in [Tasks -> {at[o] : o \in Tasks}]
  BY DEF TypeOK
<1>1. ASSUME ClientBegins \/ HandleSpeech \/ SpeechTold \/ HandleDone \/ Looks \/ LooksAgain
                \/ Wakes \/ Deliver \/ EpochOpens \/ EpochOpened \/ Write
      PROVE  FrameInv'
  <2>1. UNCHANGED <<render, air, media, made, quiet>>
    BY <1>1
       DEF ClientBegins, HandleSpeech, SpeechTold, HandleDone, Looks, LooksAgain, Wakes,
           Deliver, EpochOpens, EpochOpened, Write, Handles, slotVars, outputVars, taskVars,
           providerVars, deviceVars, bridgeVars
  <2>2. at'["exec"] = at["exec"]
    BY <1>1, Elsewhere
  <2>3. QED
    BY <2>1, <2>2 DEF FrameInv
<1>2. ASSUME SlotKept \/ ArmExpires \/ Acknowledges \/ UserSpeaks
      PROVE  FrameInv'
  <2>1. UNCHANGED <<render, air, media, made, quiet, at["exec"]>>
    BY <1>2
       DEF SlotKept, ArmExpires, Acknowledges, UserSpeaks, slotVars, outputVars, taskVars,
           providerVars, deviceVars, bridgeVars
  <2>2. QED
    BY <2>1 DEF FrameInv
<1>3. ASSUME NEW task \in Tasks, SendFails(task)
      PROVE  FrameInv'
  <2>1. UNCHANGED <<render, air, media, made, quiet, at["exec"]>>
    BY <1>3
       DEF SendFails, slotVars, outputVars, taskVars, providerVars, deviceVars, bridgeVars
  <2>2. QED
    BY <2>1 DEF FrameInv
<1>4. ASSUME NEW t \in Turns, TurnEnds(t)
      PROVE  FrameInv'
  <2>1. UNCHANGED <<render, air, media, made, quiet, at["exec"]>>
    BY <1>4 DEF TurnEnds, slotVars, outputVars, taskVars, providerVars, deviceVars, bridgeVars
  <2>2. QED
    BY <2>1 DEF FrameInv
<1>5. ASSUME AnswerReady PROVE FrameInv'
  <2>1. /\ UNCHANGED <<render, air, media, made, quiet>>
        /\ at' = [at EXCEPT !["exec"] = IF render.gen = 0 THEN "quieting" ELSE "retiring"]
    BY <1>5 DEF AnswerReady, Goes, slotVars, providerVars
  <2>2. QED
    BY <2>1, <1>types DEF FrameInv, Tasks
<1>6. ASSUME HandleAck PROVE FrameInv'
  <2>1. /\ UNCHANGED <<air, media, made, quiet, at>>
        /\ render' \in {render, [render EXCEPT !.acked = TRUE]}
    BY <1>6 DEF HandleAck, Handles
  <2>2. render'.gen = render.gen
    BY <2>1, RenderFields
  <2>3. QED
    BY <2>1, <2>2 DEF FrameInv
<1>7. ASSUME HandleCreated PROVE FrameInv'
  <2>1. /\ UNCHANGED <<air, media, made, quiet>>
        /\ render' \in {render, [render EXCEPT !.turn = Head(controls).turn]}
    BY <1>7 DEF HandleCreated, Handles
  <2>2. render'.gen = render.gen
    BY <2>1, RenderFields
  <2>3. at'["exec"] = at["exec"]
    BY <1>7, Elsewhere
  <2>4. QED
    BY <2>1, <2>2, <2>3 DEF FrameInv
<1>8. ASSUME RenderOver PROVE FrameInv'
  <2>1. closing /\ UNCHANGED <<air, made>> /\ render' = Free /\ quiet' = TRUE /\ media' = <<>>
    BY <1>8 DEF RenderOver
  <2>2. render.gen # 0
    BY <2>1, RenderFields DEF SlotInv
  <2>3. at["exec"] \notin {"ending", "stopping"}
    BY <2>2 DEF FrameInv
  <2>4. at'["exec"] = at["exec"]
    BY <1>8, Elsewhere
  <2>5. QED
    BY <2>1, <2>3, <2>4, RenderFields DEF FrameInv
<1>9. ASSUME AnswerTaken PROVE FrameInv'
  <2>1. /\ UNCHANGED <<air, media, made, quiet>> /\ at["exec"] \in {"ending", "stopping"}
        /\ at' = [at EXCEPT !["exec"] = "appending"]
    BY <1>9 DEF AnswerTaken
  <2>2. \A t \in ToSet(air) \cup ToSet(media) : made[t] = 0
    BY <2>1 DEF FrameInv
  <2>3. at'["exec"] = "appending"
    BY <2>1, <1>types DEF Tasks
  <2>4. ~quiet
    BY <2>1 DEF FrameInv
  <2>5. QED
    BY <2>1, <2>2, <2>3 DEF FrameInv
<1>10. ASSUME NEW task \in Tasks, OutputMoves(task) PROVE FrameInv'
  <2>1. UNCHANGED <<render, air, media, made, quiet>>
    BY <1>10 DEF OutputMoves
  <2>2. \/ at'["exec"] = at["exec"]
        \/ at["exec"] \in {"ending", "stopping"} /\ at'["exec"] \in {"idle", "stopping"}
    BY <1>10, <1>types DEF OutputMoves, Tasks
  <2>3. QED
    BY <2>1, <2>2 DEF FrameInv
<1>11. ASSUME SlotFreed PROVE FrameInv'
  <2>1. /\ UNCHANGED <<render, air, media, made, quiet>> /\ render.gen = 0
        /\ at' = [at EXCEPT !["exec"] = "quieting"]
    BY <1>11 DEF SlotFreed, Goes, slotVars, providerVars
  <2>2. QED
    BY <2>1, <1>types DEF FrameInv, Tasks
<1>12. ASSUME QuietTail PROVE FrameInv'
  <2>1. /\ UNCHANGED <<render, air, made, quiet>> /\ media' = <<>> /\ ~quiet
        /\ at["exec"] = "quieting"
    BY <1>12 DEF QuietTail, Drains, slotVars, providerVars
  <2>2. QED
    BY <2>1, Frames DEF FrameInv
<1>13. ASSUME Submitted PROVE FrameInv'
  <2>1. /\ UNCHANGED <<render, air, media, made, quiet>>
        /\ at' = [at EXCEPT !["exec"] = "idle"]
    BY <1>13 DEF Submitted, Goes, slotVars, providerVars
  <2>2. QED
    BY <2>1, <1>types DEF FrameInv, Tasks
<1>14. ASSUME Receive PROVE FrameInv'
  <2>1. UNCHANGED <<render, air, made, quiet>> /\ media # <<>> /\ media' = Tail(media)
    BY <1>14 DEF Receive, slotVars, providerVars
  <2>2. at'["exec"] = at["exec"]
    BY <1>14, Elsewhere
  <2>3. ToSet(media') \subseteq ToSet(media)
    BY <2>1, Frames
  <2>4. QED
    BY <2>1, <2>2, <2>3 DEF FrameInv
<1>15. ASSUME Arrives PROVE FrameInv'
  <2>1. /\ UNCHANGED <<render, at, made, quiet>> /\ air # <<>>
        /\ air' = Tail(air) /\ media' = Append(media, Head(air))
    BY <1>15 DEF Arrives, bridgeVars, slotVars, taskVars
  <2>2. /\ Head(air) \in ToSet(air) /\ ToSet(air') \subseteq ToSet(air)
        /\ ToSet(media') = ToSet(media) \cup {Head(air)}
    BY <2>1, Frames
  <2>3. QED
    BY <2>1, <2>2 DEF FrameInv
<1>16. ASSUME QuietPasses PROVE FrameInv'
  <2>1. /\ UNCHANGED <<render, at, air, media, made>> /\ quiet /\ quiet' = FALSE
        /\ \A i \in DOMAIN air : turn[air[i]] # "over"
    BY <1>16 DEF QuietPasses, taskVars, providerVars
  <2>2. \A o \in ToSet(air) : o \in Turns /\ turn[o] = "speaking"
    <3>1. \A o \in ToSet(air) : o \in Turns /\ turn[o] # "over"
      BY <2>1, Frames
    <3>2. \A o \in Turns : turn[o] \in {"unborn", "speaking", "over"}
      BY DEF TypeOK
    <3>3. QED
      BY <3>1, <3>2 DEF TurnInv
  <2>3. \A o \in ToSet(air) : made[o] \in {0, render.gen}
    BY <2>2 DEF SlotInv
  <2>4. QED
    BY <2>1, <2>3 DEF FrameInv
<1>17. ASSUME NEW t \in Turns, TurnBegins(t) PROVE FrameInv'
  <2>1. /\ UNCHANGED <<render, at, air, media, quiet>> /\ made' = [made EXCEPT ![t] = pending]
        /\ t \notin ToSet(air) \cup ToSet(media)
    BY <1>17 DEF TurnBegins, bridgeVars, slotVars, taskVars, TurnInv
  <2>2. \A o \in ToSet(air) \cup ToSet(media) : made'[o] = made[o]
    BY <2>1, <1>types, Frames
  <2>3. QED
    BY <2>1, <2>2 DEF FrameInv
<1>18. ASSUME NEW t \in Turns, Speaks(t) PROVE FrameInv'
  <2>1. /\ UNCHANGED <<render, at, media, made, quiet>> /\ turn[t] = "speaking"
        /\ air' = Append(air, t)
    BY <1>18 DEF Speaks, bridgeVars, slotVars, taskVars
  <2>2. ToSet(air') = ToSet(air) \cup {t}
    BY <2>1, Frames
  <2>3. made[t] \in {0, render.gen}
    BY <2>1 DEF SlotInv
  <2>4. QED
    BY <2>1, <2>2, <2>3 DEF FrameInv
<1>19. CASE UNCHANGED vars
  BY <1>19 DEF vars, slotVars, outputVars, taskVars, providerVars, deviceVars, FrameInv
<1> QED
  BY <1>1, <1>2, <1>3, <1>4, <1>5, <1>6, <1>7, <1>8, <1>9, <1>10, <1>11, <1>12, <1>13, <1>14,
     <1>15, <1>16, <1>17, <1>18, <1>19, SlotSteps

(* The gate is that of the slot.                                           *)
LEMMA GateStep ==
    TypeOK /\ SlotInv /\ FrameInv /\ OnceInv /\ TurnInv /\ GateInv /\ [Next]_vars => GateInv'
<1> SUFFICES ASSUME TypeOK, SlotInv, FrameInv, OnceInv, TurnInv, GateInv, [Next]_vars
             PROVE  GateInv'
  OBVIOUS
<1>1. ASSUME AnswerReady \/ SpeechTold \/ HandleDone \/ Looks \/ LooksAgain \/ Wakes \/
                SlotFreed \/ SlotKept \/ QuietTail \/ Submitted \/ Receive \/ Deliver \/
                EpochOpens \/ EpochOpened \/ Write \/ ArmExpires \/ Acknowledges \/ Arrives \/
                UserSpeaks \/ QuietPasses
      PROVE  GateInv'
  <2>1. UNCHANGED <<gate, render>>
    BY <1>1
       DEF AnswerReady, SpeechTold, HandleDone, Looks, LooksAgain, Wakes, SlotFreed, SlotKept,
           QuietTail, Submitted, Receive, Deliver, EpochOpens, EpochOpened, Write, ArmExpires,
           Acknowledges, Arrives, UserSpeaks, QuietPasses, Handles, slotVars, outputVars,
           taskVars, providerVars, deviceVars, bridgeVars
  <2>2. QED
    BY <2>1 DEF GateInv
<1>2. ASSUME NEW task \in Tasks, OutputMoves(task) \/ SendFails(task)
      PROVE  GateInv'
  <2>1. UNCHANGED <<gate, render>>
    BY <1>2
       DEF OutputMoves, SendFails, slotVars, outputVars, taskVars, providerVars, deviceVars,
           bridgeVars
  <2>2. QED
    BY <2>1 DEF GateInv
<1>3. ASSUME NEW t \in Turns, TurnBegins(t) \/ TurnEnds(t) \/ Speaks(t)
      PROVE  GateInv'
  <2>1. UNCHANGED <<gate, render>>
    BY <1>3
       DEF TurnBegins, TurnEnds, Speaks, slotVars, outputVars, taskVars, providerVars,
           deviceVars, bridgeVars
  <2>2. QED
    BY <2>1 DEF GateInv
<1>4. ASSUME ClientBegins PROVE GateInv'
  BY <1>4 DEF ClientBegins, NextGeneration, ShutsGate, GateInv
<1>5. ASSUME HandleSpeech PROVE GateInv'
  BY <1>5 DEF HandleSpeech, NextGeneration, ShutsGate, GateInv
<1>6. ASSUME HandleAck PROVE GateInv'
  BY <1>6 DEF HandleAck, GateInv
<1>7. ASSUME HandleCreated PROVE GateInv'
  <2>1. CASE Binds
    <3>1. render' = [render EXCEPT !.turn = controls[1].turn] /\ gate' \in {gate, generation}
      BY <1>7, <2>1, HandledEvent DEF HandleCreated
    <3>2. gate' # gate => gate' = render.gen
      BY <1>7, <2>1 DEF HandleCreated
    <3>3. controls[1].turn \in Turns
      BY <1>7, HandledEvent DEF HandleCreated, TurnInv
    <3>4. QED
      BY <2>1, <3>1, <3>2, <3>3, RenderFields, NoneAssumption DEF GateInv, Binds
  <2>2. CASE ~Binds
    BY <1>7, <2>2 DEF HandleCreated, GateInv
  <2>3. QED
    BY <2>1, <2>2
<1>8. ASSUME RenderOver PROVE GateInv'
  BY <1>8 DEF RenderOver, GateInv
<1>9. ASSUME AnswerTaken PROVE GateInv'
  BY <1>9 DEF AnswerTaken, GateInv, FrameInv
<1>10. CASE UNCHANGED vars
  BY <1>10 DEF vars, slotVars, outputVars, taskVars, providerVars, deviceVars, GateInv
<1> QED
  BY <1>1, <1>2, <1>3, <1>4, <1>5, <1>6, <1>7, <1>8, <1>9, <1>10, SlotSteps

(* The frame audio() holds.                                                *)
LEMMA ChunkStep ==
    TypeOK /\ TurnInv /\ GateInv /\ FrameInv /\ LockInv /\ TimerInv /\ ChunkInv /\ [Next]_vars
       => ChunkInv'
<1> SUFFICES ASSUME TypeOK, TurnInv, GateInv, FrameInv, LockInv, TimerInv, ChunkInv,
                    [Next]_vars
             PROVE  ChunkInv'
  OBVIOUS
<1>types. made \in [Turns -> Generations] /\ at \in [Tasks -> {at[o] : o \in Tasks}]
  BY DEF TypeOK
<1>1. ASSUME ClientBegins \/ AnswerReady \/ HandleSpeech \/ SpeechTold \/ HandleAck \/
                HandleCreated \/ HandleDone \/ RenderOver \/ AnswerTaken \/ Looks \/
                LooksAgain \/ Wakes \/ SlotFreed \/ QuietTail \/ Submitted
      PROVE  ChunkInv'
  <2>1. UNCHANGED <<chunk, made>>
    BY <1>1
       DEF ClientBegins, AnswerReady, HandleSpeech, SpeechTold, HandleAck, HandleCreated,
           HandleDone, RenderOver, AnswerTaken, Looks, LooksAgain, Wakes, SlotFreed,
           QuietTail, Submitted, Handles, slotVars, outputVars, taskVars, providerVars,
           deviceVars, bridgeVars
  <2>2. at'["audio"] = at["audio"]
    BY <1>1, Elsewhere
  <2>3. QED
    BY <2>1, <2>2 DEF ChunkInv
<1>2. ASSUME SlotKept \/ ArmExpires \/ Acknowledges \/ Arrives \/ UserSpeaks \/ QuietPasses
      PROVE  ChunkInv'
  <2>1. UNCHANGED <<chunk, made, at["audio"]>>
    BY <1>2
       DEF SlotKept, ArmExpires, Acknowledges, Arrives, UserSpeaks, QuietPasses, slotVars,
           outputVars, taskVars, providerVars, deviceVars, bridgeVars
  <2>2. QED
    BY <2>1 DEF ChunkInv
<1>3. ASSUME NEW task \in Tasks, SendFails(task)
      PROVE  ChunkInv'
  <2>1. UNCHANGED <<chunk, made, at["audio"]>>
    BY <1>3
       DEF SendFails, slotVars, outputVars, taskVars, providerVars, deviceVars, bridgeVars
  <2>2. QED
    BY <2>1 DEF ChunkInv
<1>4. ASSUME NEW t \in Turns, TurnEnds(t) \/ Speaks(t)
      PROVE  ChunkInv'
  <2>1. UNCHANGED <<chunk, made, at["audio"]>>
    BY <1>4
       DEF TurnEnds, Speaks, slotVars, outputVars, taskVars, providerVars, deviceVars,
           bridgeVars
  <2>2. QED
    BY <2>1 DEF ChunkInv
<1>5. ASSUME NEW task \in Tasks, OutputMoves(task) PROVE ChunkInv'
  BY <1>5 DEF OutputMoves, ChunkInv
<1>6. ASSUME Receive PROVE ChunkInv'
  <2>1. UNCHANGED made /\ \/ UNCHANGED <<chunk, at>>
                          \/ /\ chunk' = [turn |-> Head(media), gate |-> gate]
                             /\ gate # 0 /\ media # <<>>
    BY <1>6 DEF Receive, providerVars
  <2>2. media # <<>> => Head(media) \in Turns /\ Head(media) \in ToSet(media)
    BY Frames
  <2>3. gate # 0 /\ media # <<>> => made[Head(media)] \in {0, gate}
    BY <2>2, RenderFields DEF GateInv, FrameInv
  <2>4. QED
    BY <2>1, <2>2, <2>3, NoneAssumption DEF ChunkInv
<1>7. ASSUME Deliver PROVE ChunkInv'
  <2>1. /\ UNCHANGED made
        /\ at["audio"] \in {"delivering", "starting", "started", "writing"}
        /\ \/ UNCHANGED chunk
           \/ chunk' = NoChunk /\ at' = [at EXCEPT !["audio"] = "idle"]
    BY <1>7 DEF Deliver, Has, Goes, GivesUpFrame, providerVars
  <2>2. at' = [at EXCEPT !["audio"] = "idle"] => at'["audio"] = "idle"
    BY <1>types DEF Tasks
  <2>3. QED
    BY <2>1, <2>2 DEF ChunkInv, NoChunk
<1>8. ASSUME EpochOpens PROVE ChunkInv'
  <2>1. /\ UNCHANGED made
        /\ at["audio"] \in {"delivering", "starting", "started", "writing"}
        /\ \/ UNCHANGED chunk
           \/ chunk' = NoChunk /\ at' = [at EXCEPT !["audio"] = "idle"]
    BY <1>8 DEF EpochOpens, Has, Goes, providerVars
  <2>2. at' = [at EXCEPT !["audio"] = "idle"] => at'["audio"] = "idle"
    BY <1>types DEF Tasks
  <2>3. QED
    BY <2>1, <2>2 DEF ChunkInv, NoChunk
<1>9. ASSUME EpochOpened PROVE ChunkInv'
  <2>1. /\ UNCHANGED made
        /\ at["audio"] \in {"delivering", "starting", "started", "writing"}
        /\ \/ UNCHANGED chunk
           \/ chunk' = NoChunk /\ at' = [at EXCEPT !["audio"] = "idle"]
    BY <1>9 DEF EpochOpened, Has, Goes, GivesUpFrame, providerVars
  <2>2. at' = [at EXCEPT !["audio"] = "idle"] => at'["audio"] = "idle"
    BY <1>types DEF Tasks
  <2>3. QED
    BY <2>1, <2>2 DEF ChunkInv, NoChunk
<1>10. ASSUME Write PROVE ChunkInv'
  <2>1. /\ UNCHANGED made
        /\ at["audio"] \in {"delivering", "starting", "started", "writing"}
        /\ \/ UNCHANGED chunk
           \/ chunk' = NoChunk /\ at' = [at EXCEPT !["audio"] = "idle"]
    BY <1>10 DEF Write, Has, Goes, GivesUpFrame, providerVars
  <2>2. at' = [at EXCEPT !["audio"] = "idle"] => at'["audio"] = "idle"
    BY <1>types DEF Tasks
  <2>3. QED
    BY <2>1, <2>2 DEF ChunkInv, NoChunk
<1>11. ASSUME NEW t \in Turns, TurnBegins(t) PROVE ChunkInv'
  <2>1. /\ UNCHANGED <<chunk, at>> /\ made' = [made EXCEPT ![t] = pending] /\ chunk.turn # t
    BY <1>11 DEF TurnBegins, bridgeVars, taskVars, TurnInv
  <2>2. chunk.turn # None => made'[chunk.turn] = made[chunk.turn]
    <3>1. chunk.turn \in Turns \cup {None}
      BY DEF TypeOK
    <3>2. QED
      BY <2>1, <3>1, <1>types
  <2>3. QED
    BY <2>1, <2>2 DEF ChunkInv
<1>12. CASE UNCHANGED vars
  BY <1>12 DEF vars, slotVars, outputVars, taskVars, providerVars, deviceVars, ChunkInv
<1> QED
  BY <1>1, <1>2, <1>3, <1>4, <1>5, <1>6, <1>7, <1>8, <1>9, <1>10, <1>11, <1>12, SlotSteps

(* The epochs are fewer than the turns.                                    *)
LEMMA EpochStep ==
    TypeOK /\ TurnInv /\ OrderInv /\ SlotInv /\ LockInv /\ TimerInv /\ EpochInv /\ [Next]_vars
       => EpochInv'
<1> SUFFICES ASSUME TypeOK, TurnInv, OrderInv, SlotInv, LockInv, TimerInv, EpochInv,
                    [Next]_vars
             PROVE  EpochInv'
  OBVIOUS
<1>types. at \in [Tasks -> {at[o] : o \in Tasks}]
  BY DEF TypeOK
<1>1. ASSUME ClientBegins \/ AnswerReady \/ SlotFreed \/ QuietTail \/ Submitted \/ Receive \/
                EpochOpens \/ EpochOpened \/ Write
      PROVE  EpochInv'
  <2>1. UNCHANGED <<epoch, armed, made, controls>>
    BY <1>1
       DEF ClientBegins, AnswerReady, SlotFreed, QuietTail, Submitted, Receive, EpochOpens,
           EpochOpened, Write, slotVars, outputVars, taskVars, providerVars, deviceVars,
           bridgeVars
  <2>2. at'["data"] = at["data"]
    BY <1>1, Elsewhere
  <2>3. QED
    BY <2>1, <2>2 DEF EpochInv, Begun
<1>2. ASSUME SlotKept \/ Arrives \/ QuietPasses
      PROVE  EpochInv'
  <2>1. UNCHANGED <<epoch, armed, made, controls, at["data"]>>
    BY <1>2
       DEF SlotKept, Arrives, QuietPasses, slotVars, outputVars, taskVars, providerVars,
           deviceVars, bridgeVars
  <2>2. QED
    BY <2>1 DEF EpochInv, Begun
<1>3. ASSUME NEW task \in Tasks, SendFails(task)
      PROVE  EpochInv'
  <2>1. UNCHANGED <<epoch, armed, made, controls, at["data"]>>
    BY <1>3
       DEF SendFails, slotVars, outputVars, taskVars, providerVars, deviceVars, bridgeVars
  <2>2. QED
    BY <2>1 DEF EpochInv, Begun
<1>4. ASSUME NEW t \in Turns, Speaks(t)
      PROVE  EpochInv'
  <2>1. UNCHANGED <<epoch, armed, made, controls, at["data"]>>
    BY <1>4 DEF Speaks, slotVars, outputVars, taskVars, providerVars, deviceVars, bridgeVars
  <2>2. QED
    BY <2>1 DEF EpochInv, Begun
<1>5. ASSUME HandleSpeech PROVE EpochInv'
  <2>1. Handles("speech") /\ UNCHANGED epoch /\ (armed' => armed)
    BY <1>5 DEF HandleSpeech, Handles, outputVars
  <2>2. at'["data"] = "arming" => at["data"] = "arming"
    BY <1>5, <1>types DEF HandleSpeech, Goes, Tasks
  <2>3. Begun \subseteq Begun'
    BY <2>1, BegunStays
  <2>4. QED
    BY <2>1, <2>2, <2>3, EpochKept
<1>6. ASSUME SpeechTold PROVE EpochInv'
  <2>1. UNCHANGED <<made, controls>> /\ UNCHANGED epoch /\ (armed' => armed)
    BY <1>6 DEF SpeechTold, outputVars, providerVars
  <2>2. at'["data"] = "arming" => at["data"] = "arming"
    BY <1>6, <1>types DEF SpeechTold, EndsOutput, Joins, Goes, Tasks
  <2>3. Begun \subseteq Begun'
    BY <2>1, BegunStays
  <2>4. QED
    BY <2>1, <2>2, <2>3, EpochKept
<1>7. ASSUME HandleAck PROVE EpochInv'
  <2>1. Handles("ack") /\ UNCHANGED epoch /\ (armed' => armed)
    BY <1>7 DEF HandleAck, Handles, outputVars
  <2>2. at'["data"] = "arming" => at["data"] = "arming"
    BY <1>7 DEF HandleAck
  <2>3. Begun \subseteq Begun'
    BY <2>1, BegunStays
  <2>4. QED
    BY <2>1, <2>2, <2>3, EpochKept
<1>8. ASSUME HandleCreated PROVE EpochInv'
  <2>1. Handles("created") /\ UNCHANGED <<epoch, armed>> /\ at["data"] = "idle"
    BY <1>8 DEF HandleCreated, Handles, Idle, outputVars
  <2>2. Begun \subseteq Begun'
    BY <2>1, BegunStays
  <2>3. CASE ~Binds
    <3>1. at' = at
      BY <1>8, <2>3 DEF HandleCreated
    <3>2. QED
      BY <2>1, <2>2, <3>1, EpochKept
  <2>4. CASE Binds
    <3> DEFINE new == controls[1].turn
    <3>1. /\ 1 \in DOMAIN controls /\ controls[1].kind = "created"
          /\ \A i \in DOMAIN controls : i \in Nat \ {0}
          /\ \A i \in DOMAIN controls' :
                i \in Nat \ {0} /\ i + 1 \in DOMAIN controls /\ controls'[i] = controls[i + 1]
      BY <2>1, HandledEvent
    <3>2. render.gen # 0 /\ render.acked /\ render.turn = None
      BY <2>4 DEF Binds
    <3>3. AfterAck(1) /\ \A j \in DOMAIN controls : AfterAck(j) => 1 <= j
      BY <3>1, <3>2 DEF AfterAck
    <3>4. new \in Turns /\ made[new] # 0
      BY <3>1, <3>2, <3>3 DEF OrderInv, Ordered, TurnInv
    <3>5. controls[1] = [kind |-> "created", turn |-> new]
      <4>1. controls[1] \in EventType
        <5>1. controls \in Seq(EventType)
          BY DEF TypeOK, EventType
        <5>2. QED
          BY <3>1, <5>1, SeqFacts
      <4>2. QED
        BY <3>1, <4>1 DEF EventType
    <3>6. new \notin Begun
      BY <3>1, <3>5 DEF Begun
    <3>7. new \in Begun'
      <4>1. ASSUME NEW i \in DOMAIN controls', controls'[i] = controls[1] PROVE FALSE
        <5>1. i + 1 = 1
          BY <3>1, <4>1 DEF TurnInv
        <5>2. QED
          BY <3>1, <5>1
      <4>2. UNCHANGED made
        BY <2>1 DEF Handles
      <4>3. QED
        BY <3>4, <3>5, <4>1, <4>2 DEF Begun
    <3>8. Begun' \subseteq Turns
      BY DEF Begun
    <3>9. /\ Cardinality(Begun) \in Nat /\ Cardinality(Begun') \in Nat
          /\ Cardinality(Begun) + 1 <= Cardinality(Begun')
      BY <2>2, <3>6, <3>7, <3>8, BegunFacts
    <3>10. epoch \in Nat
      BY BegunFacts DEF TypeOK, Epochs
    <3>11. QED
      BY <2>1, <3>9, <3>10 DEF EpochInv
  <2>5. QED
    BY <2>3, <2>4
<1>9. ASSUME HandleDone PROVE EpochInv'
  <2>1. Handles("done") /\ UNCHANGED epoch /\ (armed' => armed)
    BY <1>9 DEF HandleDone, Handles, outputVars
  <2>2. at'["data"] = "arming" => at["data"] = "arming"
    BY <1>9, <1>types DEF HandleDone, Joins, Goes, Tasks
  <2>3. Begun \subseteq Begun'
    BY <2>1, BegunStays
  <2>4. QED
    BY <2>1, <2>2, <2>3, EpochKept
<1>10. ASSUME Arms PROVE EpochInv'
  <2>1. UNCHANGED <<epoch, made, controls>> /\ at["data"] = "arming"
    BY <1>10 DEF Arms, Has
  <2>2. at'["data"] # "arming"
    <3>1. "data" \in Tasks
      BY DEF Tasks
    <3>2. PICK there \in {"idle", "appending"} : Goes("data", there)
      BY <1>10, <3>1, LeavesLock DEF Arms
    <3>3. QED
      BY <3>1, <3>2, <1>types DEF Goes
  <2>3. Cardinality(Begun) \in Nat /\ epoch \in Nat
    BY BegunFacts DEF TypeOK, Epochs
  <2>4. Begun' = Begun
    BY <2>1 DEF Begun
  <2>5. epoch + (IF armed THEN 1 ELSE 0) + 1 <= Cardinality(Begun)
    BY <2>1 DEF EpochInv
  <2>6. epoch' + 1 <= Cardinality(Begun')
    BY <2>1, <2>3, <2>4, <2>5
  <2>7. QED
    BY <2>1, <2>2, <2>3, <2>4, <2>6 DEF EpochInv
<1>11. ASSUME Tails PROVE EpochInv'
  <2>1. UNCHANGED <<made, controls>> /\ UNCHANGED epoch /\ (armed' => armed)
    BY <1>11 DEF Tails, outputVars
  <2>2. at'["data"] = "arming" => at["data"] = "arming"
    BY <1>11, <1>types, OutputSteps
       DEF RenderOver, AnswerTaken, OutputMoves, Tasks
  <2>3. Begun \subseteq Begun'
    BY <2>1, BegunStays
  <2>4. QED
    BY <2>1, <2>2, <2>3, EpochKept
<1>12. ASSUME Finishes PROVE EpochInv'
  <2>1. UNCHANGED <<made, controls>> /\ UNCHANGED epoch /\ (armed' => armed)
    BY <1>12 DEF Finishes, StopsSpeaking, StaysSilent, Disarms
  <2>2. at'["data"] = "arming" => at["data"] = "arming"
    BY <1>12, <1>types, OutputSteps
       DEF RenderOver, AnswerTaken, OutputMoves, Tasks
  <2>3. Begun \subseteq Begun'
    BY <2>1, BegunStays
  <2>4. QED
    BY <2>1, <2>2, <2>3, EpochKept
<1>13. ASSUME NEW task \in Tasks, Ends(task) PROVE EpochInv'
  <2>1. UNCHANGED <<made, controls>> /\ UNCHANGED epoch /\ (armed' => armed)
    BY <1>13 DEF Ends, StopsSpeaking, StaysSilent, Disarms
  <2>2. at'["data"] = "arming" => at["data"] = "arming"
    BY <1>13, <1>types, OutputSteps
       DEF RenderOver, AnswerTaken, OutputMoves, Tasks
  <2>3. Begun \subseteq Begun'
    BY <2>1, BegunStays
  <2>4. QED
    BY <2>1, <2>2, <2>3, EpochKept
<1>14. ASSUME NEW task \in Tasks, Stopped(task) PROVE EpochInv'
  <2>1. UNCHANGED <<made, controls>> /\ UNCHANGED epoch /\ (armed' => armed)
    BY <1>14 DEF Stopped, outputVars
  <2>2. at'["data"] = "arming" => at["data"] = "arming"
    BY <1>14, <1>types, OutputSteps
       DEF RenderOver, AnswerTaken, OutputMoves, Tasks
  <2>3. Begun \subseteq Begun'
    BY <2>1, BegunStays
  <2>4. QED
    BY <2>1, <2>2, <2>3, EpochKept
<1>15. ASSUME Looks PROVE EpochInv'
  <2>1. UNCHANGED <<made, controls>> /\ UNCHANGED epoch /\ (armed' => armed)
    BY <1>15 DEF Looks, outputVars, providerVars
  <2>2. at'["data"] = "arming" => at["data"] = "arming"
    BY <1>15, <1>types DEF Looks, Rejoins, Goes, Tasks
  <2>3. Begun \subseteq Begun'
    BY <2>1, BegunStays
  <2>4. QED
    BY <2>1, <2>2, <2>3, EpochKept
<1>16. ASSUME LooksAgain PROVE EpochInv'
  <2>1. UNCHANGED <<made, controls>> /\ UNCHANGED epoch /\ (armed' => armed)
    BY <1>16 DEF LooksAgain, outputVars, providerVars
  <2>2. at'["data"] = "arming" => at["data"] = "arming"
    BY <1>16, <1>types DEF LooksAgain, Rejoins, Goes, Tasks
  <2>3. Begun \subseteq Begun'
    BY <2>1, BegunStays
  <2>4. QED
    BY <2>1, <2>2, <2>3, EpochKept
<1>17. ASSUME Wakes PROVE EpochInv'
  <2>1. UNCHANGED <<made, controls>> /\ UNCHANGED epoch /\ (armed' => armed)
    BY <1>17 DEF Wakes, outputVars, providerVars
  <2>2. at'["data"] = "arming" => at["data"] = "arming"
    BY <1>17, <1>types DEF Wakes, Joins, Goes, Tasks
  <2>3. Begun \subseteq Begun'
    BY <2>1, BegunStays
  <2>4. QED
    BY <2>1, <2>2, <2>3, EpochKept
<1>18. ASSUME Deliver PROVE EpochInv'
  <2>1. /\ UNCHANGED <<made, controls>>
        /\ \/ UNCHANGED <<epoch, armed>>
           \/ armed /\ epoch' = epoch + 1 /\ armed' = FALSE
    BY <1>18 DEF Deliver, Disarms, outputVars, providerVars
  <2>2. at'["data"] = at["data"]
    BY <1>18, Elsewhere
  <2>3. Cardinality(Begun) \in Nat /\ epoch \in Nat
    BY BegunFacts DEF TypeOK, Epochs
  <2>4. Begun' = Begun
    BY <2>1 DEF Begun
  <2>5. QED
    BY <2>1, <2>2, <2>3, <2>4 DEF EpochInv
<1>19. ASSUME ArmExpires PROVE EpochInv'
  <2>1. UNCHANGED <<made, controls, epoch, at>>
    BY <1>19 DEF ArmExpires, providerVars
  <2>2. armed' => armed
    <3>1. armed' = armed \/ armed' = (armed /\ speaking)
      BY <1>19 DEF ArmExpires
    <3>2. QED
      BY <3>1, Zenon
  <2>3. Begun \subseteq Begun'
    BY <2>1, BegunStays
  <2>4. QED
    BY <2>1, <2>2, <2>3, EpochKept
<1>20. ASSUME Acknowledges PROVE EpochInv'
  <2>1. Event("ack", None) /\ UNCHANGED made /\ UNCHANGED epoch /\ (armed' => armed)
    BY <1>20 DEF Acknowledges, bridgeVars, outputVars
  <2>2. at'["data"] = "arming" => at["data"] = "arming"
    BY <1>20 DEF Acknowledges, bridgeVars, taskVars
  <2>3. Begun \subseteq Begun'
    BY <2>1, BegunStays
  <2>4. QED
    BY <2>1, <2>2, <2>3, EpochKept
<1>21. ASSUME UserSpeaks PROVE EpochInv'
  <2>1. Event("speech", None) /\ UNCHANGED made /\ UNCHANGED epoch /\ (armed' => armed)
    BY <1>21 DEF UserSpeaks, bridgeVars, outputVars
  <2>2. at'["data"] = "arming" => at["data"] = "arming"
    BY <1>21 DEF UserSpeaks, bridgeVars, taskVars
  <2>3. Begun \subseteq Begun'
    BY <2>1, BegunStays
  <2>4. QED
    BY <2>1, <2>2, <2>3, EpochKept
<1>22. ASSUME NEW t \in Turns, TurnBegins(t) PROVE EpochInv'
  <2>1. UNCHANGED epoch /\ (armed' => armed)
    BY <1>22 DEF TurnBegins, bridgeVars, outputVars
  <2>2. at'["data"] = "arming" => at["data"] = "arming"
    BY <1>22 DEF TurnBegins, bridgeVars, taskVars
  <2>3. Begun \subseteq Begun'
    BY <1>22, BegunStays
  <2>4. QED
    BY <2>1, <2>2, <2>3, EpochKept
<1>23. ASSUME NEW t \in Turns, TurnEnds(t) PROVE EpochInv'
  <2>1. Event("done", t) /\ UNCHANGED made /\ UNCHANGED epoch /\ (armed' => armed)
    BY <1>23 DEF TurnEnds, bridgeVars, outputVars
  <2>2. at'["data"] = "arming" => at["data"] = "arming"
    BY <1>23 DEF TurnEnds, bridgeVars, taskVars
  <2>3. Begun \subseteq Begun'
    BY <2>1, BegunStays
  <2>4. QED
    BY <2>1, <2>2, <2>3, EpochKept
<1>24. CASE UNCHANGED vars
  BY <1>24 DEF vars, slotVars, outputVars, taskVars, providerVars, deviceVars, EpochInv, Begun
<1> QED
  BY <1>1, <1>2, <1>3, <1>4, <1>5, <1>6, <1>7, <1>8, <1>9, <1>10, <1>11, <1>12, <1>13, <1>14,
     <1>15, <1>16, <1>17, <1>18, <1>19, <1>20, <1>21, <1>22, <1>23, <1>24
     DEF Next, Data, Exec, Audio, AnyTask, Provider

(* What the device hears.                                                  *)
LEMMA HeardStep ==
    TypeOK /\ ChunkInv /\ TurnInv /\ HeardIsCurrent /\ [Next]_vars => HeardIsCurrent'
<1> SUFFICES ASSUME TypeOK, ChunkInv, TurnInv, HeardIsCurrent, [Next]_vars
             PROVE  HeardIsCurrent'
  OBVIOUS
<1>types. /\ made \in [Turns -> Generations]
         /\ heard \subseteq [turn : Turns, gen : Generations, epoch : Epochs]
  BY DEF TypeOK
<1>1. ASSUME ClientBegins \/ AnswerReady \/ HandleSpeech \/ SpeechTold \/ HandleAck \/
                HandleCreated \/ HandleDone \/ RenderOver \/ AnswerTaken \/ Looks \/
                LooksAgain \/ Wakes \/ SlotFreed \/ SlotKept \/ QuietTail \/ Submitted \/
                Receive \/ Deliver \/ EpochOpens \/ EpochOpened \/ ArmExpires \/ Acknowledges
                \/ Arrives \/ UserSpeaks \/ QuietPasses
      PROVE  HeardIsCurrent'
  <2>1. UNCHANGED <<heard, made>>
    BY <1>1
       DEF ClientBegins, AnswerReady, HandleSpeech, SpeechTold, HandleAck, HandleCreated,
           HandleDone, RenderOver, AnswerTaken, Looks, LooksAgain, Wakes, SlotFreed, SlotKept,
           QuietTail, Submitted, Receive, Deliver, EpochOpens, EpochOpened, ArmExpires,
           Acknowledges, Arrives, UserSpeaks, QuietPasses, Handles, slotVars, outputVars,
           taskVars, providerVars, deviceVars, bridgeVars
  <2>2. QED
    BY <2>1 DEF HeardIsCurrent
<1>2. ASSUME NEW task \in Tasks, OutputMoves(task) \/ SendFails(task)
      PROVE  HeardIsCurrent'
  <2>1. UNCHANGED <<heard, made>>
    BY <1>2
       DEF OutputMoves, SendFails, slotVars, outputVars, taskVars, providerVars, deviceVars,
           bridgeVars
  <2>2. QED
    BY <2>1 DEF HeardIsCurrent
<1>3. ASSUME NEW t \in Turns, TurnEnds(t) \/ Speaks(t)
      PROVE  HeardIsCurrent'
  <2>1. UNCHANGED <<heard, made>>
    BY <1>3
       DEF TurnEnds, Speaks, slotVars, outputVars, taskVars, providerVars, deviceVars,
           bridgeVars
  <2>2. QED
    BY <2>1 DEF HeardIsCurrent
<1>4. ASSUME Write PROVE HeardIsCurrent'
  <2>1. /\ UNCHANGED made /\ at["audio"] = "writing"
        /\ \/ UNCHANGED heard
           \/ /\ generation = chunk.gate
              /\ heard' = heard \cup {[turn |-> chunk.turn, gen |-> generation, epoch |-> open]}
    BY <1>4 DEF Write, Has, Guarded, Authorized, providerVars
  <2>2. made[chunk.turn] \in {0, chunk.gate}
    BY <2>1 DEF ChunkInv
  <2>3. QED
    BY <2>1, <2>2 DEF HeardIsCurrent
<1>5. ASSUME NEW t \in Turns, TurnBegins(t) PROVE HeardIsCurrent'
  <2>1. \A h \in heard : h.turn \in Turns /\ h.turn # t
    BY <1>5, <1>types DEF TurnBegins, TurnInv
  <2>2. \A o \in Turns \ {t} : made'[o] = made[o]
    BY <1>5, <1>types DEF TurnBegins
  <2>3. UNCHANGED heard
    BY <1>5 DEF TurnBegins, bridgeVars, deviceVars
  <2>4. QED
    BY <2>1, <2>2, <2>3 DEF HeardIsCurrent
<1>6. CASE UNCHANGED vars
  BY <1>6 DEF vars, slotVars, outputVars, taskVars, providerVars, deviceVars, HeardIsCurrent
<1> QED
  BY <1>1, <1>2, <1>3, <1>4, <1>5, <1>6, SlotSteps

-----------------------------------------------------------------------------
(* What follows.                                                           *)

(* Nothing is on its way, the slot is free, the gate is shut.              *)
LEMMA InitIInv == Init => IInv
<1> SUFFICES ASSUME Init PROVE IInv
  OBVIOUS
<1>1. /\ 0 \in Generations /\ 0 \in Epochs /\ 0 \in 0..0
      /\ Cardinality(Turns) \in Nat
  <2>1. Cardinality(Turns) \in Nat
    BY TurnsAssumption, FS_CardinalityType
  <2>2. QED
    BY <2>1, BoundsAssumption DEF Generations, Epochs
<1>2. SlotType
  BY <1>1 DEF Init, SlotType, Free, NoChunk
<1>3. OutputType
  BY <1>1 DEF Init, OutputType
<1>4. AwaitType
  <2>1. "idle" \in Awaits
    BY DEF Awaits
  <2>2. at = [k \in Tasks |-> "idle"]
    BY DEF Init
  <2>3. QED
    BY <2>1, <2>2 DEF AwaitType
<1>5. TurnType
  BY <1>1 DEF Init, TurnType
<1>6. WireType /\ HeardType
  <2>1. air = <<>> /\ media = <<>> /\ controls = <<>> /\ heard = {}
    BY DEF Init
  <2>2. QED
    BY <2>1 DEF WireType, HeardType
<1>7. QueueType /\ ToSet(lock) = {}
  <2>1. lock = <<>>
    BY DEF Init
  <2>2. QED
    BY <2>1 DEF QueueType, IsInjective, ToSet
<1>8. TypeOK
  BY <1>2, <1>3, <1>4, <1>5, <1>6, <1>7, TypeParts
<1>9. LockInv /\ TimerInv
  <2>1. "idle" \notin InQueue
    BY DEF InQueue, Locked
  <2>2. \A task \in Tasks : at[task] = "idle"
    BY DEF Init
  <2>3. timer = "off"
    BY DEF Init
  <2>4. QED
    BY <1>7, <2>1, <2>2, <2>3 DEF LockInv, TimerInv
<1>10. DOMAIN controls = {} /\ ToSet(air) = {} /\ ToSet(media) = {}
  BY DEF Init, ToSet
<1>11. /\ render.gen = 0 /\ ~render.acked /\ render.turn = None /\ render = Free
       /\ chunk.turn = None
       /\ \A t \in Turns : made[t] = 0 /\ turn[t] = "unborn"
       /\ \A task \in Tasks : at[task] = "idle"
       /\ {"exec", "audio", "data"} \subseteq Tasks
  BY DEF Init, Free, NoChunk, Tasks
<1>12. TurnInv
  BY <1>10, <1>11, NoneAssumption DEF Init, TurnInv
<1>13. OnceInv
  BY <1>11 DEF Init, OnceInv, Submitting
<1>14. SlotInv
  BY <1>10, <1>11 DEF Init, SlotInv, IsAcked
<1>15. OrderInv
  BY <1>10, <1>11 DEF OrderInv, AckOnce
<1>16. FrameInv /\ GateInv /\ ChunkInv
  BY <1>10, <1>11 DEF Init, FrameInv, GateInv, ChunkInv
<1>17. EpochInv
  <2>1. Begun = {}
    BY <1>11 DEF Begun
  <2>2. Cardinality(Begun) = 0
    BY <2>1, FS_EmptySet
  <2>3. epoch = 0 /\ ~armed /\ at["data"] # "arming"
    BY <1>11 DEF Init
  <2>4. QED
    BY <2>2, <2>3 DEF EpochInv
<1>18. HeardIsCurrent
  BY DEF Init, HeardIsCurrent
<1>19. QED
  BY <1>8, <1>9, <1>12, <1>13, <1>14, <1>15, <1>16, <1>17, <1>18 DEF IInv

LEMMA TypeStep == IInv /\ [Next]_vars => TypeOK'
<1> SUFFICES ASSUME IInv, [Next]_vars PROVE TypeOK'
  OBVIOUS
<1>1. TypeOK /\ LockInv /\ TimerInv /\ EpochInv /\ ChunkInv
  BY DEF IInv
<1>2. SlotType' /\ OutputType' /\ AwaitType' /\ TurnType' /\ WireType' /\ HeardType'
  BY <1>1, SlotTypeStep, OutputTypeStep, AwaitTypeStep, TurnTypeStep, WireTypeStep,
     HeardTypeStep
<1>3. QueueType'
  BY <1>1, LockStep DEF Queue, QueueType
<1>4. QED
  BY <1>2, <1>3
     DEF TypeOK, SlotType, OutputType, AwaitType, Awaits, TurnType, WireType, EventType,
         HeardType, QueueType

(* Every step keeps the invariant.                                         *)
LEMMA StepIInv == IInv /\ [Next]_vars => IInv'
  BY TypeStep, LockStep, TimerStep, TurnStep, OnceStep, SlotStep, OrderStep, FrameStep,
     GateStep, ChunkStep, EpochStep, HeardStep DEF IInv

(* The invariant, for any turns and any number of requests and frames.     *)
THEOREM Invariant == Spec => []IInv
  BY InitIInv, StepIInv, PTL DEF Spec

(* Every variable keeps its type: nobody is in the queue of                *)
(* output_state_lock twice, and there are no more epochs than turns.       *)
THEOREM TypeCorrect == Spec => []TypeOK
<1>1. IInv => TypeOK
  BY DEF IInv
<1>2. QED
  BY <1>1, Invariant, PTL

(* No frame of a render is heard in the generation of another: a frame at  *)
(* hand was read under the gate of its turn, since frames reach the        *)
(* session only while their render is in the slot, and the gate is checked *)
(* against the generation once more where the frame is written.            *)
THEOREM OnlyCurrentIsHeard == Spec => []HeardIsCurrent
<1>1. IInv => HeardIsCurrent
  BY DEF IInv
<1>2. QED
  BY <1>1, Invariant, PTL

(* The slot is bound to its own turn: what begins first after the          *)
(* acknowledgement was made for the render that was acknowledged.          *)
THEOREM SlotIsBoundRight == Spec => []BoundToItsTurn
<1>1. IInv => BoundToItsTurn
  BY DEF IInv, SlotInv, BoundToItsTurn
<1>2. QED
  BY <1>1, Invariant, PTL
=============================================================================
