------------------------- MODULE ExecutorTurnsProofs -------------------------
(***************************************************************************)
(* Proofs about ExecutorTurns for any number of turns, requests and user   *)
(* turns and any bounds.                                                   *)
(***************************************************************************)
EXTENDS ExecutorTurnsSteps, QueueProofs, TLAPS

-----------------------------------------------------------------------------
(* Moving a task changes nothing of another one.                           *)
LEMMA MovesEffect ==
    ASSUME TypeOK, NEW task \in Tasks, NEW there, Moves(task, there)
    PROVE  /\ pc'[task] = there /\ job'[task] \in Jobs
           /\ \A other \in Tasks : other # task =>
                  pc'[other] = pc[other] /\ job'[other] = job[other]
           /\ job' \in [Tasks -> Jobs]
           /\ \A where : pc \in [Tasks -> where] /\ there \in where => pc' \in [Tasks -> where]
<1> USE DEF Moves, TypeOK
<1> HIDE DEF Jobs, Tasks
<1>1. pc'[task] = there /\ job'[task] \in Jobs
  OBVIOUS
<1>2. \A other \in Tasks : other # task => pc'[other] = pc[other] /\ job'[other] = job[other]
  OBVIOUS
<1>3. job' \in [Tasks -> Jobs]
  OBVIOUS
<1>4. \A where : pc \in [Tasks -> where] /\ there \in where => pc' \in [Tasks -> where]
  OBVIOUS
<1>5. QED
  BY <1>1, <1>2, <1>3, <1>4

(* The job of an idle task.                                                *)
LEMMA NoJobFields ==
    /\ NoJob \in Jobs
    /\ Is(NoJob, "nothing", 0, None, <<>>, <<>>, "idle", 0) /\ NoJob.said = {}
  BY DEF NoJob, Jobs, Is

LEMMA JobOf ==
    ASSUME NEW t \in Turns \cup {None}, NEW gen \in Nat, NEW j,
           j = [NoJob EXCEPT !.turn = t, !.gen = gen]
    PROVE  j \in Jobs /\ Is(j, "nothing", gen, t, <<>>, <<>>, "idle", 0) /\ j.said = {}
<1>1. j \in Jobs
  BY NoJobFields DEF Jobs
<1>2. Is(j, "nothing", gen, t, <<>>, <<>>, "idle", 0) /\ j.said = {}
  BY DEF NoJob, Is
<1>3. QED
  BY <1>1, <1>2

LEMMA Names ==
    /\ None \notin Turns /\ None \notin Tasks
    /\ "exec" \in Tasks /\ "watchdog" \in Tasks /\ "shutdown" \in Tasks
  BY NamesAssumption DEF Tasks

LEMMA HoldsKept ==
    ASSUME UNCHANGED lockQueue
    PROVE  \A task \in Tasks : Holds(task) => Holds(task)'
  BY DEF Holds

(* What the place of a task says of its job.                               *)
LEMMA PlaceFacts ==
    ASSUME TypeOK, PlaceInv, NEW task \in Tasks
    PROVE  /\ pc[task] \in {"starting", "stale", "replaying"} => job[task].does = "start"
           /\ pc[task] \in {"idle", "over", "enter", "locking", "tombstoned", "terminal",
                           "starting"} =>
                 job[task].after = "idle" /\ job[task].reject = <<>> /\ job[task].todo = <<>>
           /\ pc[task] \in {"stale", "replaying"} => job[task].after = pc[task]
           /\ pc[task] = "replaying" => job[task].reject = <<>> /\ job[task].next = 0
           /\ pc[task] \in Answering =>
                 /\ job[task].reject = <<>>
                 /\ \/ task = "exec" /\ job[task].does = "nothing" /\ job[task].after = "idle"
                       /\ job[task].todo = <<>>
                    \/ job[task].does = "start" /\ job[task].after = "replaying"
                       /\ job[task].next = 0
           /\ pc[task] \in {"idle", "over"} =>
                 job[task].does = "nothing" /\ job[task].next = 0
           /\ pc[task] \in {"enter", "starting", "rejecting", "stale", "replaying"}
                               \cup Answering =>
                 task \in {"receive", "data", "exec"}
           /\ pc[task] = "rejecting" => job[task].reject # <<>> /\ job[task].next = 0
           /\ job[task].does = "start" => job[task].gen # 0 /\ job[task].next = 0
           /\ pc[task] = "starting" => job[task].gen # 0 /\ job[task].next = 0
           /\ job[task].after \in {"idle", "stale", "replaying", "over"}
           /\ job[task].does \in {"nothing", "start", "interrupt"}
<1>1. Fits(task, pc[task], job[task])
  BY DEF PlaceInv
<1>2. /\ job[task].after \in {"idle", "stale", "replaying", "over"}
      /\ job[task].does \in {"nothing", "start", "interrupt"}
      /\ task \in {"receive", "data", "exec", "watchdog", "shutdown"}
  BY DEF TypeOK, Jobs, Tasks
<1>3. QED
  BY <1>1, <1>2 DEF Fits, Answering

(* A move disturbs the place of no other task.                             *)
LEMMA MoveFits ==
    ASSUME TypeOK, PlaceInv, NEW task \in Tasks, NEW there, Moves(task, there),
           Fits(task, there, job'[task])
    PROVE  PlaceInv'
  BY MovesEffect DEF PlaceInv

(* The event a task handles is the next one of its queue.                  *)
LEMMA EventHandled ==
    ASSUME TypeOK, NEW task \in Tasks, Handles(task)
    PROVE  /\ Event(task) \in Events /\ Left(task) \in Seq(Events) /\ inbox' \in Seq(Events)
           /\ pc[task] = "idle" \/ pc[task] = "replaying"
           /\ pc[task] = "idle" =>
                 /\ task = "exec" /\ running = None /\ phase # "closed" /\ inbox # <<>>
                 /\ Event(task) = Head(inbox) /\ inbox' = Tail(inbox) /\ Left(task) = <<>>
                 /\ ToSet(inbox) = ToSet(inbox') \cup {Event(task)}
           /\ pc[task] = "replaying" =>
                 /\ task \in {"receive", "data", "exec"} /\ running = task
                 /\ job[task].todo # <<>> /\ inbox' = inbox
                 /\ Event(task) = Head(job[task].todo) /\ Left(task) = Tail(job[task].todo)
                 /\ ToSet(job[task].todo) = ToSet(Left(task)) \cup {Event(task)}
<1>1. inbox \in Seq(Events) /\ job[task].todo \in Seq(Events)
  BY DEF TypeOK, Jobs
<1>2. CASE pc[task] = "idle" /\ task = "exec"
  <2>1. inbox # <<>> /\ inbox' = Tail(inbox) /\ Event(task) = Head(inbox) /\ Left(task) = <<>>
        /\ running = None /\ phase # "closed"
    BY <1>2 DEF Handles, Event, Left
  <2>2. Left(task) \in Seq(Events)
    BY <2>1
  <2>3. QED
    BY <1>1, <1>2, <2>1, <2>2, TailSet
<1>3. CASE pc[task] = "replaying"
  <2>1. /\ job[task].todo # <<>> /\ inbox' = inbox
        /\ Event(task) = Head(job[task].todo) /\ Left(task) = Tail(job[task].todo)
        /\ task \in {"receive", "data", "exec"} /\ running = task
    BY <1>3 DEF Handles, Event, Left
  <2>2. QED
    BY <1>1, <1>3, <2>1, TailSet
<1>4. QED
  BY <1>2, <1>3 DEF Handles

LEMMA EventFields ==
    ASSUME NEW ev \in Events
    PROVE  /\ ev.turn \in Turns /\ ev.kind \in {"part", "tool", "done"}
           /\ ev.kind = "tool" => ev.what \in Reqs
           /\ ev.kind = "part" => ev.what \in Nat
  BY DEF Events

(* Nobody else is in the lock, or has started a turn in it.                *)
LEMMA AloneInLock ==
    ASSUME TypeOK, LockInv, PlaceInv, NEW task \in Tasks, Holds(task)
    PROVE  \A other \in Tasks : other # task =>
              /\ ~InLock(other) /\ ~Holds(other)
              /\ pc[other] \notin {"tombstoned", "terminal", "starting", "stale", "replaying"}
              /\ job[other].after \in {"idle", "over"}
              /\ job[other].after = "over" => job[other].does = "nothing"
<1>1. \A other \in Tasks : other # task => ~InLock(other) /\ ~Holds(other)
  BY DEF LockInv, Holds
<1>2. \A other \in Tasks : Fits(other, pc[other], job[other])
  BY DEF PlaceInv
<1>3. \A other \in Tasks : job[other].after \in {"idle", "stale", "replaying", "over"}
  BY DEF TypeOK, Jobs
<1>4. QED
  BY <1>1, <1>2, <1>3 DEF InLock, Fits

LEMMA NoneLeft == ToSet(<<>>) = {}
  BY DEF ToSet

LEMMA KnownEvents ==
    ASSUME TypeOK
    PROVE  Known \subseteq Events
<1>1. /\ inbox \in Seq(Events) /\ early \in Seq(Events)
      /\ \A task \in Tasks : job[task].todo \in Seq(Events)
  BY DEF TypeOK, Jobs
<1>2. \A q \in Seq(Events) : ToSet(q) \subseteq Events
  BY SeqFacts DEF ToSet
<1>3. QED
  BY <1>1, <1>2 DEF Known

(* A step that handles, drops or passes on events learns of no new one.    *)
LEMMA KnownShrinks ==
    ASSUME TypeOK, NEW task \in Tasks, NEW there, Moves(task, there),
           ToSet(inbox') \cup ToSet(early') \cup ToSet(job'[task].todo)
              \subseteq ToSet(inbox) \cup ToSet(early) \cup ToSet(job[task].todo)
    PROVE  Known' \subseteq Known
<1>1. \A other \in Tasks : other # task => job'[other] = job[other]
  BY MovesEffect
<1>2. \A ev : ev \in Known <=> \/ ev \in ToSet(inbox) \cup ToSet(early)
                              \/ \E other \in Tasks : ev \in ToSet(job[other].todo)
  BY DEF Known
<1>3. \A ev : ev \in Known' <=> \/ ev \in ToSet(inbox') \cup ToSet(early')
                               \/ \E other \in Tasks : ev \in ToSet(job'[other].todo)
  BY DEF Known
<1>4. QED
  BY <1>1, <1>2, <1>3

LEMMA KnownFrom ==
    ASSUME NEW more,
           ToSet(inbox') \cup ToSet(early') \subseteq ToSet(inbox) \cup ToSet(early) \cup more,
           \A task \in Tasks : ToSet(job'[task].todo) \subseteq ToSet(job[task].todo)
    PROVE  Known' \subseteq Known \cup more
<1>1. \A ev : ev \in Known <=> \/ ev \in ToSet(inbox) \cup ToSet(early)
                              \/ \E task \in Tasks : ev \in ToSet(job[task].todo)
  BY DEF Known
<1>2. \A ev : ev \in Known' <=> \/ ev \in ToSet(inbox') \cup ToSet(early')
                               \/ \E task \in Tasks : ev \in ToSet(job'[task].todo)
  BY DEF Known
<1>3. QED
  BY <1>1, <1>2

(* A queue of events, longer by one and shorter by one.                    *)
LEMMA EventQueues ==
    ASSUME TypeOK
    PROVE  /\ inbox # <<>> => /\ ToSet(inbox) = ToSet(Tail(inbox)) \cup {Head(inbox)}
                              /\ Tail(inbox) \in Seq(Events) /\ Head(inbox) \in Events
           /\ \A ev \in Events : /\ ToSet(Append(inbox, ev)) = ToSet(inbox) \cup {ev}
                                 /\ Append(inbox, ev) \in Seq(Events)
           /\ \A ev \in Events : /\ ToSet(Append(early, ev)) = ToSet(early) \cup {ev}
                                 /\ Append(early, ev) \in Seq(Events)
  BY TailSet, AppendSet DEF TypeOK

(* A task that has handled an event is ready for the next one.             *)
LEMMA BackJob ==
    ASSUME TypeOK, PlaceInv, NEW task \in Tasks, NEW gen, NEW t,
           Back(task, gen, t),
           pc[task] \in {"idle", "replaying"} \cup Answering
    PROVE  /\ lockQueue' = lockQueue
           /\ \A other \in Tasks : other # task =>
                  pc'[other] = pc[other] /\ job'[other] = job[other]
           /\ \/ /\ job[task].after = "idle" /\ job[task].does = "nothing"
                 /\ pc'[task] = "idle" /\ job'[task] = NoJob /\ running' = None
              \/ /\ pc[task] # "idle" /\ job[task].after = "replaying" /\ job[task].does = "start"
                 /\ pc'[task] = "replaying" /\ running' = task
                 /\ Is(job'[task], "start", gen, t, <<>>,
                       IF pc[task] = "replaying" THEN Left(task) ELSE job[task].todo,
                       "replaying", 0)
<1>1. Moves(task, job[task].after) /\ lockQueue' = lockQueue
  BY DEF Back
<1>2. /\ pc'[task] = job[task].after
      /\ \A other \in Tasks : other # task => pc'[other] = pc[other] /\ job'[other] = job[other]
  BY <1>1, MovesEffect
<1>3. CASE job[task].after = "idle" /\ job'[task] = NoJob /\ running' = None
  BY <1>1, <1>2, <1>3, PlaceFacts
<1>4. CASE /\ job[task].after = "replaying" /\ running' = task
           /\ Is(job'[task], job[task].does, gen, t, job[task].reject,
                 IF pc[task] = "replaying" THEN Tail(job[task].todo) ELSE job[task].todo,
                 job[task].after, 0)
  <2>1. pc[task] # "idle" /\ job[task].does = "start" /\ job[task].reject = <<>>
    BY <1>4, PlaceFacts
  <2>2. QED
    BY <1>1, <1>2, <1>4, <2>1 DEF Left
<1>5. QED
  BY <1>3, <1>4 DEF Back

(* A turn that is not known stays so when a step only touches known ones.  *)
LEMMA FreshStays ==
    ASSUME TypeOK, FreshInv, asked' = asked, startedFor' = startedFor, turnState' = turnState,
           reply' \in {reply, None}, owner'.turn \in {owner.turn, None},
           finished' \subseteq finished \cup {owner.turn},
           \A task \in Tasks : job'[task].turn \in {job[task].turn, owner.turn, None},
           \A u \in Turns : \/ interruptedFor'[u] = interruptedFor[u] \/ u = owner.turn
                            \/ \E task \in Tasks : u = job[task].turn,
           \A r \in Reqs : r \in crossed' \/ tool'[r] = "admitted" =>
              Ran(r) \/ asked[r] = owner.turn
    PROVE  FreshInv'
<1>1. ASSUME NEW u \in Turns, Fresh(u) PROVE Fresh(u)'
  <2>1. u # None
    BY Names
  <2>2. interruptedFor[u] = {} /\ startedFor[u] = 0 /\ owner.turn # u /\ u \notin finished
    BY <1>1 DEF Fresh
  <2>3. \A task \in Tasks : job[task].turn # u
    BY <1>1 DEF Fresh
  <2>4. \A r \in Reqs : asked[r] = u => ~Ran(r)
    BY <1>1 DEF Fresh, Ran
  <2>5. interruptedFor'[u] = {} /\ startedFor'[u] = 0 /\ owner'.turn # u /\ u \notin finished'
    BY <2>1, <2>2, <2>3
  <2>6. \A task \in Tasks : job'[task].turn # u
    BY <2>1, <2>2, <2>3
  <2>7. \A r \in Reqs : asked'[r] = u => r \notin crossed' /\ tool'[r] # "admitted"
    BY <2>2, <2>4
  <2>8. QED
    BY <2>5, <2>6, <2>7 DEF Fresh
<1>2. \A u \in Turns : turnState'[u] = "unborn" \/ reply' = u => Fresh(u)
  BY Names DEF FreshInv
<1>3. \A u \in Turns : turnState'[u] = "unborn" => reply' # u /\ \A r \in Reqs : asked'[r] # u
  BY Names DEF FreshInv
<1>4. QED
  BY <1>1, <1>2, <1>3 DEF FreshInv

(* It is one of those that are known, so a tool request is the turn's own. *)
LEMMA EventKnown ==
    ASSUME TypeOK, EventInv, NEW task \in Tasks, Handles(task)
    PROVE  /\ Event(task) \in Known
           /\ Event(task).kind = "tool" =>
                 Event(task).what \in Reqs /\ asked[Event(task).what] = Event(task).turn
<1>1. Event(task) \in ToSet(inbox) \cup ToSet(job[task].todo)
  BY EventHandled
<1>2. Event(task) \in Known
  BY <1>1 DEF Known
<1>3. QED
  BY <1>2, KnownEvents, EventFields DEF EventInv

LEMMA Shapes ==
    ASSUME TypeOK
    PROVE  /\ tool \in [Reqs -> {"unseen", "admitted", "refused", "calling", "claimed",
                                 "rejecting", "cancelled", "answered", "dropped"}]
           /\ asked \in [Reqs -> Turns \cup {None}]
           /\ interruptedFor \in [Turns -> SUBSET {"barge", "stale", "watchdog", "shutdown"}]
           /\ startedFor \in [Turns -> Nat]
           /\ owner \in [turn : Turns \cup {None}, gen : Nat, hadTool : BOOLEAN,
                         interrupting : BOOLEAN]
           /\ reply \in Turns \cup {None}
           /\ generation \in Nat /\ requested \in Nat /\ queued \in Nat
           /\ spoken \subseteq [turn : Turns, gen : Nat, said : SUBSET (Turns \X Nat)]
  BY DEF TypeOK

(* No interrupt meets a turn that ran a tool.                              *)
LEMMA RanStays ==
    ASSUME TypeOK, ToolInv, TurnInv, asked' = asked,
           \A r \in Reqs : r \in crossed' \/ tool'[r] = "admitted" =>
              \/ Ran(r)
              \/ /\ asked[r] = owner.turn /\ owner.turn # None /\ ~owner.interrupting
                 /\ owner'.hadTool,
           \A u \in Turns :
              \/ interruptedFor'[u] \cap {"barge", "stale"}
                   = interruptedFor[u] \cap {"barge", "stale"}
              \/ u = owner.turn /\ ~owner.hadTool /\ ~owner'.hadTool
              \/ \E task \in Tasks : job[task].after = "stale" /\ job[task].turn = u
              \/ Fresh(u),
           \/ /\ owner'.turn \in {owner.turn, None}
              /\ (owner.hadTool /\ owner'.turn # None => owner'.hadTool)
           \/ Fresh(owner'.turn),
           \A task \in Tasks : job'[task].after = "stale" =>
              \/ job[task].after = "stale" /\ job'[task].turn = job[task].turn
              \/ Fresh(job'[task].turn)
    PROVE  ToolInv'
<1>1. SUFFICES ASSUME NEW r \in Reqs, r \in crossed' \/ tool'[r] = "admitted"
      PROVE  /\ asked[r] # None
             /\ interruptedFor'[asked[r]] \cap {"barge", "stale"} = {}
             /\ owner'.turn = asked[r] => owner'.hadTool
             /\ \A task \in Tasks : job'[task].after = "stale" => job'[task].turn # asked[r]
  BY DEF ToolInv, Ran
<1>2. CASE Ran(r)
  <2>1. /\ asked[r] \in Turns
        /\ interruptedFor[asked[r]] \cap {"barge", "stale"} = {}
        /\ owner.turn = asked[r] => owner.hadTool
        /\ \A task \in Tasks : job[task].after = "stale" => job[task].turn # asked[r]
    BY <1>2, Shapes DEF ToolInv
  <2>2. ~Fresh(asked[r])
    BY <1>2 DEF Fresh, Ran
  <2>3. interruptedFor'[asked[r]] \cap {"barge", "stale"} = {}
    BY <2>1, <2>2
  <2>4. owner'.turn = asked[r] => owner'.hadTool
    BY <2>1, <2>2, Names
  <2>5. \A task \in Tasks : job'[task].after = "stale" => job'[task].turn # asked[r]
    BY <2>1, <2>2
  <2>6. QED
    BY <2>1, <2>3, <2>4, <2>5, Names
<1>3. CASE /\ asked[r] = owner.turn /\ owner.turn # None /\ ~owner.interrupting
           /\ owner'.hadTool
  <2>1. interruptedFor[owner.turn] = {} /\ owner.turn \in Turns
    BY <1>3, Shapes DEF TurnInv
  <2>2. ~Fresh(owner.turn)
    BY DEF Fresh
  <2>3. QED
    BY <1>3, <2>1, <2>2 DEF TurnInv
<1>4. QED
  BY <1>1, <1>2, <1>3

LEMMA JobShape ==
    ASSUME TypeOK
    PROVE  job \in [Tasks -> Jobs]
  BY DEF TypeOK

(* What a task wants, by where it is.                                      *)
LEMMA WantsFacts ==
    ASSUME TypeOK, PlaceInv, NEW task \in Tasks
    PROVE  /\ Wants(task) \in Nat
           /\ pc[task] \in {"idle", "over", "rejecting", "stale", "replaying"} => Wants(task) = 0
           /\ task \in {"watchdog", "shutdown"} => Wants(task) = 0
           /\ pc[task] \in Answering => Wants(task) = job[task].next
           /\ pc[task] \in {"enter", "locking", "tombstoned", "terminal", "starting"} =>
                 Wants(task) = IF job[task].does = "start" THEN job[task].gen ELSE 0
<1>1. Fits(task, pc[task], job[task])
  BY DEF PlaceInv
<1>2. /\ job[task].gen \in Nat /\ job[task].next \in Nat
      /\ job[task].after \in {"idle", "stale", "replaying", "over"}
      /\ job[task].does \in {"nothing", "start", "interrupt"}
  BY DEF TypeOK, Jobs
<1>3. Wants(task) \in Nat
  BY <1>2 DEF Wants
<1>4. pc[task] \in {"idle", "over", "rejecting", "stale", "replaying"} => Wants(task) = 0
  BY <1>1, <1>2 DEF Wants, Fits, Answering
<1>5. task \in {"watchdog", "shutdown"} => Wants(task) = 0
  BY <1>1, <1>2 DEF Wants, Fits, Answering
<1>6. pc[task] \in Answering => Wants(task) = job[task].next
  BY <1>1, <1>2 DEF Wants, Fits, Answering
<1>7. pc[task] \in {"enter", "locking", "tombstoned", "terminal", "starting"} =>
         Wants(task) = IF job[task].does = "start" THEN job[task].gen ELSE 0
  BY <1>1, <1>2 DEF Wants, Fits, Answering
<1>8. QED
  BY <1>3, <1>4, <1>5, <1>6, <1>7

LEMMA MoveWants ==
    ASSUME TypeOK, NEW task \in Tasks, NEW there, Moves(task, there)
    PROVE  \A other \in Tasks : other # task => Wants(other)' = Wants(other)
  BY MovesEffect DEF Wants

(* A request that moves with nobody, or is given up, stays in one place.   *)
LEMMA TokenStays ==
    ASSUME TypeOK, PlaceInv, TokenInv, NEW task \in Tasks,
           \A other \in Tasks : other # task => Wants(other)' = Wants(other),
           Wants(task)' \in {0, Wants(task)}, queued' \in {0, queued}, startedFor' = startedFor
    PROVE  TokenInv'
<1>1. \A other \in Tasks : Wants(other)' \in {0, Wants(other)}
  OBVIOUS
<1>2. \A one, other \in Tasks : one # other /\ Wants(one)' # 0 => Wants(one)' # Wants(other)'
  BY <1>1 DEF TokenInv
<1>3. \A one \in Tasks : Wants(one)' # 0 =>
         Wants(one)' # queued' /\ \A t \in Turns : startedFor'[t] # Wants(one)'
  BY <1>1 DEF TokenInv
<1>4. /\ queued' # 0 => \A t \in Turns : startedFor'[t] # queued'
      /\ \A t, u \in Turns : startedFor'[t] = startedFor'[u] /\ t # u => startedFor'[t] = 0
  BY DEF TokenInv
<1>5. QED
  BY <1>2, <1>3, <1>4 DEF TokenInv

(* A task without a job wants nothing, and one whose job is alike wants    *)
(* the same.                                                               *)
LEMMA WantsNext ==
    ASSUME NEW task \in Tasks
    PROVE  /\ job'[task] = NoJob => Wants(task)' = 0
           /\ Alike(job'[task], job[task]) => Wants(task)' = Wants(task)
           /\ \A t, reject, todo :
                 Is(job'[task], job[task].does, job[task].gen, t, reject, todo, job[task].after,
                    job[task].next) => Wants(task)' = Wants(task)
           /\ job'[task] = job[task] => Wants(task)' = Wants(task)
           /\ \A gen : Is(job'[task], "start", gen, None, <<>>, <<>>, "idle", 0) =>
                 Wants(task)' = gen
           /\ job'[task].does = "interrupt" => Wants(task)' = 0
           /\ job'[task].does = "start" /\ job'[task].after # "idle" => Wants(task)' = 0
           /\ job'[task].does = "nothing" => Wants(task)' = job'[task].next
<1>1. /\ job'[task].does = "interrupt" => Wants(task)' = 0
      /\ job'[task].does = "start" /\ job'[task].after # "idle" => Wants(task)' = 0
      /\ job'[task].does = "nothing" => Wants(task)' = job'[task].next
      /\ job'[task].does = "start" /\ job'[task].after = "idle" => Wants(task)' = job'[task].gen
  BY DEF Wants
<1>2. Alike(job'[task], job[task]) => Wants(task)' = Wants(task)
  BY DEF Wants, Alike, Is
<1>3. job'[task] = job[task] => Wants(task)' = Wants(task)
  BY DEF Wants
<1>4. job'[task] = NoJob => Wants(task)' = 0
  BY <1>1, NoJobFields DEF Is
<1>5. \A t, reject, todo :
         Is(job'[task], job[task].does, job[task].gen, t, reject, todo, job[task].after,
            job[task].next) => Wants(task)' = Wants(task)
  BY DEF Wants, Is
<1>6. QED
  BY <1>1, <1>2, <1>3, <1>4, <1>5 DEF Is

LEMMA BackWants ==
    ASSUME TypeOK, PlaceInv, NEW task \in Tasks, NEW gen, NEW t, Back(task, gen, t),
           pc[task] \in {"idle", "replaying"} \cup Answering
    PROVE  /\ \A other \in Tasks : other # task => Wants(other)' = Wants(other)
           /\ Wants(task)' = 0
<1>1. /\ \A other \in Tasks : other # task => job'[other] = job[other]
      /\ job'[task] = NoJob \/ (job'[task].does = "start" /\ job'[task].after = "replaying")
  BY BackJob DEF Is
<1>2. QED
  BY <1>1, WantsNext

LEMMA MoveType ==
    ASSUME TypeOK, NEW task \in Tasks, NEW there \in Waits \cup {"idle", "replaying", "over"},
           Moves(task, there)
    PROVE  TaskType'
  BY DEF TypeOK, TaskType, Moves

LEMMA NoEvents == <<>> \in Seq(Events) /\ Len(<<>>) <= MaxEarly
  BY BoundsAssumption

LEMMA ReqsFacts ==
    /\ \A events, r : r \in ReqsOf(events) <=> \E ev \in events : ev.kind = "tool" /\ r = ev.what
    /\ \A one, two : ReqsOf(one \cup two) = ReqsOf(one) \cup ReqsOf(two)
    /\ \A ev : ReqsOf({ev}) = IF ev.kind = "tool" THEN {ev.what} ELSE {}
    /\ ReqsOf({}) = {}
  BY DEF ReqsOf

(* A step of one task forgets no request if it forgets none of those that  *)
(* are to come and those that the task has at hand.                        *)
LEMMA WaitsOn ==
    ASSUME TypeOK, NEW task \in Tasks, NEW there, Moves(task, there), ForgottenInv,
           failure => failure', asked' = asked,
           \A r \in Reqs : tool'[r] = "unseen" =>
              /\ tool[r] = "unseen"
              /\ r \in Coming \cup Awaits(task) => r \in Coming' \cup Awaits(task)'
    PROVE  ForgottenInv'
<1>1. \A other \in Tasks : other # task => Awaits(other)' = Awaits(other)
  BY MovesEffect DEF Awaits
<1>2. QED
  BY <1>1 DEF ForgottenInv

LEMMA AwaitsOn ==
    ASSUME TypeOK, NEW task \in Tasks, NEW there, Moves(task, there), ForgottenInv,
           failure => failure', asked' = asked, tool' = tool, inbox' = inbox, early' = early,
           job'[task].reject = job[task].reject, job'[task].todo = job[task].todo
    PROVE  ForgottenInv'
<1>1. Awaits(task)' = Awaits(task) /\ Coming' = Coming
  BY DEF Awaits, Coming
<1>2. QED
  BY <1>1, WaitsOn

(* The lock has one holder, the head of its queue.                         *)
LEMMA LockStep ==
    TypeOK /\ PlaceInv /\ StartInv /\ LockInv /\ [Steps]_vars => LockInv'
<1> SUFFICES ASSUME TypeOK, PlaceInv, StartInv, LockInv, [Steps]_vars PROVE LockInv'
  OBVIOUS
<1> USE DEF userVars, turnVars, taskVars, toolVars, ownerVars, serverVars, speechVars,
            interruptVars
<1>1. ASSUME NotesTurn \/ Buffers \/ RendersOn \/ MayFail \/ TearsDownAnswers
      PROVE  LockInv'
  <2>1. UNCHANGED <<pc, job, lockQueue, running>>
    BY <1>1 DEF NotesTurn, Buffers, RendersOn, MayFail, TearsDownAnswers
  <2>2. QED
    BY <2>1 DEF LockInv, InLock, Holds
<1>2. ASSUME NEW r \in Reqs, CallsTool(r) \/ SettlesTool(r)
      PROVE  LockInv'
  <2>1. UNCHANGED <<pc, job, lockQueue, running>>
    BY <1>2 DEF CallsTool, SettlesTool
  <2>2. QED
    BY <2>1 DEF LockInv, InLock, Holds
<1>3. ASSUME NEW t \in Turns, Takes(t)
      PROVE  LockInv'
  <2>1. UNCHANGED <<pc, job, lockQueue, running>>
    BY <1>3 DEF Takes
  <2>2. QED
    BY <2>1 DEF LockInv, InLock, Holds
<1>4. ASSUME NEW t \in Turns, NEW r \in Reqs, AsksTool(t, r)
      PROVE  LockInv'
  <2>1. UNCHANGED <<pc, job, lockQueue, running>>
    BY <1>4 DEF AsksTool
  <2>2. QED
    BY <2>1 DEF LockInv, InLock, Holds
<1>5. ASSUME NEW t \in Turns, NEW ev \in Events, Says(t, ev)
      PROVE  LockInv'
  <2>1. UNCHANGED <<pc, job, lockQueue, running>>
    BY <1>5 DEF Says
  <2>2. QED
    BY <2>1 DEF LockInv, InLock, Holds
<1>6. ASSUME NEW task \in Tasks, AsksTurn(task) PROVE LockInv'
  BY <1>6, MovesEffect, HoldsKept DEF AsksTurn, LockInv, InLock, Answering
<1>7. ASSUME NEW task \in Tasks, AsksEnd(task) PROVE LockInv'
  BY <1>7, MovesEffect, HoldsKept
     DEF AsksEnd, LockInv, InLock, Answering, PlaceInv, StartInv
<1>8. ASSUME NEW task \in Tasks, Asks(task) PROVE LockInv'
  BY <1>8, MovesEffect DEF Asks, Alike, Joins, QueueOK, LockInv, InLock, Answering
<1>9. ASSUME NEW task \in Tasks, GivesBack(task) PROVE LockInv'
  BY <1>9, MovesEffect, Names
     DEF GivesBack, GiveUp, Frees, QueueOK, LockInv, InLock, Answering, PlaceInv, StartInv,
         Tasks
<1>10. ASSUME NEW task \in Tasks, OrdersTurn(task) PROVE LockInv'
  BY <1>10, MovesEffect, HoldsKept DEF OrdersTurn, Alike, LockInv, InLock
<1>11. ASSUME NEW task \in Tasks, TombstonesTurn(task) PROVE LockInv'
  BY <1>11, MovesEffect, HoldsKept DEF TombstonesTurn, Interrupted, LockInv, InLock
<1>12. ASSUME NEW task \in Tasks, Accepted(task) PROVE LockInv'
  BY <1>12, MovesEffect, HoldsKept DEF Accepted, Alike, LockInv, InLock
<1>13. ASSUME NEW task \in Tasks, LateRejects(task) PROVE LockInv'
  BY <1>13, MovesEffect, HoldsKept DEF LateRejects, Starts, Is, Rejecting, LockInv, InLock
<1>14. ASSUME NEW task \in Tasks, LateInterrupts(task) PROVE LockInv'
  BY <1>14, MovesEffect, HoldsKept DEF LateInterrupts, Interrupted, Starts, LockInv, InLock
<1>15. ASSUME NEW task \in Tasks, OwnsRejects(task) PROVE LockInv'
  BY <1>15, MovesEffect, HoldsKept
     DEF OwnsRejects, Starts, Is, Rejecting, Owns, LockInv, InLock
<1>16. ASSUME NEW task \in Tasks, OwnsReplays(task) PROVE LockInv'
  BY <1>16, MovesEffect, HoldsKept, Names DEF OwnsReplays, Starts, Owns, LockInv, InLock
<1>17. ASSUME NEW task \in Tasks, WritesNext(task) PROVE LockInv'
  BY <1>17, MovesEffect, HoldsKept DEF WritesNext, Writes, Is, LockInv, InLock
<1>18. ASSUME NEW task \in Tasks, WritesOut(task) PROVE LockInv'
  BY <1>18, MovesEffect, HoldsKept
     DEF WritesOut, Writes, WritesLast, Wrote, Over, Frees, QueueOK, LockInv, InLock,
         Answering
<1>19. ASSUME NEW task \in Tasks, WritesOn(task) PROVE LockInv'
  BY <1>19, MovesEffect, HoldsKept, Names
     DEF WritesOn, Interrupted, Writes, WritesLast, Wrote, LockInv, InLock
<1>20. ASSUME NEW task \in Tasks, RefusesTool(task) PROVE LockInv'
  BY <1>20, MovesEffect, HoldsKept, PlaceFacts, Names
     DEF RefusesTool, Handles, Event, Is, Left, LockInv, InLock, PlaceInv, StartInv
<1>21. ASSUME NEW task \in Tasks, AdmitsTool(task) PROVE LockInv'
  BY <1>21, MovesEffect, HoldsKept, PlaceFacts
     DEF AdmitsTool, Handles, Event, Back, LockInv, InLock, Answering, PlaceInv, StartInv
<1>22. ASSUME NEW task \in Tasks, HearsPart(task) PROVE LockInv'
  BY <1>22, MovesEffect, HoldsKept, PlaceFacts
     DEF HearsPart, Handles, Event, Back, LockInv, InLock, Answering, PlaceInv, StartInv
<1>23. ASSUME NEW task \in Tasks, PassesEnd(task) PROVE LockInv'
  BY <1>23, MovesEffect, HoldsKept, PlaceFacts
     DEF PassesEnd, Handles, Event, Back, LockInv, InLock, Answering, PlaceInv, StartInv
<1>24. ASSUME NEW task \in Tasks, EndsUnspoken(task) PROVE LockInv'
  BY <1>24, MovesEffect, HoldsKept, PlaceFacts
     DEF EndsUnspoken, Handles, Event, Back, EndsTurn, LockInv, InLock, Answering, PlaceInv,
         StartInv
<1>25. ASSUME NEW task \in Tasks, EndsForNext(task) PROVE LockInv'
  <2>1. task \in {"receive", "data", "exec"} /\ pc[task] \in {"idle", "replaying"} /\ queued # 0
    BY <1>25 DEF EndsForNext, EndsTurn, Handles
  <2>2. pc[task] = "idle" /\ running = None
    BY <1>25, <2>1, PlaceFacts DEF StartInv, EndsForNext, EndsTurn, Handles
  <2>3. QED
    BY <1>25, <2>2, MovesEffect, HoldsKept, Names
       DEF EndsForNext, EndsTurn, Handles, Renews, LockInv, InLock, Answering
<1>26. ASSUME NEW task \in Tasks, EndsSession(task) PROVE LockInv'
  BY <1>26, MovesEffect, Names
     DEF EndsSession, Over, Frees, QueueOK, Handles, Event, EndsTurn, LockInv, InLock,
         Answering
<1>27. ASSUME NEW task \in Tasks, EndsForSpeech(task) PROVE LockInv'
  BY <1>27, MovesEffect, HoldsKept, PlaceFacts, Names
     DEF EndsForSpeech, Handles, Event, Is, Left, EndsTurn, LockInv, InLock, Answering,
         PlaceInv, StartInv
<1>28. ASSUME NEW task \in Tasks, Retired(task) PROVE LockInv'
  BY <1>28, MovesEffect, HoldsKept DEF Retired, Alike, Is, LockInv, InLock, Answering
<1>29. ASSUME NEW task \in Tasks, Submits(task) PROVE LockInv'
  BY <1>29, MovesEffect, HoldsKept DEF Submits, Alike, Is, LockInv, InLock, Answering
<1>30. ASSUME NEW task \in Tasks, AnswerOver(task) PROVE LockInv'
  BY <1>30, MovesEffect, HoldsKept, Names
     DEF AnswerOver, Back, EndsAnswer, LockInv, InLock, Answering
<1>31. ASSUME NEW task \in Tasks, AnswerForNext(task) PROVE LockInv'
  <2>1. pc[task] \in Answering /\ job[task].next # 0
    BY <1>31 DEF AnswerForNext, EndsAnswer, Answering
  <2>2. job[task].after = "idle" /\ pc[task] # "locking" /\ ~InLock(task)
    BY <2>1, PlaceFacts DEF InLock, Answering
  <2>3. QED
    BY <1>31, <2>2, MovesEffect, HoldsKept
       DEF AnswerForNext, EndsAnswer, Renews, LockInv, InLock, Answering
<1>32. ASSUME NEW task \in Tasks, FailsStart(task) PROVE LockInv'
  BY <1>32, MovesEffect, HoldsKept
     DEF FailsStart, Rejecting, Is, Over, Frees, QueueOK, LockInv, InLock, Answering
<1>33. ASSUME NEW task \in Tasks, Fails(task) PROVE LockInv'
  BY <1>33, MovesEffect DEF Fails, Over, Frees, QueueOK, Waits, LockInv, InLock, Answering
<1>34. ASSUME Overflows PROVE LockInv'
  BY <1>34, MovesEffect, HoldsKept, Names
     DEF Overflows, Rejecting, Is, LockInv, InLock, Answering
<1>35. ASSUME Expires PROVE LockInv'
  BY <1>35, MovesEffect
     DEF Expires, Joins, QueueOK, LockInv, InLock, Answering, PlaceInv, StartInv, Tasks
<1>36. ASSUME WatchdogTombstones PROVE LockInv'
  BY <1>36, MovesEffect, HoldsKept, Names
     DEF WatchdogTombstones, Interrupted, LockInv, InLock
<1>37. ASSUME WatchdogLeaves PROVE LockInv'
  BY <1>37, MovesEffect, Names
     DEF WatchdogLeaves, GiveUp, Frees, QueueOK, LockInv, InLock, Answering
<1>38. ASSUME TearsDown PROVE LockInv'
  BY <1>38, HoldsKept, PlaceFacts DEF TearsDown, LockInv, InLock, PlaceInv, StartInv
<1>39. ASSUME TearsDownLocks PROVE LockInv'
  BY <1>39, MovesEffect, Names
     DEF TearsDownLocks, Joins, QueueOK, LockInv, InLock, Answering
<1>40. ASSUME ShutdownTombstones PROVE LockInv'
  BY <1>40, MovesEffect, HoldsKept, Names
     DEF ShutdownTombstones, Interrupted, LockInv, InLock
<1>41. ASSUME Ends PROVE LockInv'
  <2>1. ToSet(lockQueue') = {} /\ running' = None /\ \A other \in Tasks : pc'[other] = "over"
    BY <1>41 DEF Ends, ToSet
  <2>2. QED
    BY <2>1, Names DEF LockInv, InLock, Answering
<1>42. CASE UNCHANGED vars
  BY <1>42 DEF vars, LockInv, InLock, Holds
<1> QED
  BY <1>1, <1>2, <1>3, <1>4, <1>5, <1>6, <1>7, <1>8, <1>9, <1>10, <1>11, <1>12, <1>13,
     <1>14, <1>15, <1>16, <1>17, <1>18, <1>19, <1>20, <1>21, <1>22, <1>23, <1>24, <1>25,
     <1>26, <1>27, <1>28, <1>29, <1>30, <1>31, <1>32, <1>33, <1>34, <1>35, <1>36, <1>37,
     <1>38, <1>39, <1>40, <1>41, <1>42
     DEF Steps

(* Every task is where its job is.                                         *)
LEMMA PlaceStep ==
    TypeOK /\ PhaseInv /\ StartInv /\ OwnerInv /\ PlaceInv /\ [Steps]_vars => PlaceInv'
<1> SUFFICES ASSUME TypeOK, PhaseInv, StartInv, OwnerInv, PlaceInv, [Steps]_vars
             PROVE  PlaceInv'
  OBVIOUS
<1> USE DEF userVars, turnVars, taskVars, toolVars, ownerVars, serverVars, speechVars,
            interruptVars
<1>1. ASSUME NotesTurn \/ Buffers \/ RendersOn \/ MayFail \/ TearsDownAnswers
      PROVE  PlaceInv'
  <2>1. UNCHANGED <<pc, job>>
    BY <1>1 DEF NotesTurn, Buffers, RendersOn, MayFail, TearsDownAnswers
  <2>2. QED
    BY <2>1 DEF PlaceInv
<1>2. ASSUME NEW r \in Reqs, CallsTool(r) \/ SettlesTool(r)
      PROVE  PlaceInv'
  <2>1. UNCHANGED <<pc, job>>
    BY <1>2 DEF CallsTool, SettlesTool
  <2>2. QED
    BY <2>1 DEF PlaceInv
<1>3. ASSUME NEW t \in Turns, Takes(t)
      PROVE  PlaceInv'
  <2>1. UNCHANGED <<pc, job>>
    BY <1>3 DEF Takes
  <2>2. QED
    BY <2>1 DEF PlaceInv
<1>4. ASSUME NEW t \in Turns, NEW r \in Reqs, AsksTool(t, r)
      PROVE  PlaceInv'
  <2>1. UNCHANGED <<pc, job>>
    BY <1>4 DEF AsksTool
  <2>2. QED
    BY <2>1 DEF PlaceInv
<1>5. ASSUME NEW t \in Turns, NEW ev \in Events, Says(t, ev)
      PROVE  PlaceInv'
  <2>1. UNCHANGED <<pc, job>>
    BY <1>5 DEF Says
  <2>2. QED
    BY <2>1 DEF PlaceInv
<1>6. ASSUME NEW task \in Tasks, AsksTurn(task) PROVE PlaceInv'
  <2>1. generation \in Nat /\ generation' # 0
    BY <1>6 DEF AsksTurn, TypeOK
  <2>2. Fits(task, pc'[task], job'[task])
    BY <1>6, <2>1, MovesEffect DEF AsksTurn, Fits, Is
  <2>3. QED
    BY <1>6, <2>2, MovesEffect, MoveFits DEF AsksTurn
<1>7. ASSUME NEW task \in Tasks, AsksEnd(task) PROVE PlaceInv'
  <2>1. Fits(task, pc[task], job[task])
    BY Names DEF PlaceInv
  <2>2. Fits(task, pc'[task], job'[task])
    BY <1>7, <2>1, MovesEffect DEF AsksEnd, Is, Fits
  <2>3. QED
    BY <1>7, <2>2, MovesEffect, MoveFits DEF AsksEnd
<1>8. ASSUME NEW task \in Tasks, Asks(task) PROVE PlaceInv'
  <2>1. Fits(task, pc[task], job[task])
    BY Names DEF PlaceInv
  <2>2. Fits(task, pc'[task], job'[task])
    BY <1>8, <2>1, MovesEffect DEF Asks, Alike, Is, Fits, Answering
  <2>3. QED
    BY <1>8, <2>2, MovesEffect, MoveFits DEF Asks, Alike
<1>9. ASSUME NEW task \in Tasks, GivesBack(task) PROVE PlaceInv'
  <2>1. Fits(task, pc[task], job[task])
    BY Names DEF PlaceInv
  <2>2. Fits(task, pc'[task], job'[task])
    BY <1>9, <2>1, MovesEffect, NoJobFields DEF GivesBack, GiveUp, Fits, Is
  <2>3. QED
    BY <1>9, <2>2, MovesEffect, MoveFits DEF GivesBack, GiveUp
<1>10. ASSUME NEW task \in Tasks, OrdersTurn(task) PROVE PlaceInv'
  <2>1. Fits(task, pc[task], job[task])
    BY Names DEF PlaceInv
  <2>2. Fits(task, pc'[task], job'[task])
    BY <1>10, <2>1, MovesEffect DEF OrdersTurn, Alike, Is, Fits, Answering
  <2>3. QED
    BY <1>10, <2>2, MovesEffect, MoveFits DEF OrdersTurn, Alike
<1>11. ASSUME NEW task \in Tasks, TombstonesTurn(task) PROVE PlaceInv'
  <2>1. Fits(task, pc[task], job[task])
    BY Names DEF PlaceInv
  <2>2. Fits(task, pc'[task], job'[task])
    BY <1>11, <2>1, MovesEffect DEF TombstonesTurn, Is, Fits, Answering
  <2>3. QED
    BY <1>11, <2>2, MovesEffect, MoveFits DEF TombstonesTurn
<1>12. ASSUME NEW task \in Tasks, Accepted(task) PROVE PlaceInv'
  <2>1. Fits(task, pc[task], job[task])
    BY Names DEF PlaceInv
  <2>2. Fits(task, pc'[task], job'[task])
    BY <1>12, <2>1, MovesEffect DEF Accepted, Alike, Is, Fits, Answering
  <2>3. QED
    BY <1>12, <2>2, MovesEffect, MoveFits DEF Accepted, Alike
<1>13. ASSUME NEW task \in Tasks, LateRejects(task) PROVE PlaceInv'
  <2>1. Fits(task, pc[task], job[task])
    BY Names DEF PlaceInv
  <2>2. Fits(task, pc'[task], job'[task])
    BY <1>13, <2>1, MovesEffect, PlaceFacts DEF LateRejects, Starts, Is, Rejecting, Fits
  <2>3. QED
    BY <1>13, <2>2, MovesEffect, MoveFits DEF LateRejects, Starts, Rejecting
<1>14. ASSUME NEW task \in Tasks, LateInterrupts(task) PROVE PlaceInv'
  <2>1. Fits(task, pc[task], job[task])
    BY Names DEF PlaceInv
  <2>2. Fits(task, pc'[task], job'[task])
    BY <1>14, <2>1, MovesEffect, PlaceFacts DEF LateInterrupts, Is, Starts, Fits
  <2>3. QED
    BY <1>14, <2>2, MovesEffect, MoveFits DEF LateInterrupts, Starts
<1>15. ASSUME NEW task \in Tasks, OwnsRejects(task) PROVE PlaceInv'
  <2>1. Fits(task, pc[task], job[task])
    BY Names DEF PlaceInv
  <2>2. Fits(task, pc'[task], job'[task])
    BY <1>15, <2>1, MovesEffect, PlaceFacts
       DEF OwnsRejects, Starts, Is, Rejecting, Owns, Fits
  <2>3. QED
    BY <1>15, <2>2, MovesEffect, MoveFits DEF OwnsRejects, Starts, Rejecting, Owns
<1>16. ASSUME NEW task \in Tasks, OwnsReplays(task) PROVE PlaceInv'
  <2>1. Fits(task, pc[task], job[task])
    BY Names DEF PlaceInv
  <2>2. Fits(task, pc'[task], job'[task])
    BY <1>16, <2>1, MovesEffect, PlaceFacts DEF OwnsReplays, Starts, Is, Owns, Fits
  <2>3. QED
    BY <1>16, <2>2, MovesEffect, MoveFits DEF OwnsReplays, Starts, Owns
<1>17. ASSUME NEW task \in Tasks, WritesNext(task) PROVE PlaceInv'
  <2>1. Fits(task, pc[task], job[task])
    BY Names DEF PlaceInv
  <2>2. Fits(task, pc'[task], job'[task])
    BY <1>17, <2>1, MovesEffect DEF WritesNext, Writes, Is, Fits
  <2>3. QED
    BY <1>17, <2>2, MovesEffect, MoveFits DEF WritesNext, Writes
<1>18. ASSUME NEW task \in Tasks, WritesOut(task) PROVE PlaceInv'
  <2>1. Fits(task, pc[task], job[task])
    BY Names DEF PlaceInv
  <2>2. Fits(task, pc'[task], job'[task])
    BY <1>18, <2>1, MovesEffect, NoJobFields
       DEF WritesOut, Writes, WritesLast, Over, Fits, Is
  <2>3. QED
    BY <1>18, <2>2, MovesEffect, MoveFits DEF WritesOut, Writes, WritesLast, Over
<1>19. ASSUME NEW task \in Tasks, WritesOn(task) PROVE PlaceInv'
  <2>1. Fits(task, pc[task], job[task])
    BY Names DEF PlaceInv
  <2>2. Fits(task, pc'[task], job'[task])
    BY <1>19, <2>1, MovesEffect DEF WritesOn, Is, Writes, WritesLast, Fits
  <2>3. QED
    BY <1>19, <2>2, MovesEffect, MoveFits DEF WritesOn, Writes, WritesLast
<1>20. ASSUME NEW task \in Tasks, RefusesTool(task) PROVE PlaceInv'
  <2>1. Fits(task, pc[task], job[task])
    BY Names DEF PlaceInv
  <2>2. Fits(task, pc'[task], job'[task])
    BY <1>20, <2>1, MovesEffect DEF RefusesTool, Handles, Is, Left, Fits, Answering
  <2>3. QED
    BY <1>20, <2>2, MovesEffect, MoveFits DEF RefusesTool, Handles, Left
<1>21. ASSUME NEW task \in Tasks, AdmitsTool(task) PROVE PlaceInv'
  <2>1. Fits(task, pc[task], job[task])
    BY Names DEF PlaceInv
  <2>2. Fits(task, pc'[task], job'[task])
    BY <1>21, <2>1, MovesEffect, NoJobFields DEF AdmitsTool, Handles, Back, Is, Fits
  <2>3. QED
    BY <1>21, <2>2, MovesEffect, MoveFits DEF AdmitsTool, Handles, Back
<1>22. ASSUME NEW task \in Tasks, HearsPart(task) PROVE PlaceInv'
  <2>1. Fits(task, pc[task], job[task])
    BY Names DEF PlaceInv
  <2>2. Fits(task, pc'[task], job'[task])
    BY <1>22, <2>1, MovesEffect, NoJobFields DEF HearsPart, Handles, Back, Is, Fits
  <2>3. QED
    BY <1>22, <2>2, MovesEffect, MoveFits DEF HearsPart, Handles, Back
<1>23. ASSUME NEW task \in Tasks, PassesEnd(task) PROVE PlaceInv'
  <2>1. Fits(task, pc[task], job[task])
    BY Names DEF PlaceInv
  <2>2. Fits(task, pc'[task], job'[task])
    BY <1>23, <2>1, MovesEffect, NoJobFields DEF PassesEnd, Handles, Back, Is, Fits
  <2>3. QED
    BY <1>23, <2>2, MovesEffect, MoveFits DEF PassesEnd, Handles, Back
<1>24. ASSUME NEW task \in Tasks, EndsUnspoken(task) PROVE PlaceInv'
  <2>1. Handles(task) /\ owner.turn # None
    BY <1>24, EventHandled, EventFields, Names DEF EndsUnspoken, EndsTurn
  <2>2. Fits(task, pc[task], job[task]) /\ pc[task] \in {"idle", "replaying"}
    BY <2>1, EventHandled DEF PlaceInv
  <2>3. owner.gen # 0
    BY <2>1 DEF OwnerInv
  <2>4. job[task].after = "replaying" => queued = 0
    BY <2>1, <2>2 DEF StartInv, Fits
  <2>5. Fits(task, pc'[task], job'[task])
    BY <1>24, <2>1, <2>2, <2>3, <2>4, MovesEffect, NoJobFields
       DEF EndsUnspoken, Back, Is, EndsTurn, Fits
  <2>6. QED
    BY <1>24, <2>5, MovesEffect, MoveFits DEF EndsUnspoken, Back, EndsTurn
<1>25. ASSUME NEW task \in Tasks, EndsForNext(task) PROVE PlaceInv'
  <2>1. Fits(task, pc[task], job[task])
    BY Names DEF PlaceInv
  <2>2. Fits(task, pc'[task], job'[task])
    BY <1>25, <2>1, MovesEffect DEF EndsForNext, Handles, EndsTurn, Renews, Is, Fits
  <2>3. QED
    BY <1>25, <2>2, MovesEffect, MoveFits DEF EndsForNext, Handles, EndsTurn, Renews
<1>26. ASSUME NEW task \in Tasks, EndsSession(task) PROVE PlaceInv'
  <2>1. Fits(task, pc[task], job[task])
    BY Names DEF PlaceInv
  <2>2. Fits(task, pc'[task], job'[task])
    BY <1>26, <2>1, MovesEffect, NoJobFields
       DEF EndsSession, Over, Handles, EndsTurn, Fits, Is
  <2>3. QED
    BY <1>26, <2>2, MovesEffect, MoveFits DEF EndsSession, Over, Handles, EndsTurn
<1>27. ASSUME NEW task \in Tasks, EndsForSpeech(task) PROVE PlaceInv'
  <2>1. Handles(task) /\ owner.turn # None
    BY <1>27, EventHandled, EventFields, Names DEF EndsForSpeech, EndsTurn
  <2>2. Fits(task, pc[task], job[task]) /\ pc[task] \in {"idle", "replaying"}
    BY <2>1, EventHandled DEF PlaceInv
  <2>3. owner.gen # 0
    BY <2>1 DEF OwnerInv
  <2>4. job[task].after = "replaying" => queued = 0
    BY <2>1, <2>2 DEF StartInv, Fits
  <2>5. Fits(task, pc'[task], job'[task])
    BY <1>27, <2>1, <2>2, <2>3, <2>4, EventHandled, MovesEffect, PlaceFacts
       DEF EndsForSpeech, Is, Left, EndsTurn, Fits, Answering
  <2>6. QED
    BY <1>27, <2>5, MovesEffect, MoveFits DEF EndsForSpeech, Left, EndsTurn
<1>28. ASSUME NEW task \in Tasks, Retired(task) PROVE PlaceInv'
  <2>1. Fits(task, pc[task], job[task])
    BY Names DEF PlaceInv
  <2>2. Fits(task, pc'[task], job'[task])
    BY <1>28, <2>1, MovesEffect DEF Retired, Alike, Is, Fits, Answering
  <2>3. QED
    BY <1>28, <2>2, MovesEffect, MoveFits DEF Retired, Alike
<1>29. ASSUME NEW task \in Tasks, Submits(task) PROVE PlaceInv'
  <2>1. Fits(task, pc[task], job[task])
    BY Names DEF PlaceInv
  <2>2. Fits(task, pc'[task], job'[task])
    BY <1>29, <2>1, MovesEffect DEF Submits, Alike, Is, Fits, Answering
  <2>3. QED
    BY <1>29, <2>2, MovesEffect, MoveFits DEF Submits, Alike
<1>30. ASSUME NEW task \in Tasks, AnswerOver(task) PROVE PlaceInv'
  <2>1. Fits(task, pc[task], job[task])
    BY Names DEF PlaceInv
  <2>2. Fits(task, pc'[task], job'[task])
    BY <1>30, <2>1, MovesEffect, NoJobFields DEF AnswerOver, Back, Is, EndsAnswer, Fits
  <2>3. QED
    BY <1>30, <2>2, MovesEffect, MoveFits DEF AnswerOver, Back, EndsAnswer
<1>31. ASSUME NEW task \in Tasks, AnswerForNext(task) PROVE PlaceInv'
  <2>1. Fits(task, pc[task], job[task])
    BY Names DEF PlaceInv
  <2>2. Fits(task, pc'[task], job'[task])
    BY <1>31, <2>1, MovesEffect DEF AnswerForNext, Renews, Is, EndsAnswer, Fits
  <2>3. QED
    BY <1>31, <2>2, MovesEffect, MoveFits DEF AnswerForNext, Renews, EndsAnswer
<1>32. ASSUME NEW task \in Tasks, FailsStart(task) PROVE PlaceInv'
  <2>1. Fits(task, pc[task], job[task])
    BY Names DEF PlaceInv
  <2>2. Fits(task, pc'[task], job'[task])
    BY <1>32, <2>1, MovesEffect, NoJobFields DEF FailsStart, Rejecting, Is, Over, Fits
  <2>3. QED
    BY <1>32, <2>2, MovesEffect, MoveFits DEF FailsStart, Rejecting, Over
<1>33. ASSUME NEW task \in Tasks, Fails(task) PROVE PlaceInv'
  <2>1. Fits(task, pc[task], job[task])
    BY Names DEF PlaceInv
  <2>2. Fits(task, pc'[task], job'[task])
    BY <1>33, <2>1, MovesEffect, NoJobFields DEF Fails, Over, Fits, Is
  <2>3. QED
    BY <1>33, <2>2, MovesEffect, MoveFits DEF Fails, Over
<1>34. ASSUME Overflows PROVE PlaceInv'
  <2>1. Fits("exec", pc["exec"], job["exec"])
    BY Names DEF PlaceInv
  <2>2. Fits("exec", pc'["exec"], job'["exec"])
    BY <1>34, <2>1, MovesEffect, NoJobFields, Names DEF Overflows, Rejecting, Is, Fits
  <2>3. QED
    BY <1>34, <2>2, MovesEffect, MoveFits, Names DEF Overflows, Rejecting
<1>35. ASSUME Expires PROVE PlaceInv'
  <2>1. Fits("watchdog", pc["watchdog"], job["watchdog"])
    BY Names DEF PlaceInv
  <2>2. Fits("watchdog", pc'["watchdog"], job'["watchdog"])
    BY <1>35, <2>1, MovesEffect, NoJobFields, Names DEF Expires, Fits, Is
  <2>3. QED
    BY <1>35, <2>2, MovesEffect, MoveFits, Names DEF Expires
<1>36. ASSUME WatchdogTombstones PROVE PlaceInv'
  <2>1. Fits("watchdog", pc["watchdog"], job["watchdog"])
    BY Names DEF PlaceInv
  <2>2. Fits("watchdog", pc'["watchdog"], job'["watchdog"])
    BY <1>36, <2>1, MovesEffect, Names DEF WatchdogTombstones, Fits, Answering
  <2>3. QED
    BY <1>36, <2>2, MovesEffect, MoveFits, Names DEF WatchdogTombstones
<1>37. ASSUME WatchdogLeaves PROVE PlaceInv'
  <2>1. Fits("watchdog", pc["watchdog"], job["watchdog"])
    BY Names DEF PlaceInv
  <2>2. Fits("watchdog", pc'["watchdog"], job'["watchdog"])
    BY <1>37, <2>1, MovesEffect, NoJobFields, Names DEF WatchdogLeaves, GiveUp, Fits, Is
  <2>3. QED
    BY <1>37, <2>2, MovesEffect, MoveFits, Names DEF WatchdogLeaves, GiveUp
<1>38. ASSUME TearsDown PROVE PlaceInv'
  <2>1. DEFINE j == [NoJob EXCEPT !.turn = owner.turn, !.gen = owner.gen]
  <2>2. /\ pc' = pc /\ pc["shutdown"] = "idle" /\ job'["shutdown"] = j
        /\ \A task \in Tasks : task # "shutdown" => job'[task] = job[task]
    BY <1>38, Names DEF TearsDown, PhaseInv, TypeOK
  <2>3. Is(j, "nothing", owner.gen, owner.turn, <<>>, <<>>, "idle", 0)
    BY JobOf DEF TypeOK
  <2>4. Fits("shutdown", pc'["shutdown"], job'["shutdown"])
    BY <2>2, <2>3 DEF Fits, Is
  <2>5. QED
    BY <2>2, <2>4 DEF PlaceInv
<1>39. ASSUME TearsDownLocks PROVE PlaceInv'
  <2>1. Fits("shutdown", pc["shutdown"], job["shutdown"])
    BY Names DEF PlaceInv
  <2>2. Fits("shutdown", pc'["shutdown"], job'["shutdown"])
    BY <1>39, <2>1, MovesEffect, Names DEF TearsDownLocks, Fits, Answering
  <2>3. QED
    BY <1>39, <2>2, MovesEffect, MoveFits, Names DEF TearsDownLocks
<1>40. ASSUME ShutdownTombstones PROVE PlaceInv'
  <2>1. Fits("shutdown", pc["shutdown"], job["shutdown"])
    BY Names DEF PlaceInv
  <2>2. Fits("shutdown", pc'["shutdown"], job'["shutdown"])
    BY <1>40, <2>1, MovesEffect, Names DEF ShutdownTombstones, Fits, Answering
  <2>3. QED
    BY <1>40, <2>2, MovesEffect, MoveFits, Names DEF ShutdownTombstones
<1>41. ASSUME Ends PROVE PlaceInv'
  <2>1. \A task \in Tasks : pc'[task] = "over" /\ job'[task] = NoJob
    BY <1>41 DEF Ends
  <2>2. \A task \in Tasks : Fits(task, "over", NoJob)
    BY NoJobFields DEF Fits, Is
  <2>3. QED
    BY <2>1, <2>2 DEF PlaceInv
<1>42. CASE UNCHANGED vars
  BY <1>42 DEF vars, PlaceInv
<1> QED
  BY <1>1, <1>2, <1>3, <1>4, <1>5, <1>6, <1>7, <1>8, <1>9, <1>10, <1>11, <1>12, <1>13,
     <1>14, <1>15, <1>16, <1>17, <1>18, <1>19, <1>20, <1>21, <1>22, <1>23, <1>24, <1>25,
     <1>26, <1>27, <1>28, <1>29, <1>30, <1>31, <1>32, <1>33, <1>34, <1>35, <1>36, <1>37,
     <1>38, <1>39, <1>40, <1>41, <1>42
     DEF Steps

(* How far the socket owner is.                                            *)
LEMMA PhaseStep ==
    TypeOK /\ PlaceInv /\ LockInv /\ PhaseInv /\ [Steps]_vars => PhaseInv'
<1> SUFFICES ASSUME TypeOK, PlaceInv, LockInv, PhaseInv, [Steps]_vars PROVE PhaseInv'
  OBVIOUS
<1> USE DEF userVars, turnVars, taskVars, toolVars, ownerVars, serverVars, speechVars,
            interruptVars
<1>1. ASSUME NotesTurn \/ Buffers \/ RendersOn
      PROVE  PhaseInv'
  <2>1. UNCHANGED <<pc, job, phase, failure>>
    BY <1>1 DEF NotesTurn, Buffers, RendersOn
  <2>2. QED
    BY <2>1 DEF PhaseInv
<1>2. ASSUME NEW r \in Reqs, CallsTool(r)
      PROVE  PhaseInv'
  <2>1. UNCHANGED <<pc, job, phase, failure>>
    BY <1>2 DEF CallsTool
  <2>2. QED
    BY <2>1 DEF PhaseInv
<1>3. ASSUME NEW t \in Turns, Takes(t)
      PROVE  PhaseInv'
  <2>1. UNCHANGED <<pc, job, phase, failure>>
    BY <1>3 DEF Takes
  <2>2. QED
    BY <2>1 DEF PhaseInv
<1>4. ASSUME NEW t \in Turns, NEW r \in Reqs, AsksTool(t, r)
      PROVE  PhaseInv'
  <2>1. UNCHANGED <<pc, job, phase, failure>>
    BY <1>4 DEF AsksTool
  <2>2. QED
    BY <2>1 DEF PhaseInv
<1>5. ASSUME NEW t \in Turns, NEW ev \in Events, Says(t, ev)
      PROVE  PhaseInv'
  <2>1. UNCHANGED <<pc, job, phase, failure>>
    BY <1>5 DEF Says
  <2>2. QED
    BY <2>1 DEF PhaseInv
<1>6. ASSUME NEW task \in Tasks, AsksTurn(task) PROVE PhaseInv'
  BY <1>6, MovesEffect, Names DEF AsksTurn, PhaseInv
<1>7. ASSUME NEW task \in Tasks, AsksEnd(task) PROVE PhaseInv'
  BY <1>7, MovesEffect, Names DEF AsksEnd, PhaseInv
<1>8. ASSUME NEW task \in Tasks, Asks(task) PROVE PhaseInv'
  BY <1>8, MovesEffect, Names DEF Asks, Alike, Joins, QueueOK, PhaseInv
<1>9. ASSUME NEW task \in Tasks, GivesBack(task) PROVE PhaseInv'
  BY <1>9, MovesEffect, Names DEF GivesBack, GiveUp, Frees, QueueOK, PhaseInv
<1>10. ASSUME NEW task \in Tasks, OrdersTurn(task) PROVE PhaseInv'
  BY <1>10, MovesEffect, Names DEF OrdersTurn, Alike, PhaseInv
<1>11. ASSUME NEW task \in Tasks, TombstonesTurn(task) PROVE PhaseInv'
  BY <1>11, MovesEffect, Names DEF TombstonesTurn, Interrupted, PhaseInv
<1>12. ASSUME NEW task \in Tasks, Accepted(task) PROVE PhaseInv'
  BY <1>12, MovesEffect, Names DEF Accepted, Alike, PhaseInv
<1>13. ASSUME NEW task \in Tasks, LateRejects(task) PROVE PhaseInv'
  BY <1>13, MovesEffect, Names DEF LateRejects, Starts, Rejecting, PhaseInv
<1>14. ASSUME NEW task \in Tasks, LateInterrupts(task) PROVE PhaseInv'
  BY <1>14, MovesEffect, Names DEF LateInterrupts, Interrupted, Starts, PhaseInv
<1>15. ASSUME NEW task \in Tasks, OwnsRejects(task) PROVE PhaseInv'
  BY <1>15, MovesEffect, Names DEF OwnsRejects, Starts, Rejecting, Owns, PhaseInv
<1>16. ASSUME NEW task \in Tasks, OwnsReplays(task) PROVE PhaseInv'
  BY <1>16, MovesEffect, Names DEF OwnsReplays, Starts, Owns, PhaseInv
<1>17. ASSUME NEW task \in Tasks, WritesNext(task) PROVE PhaseInv'
  BY <1>17, MovesEffect, Names DEF WritesNext, Writes, PhaseInv
<1>18. ASSUME NEW task \in Tasks, WritesOut(task) PROVE PhaseInv'
  BY <1>18, MovesEffect, Names
     DEF WritesOut, Writes, WritesLast, Wrote, Over, Frees, QueueOK, PhaseInv
<1>19. ASSUME NEW task \in Tasks, WritesOn(task) PROVE PhaseInv'
  BY <1>19, MovesEffect, Names
     DEF WritesOn, Interrupted, Writes, WritesLast, Wrote, PhaseInv
<1>20. ASSUME NEW task \in Tasks, RefusesTool(task) PROVE PhaseInv'
  BY <1>20, MovesEffect, Names DEF RefusesTool, Handles, Event, Left, PhaseInv
<1>21. ASSUME NEW task \in Tasks, AdmitsTool(task) PROVE PhaseInv'
  BY <1>21, MovesEffect, Names DEF AdmitsTool, Handles, Event, Back, PhaseInv
<1>22. ASSUME NEW task \in Tasks, HearsPart(task) PROVE PhaseInv'
  BY <1>22, MovesEffect, Names DEF HearsPart, Handles, Event, Back, PhaseInv
<1>23. ASSUME NEW task \in Tasks, PassesEnd(task) PROVE PhaseInv'
  BY <1>23, MovesEffect, Names DEF PassesEnd, Handles, Event, Back, PhaseInv
<1>24. ASSUME NEW task \in Tasks, EndsUnspoken(task) PROVE PhaseInv'
  BY <1>24, MovesEffect, Names DEF EndsUnspoken, Handles, Event, Back, EndsTurn, PhaseInv
<1>25. ASSUME NEW task \in Tasks, EndsForNext(task) PROVE PhaseInv'
  BY <1>25, MovesEffect, Names DEF EndsForNext, Handles, Event, EndsTurn, Renews, PhaseInv
<1>26. ASSUME NEW task \in Tasks, EndsSession(task) PROVE PhaseInv'
  BY <1>26, MovesEffect, Names
     DEF EndsSession, Over, Frees, QueueOK, Handles, Event, EndsTurn, PhaseInv
<1>27. ASSUME NEW task \in Tasks, EndsForSpeech(task) PROVE PhaseInv'
  BY <1>27, MovesEffect, Names DEF EndsForSpeech, Handles, Event, Left, EndsTurn, PhaseInv
<1>28. ASSUME NEW task \in Tasks, Retired(task) PROVE PhaseInv'
  BY <1>28, MovesEffect, Names DEF Retired, Alike, PhaseInv
<1>29. ASSUME NEW task \in Tasks, Submits(task) PROVE PhaseInv'
  BY <1>29, MovesEffect, Names DEF Submits, Alike, PhaseInv
<1>30. ASSUME NEW task \in Tasks, AnswerOver(task) PROVE PhaseInv'
  BY <1>30, MovesEffect, Names DEF AnswerOver, Back, EndsAnswer, PhaseInv
<1>31. ASSUME NEW task \in Tasks, AnswerForNext(task) PROVE PhaseInv'
  BY <1>31, MovesEffect, Names DEF AnswerForNext, Renews, EndsAnswer, PhaseInv
<1>32. ASSUME NEW task \in Tasks, FailsStart(task) PROVE PhaseInv'
  BY <1>32, MovesEffect, Names DEF FailsStart, Rejecting, Over, Frees, QueueOK, PhaseInv
<1>33. ASSUME NEW task \in Tasks, Fails(task) PROVE PhaseInv'
  BY <1>33, MovesEffect, Names DEF Fails, Over, Frees, QueueOK, Waits, PhaseInv
<1>34. ASSUME Overflows PROVE PhaseInv'
  BY <1>34, MovesEffect, Names DEF Overflows, Rejecting, PhaseInv
<1>35. ASSUME NEW r \in Reqs, SettlesTool(r) PROVE PhaseInv'
  BY <1>35, PlaceFacts DEF SettlesTool, PhaseInv
<1>36. ASSUME Expires PROVE PhaseInv'
  BY <1>36, MovesEffect, Names DEF Expires, Joins, QueueOK, PhaseInv
<1>37. ASSUME WatchdogTombstones PROVE PhaseInv'
  BY <1>37, MovesEffect, Names DEF WatchdogTombstones, Interrupted, PhaseInv
<1>38. ASSUME WatchdogLeaves PROVE PhaseInv'
  BY <1>38, MovesEffect, Names DEF WatchdogLeaves, GiveUp, Frees, QueueOK, PhaseInv
<1>39. ASSUME MayFail PROVE PhaseInv'
  BY <1>39, PlaceFacts DEF MayFail, PhaseInv
<1>40. ASSUME TearsDown PROVE PhaseInv'
  BY <1>40, PlaceFacts DEF TearsDown, PhaseInv
<1>41. ASSUME TearsDownAnswers PROVE PhaseInv'
  BY <1>41, PlaceFacts DEF TearsDownAnswers, PhaseInv
<1>42. ASSUME TearsDownLocks PROVE PhaseInv'
  BY <1>42, PlaceFacts DEF TearsDownLocks, Joins, QueueOK, PhaseInv
<1>43. ASSUME ShutdownTombstones PROVE PhaseInv'
  BY <1>43, PlaceFacts, Names DEF ShutdownTombstones, Interrupted, PhaseInv
<1>44. ASSUME Ends PROVE PhaseInv'
  BY <1>44, PlaceFacts DEF Ends, PhaseInv
<1>45. CASE UNCHANGED vars
  BY <1>45 DEF vars, PhaseInv
<1> QED
  BY <1>1, <1>2, <1>3, <1>4, <1>5, <1>6, <1>7, <1>8, <1>9, <1>10, <1>11, <1>12, <1>13,
     <1>14, <1>15, <1>16, <1>17, <1>18, <1>19, <1>20, <1>21, <1>22, <1>23, <1>24, <1>25,
     <1>26, <1>27, <1>28, <1>29, <1>30, <1>31, <1>32, <1>33, <1>34, <1>35, <1>36, <1>37,
     <1>38, <1>39, <1>40, <1>41, <1>42, <1>43, <1>44, <1>45
     DEF Steps

(* One turn/start is out at a time.                                        *)
LEMMA StartStep ==
    TypeOK /\ LockInv /\ PlaceInv /\ StartInv /\ [Steps]_vars => StartInv'
<1> SUFFICES ASSUME TypeOK, LockInv, PlaceInv, StartInv, [Steps]_vars PROVE StartInv'
  OBVIOUS
<1> USE DEF userVars, turnVars, taskVars, toolVars, ownerVars, serverVars, speechVars,
            interruptVars
<1>1. ASSUME NotesTurn \/ RendersOn \/ MayFail \/ TearsDownAnswers
      PROVE  StartInv'
  <2>1. UNCHANGED <<pc, job, starting, early, reply, queued, owner>>
    BY <1>1 DEF NotesTurn, RendersOn, MayFail, TearsDownAnswers
  <2>2. QED
    BY <2>1 DEF StartInv
<1>2. ASSUME NEW r \in Reqs, CallsTool(r) \/ SettlesTool(r)
      PROVE  StartInv'
  <2>1. UNCHANGED <<pc, job, starting, early, reply, queued, owner>>
    BY <1>2 DEF CallsTool, SettlesTool
  <2>2. QED
    BY <2>1 DEF StartInv
<1>3. ASSUME NEW t \in Turns, NEW r \in Reqs, AsksTool(t, r)
      PROVE  StartInv'
  <2>1. UNCHANGED <<pc, job, starting, early, reply, queued, owner>>
    BY <1>3 DEF AsksTool
  <2>2. QED
    BY <2>1 DEF StartInv
<1>4. ASSUME NEW t \in Turns, NEW ev \in Events, Says(t, ev)
      PROVE  StartInv'
  <2>1. UNCHANGED <<pc, job, starting, early, reply, queued, owner>>
    BY <1>4 DEF Says
  <2>2. QED
    BY <2>1 DEF StartInv
<1>5. ASSUME NEW task \in Tasks, AsksTurn(task) PROVE StartInv'
  BY <1>5, MovesEffect DEF AsksTurn, Is, StartInv
<1>6. ASSUME NEW task \in Tasks, AsksEnd(task) PROVE StartInv'
  BY <1>6, MovesEffect DEF AsksEnd, Is, StartInv, LockInv, PlaceInv, Tasks
<1>7. ASSUME NEW task \in Tasks, Asks(task) PROVE StartInv'
  BY <1>7, MovesEffect, PlaceFacts DEF Asks, Alike, Is, Joins, QueueOK, StartInv
<1>8. ASSUME NEW task \in Tasks, GivesBack(task) PROVE StartInv'
  <2>1. /\ pc[task] \in {"locking", "terminal", "stale", "replaying"} /\ Holds(task)
        /\ Moves(task, "idle") /\ job'[task] = NoJob
        /\ UNCHANGED <<owner, starting, early, reply>>
    BY <1>8 DEF GivesBack, GiveUp
  <2>2. /\ pc'[task] = "idle"
        /\ \A other \in Tasks : other # task => pc'[other] = pc[other] /\ job'[other] = job[other]
    BY <2>1, MovesEffect
  <2>3. QED
    BY <2>1, <2>2, AloneInLock, NoJobFields DEF StartInv, Is
<1>9. ASSUME NEW task \in Tasks, OrdersTurn(task) PROVE StartInv'
  BY <1>9, MovesEffect DEF OrdersTurn, Alike, StartInv
<1>10. ASSUME NEW task \in Tasks, TombstonesTurn(task) PROVE StartInv'
  BY <1>10, MovesEffect DEF TombstonesTurn, Is, Interrupted, StartInv
<1>11. ASSUME NEW task \in Tasks, Accepted(task) PROVE StartInv'
  BY <1>11, MovesEffect DEF Accepted, Alike, Is, StartInv
<1>12. ASSUME NEW task \in Tasks, LateRejects(task) PROVE StartInv'
  <2>1. Starts(task) /\ \E there \in {"rejecting", "stale", "replaying"} : Moves(task, there)
    BY <1>12 DEF LateRejects, Rejecting
  <2>2. /\ pc[task] = "starting" /\ starting' = FALSE /\ early' = <<>> /\ reply' = None
        /\ queued' = queued
    BY <2>1 DEF Starts
  <2>3. Holds(task) /\ job[task].does = "start" /\ queued = 0
    BY <2>2, PlaceFacts DEF LockInv, InLock, StartInv
  <2>4. /\ pc'[task] \in {"rejecting", "stale", "replaying"}
        /\ \A other \in Tasks : other # task => pc'[other] = pc[other] /\ job'[other] = job[other]
    BY <2>1, MovesEffect
  <2>5. QED
    BY <2>2, <2>3, <2>4, AloneInLock DEF StartInv
<1>13. ASSUME NEW task \in Tasks, LateInterrupts(task) PROVE StartInv'
  <2>1. Starts(task) /\ \E there \in {"rejecting", "stale", "replaying"} : Moves(task, there)
    BY <1>13 DEF LateInterrupts
  <2>2. /\ pc[task] = "starting" /\ starting' = FALSE /\ early' = <<>> /\ reply' = None
        /\ queued' = queued
    BY <2>1 DEF Starts
  <2>3. Holds(task) /\ job[task].does = "start" /\ queued = 0
    BY <2>2, PlaceFacts DEF LockInv, InLock, StartInv
  <2>4. /\ pc'[task] \in {"rejecting", "stale", "replaying"}
        /\ \A other \in Tasks : other # task => pc'[other] = pc[other] /\ job'[other] = job[other]
    BY <2>1, MovesEffect
  <2>5. QED
    BY <2>2, <2>3, <2>4, AloneInLock DEF StartInv
<1>14. ASSUME NEW task \in Tasks, OwnsRejects(task) PROVE StartInv'
  <2>1. Starts(task) /\ \E there \in {"rejecting", "stale", "replaying"} : Moves(task, there)
    BY <1>14 DEF OwnsRejects, Rejecting, Owns
  <2>2. /\ pc[task] = "starting" /\ starting' = FALSE /\ early' = <<>> /\ reply' = None
        /\ queued' = queued
    BY <2>1 DEF Starts
  <2>3. Holds(task) /\ job[task].does = "start" /\ queued = 0
    BY <2>2, PlaceFacts DEF LockInv, InLock, StartInv
  <2>4. /\ pc'[task] \in {"rejecting", "stale", "replaying"}
        /\ \A other \in Tasks : other # task => pc'[other] = pc[other] /\ job'[other] = job[other]
    BY <2>1, MovesEffect
  <2>5. QED
    BY <2>2, <2>3, <2>4, AloneInLock DEF StartInv
<1>15. ASSUME NEW task \in Tasks, OwnsReplays(task) PROVE StartInv'
  <2>1. Starts(task) /\ \E there \in {"rejecting", "stale", "replaying"} : Moves(task, there)
    BY <1>15 DEF OwnsReplays, Owns
  <2>2. /\ pc[task] = "starting" /\ starting' = FALSE /\ early' = <<>> /\ reply' = None
        /\ queued' = queued
    BY <2>1 DEF Starts
  <2>3. Holds(task) /\ job[task].does = "start" /\ queued = 0
    BY <2>2, PlaceFacts DEF LockInv, InLock, StartInv
  <2>4. /\ pc'[task] \in {"rejecting", "stale", "replaying"}
        /\ \A other \in Tasks : other # task => pc'[other] = pc[other] /\ job'[other] = job[other]
    BY <2>1, MovesEffect
  <2>5. QED
    BY <2>2, <2>3, <2>4, AloneInLock DEF StartInv
<1>16. ASSUME NEW task \in Tasks, WritesNext(task) PROVE StartInv'
  BY <1>16, MovesEffect DEF WritesNext, Writes, Is, StartInv, LockInv, PlaceInv
<1>17. ASSUME NEW task \in Tasks, WritesOut(task) PROVE StartInv'
  BY <1>17, MovesEffect, NoJobFields
     DEF WritesOut, Writes, WritesLast, Wrote, Over, Frees, QueueOK, StartInv, Is
<1>18. ASSUME NEW task \in Tasks, WritesOn(task) PROVE StartInv'
  BY <1>18, MovesEffect DEF WritesOn, Is, Interrupted, Writes, WritesLast, Wrote, StartInv
<1>19. ASSUME NEW task \in Tasks, RefusesTool(task) PROVE StartInv'
  BY <1>19, MovesEffect DEF RefusesTool, Handles, Event, Is, Left, StartInv
<1>20. ASSUME NEW task \in Tasks, AdmitsTool(task) PROVE StartInv'
  BY <1>20, MovesEffect, NoJobFields DEF AdmitsTool, Handles, Event, Back, Is, StartInv
<1>21. ASSUME NEW task \in Tasks, HearsPart(task) PROVE StartInv'
  BY <1>21, MovesEffect, NoJobFields DEF HearsPart, Handles, Event, Back, Is, StartInv
<1>22. ASSUME NEW task \in Tasks, PassesEnd(task) PROVE StartInv'
  BY <1>22, MovesEffect, NoJobFields DEF PassesEnd, Handles, Event, Back, Is, StartInv
<1>23. ASSUME NEW task \in Tasks, EndsUnspoken(task) PROVE StartInv'
  BY <1>23, MovesEffect
     DEF EndsUnspoken, Handles, Event, Back, EndsTurn, StartInv, LockInv, PlaceInv, Nobody
<1>24. ASSUME NEW task \in Tasks, EndsForNext(task) PROVE StartInv'
  BY <1>24, MovesEffect
     DEF EndsForNext, Handles, Event, EndsTurn, Renews, StartInv, LockInv, PlaceInv, Nobody
<1>25. ASSUME NEW task \in Tasks, EndsSession(task) PROVE StartInv'
  BY <1>25, MovesEffect
     DEF EndsSession, Over, Frees, QueueOK, Handles, Event, EndsTurn, StartInv, LockInv,
         PlaceInv, Nobody
<1>26. ASSUME NEW task \in Tasks, EndsForSpeech(task) PROVE StartInv'
  BY <1>26, MovesEffect
     DEF EndsForSpeech, Handles, Event, Left, EndsTurn, StartInv, LockInv, PlaceInv, Nobody
<1>27. ASSUME NEW task \in Tasks, Retired(task) PROVE StartInv'
  BY <1>27, MovesEffect DEF Retired, Alike, Is, StartInv
<1>28. ASSUME NEW task \in Tasks, Submits(task) PROVE StartInv'
  BY <1>28, MovesEffect DEF Submits, Alike, Is, StartInv
<1>29. ASSUME NEW task \in Tasks, AnswerOver(task) PROVE StartInv'
  BY <1>29, MovesEffect, NoJobFields DEF AnswerOver, Back, Is, EndsAnswer, StartInv
<1>30. ASSUME NEW task \in Tasks, AnswerForNext(task) PROVE StartInv'
  BY <1>30, MovesEffect DEF AnswerForNext, Renews, Is, EndsAnswer, StartInv
<1>31. ASSUME NEW task \in Tasks, FailsStart(task) PROVE StartInv'
  <2>1. \E there \in {"rejecting", "over"} : Moves(task, there)
    BY <1>31 DEF FailsStart, Rejecting, Over
  <2>2. /\ pc[task] = "starting" /\ starting' = FALSE /\ early' = <<>> /\ reply' = None
        /\ queued' = queued
    BY <1>31 DEF FailsStart
  <2>3. Holds(task) /\ job[task].does = "start" /\ queued = 0
    BY <2>2, PlaceFacts DEF LockInv, InLock, StartInv
  <2>4. /\ pc'[task] \in {"rejecting", "over"}
        /\ \A other \in Tasks : other # task => pc'[other] = pc[other] /\ job'[other] = job[other]
    BY <2>1, MovesEffect
  <2>5. QED
    BY <2>2, <2>3, <2>4, AloneInLock DEF StartInv
<1>32. ASSUME NEW task \in Tasks, Fails(task) PROVE StartInv'
  BY <1>32, MovesEffect, NoJobFields DEF Fails, Over, Frees, QueueOK, Waits, StartInv, Is
<1>33. ASSUME Buffers PROVE StartInv'
  BY <1>33, PlaceFacts DEF Buffers, StartInv
<1>34. ASSUME Overflows PROVE StartInv'
  BY <1>34, MovesEffect, NoJobFields, Names DEF Overflows, Rejecting, Is, StartInv
<1>35. ASSUME Expires PROVE StartInv'
  <2>1. /\ pc'["watchdog"] = "locking"
        /\ \A other \in Tasks : other # "watchdog" =>
               pc'[other] = pc[other] /\ job'[other] = job[other]
    BY <1>35, MovesEffect, Names DEF Expires
  <2>2. /\ pc["watchdog"] = "idle"
        /\ job'["watchdog"] = [NoJob EXCEPT !.turn = owner.turn, !.gen = owner.gen]
        /\ UNCHANGED <<owner, starting, early, reply, queued>>
    BY <1>35 DEF Expires
  <2>3. Is(job'["watchdog"], "nothing", owner.gen, owner.turn, <<>>, <<>>, "idle", 0)
    <3>1. owner.turn \in Turns \cup {None} /\ owner.gen \in Nat
      BY DEF TypeOK
    <3>2. QED
      BY <2>2, <3>1, JobOf
  <2>4. QED
    BY <2>1, <2>2, <2>3, Names DEF StartInv, Is
<1>36. ASSUME WatchdogTombstones PROVE StartInv'
  BY <1>36, MovesEffect, Names DEF WatchdogTombstones, Interrupted, StartInv
<1>37. ASSUME WatchdogLeaves PROVE StartInv'
  BY <1>37, MovesEffect, NoJobFields, Names
     DEF WatchdogLeaves, GiveUp, Frees, QueueOK, StartInv, Is
<1>38. ASSUME TearsDown PROVE StartInv'
  BY <1>38, PlaceFacts DEF TearsDown, StartInv
<1>39. ASSUME TearsDownLocks PROVE StartInv'
  BY <1>39, MovesEffect, PlaceFacts, Names DEF TearsDownLocks, Joins, QueueOK, StartInv
<1>40. ASSUME ShutdownTombstones PROVE StartInv'
  BY <1>40, MovesEffect, Names DEF ShutdownTombstones, Interrupted, StartInv
<1>41. ASSUME Ends PROVE StartInv'
  <2>1. Holds("shutdown") /\ pc["shutdown"] \in {"locking", "terminal"}
        /\ UNCHANGED <<owner, starting, early, reply, queued>>
    BY <1>41 DEF Ends
  <2>2. \A task \in Tasks : pc'[task] = "over" /\ job'[task] = NoJob
    BY <1>41 DEF Ends
  <2>3. \A task \in Tasks : pc[task] # "starting"
    BY <2>1, AloneInLock, Names
  <2>4. QED
    BY <2>1, <2>2, <2>3, NoJobFields DEF StartInv, Is
<1>42. ASSUME NEW t \in Turns, Takes(t) PROVE StartInv'
  BY <1>42, PlaceFacts DEF Takes, StartInv
<1>43. CASE UNCHANGED vars
  BY <1>43 DEF vars, StartInv
<1> QED
  BY <1>1, <1>2, <1>3, <1>4, <1>5, <1>6, <1>7, <1>8, <1>9, <1>10, <1>11, <1>12, <1>13,
     <1>14, <1>15, <1>16, <1>17, <1>18, <1>19, <1>20, <1>21, <1>22, <1>23, <1>24, <1>25,
     <1>26, <1>27, <1>28, <1>29, <1>30, <1>31, <1>32, <1>33, <1>34, <1>35, <1>36, <1>37,
     <1>38, <1>39, <1>40, <1>41, <1>42, <1>43
     DEF Steps

(* A tool request comes from the turn that asked.                          *)
LEMMA EventStep ==
    TypeOK /\ PlaceInv /\ LockInv /\ EventInv /\ [Steps]_vars => EventInv'
<1> SUFFICES ASSUME TypeOK, PlaceInv, LockInv, EventInv, [Steps]_vars PROVE EventInv'
  OBVIOUS
<1> USE DEF userVars, turnVars, taskVars, toolVars, ownerVars, serverVars, speechVars,
            interruptVars
<1>1. ASSUME NotesTurn \/ RendersOn \/ MayFail \/ TearsDownAnswers
      PROVE  EventInv'
  <2>1. UNCHANGED <<asked, inbox, early, job>>
    BY <1>1 DEF NotesTurn, RendersOn, MayFail, TearsDownAnswers
  <2>2. QED
    BY <2>1 DEF EventInv, Known
<1>2. ASSUME NEW r \in Reqs, CallsTool(r) \/ SettlesTool(r)
      PROVE  EventInv'
  <2>1. UNCHANGED <<asked, inbox, early, job>>
    BY <1>2 DEF CallsTool, SettlesTool
  <2>2. QED
    BY <2>1 DEF EventInv, Known
<1>3. ASSUME NEW t \in Turns, Takes(t)
      PROVE  EventInv'
  <2>1. UNCHANGED <<asked, inbox, early, job>>
    BY <1>3 DEF Takes
  <2>2. QED
    BY <2>1 DEF EventInv, Known
<1>4. ASSUME NEW task \in Tasks, AsksTurn(task) PROVE EventInv'
  <2>1. ToSet(inbox') \cup ToSet(early') \cup ToSet(job'[task].todo)
           \subseteq ToSet(inbox) \cup ToSet(early) \cup ToSet(job[task].todo)
    BY <1>4, PlaceFacts DEF AsksTurn, Is
  <2>2. Known' \subseteq Known
    BY <1>4, <2>1, KnownShrinks DEF AsksTurn
  <2>3. asked' = asked
    BY <1>4 DEF AsksTurn
  <2>4. QED
    BY <2>2, <2>3 DEF EventInv
<1>5. ASSUME NEW task \in Tasks, AsksEnd(task) PROVE EventInv'
  <2>1. ToSet(inbox') \cup ToSet(early') \cup ToSet(job'[task].todo)
           \subseteq ToSet(inbox) \cup ToSet(early) \cup ToSet(job[task].todo)
    BY <1>5, PlaceFacts DEF AsksEnd, Is
  <2>2. Known' \subseteq Known
    BY <1>5, <2>1, KnownShrinks DEF AsksEnd
  <2>3. asked' = asked
    BY <1>5 DEF AsksEnd
  <2>4. QED
    BY <2>2, <2>3 DEF EventInv
<1>6. ASSUME NEW task \in Tasks, Asks(task) PROVE EventInv'
  <2>1. ToSet(inbox') \cup ToSet(early') \cup ToSet(job'[task].todo)
           \subseteq ToSet(inbox) \cup ToSet(early) \cup ToSet(job[task].todo)
    BY <1>6, PlaceFacts DEF Asks, Alike, Is
  <2>2. Known' \subseteq Known
    BY <1>6, <2>1, KnownShrinks DEF Asks, Alike
  <2>3. asked' = asked
    BY <1>6 DEF Asks
  <2>4. QED
    BY <2>2, <2>3 DEF EventInv
<1>7. ASSUME NEW task \in Tasks, GivesBack(task) PROVE EventInv'
  <2>1. ToSet(inbox') \cup ToSet(early') \cup ToSet(job'[task].todo)
           \subseteq ToSet(inbox) \cup ToSet(early) \cup ToSet(job[task].todo)
    BY <1>7, NoJobFields DEF GivesBack, GiveUp, Is
  <2>2. Known' \subseteq Known
    BY <1>7, <2>1, KnownShrinks DEF GivesBack, GiveUp
  <2>3. asked' = asked
    BY <1>7 DEF GivesBack, GiveUp
  <2>4. QED
    BY <2>2, <2>3 DEF EventInv
<1>8. ASSUME NEW task \in Tasks, OrdersTurn(task) PROVE EventInv'
  <2>1. ToSet(inbox') \cup ToSet(early') \cup ToSet(job'[task].todo)
           \subseteq ToSet(inbox) \cup ToSet(early) \cup ToSet(job[task].todo)
    BY <1>8, PlaceFacts DEF OrdersTurn, Alike, Is
  <2>2. Known' \subseteq Known
    BY <1>8, <2>1, KnownShrinks DEF OrdersTurn, Alike
  <2>3. asked' = asked
    BY <1>8 DEF OrdersTurn
  <2>4. QED
    BY <2>2, <2>3 DEF EventInv
<1>9. ASSUME NEW task \in Tasks, TombstonesTurn(task) PROVE EventInv'
  <2>1. ToSet(inbox') \cup ToSet(early') \cup ToSet(job'[task].todo)
           \subseteq ToSet(inbox) \cup ToSet(early) \cup ToSet(job[task].todo)
    BY <1>9, PlaceFacts DEF TombstonesTurn, Is
  <2>2. Known' \subseteq Known
    BY <1>9, <2>1, KnownShrinks DEF TombstonesTurn
  <2>3. asked' = asked
    BY <1>9 DEF TombstonesTurn
  <2>4. QED
    BY <2>2, <2>3 DEF EventInv
<1>10. ASSUME NEW task \in Tasks, Accepted(task) PROVE EventInv'
  <2>1. ToSet(inbox') \cup ToSet(early') \cup ToSet(job'[task].todo)
           \subseteq ToSet(inbox) \cup ToSet(early) \cup ToSet(job[task].todo)
    BY <1>10, PlaceFacts DEF Accepted, Alike, Is
  <2>2. Known' \subseteq Known
    BY <1>10, <2>1, KnownShrinks DEF Accepted, Alike
  <2>3. asked' = asked
    BY <1>10 DEF Accepted
  <2>4. QED
    BY <2>2, <2>3 DEF EventInv
<1>11. ASSUME NEW task \in Tasks, LateRejects(task) PROVE EventInv'
  <2>1. ToSet(inbox') \cup ToSet(early') \cup ToSet(job'[task].todo)
           \subseteq ToSet(inbox) \cup ToSet(early) \cup ToSet(job[task].todo)
    BY <1>11, PlaceFacts DEF LateRejects, Starts, Is, Rejecting
  <2>2. Known' \subseteq Known
    BY <1>11, <2>1, KnownShrinks DEF LateRejects, Starts, Rejecting
  <2>3. asked' = asked
    BY <1>11 DEF LateRejects, Starts
  <2>4. QED
    BY <2>2, <2>3 DEF EventInv
<1>12. ASSUME NEW task \in Tasks, LateInterrupts(task) PROVE EventInv'
  <2>1. ToSet(inbox') \cup ToSet(early') \cup ToSet(job'[task].todo)
           \subseteq ToSet(inbox) \cup ToSet(early) \cup ToSet(job[task].todo)
    BY <1>12, PlaceFacts DEF LateInterrupts, Is, Starts
  <2>2. Known' \subseteq Known
    BY <1>12, <2>1, KnownShrinks DEF LateInterrupts, Starts
  <2>3. asked' = asked
    BY <1>12 DEF LateInterrupts, Starts
  <2>4. QED
    BY <2>2, <2>3 DEF EventInv
<1>13. ASSUME NEW task \in Tasks, OwnsRejects(task) PROVE EventInv'
  <2>1. ToSet(inbox') \cup ToSet(early') \cup ToSet(job'[task].todo)
           \subseteq ToSet(inbox) \cup ToSet(early) \cup ToSet(job[task].todo)
    BY <1>13, PlaceFacts DEF OwnsRejects, Starts, Rejecting, Owns
  <2>2. Known' \subseteq Known
    BY <1>13, <2>1, KnownShrinks DEF OwnsRejects, Starts, Rejecting, Owns
  <2>3. asked' = asked
    BY <1>13 DEF OwnsRejects, Starts, Owns
  <2>4. QED
    BY <2>2, <2>3 DEF EventInv
<1>14. ASSUME NEW task \in Tasks, OwnsReplays(task) PROVE EventInv'
  <2>1. ToSet(inbox') \cup ToSet(early') \cup ToSet(job'[task].todo)
           \subseteq ToSet(inbox) \cup ToSet(early) \cup ToSet(job[task].todo)
    BY <1>14, PlaceFacts DEF OwnsReplays, Starts, Owns
  <2>2. Known' \subseteq Known
    BY <1>14, <2>1, KnownShrinks DEF OwnsReplays, Starts, Owns
  <2>3. asked' = asked
    BY <1>14 DEF OwnsReplays, Starts, Owns
  <2>4. QED
    BY <2>2, <2>3 DEF EventInv
<1>15. ASSUME NEW task \in Tasks, WritesNext(task) PROVE EventInv'
  <2>1. ToSet(inbox') \cup ToSet(early') \cup ToSet(job'[task].todo)
           \subseteq ToSet(inbox) \cup ToSet(early) \cup ToSet(job[task].todo)
    BY <1>15, PlaceFacts DEF WritesNext, Writes, Is
  <2>2. Known' \subseteq Known
    BY <1>15, <2>1, KnownShrinks DEF WritesNext, Writes
  <2>3. asked' = asked
    BY <1>15 DEF WritesNext, Writes
  <2>4. QED
    BY <2>2, <2>3 DEF EventInv
<1>16. ASSUME NEW task \in Tasks, WritesOut(task) PROVE EventInv'
  <2>1. ToSet(inbox') \cup ToSet(early') \cup ToSet(job'[task].todo)
           \subseteq ToSet(inbox) \cup ToSet(early) \cup ToSet(job[task].todo)
    BY <1>16, NoJobFields, NoneLeft DEF WritesOut, Writes, WritesLast, Over, Is
  <2>2. Known' \subseteq Known
    BY <1>16, <2>1, KnownShrinks DEF WritesOut, Writes, WritesLast, Over
  <2>3. asked' = asked
    BY <1>16 DEF WritesOut, Writes, WritesLast, Over
  <2>4. QED
    BY <2>2, <2>3 DEF EventInv
<1>17. ASSUME NEW task \in Tasks, WritesOn(task) PROVE EventInv'
  <2>1. ToSet(inbox') \cup ToSet(early') \cup ToSet(job'[task].todo)
           \subseteq ToSet(inbox) \cup ToSet(early) \cup ToSet(job[task].todo)
    BY <1>17, PlaceFacts DEF WritesOn, Is, Writes, WritesLast
  <2>2. Known' \subseteq Known
    BY <1>17, <2>1, KnownShrinks DEF WritesOn, Writes, WritesLast
  <2>3. asked' = asked
    BY <1>17 DEF WritesOn, Writes, WritesLast
  <2>4. QED
    BY <2>2, <2>3 DEF EventInv
<1>18. ASSUME NEW task \in Tasks, RefusesTool(task) PROVE EventInv'
  <2>1. Handles(task) /\ (\E there : Moves(task, there)) /\ early' = early /\ asked' = asked
    BY <1>18 DEF RefusesTool, Handles
  <2>2. job'[task].todo \in {Left(task), <<>>}
    BY <1>18, <2>1, EventHandled DEF RefusesTool, Is, Left
  <2>3. ToSet(inbox') \cup ToSet(early') \cup ToSet(job'[task].todo)
           \subseteq ToSet(inbox) \cup ToSet(early) \cup ToSet(job[task].todo)
    BY <2>1, <2>2, EventHandled, NoneLeft
  <2>4. Known' \subseteq Known
    BY <2>1, <2>3, KnownShrinks
  <2>5. QED
    BY <2>1, <2>4 DEF EventInv
<1>19. ASSUME NEW task \in Tasks, AdmitsTool(task) PROVE EventInv'
  <2>1. Handles(task) /\ (\E there : Moves(task, there)) /\ early' = early /\ asked' = asked
    BY <1>19 DEF AdmitsTool, Handles, Back
  <2>2. job'[task].todo \in {Left(task), <<>>}
    BY <1>19, <2>1, EventHandled, BackJob, NoJobFields DEF AdmitsTool, Is
  <2>3. ToSet(inbox') \cup ToSet(early') \cup ToSet(job'[task].todo)
           \subseteq ToSet(inbox) \cup ToSet(early) \cup ToSet(job[task].todo)
    BY <2>1, <2>2, EventHandled, NoneLeft
  <2>4. Known' \subseteq Known
    BY <2>1, <2>3, KnownShrinks
  <2>5. QED
    BY <2>1, <2>4 DEF EventInv
<1>20. ASSUME NEW task \in Tasks, HearsPart(task) PROVE EventInv'
  <2>1. Handles(task) /\ (\E there : Moves(task, there)) /\ early' = early /\ asked' = asked
    BY <1>20 DEF HearsPart, Handles, Back
  <2>2. job'[task].todo \in {Left(task), <<>>}
    BY <1>20, <2>1, EventHandled, BackJob, NoJobFields DEF HearsPart, Is
  <2>3. ToSet(inbox') \cup ToSet(early') \cup ToSet(job'[task].todo)
           \subseteq ToSet(inbox) \cup ToSet(early) \cup ToSet(job[task].todo)
    BY <2>1, <2>2, EventHandled, NoneLeft
  <2>4. Known' \subseteq Known
    BY <2>1, <2>3, KnownShrinks
  <2>5. QED
    BY <2>1, <2>4 DEF EventInv
<1>21. ASSUME NEW task \in Tasks, PassesEnd(task) PROVE EventInv'
  <2>1. Handles(task) /\ (\E there : Moves(task, there)) /\ early' = early /\ asked' = asked
    BY <1>21 DEF PassesEnd, Handles, Back
  <2>2. job'[task].todo \in {Left(task), <<>>}
    BY <1>21, <2>1, EventHandled, BackJob, NoJobFields DEF PassesEnd, Is
  <2>3. ToSet(inbox') \cup ToSet(early') \cup ToSet(job'[task].todo)
           \subseteq ToSet(inbox) \cup ToSet(early) \cup ToSet(job[task].todo)
    BY <2>1, <2>2, EventHandled, NoneLeft
  <2>4. Known' \subseteq Known
    BY <2>1, <2>3, KnownShrinks
  <2>5. QED
    BY <2>1, <2>4 DEF EventInv
<1>22. ASSUME NEW task \in Tasks, EndsUnspoken(task) PROVE EventInv'
  <2>1. Handles(task) /\ (\E there : Moves(task, there)) /\ early' = early /\ asked' = asked
    BY <1>22 DEF EndsUnspoken, Handles, Back, EndsTurn
  <2>2. job'[task].todo \in {Left(task), <<>>}
    BY <1>22, <2>1, EventHandled, BackJob, NoJobFields DEF EndsUnspoken, Is, EndsTurn
  <2>3. ToSet(inbox') \cup ToSet(early') \cup ToSet(job'[task].todo)
           \subseteq ToSet(inbox) \cup ToSet(early) \cup ToSet(job[task].todo)
    BY <2>1, <2>2, EventHandled, NoneLeft
  <2>4. Known' \subseteq Known
    BY <2>1, <2>3, KnownShrinks
  <2>5. QED
    BY <2>1, <2>4 DEF EventInv
<1>23. ASSUME NEW task \in Tasks, EndsForNext(task) PROVE EventInv'
  <2>1. Handles(task) /\ (\E there : Moves(task, there)) /\ early' = early /\ asked' = asked
    BY <1>23 DEF EndsForNext, Handles, EndsTurn, Renews
  <2>2. job'[task].todo \in {Left(task), <<>>}
    BY <1>23, <2>1, EventHandled DEF EndsForNext, EndsTurn, Renews, Is, Left
  <2>3. ToSet(inbox') \cup ToSet(early') \cup ToSet(job'[task].todo)
           \subseteq ToSet(inbox) \cup ToSet(early) \cup ToSet(job[task].todo)
    BY <2>1, <2>2, EventHandled, NoneLeft
  <2>4. Known' \subseteq Known
    BY <2>1, <2>3, KnownShrinks
  <2>5. QED
    BY <2>1, <2>4 DEF EventInv
<1>24. ASSUME NEW task \in Tasks, EndsSession(task) PROVE EventInv'
  <2>1. Handles(task) /\ (\E there : Moves(task, there)) /\ early' = early /\ asked' = asked
    BY <1>24 DEF EndsSession, Over, Handles, EndsTurn
  <2>2. job'[task].todo \in {Left(task), <<>>}
    BY <1>24, <2>1, NoJobFields DEF EndsSession, Over, EndsTurn, Left, Is
  <2>3. ToSet(inbox') \cup ToSet(early') \cup ToSet(job'[task].todo)
           \subseteq ToSet(inbox) \cup ToSet(early) \cup ToSet(job[task].todo)
    BY <2>1, <2>2, EventHandled, NoneLeft
  <2>4. Known' \subseteq Known
    BY <2>1, <2>3, KnownShrinks
  <2>5. QED
    BY <2>1, <2>4 DEF EventInv
<1>25. ASSUME NEW task \in Tasks, EndsForSpeech(task) PROVE EventInv'
  <2>1. Handles(task) /\ (\E there : Moves(task, there)) /\ early' = early /\ asked' = asked
    BY <1>25 DEF EndsForSpeech, Handles, EndsTurn
  <2>2. job'[task].todo \in {Left(task), <<>>}
    BY <1>25, <2>1, EventHandled DEF EndsForSpeech, Is, Left, EndsTurn
  <2>3. ToSet(inbox') \cup ToSet(early') \cup ToSet(job'[task].todo)
           \subseteq ToSet(inbox) \cup ToSet(early) \cup ToSet(job[task].todo)
    BY <2>1, <2>2, EventHandled, NoneLeft
  <2>4. Known' \subseteq Known
    BY <2>1, <2>3, KnownShrinks
  <2>5. QED
    BY <2>1, <2>4 DEF EventInv
<1>26. ASSUME NEW task \in Tasks, Retired(task) PROVE EventInv'
  <2>1. ToSet(inbox') \cup ToSet(early') \cup ToSet(job'[task].todo)
           \subseteq ToSet(inbox) \cup ToSet(early) \cup ToSet(job[task].todo)
    BY <1>26, PlaceFacts DEF Retired, Alike, Is
  <2>2. Known' \subseteq Known
    BY <1>26, <2>1, KnownShrinks DEF Retired, Alike
  <2>3. asked' = asked
    BY <1>26 DEF Retired
  <2>4. QED
    BY <2>2, <2>3 DEF EventInv
<1>27. ASSUME NEW task \in Tasks, Submits(task) PROVE EventInv'
  <2>1. ToSet(inbox') \cup ToSet(early') \cup ToSet(job'[task].todo)
           \subseteq ToSet(inbox) \cup ToSet(early) \cup ToSet(job[task].todo)
    BY <1>27, PlaceFacts DEF Submits, Alike, Is
  <2>2. Known' \subseteq Known
    BY <1>27, <2>1, KnownShrinks DEF Submits, Alike
  <2>3. asked' = asked
    BY <1>27 DEF Submits
  <2>4. QED
    BY <2>2, <2>3 DEF EventInv
<1>28. ASSUME NEW task \in Tasks, AnswerOver(task) PROVE EventInv'
  <2>1. ToSet(inbox') \cup ToSet(early') \cup ToSet(job'[task].todo)
           \subseteq ToSet(inbox) \cup ToSet(early) \cup ToSet(job[task].todo)
    BY <1>28, NoJobFields, NoneLeft DEF AnswerOver, Back, Is, EndsAnswer
  <2>2. Known' \subseteq Known
    BY <1>28, <2>1, KnownShrinks DEF AnswerOver, Back, EndsAnswer
  <2>3. asked' = asked
    BY <1>28 DEF AnswerOver, EndsAnswer
  <2>4. QED
    BY <2>2, <2>3 DEF EventInv
<1>29. ASSUME NEW task \in Tasks, AnswerForNext(task) PROVE EventInv'
  <2>1. ToSet(inbox') \cup ToSet(early') \cup ToSet(job'[task].todo)
           \subseteq ToSet(inbox) \cup ToSet(early) \cup ToSet(job[task].todo)
    BY <1>29, NoneLeft DEF AnswerForNext, Renews, Is, EndsAnswer
  <2>2. Known' \subseteq Known
    BY <1>29, <2>1, KnownShrinks DEF AnswerForNext, Renews, EndsAnswer
  <2>3. asked' = asked
    BY <1>29 DEF AnswerForNext, Renews, EndsAnswer
  <2>4. QED
    BY <2>2, <2>3 DEF EventInv
<1>30. ASSUME NEW task \in Tasks, FailsStart(task) PROVE EventInv'
  <2>1. ToSet(inbox') \cup ToSet(early') \cup ToSet(job'[task].todo)
           \subseteq ToSet(inbox) \cup ToSet(early) \cup ToSet(job[task].todo)
    BY <1>30, PlaceFacts, NoJobFields DEF FailsStart, Rejecting, Is, Over
  <2>2. Known' \subseteq Known
    BY <1>30, <2>1, KnownShrinks DEF FailsStart, Rejecting, Over
  <2>3. asked' = asked
    BY <1>30 DEF FailsStart, Over
  <2>4. QED
    BY <2>2, <2>3 DEF EventInv
<1>31. ASSUME NEW task \in Tasks, Fails(task) PROVE EventInv'
  <2>1. ToSet(inbox') \cup ToSet(early') \cup ToSet(job'[task].todo)
           \subseteq ToSet(inbox) \cup ToSet(early) \cup ToSet(job[task].todo)
    BY <1>31, NoJobFields, NoneLeft DEF Fails, Over, Is
  <2>2. Known' \subseteq Known
    BY <1>31, <2>1, KnownShrinks DEF Fails, Over
  <2>3. asked' = asked
    BY <1>31 DEF Fails, Over
  <2>4. QED
    BY <2>2, <2>3 DEF EventInv
<1>32. ASSUME Buffers PROVE EventInv'
  <2>1. inbox # <<>> /\ inbox' = Tail(inbox) /\ early' = Append(early, Head(inbox)) /\ job' = job
        /\ asked' = asked
    BY <1>32 DEF Buffers
  <2>2. Known' \subseteq Known \cup {}
    BY <2>1, EventQueues, KnownFrom
  <2>3. QED
    BY <2>1, <2>2 DEF EventInv
<1>33. ASSUME Overflows PROVE EventInv'
  <2>1. /\ inbox # <<>> /\ inbox' = Tail(inbox) /\ early' = early /\ asked' = asked
        /\ \E there : Moves("exec", there)
        /\ job'["exec"].todo = <<>>
    BY <1>33, NoJobFields DEF Overflows, Rejecting, Is
  <2>2. ToSet(inbox') \cup ToSet(early') \cup ToSet(job'["exec"].todo)
           \subseteq ToSet(inbox) \cup ToSet(early) \cup ToSet(job["exec"].todo)
    BY <2>1, EventQueues, NoneLeft
  <2>3. Known' \subseteq Known
    BY <2>1, <2>2, KnownShrinks, Names
  <2>4. QED
    BY <2>1, <2>3 DEF EventInv
<1>34. ASSUME Expires PROVE EventInv'
  <2>1. ToSet(inbox') \cup ToSet(early') \cup ToSet(job'["watchdog"].todo)
           \subseteq ToSet(inbox) \cup ToSet(early) \cup ToSet(job["watchdog"].todo)
    BY <1>34, PlaceFacts, NoJobFields, Names DEF Expires, Is
  <2>2. Known' \subseteq Known
    BY <1>34, <2>1, KnownShrinks, Names DEF Expires
  <2>3. asked' = asked
    BY <1>34 DEF Expires
  <2>4. QED
    BY <2>2, <2>3 DEF EventInv
<1>35. ASSUME WatchdogTombstones PROVE EventInv'
  <2>1. ToSet(inbox') \cup ToSet(early') \cup ToSet(job'["watchdog"].todo)
           \subseteq ToSet(inbox) \cup ToSet(early) \cup ToSet(job["watchdog"].todo)
    BY <1>35, PlaceFacts DEF WatchdogTombstones
  <2>2. Known' \subseteq Known
    BY <1>35, <2>1, KnownShrinks, Names DEF WatchdogTombstones
  <2>3. asked' = asked
    BY <1>35 DEF WatchdogTombstones
  <2>4. QED
    BY <2>2, <2>3 DEF EventInv
<1>36. ASSUME WatchdogLeaves PROVE EventInv'
  <2>1. ToSet(inbox') \cup ToSet(early') \cup ToSet(job'["watchdog"].todo)
           \subseteq ToSet(inbox) \cup ToSet(early) \cup ToSet(job["watchdog"].todo)
    BY <1>36, PlaceFacts, NoJobFields, Names DEF WatchdogLeaves, GiveUp, Is
  <2>2. Known' \subseteq Known
    BY <1>36, <2>1, KnownShrinks, Names DEF WatchdogLeaves, GiveUp
  <2>3. asked' = asked
    BY <1>36 DEF WatchdogLeaves, GiveUp
  <2>4. QED
    BY <2>2, <2>3 DEF EventInv
<1>37. ASSUME TearsDown PROVE EventInv'
  <2>1. DEFINE j == [NoJob EXCEPT !.turn = owner.turn, !.gen = owner.gen]
  <2>2. /\ inbox' = inbox /\ early' = early /\ asked' = asked /\ job'["shutdown"] = j
        /\ \A task \in Tasks : task # "shutdown" => job'[task] = job[task]
    BY <1>37, Names DEF TearsDown, TypeOK
  <2>3. Is(j, "nothing", owner.gen, owner.turn, <<>>, <<>>, "idle", 0)
    BY JobOf DEF TypeOK
  <2>4. Known' \subseteq Known \cup {}
    BY <2>2, <2>3, NoneLeft, KnownFrom DEF Is
  <2>5. QED
    BY <2>2, <2>4 DEF EventInv
<1>38. ASSUME TearsDownLocks PROVE EventInv'
  <2>1. ToSet(inbox') \cup ToSet(early') \cup ToSet(job'["shutdown"].todo)
           \subseteq ToSet(inbox) \cup ToSet(early) \cup ToSet(job["shutdown"].todo)
    BY <1>38, PlaceFacts DEF TearsDownLocks
  <2>2. Known' \subseteq Known
    BY <1>38, <2>1, KnownShrinks, Names DEF TearsDownLocks
  <2>3. asked' = asked
    BY <1>38 DEF TearsDownLocks
  <2>4. QED
    BY <2>2, <2>3 DEF EventInv
<1>39. ASSUME ShutdownTombstones PROVE EventInv'
  <2>1. ToSet(inbox') \cup ToSet(early') \cup ToSet(job'["shutdown"].todo)
           \subseteq ToSet(inbox) \cup ToSet(early) \cup ToSet(job["shutdown"].todo)
    BY <1>39, PlaceFacts DEF ShutdownTombstones
  <2>2. Known' \subseteq Known
    BY <1>39, <2>1, KnownShrinks, Names DEF ShutdownTombstones
  <2>3. asked' = asked
    BY <1>39 DEF ShutdownTombstones
  <2>4. QED
    BY <2>2, <2>3 DEF EventInv
<1>40. ASSUME Ends PROVE EventInv'
  <2>1. inbox' = inbox /\ early' = early /\ asked' = asked
        /\ \A task \in Tasks : job'[task] = NoJob
    BY <1>40 DEF Ends
  <2>2. Known' \subseteq Known \cup {}
    BY <2>1, EventQueues, NoneLeft, NoJobFields, KnownFrom DEF Is
  <2>3. QED
    BY <2>1, <2>2 DEF EventInv
<1>41. ASSUME NEW t \in Turns, NEW r \in Reqs, AsksTool(t, r) PROVE EventInv'
  <2>1. DEFINE ev == [turn |-> t, kind |-> "tool", what |-> r]
  <2>2. inbox' = Append(inbox, ev) /\ early' = early /\ job' = job /\ ev \in Events
    BY <1>41 DEF AsksTool, Events
  <2>3. Known' \subseteq Known \cup {ev}
    BY <2>2, EventQueues, KnownFrom
  <2>4. /\ asked[r] = None /\ asked' = [asked EXCEPT ![r] = t]
        /\ asked \in [Reqs -> Turns \cup {None}]
    BY <1>41 DEF AsksTool, TypeOK
  <2>5. \A e \in Known : e.kind = "tool" => e.what # r
    BY <2>4, KnownEvents, EventFields, Names DEF EventInv
  <2>6. QED
    BY <2>3, <2>4, <2>5, KnownEvents DEF EventInv
<1>42. ASSUME NEW t \in Turns, NEW ev \in Events, Says(t, ev) PROVE EventInv'
  <2>1. /\ inbox' = Append(inbox, ev) /\ early' = early /\ job' = job /\ ev.kind # "tool"
        /\ asked' = asked
    BY <1>42 DEF Says
  <2>2. Known' \subseteq Known \cup {ev}
    BY <2>1, EventQueues, KnownFrom
  <2>3. QED
    BY <2>1, <2>2 DEF EventInv
<1>43. CASE UNCHANGED vars
  BY <1>43 DEF vars, EventInv, Known
<1> QED
  BY <1>1, <1>2, <1>3, <1>4, <1>5, <1>6, <1>7, <1>8, <1>9, <1>10, <1>11, <1>12, <1>13,
     <1>14, <1>15, <1>16, <1>17, <1>18, <1>19, <1>20, <1>21, <1>22, <1>23, <1>24, <1>25,
     <1>26, <1>27, <1>28, <1>29, <1>30, <1>31, <1>32, <1>33, <1>34, <1>35, <1>36, <1>37,
     <1>38, <1>39, <1>40, <1>41, <1>42, <1>43
     DEF Steps

(* Nothing is known of a turn before its reply.                            *)
LEMMA FreshStep ==
    TypeOK /\ LockInv /\ PlaceInv /\ StartInv /\ EventInv /\ ToolInv /\ FreshInv /\
       [Steps]_vars
       => FreshInv'
<1> SUFFICES ASSUME TypeOK, LockInv, PlaceInv, StartInv, EventInv, ToolInv, FreshInv,
                    [Steps]_vars
             PROVE  FreshInv'
  OBVIOUS
<1> USE DEF userVars, turnVars, taskVars, toolVars, ownerVars, serverVars, speechVars,
            interruptVars
<1>1. ASSUME NotesTurn \/ Buffers \/ RendersOn \/ MayFail
      PROVE  FreshInv'
  <2>1. UNCHANGED <<interruptedFor, startedFor, owner, finished, job, asked, crossed, tool,
                   turnState, reply>>
    BY <1>1 DEF NotesTurn, Buffers, RendersOn, MayFail
  <2>2. QED
    BY <2>1 DEF FreshInv, Fresh
<1>2. ASSUME NEW task \in Tasks, AsksTurn(task) PROVE FreshInv'
  BY <1>2, MovesEffect, Names DEF AsksTurn, Is, FreshInv, Fresh
<1>3. ASSUME NEW task \in Tasks, AsksEnd(task) PROVE FreshInv'
  BY <1>3, MovesEffect DEF AsksEnd, Is, FreshInv, Fresh
<1>4. ASSUME NEW task \in Tasks, Asks(task) PROVE FreshInv'
  BY <1>4, MovesEffect DEF Asks, Alike, Is, Joins, QueueOK, FreshInv, Fresh
<1>5. ASSUME NEW task \in Tasks, GivesBack(task) PROVE FreshInv'
  BY <1>5, MovesEffect, NoJobFields, Names
     DEF GivesBack, GiveUp, Frees, QueueOK, FreshInv, Fresh, LockInv, PlaceInv, StartInv,
         EventInv, ToolInv, Is
<1>6. ASSUME NEW task \in Tasks, OrdersTurn(task) PROVE FreshInv'
  BY <1>6, MovesEffect, Names DEF OrdersTurn, Alike, Is, FreshInv, Fresh
<1>7. ASSUME NEW task \in Tasks, TombstonesTurn(task) PROVE FreshInv'
  BY <1>7, MovesEffect DEF TombstonesTurn, Is, Interrupted, FreshInv, Fresh
<1>8. ASSUME NEW task \in Tasks, Accepted(task) PROVE FreshInv'
  BY <1>8, MovesEffect DEF Accepted, Alike, Is, FreshInv, Fresh
<1>9. ASSUME NEW task \in Tasks, LateRejects(task) PROVE FreshInv'
  BY <1>9, MovesEffect, Names DEF LateRejects, Starts, Is, Rejecting, FreshInv, Fresh
<1>10. ASSUME NEW task \in Tasks, LateInterrupts(task) PROVE FreshInv'
  BY <1>10, MovesEffect, Names DEF LateInterrupts, Is, Interrupted, Starts, FreshInv, Fresh
<1>11. ASSUME NEW task \in Tasks, OwnsRejects(task) PROVE FreshInv'
  BY <1>11, MovesEffect, Names DEF OwnsRejects, Starts, Is, Rejecting, Owns, FreshInv, Fresh
<1>12. ASSUME NEW task \in Tasks, OwnsReplays(task) PROVE FreshInv'
  BY <1>12, MovesEffect, Names DEF OwnsReplays, Starts, Is, Owns, FreshInv, Fresh
<1>13. ASSUME NEW task \in Tasks, WritesNext(task) PROVE FreshInv'
  <2>1. /\ asked' = asked /\ startedFor' = startedFor /\ turnState' = turnState /\ reply' = reply
        /\ crossed' = crossed
    BY <1>13 DEF WritesNext, Writes
  <2>2. /\ owner'.turn \in {owner.turn, None} /\ finished' \subseteq finished \cup {owner.turn}
    BY <1>13 DEF WritesNext, Writes
  <2>3. /\ job'[task].turn \in {job[task].turn, owner.turn, None}
        /\ \A other \in Tasks : other # task => job'[other] = job[other]
    BY <1>13, MovesEffect DEF WritesNext, Writes, Is
  <2>4. \A u \in Turns : interruptedFor'[u] = interruptedFor[u]
    BY <1>13 DEF WritesNext, Writes
  <2>5. \A r \in Reqs : tool'[r] = "admitted" => tool[r] = "admitted"
    BY <1>13 DEF WritesNext, Writes, TypeOK
  <2>6. QED
    BY <2>1, <2>2, <2>3, <2>4, <2>5, FreshStays DEF Ran
<1>14. ASSUME NEW task \in Tasks, WritesOut(task) PROVE FreshInv'
  BY <1>14, MovesEffect, NoJobFields, Names
     DEF WritesOut, Writes, WritesLast, Wrote, Over, Frees, QueueOK, FreshInv, Fresh,
         LockInv, PlaceInv, StartInv, EventInv, ToolInv, Is
<1>15. ASSUME NEW task \in Tasks, WritesOn(task) PROVE FreshInv'
  <2>1. /\ asked' = asked /\ startedFor' = startedFor /\ turnState' = turnState /\ reply' = reply
        /\ crossed' = crossed
    BY <1>15 DEF WritesOn, Writes, WritesLast
  <2>2. /\ owner'.turn \in {owner.turn, None} /\ finished' \subseteq finished \cup {owner.turn}
    BY <1>15 DEF WritesOn, Writes, WritesLast
  <2>3. /\ job'[task].turn \in {job[task].turn, owner.turn, None}
        /\ \A other \in Tasks : other # task => job'[other] = job[other]
    BY <1>15, MovesEffect DEF WritesOn, Is, Writes, WritesLast
  <2>4. \A u \in Turns : interruptedFor'[u] = interruptedFor[u]
           \/ u = job[task].turn
    BY <1>15 DEF WritesOn, Interrupted, TypeOK
  <2>5. \A r \in Reqs : tool'[r] = "admitted" => tool[r] = "admitted"
    BY <1>15 DEF WritesOn, WritesLast, Wrote
  <2>6. QED
    BY <2>1, <2>2, <2>3, <2>4, <2>5, FreshStays DEF Ran
<1>16. ASSUME NEW task \in Tasks, RefusesTool(task) PROVE FreshInv'
  <2>1. /\ asked' = asked /\ startedFor' = startedFor /\ turnState' = turnState /\ reply' = reply
        /\ crossed' = crossed
    BY <1>16 DEF RefusesTool, Handles
  <2>2. /\ owner'.turn \in {owner.turn, None} /\ finished' \subseteq finished \cup {owner.turn}
    BY <1>16 DEF RefusesTool, Handles
  <2>3. /\ job'[task].turn \in {job[task].turn, owner.turn, None}
        /\ \A other \in Tasks : other # task => job'[other] = job[other]
    BY <1>16, MovesEffect DEF RefusesTool, Handles, Is
  <2>4. \A u \in Turns : interruptedFor'[u] = interruptedFor[u]
    BY <1>16 DEF RefusesTool, Handles
  <2>5. \A r \in Reqs : tool'[r] = "admitted" => tool[r] = "admitted"
    BY <1>16 DEF RefusesTool, Handles
  <2>6. QED
    BY <2>1, <2>2, <2>3, <2>4, <2>5, FreshStays DEF Ran
<1>17. ASSUME NEW task \in Tasks, AdmitsTool(task) PROVE FreshInv'
  <2>1. /\ asked' = asked /\ startedFor' = startedFor /\ turnState' = turnState /\ reply' = reply
        /\ crossed' = crossed
    BY <1>17 DEF AdmitsTool, Handles
  <2>2. /\ owner'.turn \in {owner.turn, None} /\ finished' \subseteq finished \cup {owner.turn}
    BY <1>17 DEF AdmitsTool, Handles
  <2>3. /\ job'[task].turn \in {job[task].turn, owner.turn, None}
        /\ \A other \in Tasks : other # task => job'[other] = job[other]
    BY <1>17, NoJobFields, BackJob DEF AdmitsTool, Handles, Is
  <2>4. \A u \in Turns : interruptedFor'[u] = interruptedFor[u]
    BY <1>17 DEF AdmitsTool, Handles
  <2>5. \A r \in Reqs : tool'[r] = "admitted" => tool[r] = "admitted" \/ asked[r] = owner.turn
    BY <1>17, EventKnown DEF AdmitsTool
  <2>6. QED
    BY <2>1, <2>2, <2>3, <2>4, <2>5, FreshStays DEF Ran
<1>18. ASSUME NEW task \in Tasks, HearsPart(task) PROVE FreshInv'
  <2>1. /\ asked' = asked /\ startedFor' = startedFor /\ turnState' = turnState /\ reply' = reply
        /\ crossed' = crossed
    BY <1>18 DEF HearsPart, Handles
  <2>2. /\ owner'.turn \in {owner.turn, None} /\ finished' \subseteq finished \cup {owner.turn}
    BY <1>18 DEF HearsPart, Handles
  <2>3. /\ job'[task].turn \in {job[task].turn, owner.turn, None}
        /\ \A other \in Tasks : other # task => job'[other] = job[other]
    BY <1>18, NoJobFields, BackJob DEF HearsPart, Handles, Is
  <2>4. \A u \in Turns : interruptedFor'[u] = interruptedFor[u]
    BY <1>18 DEF HearsPart, Handles
  <2>5. \A r \in Reqs : tool'[r] = "admitted" => tool[r] = "admitted"
    BY <1>18 DEF HearsPart, Handles
  <2>6. QED
    BY <2>1, <2>2, <2>3, <2>4, <2>5, FreshStays DEF Ran
<1>19. ASSUME NEW task \in Tasks, PassesEnd(task) PROVE FreshInv'
  <2>1. /\ asked' = asked /\ startedFor' = startedFor /\ turnState' = turnState /\ reply' = reply
        /\ crossed' = crossed
    BY <1>19 DEF PassesEnd, Handles
  <2>2. /\ owner'.turn \in {owner.turn, None} /\ finished' \subseteq finished \cup {owner.turn}
    BY <1>19 DEF PassesEnd, Handles
  <2>3. /\ job'[task].turn \in {job[task].turn, owner.turn, None}
        /\ \A other \in Tasks : other # task => job'[other] = job[other]
    BY <1>19, NoJobFields, BackJob DEF PassesEnd, Handles, Is
  <2>4. \A u \in Turns : interruptedFor'[u] = interruptedFor[u]
    BY <1>19 DEF PassesEnd, Handles
  <2>5. \A r \in Reqs : tool'[r] = "admitted" => tool[r] = "admitted"
    BY <1>19 DEF PassesEnd, Handles
  <2>6. QED
    BY <2>1, <2>2, <2>3, <2>4, <2>5, FreshStays DEF Ran
<1>20. ASSUME NEW task \in Tasks, EndsUnspoken(task) PROVE FreshInv'
  <2>1. /\ asked' = asked /\ startedFor' = startedFor /\ turnState' = turnState /\ reply' = reply
        /\ crossed' = crossed
    BY <1>20 DEF EndsUnspoken, Handles, EndsTurn
  <2>2. /\ owner'.turn \in {owner.turn, None} /\ finished' \subseteq finished \cup {owner.turn}
    BY <1>20 DEF EndsUnspoken, Handles, EndsTurn, Nobody
  <2>3. /\ job'[task].turn \in {job[task].turn, owner.turn, None}
        /\ \A other \in Tasks : other # task => job'[other] = job[other]
    BY <1>20, NoJobFields, BackJob DEF EndsUnspoken, Handles, Is, EndsTurn
  <2>4. \A u \in Turns : interruptedFor'[u] = interruptedFor[u]
    BY <1>20 DEF EndsUnspoken, Handles, EndsTurn
  <2>5. \A r \in Reqs : tool'[r] = "admitted" => tool[r] = "admitted"
    BY <1>20 DEF EndsUnspoken, Handles, EndsTurn
  <2>6. QED
    BY <2>1, <2>2, <2>3, <2>4, <2>5, FreshStays DEF Ran
<1>21. ASSUME NEW task \in Tasks, EndsForNext(task) PROVE FreshInv'
  <2>1. /\ asked' = asked /\ startedFor' = startedFor /\ turnState' = turnState /\ reply' = reply
        /\ crossed' = crossed
    BY <1>21 DEF EndsForNext, Handles, EndsTurn, Renews
  <2>2. /\ owner'.turn \in {owner.turn, None} /\ finished' \subseteq finished \cup {owner.turn}
    BY <1>21 DEF EndsForNext, Handles, EndsTurn, Renews, Nobody
  <2>3. /\ job'[task].turn \in {job[task].turn, owner.turn, None}
        /\ \A other \in Tasks : other # task => job'[other] = job[other]
    BY <1>21, MovesEffect DEF EndsForNext, Handles, EndsTurn, Renews, Is
  <2>4. \A u \in Turns : interruptedFor'[u] = interruptedFor[u]
    BY <1>21 DEF EndsForNext, Handles, EndsTurn, Renews
  <2>5. \A r \in Reqs : tool'[r] = "admitted" => tool[r] = "admitted"
    BY <1>21 DEF EndsForNext, Handles, EndsTurn, Renews
  <2>6. QED
    BY <2>1, <2>2, <2>3, <2>4, <2>5, FreshStays DEF Ran
<1>22. ASSUME NEW task \in Tasks, EndsSession(task) PROVE FreshInv'
  <2>1. /\ asked' = asked /\ startedFor' = startedFor /\ turnState' = turnState /\ reply' = reply
        /\ crossed' = crossed
    BY <1>22 DEF EndsSession, Handles, EndsTurn
  <2>2. /\ owner'.turn \in {owner.turn, None} /\ finished' \subseteq finished \cup {owner.turn}
    BY <1>22 DEF EndsSession, Handles, EndsTurn, Nobody
  <2>3. /\ job'[task].turn \in {job[task].turn, owner.turn, None}
        /\ \A other \in Tasks : other # task => job'[other] = job[other]
    BY <1>22, MovesEffect, NoJobFields DEF EndsSession, Over, Handles, EndsTurn, Is
  <2>4. \A u \in Turns : interruptedFor'[u] = interruptedFor[u]
    BY <1>22 DEF EndsSession, Handles, EndsTurn
  <2>5. \A r \in Reqs : tool'[r] = "admitted" => tool[r] = "admitted"
    BY <1>22 DEF EndsSession, Handles, EndsTurn
  <2>6. QED
    BY <2>1, <2>2, <2>3, <2>4, <2>5, FreshStays DEF Ran
<1>23. ASSUME NEW task \in Tasks, EndsForSpeech(task) PROVE FreshInv'
  <2>1. /\ asked' = asked /\ startedFor' = startedFor /\ turnState' = turnState /\ reply' = reply
        /\ crossed' = crossed
    BY <1>23 DEF EndsForSpeech, Handles, EndsTurn
  <2>2. /\ owner'.turn \in {owner.turn, None} /\ finished' \subseteq finished \cup {owner.turn}
    BY <1>23 DEF EndsForSpeech, Handles, EndsTurn, Nobody
  <2>3. /\ job'[task].turn \in {job[task].turn, owner.turn, None}
        /\ \A other \in Tasks : other # task => job'[other] = job[other]
    BY <1>23, MovesEffect DEF EndsForSpeech, Handles, Is, EndsTurn
  <2>4. \A u \in Turns : interruptedFor'[u] = interruptedFor[u]
    BY <1>23 DEF EndsForSpeech, Handles, EndsTurn
  <2>5. \A r \in Reqs : tool'[r] = "admitted" => tool[r] = "admitted"
    BY <1>23 DEF EndsForSpeech, Handles, EndsTurn
  <2>6. QED
    BY <2>1, <2>2, <2>3, <2>4, <2>5, FreshStays DEF Ran
<1>24. ASSUME NEW task \in Tasks, Retired(task) PROVE FreshInv'
  BY <1>24, MovesEffect DEF Retired, Alike, Is, FreshInv, Fresh
<1>25. ASSUME NEW task \in Tasks, Submits(task) PROVE FreshInv'
  BY <1>25, MovesEffect DEF Submits, Alike, Is, FreshInv, Fresh
<1>26. ASSUME NEW task \in Tasks, AnswerOver(task) PROVE FreshInv'
  BY <1>26, MovesEffect, NoJobFields, Names
     DEF AnswerOver, Back, Is, EndsAnswer, FreshInv, Fresh, LockInv, PlaceInv, StartInv,
         EventInv, ToolInv
<1>27. ASSUME NEW task \in Tasks, AnswerForNext(task) PROVE FreshInv'
  BY <1>27, MovesEffect, Names
     DEF AnswerForNext, Renews, Is, EndsAnswer, FreshInv, Fresh, LockInv, PlaceInv,
         StartInv, EventInv, ToolInv
<1>28. ASSUME NEW task \in Tasks, FailsStart(task) PROVE FreshInv'
  BY <1>28, MovesEffect, NoJobFields, Names
     DEF FailsStart, Rejecting, Is, Over, Frees, QueueOK, FreshInv, Fresh
<1>29. ASSUME NEW task \in Tasks, Fails(task) PROVE FreshInv'
  <2>1. /\ asked' = asked /\ startedFor' = startedFor /\ turnState' = turnState /\ reply' = reply
        /\ crossed' = crossed
    BY <1>29 DEF Fails
  <2>2. /\ owner'.turn \in {owner.turn, None} /\ finished' \subseteq finished \cup {owner.turn}
    BY <1>29 DEF Fails
  <2>3. /\ job'[task].turn \in {job[task].turn, owner.turn, None}
        /\ \A other \in Tasks : other # task => job'[other] = job[other]
    BY <1>29, MovesEffect, NoJobFields DEF Fails, Over, Is
  <2>4. \A u \in Turns : interruptedFor'[u] = interruptedFor[u]
    BY <1>29 DEF Fails
  <2>5. \A r \in Reqs : tool'[r] = "admitted" => tool[r] = "admitted"
    BY <1>29 DEF Fails, TypeOK
  <2>6. QED
    BY <2>1, <2>2, <2>3, <2>4, <2>5, FreshStays DEF Ran
<1>30. ASSUME Overflows PROVE FreshInv'
  <2>1. /\ asked' = asked /\ startedFor' = startedFor /\ turnState' = turnState /\ reply' = reply
        /\ crossed' = crossed
    BY <1>30 DEF Overflows, Rejecting
  <2>2. /\ owner'.turn \in {owner.turn, None} /\ finished' \subseteq finished \cup {owner.turn}
    BY <1>30 DEF Overflows, Rejecting
  <2>3. /\ job'["exec"].turn \in {job["exec"].turn, owner.turn, None}
        /\ \A other \in Tasks : other # "exec" => job'[other] = job[other]
    BY <1>30, MovesEffect, NoJobFields, Names DEF Overflows, Rejecting, Is
  <2>4. \A u \in Turns : interruptedFor'[u] = interruptedFor[u]
    BY <1>30 DEF Overflows, Rejecting
  <2>5. \A r \in Reqs : tool'[r] = "admitted" => tool[r] = "admitted"
    BY <1>30 DEF Overflows, Rejecting, TypeOK
  <2>6. QED
    BY <2>1, <2>2, <2>3, <2>4, <2>5, FreshStays DEF Ran
<1>31. ASSUME NEW r \in Reqs, CallsTool(r) PROVE FreshInv'
  BY <1>31, PlaceFacts DEF CallsTool, FreshInv, Fresh
<1>32. ASSUME NEW r \in Reqs, SettlesTool(r) PROVE FreshInv'
  BY <1>32, PlaceFacts DEF SettlesTool, FreshInv, Fresh
<1>33. ASSUME Expires PROVE FreshInv'
  <2>1. /\ asked' = asked /\ startedFor' = startedFor /\ turnState' = turnState /\ reply' = reply
        /\ crossed' = crossed
    BY <1>33 DEF Expires
  <2>2. /\ owner'.turn \in {owner.turn, None} /\ finished' \subseteq finished \cup {owner.turn}
    BY <1>33 DEF Expires
  <2>3. /\ job'["watchdog"].turn \in {job["watchdog"].turn, owner.turn, None}
        /\ \A other \in Tasks : other # "watchdog" => job'[other] = job[other]
    BY <1>33, MovesEffect, Names DEF Expires
  <2>4. \A u \in Turns : interruptedFor'[u] = interruptedFor[u]
    BY <1>33 DEF Expires
  <2>5. \A r \in Reqs : tool'[r] = "admitted" => tool[r] = "admitted"
    BY <1>33 DEF Expires
  <2>6. QED
    BY <2>1, <2>2, <2>3, <2>4, <2>5, FreshStays DEF Ran
<1>34. ASSUME WatchdogTombstones PROVE FreshInv'
  BY <1>34, MovesEffect, Names DEF WatchdogTombstones, Interrupted, FreshInv, Fresh
<1>35. ASSUME WatchdogLeaves PROVE FreshInv'
  BY <1>35, MovesEffect, NoJobFields, Names
     DEF WatchdogLeaves, GiveUp, Frees, QueueOK, FreshInv, Fresh, LockInv, PlaceInv,
         StartInv, EventInv, ToolInv, Is
<1>36. ASSUME TearsDown PROVE FreshInv'
  BY <1>36, PlaceFacts
     DEF TearsDown, FreshInv, Fresh, LockInv, PlaceInv, StartInv, EventInv, ToolInv
<1>37. ASSUME TearsDownAnswers PROVE FreshInv'
  BY <1>37, PlaceFacts DEF TearsDownAnswers, FreshInv, Fresh
<1>38. ASSUME TearsDownLocks PROVE FreshInv'
  BY <1>38, MovesEffect, Names DEF TearsDownLocks, Joins, QueueOK, FreshInv, Fresh
<1>39. ASSUME ShutdownTombstones PROVE FreshInv'
  BY <1>39, MovesEffect, Names DEF ShutdownTombstones, Interrupted, FreshInv, Fresh
<1>40. ASSUME Ends PROVE FreshInv'
  BY <1>40, NoJobFields, Names
     DEF Ends, FreshInv, Fresh, LockInv, PlaceInv, StartInv, EventInv, ToolInv, Is
<1>41. ASSUME NEW t \in Turns, Takes(t) PROVE FreshInv'
  BY <1>41, PlaceFacts, Names
     DEF Takes, FreshInv, Fresh, TypeOK, LockInv, PlaceInv, StartInv, EventInv, ToolInv
<1>42. ASSUME NEW t \in Turns, NEW r \in Reqs, AsksTool(t, r) PROVE FreshInv'
  <2>1. /\ turnState[t] = "running" /\ asked[r] = None /\ asked' = [asked EXCEPT ![r] = t]
        /\ asked \in [Reqs -> Turns \cup {None}]
    BY <1>42 DEF AsksTool, TypeOK
  <2>2. UNCHANGED <<interruptedFor, startedFor, owner, finished, job, crossed, tool, reply,
                    turnState>>
    BY <1>42 DEF AsksTool
  <2>3. ~(r \in crossed) /\ tool[r] # "admitted"
    BY <2>1 DEF ToolInv, Ran
  <2>4. \A u \in Turns : Fresh(u) => Fresh(u)'
    BY <2>1, <2>2, <2>3 DEF Fresh
  <2>5. QED
    BY <2>1, <2>2, <2>4 DEF FreshInv
<1>43. ASSUME NEW t \in Turns, NEW ev \in Events, Says(t, ev) PROVE FreshInv'
  <2>1. turnState' = [turnState EXCEPT ![t] = turnState'[t]] /\ turnState'[t] # "unborn"
        /\ turnState \in [Turns -> {"unborn", "running", "over"}]
    BY <1>43 DEF Says, TypeOK
  <2>2. UNCHANGED <<interruptedFor, startedFor, owner, finished, job, asked, crossed, tool,
                    reply>>
    BY <1>43 DEF Says
  <2>3. \A u \in Turns : Fresh(u) => Fresh(u)'
    BY <2>2 DEF Fresh
  <2>4. \A u \in Turns : turnState'[u] = "unborn" => turnState[u] = "unborn"
    BY <2>1
  <2>5. QED
    BY <2>2, <2>3, <2>4 DEF FreshInv
<1>44. CASE UNCHANGED vars
  BY <1>44 DEF vars, FreshInv, Fresh
<1> QED
  BY <1>1, <1>2, <1>3, <1>4, <1>5, <1>6, <1>7, <1>8, <1>9, <1>10, <1>11, <1>12, <1>13,
     <1>14, <1>15, <1>16, <1>17, <1>18, <1>19, <1>20, <1>21, <1>22, <1>23, <1>24, <1>25,
     <1>26, <1>27, <1>28, <1>29, <1>30, <1>31, <1>32, <1>33, <1>34, <1>35, <1>36, <1>37,
     <1>38, <1>39, <1>40, <1>41, <1>42, <1>43, <1>44
     DEF Steps

(* An interrupted turn that is still active is marked so.                  *)
LEMMA TurnStep ==
    TypeOK /\ PlaceInv /\ PhaseInv /\ FreshInv /\ TurnInv /\ [Steps]_vars => TurnInv'
<1> SUFFICES ASSUME TypeOK, PlaceInv, PhaseInv, FreshInv, TurnInv, [Steps]_vars PROVE TurnInv'
  OBVIOUS
<1> USE DEF userVars, turnVars, taskVars, toolVars, ownerVars, serverVars, speechVars,
            interruptVars
<1>1. ASSUME NotesTurn \/ Buffers \/ RendersOn \/ MayFail \/ TearsDownAnswers
      PROVE  TurnInv'
  <2>1. UNCHANGED <<interruptedFor, owner, job>>
    BY <1>1 DEF NotesTurn, Buffers, RendersOn, MayFail, TearsDownAnswers
  <2>2. QED
    BY <2>1 DEF TurnInv
<1>2. ASSUME NEW r \in Reqs, CallsTool(r) \/ SettlesTool(r)
      PROVE  TurnInv'
  <2>1. UNCHANGED <<interruptedFor, owner, job>>
    BY <1>2 DEF CallsTool, SettlesTool
  <2>2. QED
    BY <2>1 DEF TurnInv
<1>3. ASSUME NEW t \in Turns, Takes(t)
      PROVE  TurnInv'
  <2>1. UNCHANGED <<interruptedFor, owner, job>>
    BY <1>3 DEF Takes
  <2>2. QED
    BY <2>1 DEF TurnInv
<1>4. ASSUME NEW t \in Turns, NEW r \in Reqs, AsksTool(t, r)
      PROVE  TurnInv'
  <2>1. UNCHANGED <<interruptedFor, owner, job>>
    BY <1>4 DEF AsksTool
  <2>2. QED
    BY <2>1 DEF TurnInv
<1>5. ASSUME NEW t \in Turns, NEW ev \in Events, Says(t, ev)
      PROVE  TurnInv'
  <2>1. UNCHANGED <<interruptedFor, owner, job>>
    BY <1>5 DEF Says
  <2>2. QED
    BY <2>1 DEF TurnInv
<1>6. ASSUME NEW task \in Tasks, AsksTurn(task) PROVE TurnInv'
  BY <1>6, MovesEffect, Names DEF AsksTurn, Is, TurnInv
<1>7. ASSUME NEW task \in Tasks, AsksEnd(task) PROVE TurnInv'
  BY <1>7, MovesEffect, Names DEF AsksEnd, Is, TurnInv
<1>8. ASSUME NEW task \in Tasks, Asks(task) PROVE TurnInv'
  BY <1>8, MovesEffect, Names DEF Asks, Alike, Is, Joins, QueueOK, TurnInv
<1>9. ASSUME NEW task \in Tasks, GivesBack(task) PROVE TurnInv'
  BY <1>9, MovesEffect, NoJobFields
     DEF GivesBack, GiveUp, Frees, QueueOK, TurnInv, PlaceInv, PhaseInv, FreshInv, Is, Tasks
<1>10. ASSUME NEW task \in Tasks, OrdersTurn(task) PROVE TurnInv'
  BY <1>10, MovesEffect, Names DEF OrdersTurn, Alike, Is, TurnInv
<1>11. ASSUME NEW task \in Tasks, TombstonesTurn(task) PROVE TurnInv'
  BY <1>11, MovesEffect, PlaceFacts DEF TombstonesTurn, Is, Interrupted, TurnInv
<1>12. ASSUME NEW task \in Tasks, Accepted(task) PROVE TurnInv'
  BY <1>12, MovesEffect, Names DEF Accepted, Alike, Is, TurnInv
<1>13. ASSUME NEW task \in Tasks, LateRejects(task) PROVE TurnInv'
  <2>1. Starts(task) /\ Moves(task, "rejecting") /\ owner' = owner
    BY <1>13 DEF LateRejects, Rejecting
  <2>2. reply \in Turns /\ Fresh(reply)
    BY <2>1, Shapes DEF Starts, FreshInv
  <2>3. \A u \in Turns : u # reply => interruptedFor'[u] = interruptedFor[u]
    BY <1>13, <2>2, Shapes DEF LateRejects, Rejecting
  <2>4. job'[task].turn = reply /\ task # "shutdown"
    BY <1>13, <2>1, PlaceFacts DEF LateRejects, Starts, Is
  <2>5. \A other \in Tasks : other # task => job'[other] = job[other]
    BY <2>1, MovesEffect
  <2>6. owner.turn \in Turns \cup {None} /\ owner.turn # reply
    BY <2>2, Shapes DEF Fresh
  <2>7. \A one \in Tasks : job'[one].after = "stale" =>
           job'[one].turn # None /\ job'[one].turn # owner.turn
    BY <2>2, <2>4, <2>5, <2>6, Names DEF TurnInv
  <2>8. job'["shutdown"] = job["shutdown"]
    BY <2>4, <2>5, Names
  <2>9. QED
    BY <2>1, <2>3, <2>6, <2>7, <2>8 DEF TurnInv
<1>14. ASSUME NEW task \in Tasks, LateInterrupts(task) PROVE TurnInv'
  <2>1. Starts(task) /\ Moves(task, "stale") /\ owner' = owner
    BY <1>14 DEF LateInterrupts
  <2>2. reply \in Turns /\ Fresh(reply)
    BY <2>1, Shapes DEF Starts, FreshInv
  <2>3. \A u \in Turns : u # reply => interruptedFor'[u] = interruptedFor[u]
    BY <1>14, <2>2, Shapes DEF LateInterrupts, Interrupted
  <2>4. job'[task].turn = reply /\ task # "shutdown"
    BY <1>14, <2>1, PlaceFacts DEF LateInterrupts, Starts, Is
  <2>5. \A other \in Tasks : other # task => job'[other] = job[other]
    BY <2>1, MovesEffect
  <2>6. owner.turn \in Turns \cup {None} /\ owner.turn # reply
    BY <2>2, Shapes DEF Fresh
  <2>7. \A one \in Tasks : job'[one].after = "stale" =>
           job'[one].turn # None /\ job'[one].turn # owner.turn
    BY <2>2, <2>4, <2>5, <2>6, Names DEF TurnInv
  <2>8. job'["shutdown"] = job["shutdown"]
    BY <2>4, <2>5, Names
  <2>9. QED
    BY <2>1, <2>3, <2>6, <2>7, <2>8 DEF TurnInv
<1>15. ASSUME NEW task \in Tasks, OwnsRejects(task) PROVE TurnInv'
  <2>1. Owns(task) /\ Starts(task) /\ \E there \in {"rejecting", "replaying"} : Moves(task, there)
    BY <1>15 DEF OwnsRejects, Rejecting, Owns
  <2>2. reply # None /\ reply \in Turns /\ Fresh(reply)
    BY <2>1, Shapes DEF Starts, FreshInv
  <2>3. owner'.turn = reply /\ interruptedFor'[reply] = interruptedFor[reply]
    BY <1>15, <2>1 DEF Owns, OwnsRejects, Rejecting
  <2>4. job'[task].turn = reply /\ job'[task].after = "replaying" /\ task # "shutdown"
    BY <2>1, PlaceFacts DEF Owns, Starts, Is
  <2>5. \A other \in Tasks : other # task => job'[other] = job[other]
    BY <2>1, MovesEffect
  <2>6. QED
    BY <2>2, <2>3, <2>4, <2>5, Names DEF TurnInv, Fresh
<1>16. ASSUME NEW task \in Tasks, OwnsReplays(task) PROVE TurnInv'
  <2>1. Owns(task) /\ Starts(task) /\ \E there \in {"rejecting", "replaying"} : Moves(task, there)
    BY <1>16 DEF OwnsReplays, Owns, Rejecting
  <2>2. reply # None /\ reply \in Turns /\ Fresh(reply)
    BY <2>1, Shapes DEF Starts, FreshInv
  <2>3. owner'.turn = reply /\ interruptedFor'[reply] = interruptedFor[reply]
    BY <1>16, <2>1 DEF Owns, OwnsReplays
  <2>4. job'[task].turn = reply /\ job'[task].after = "replaying" /\ task # "shutdown"
    BY <2>1, PlaceFacts DEF Owns, Starts, Is
  <2>5. \A other \in Tasks : other # task => job'[other] = job[other]
    BY <2>1, MovesEffect
  <2>6. QED
    BY <2>2, <2>3, <2>4, <2>5, Names DEF TurnInv, Fresh
<1>17. ASSUME NEW task \in Tasks, WritesNext(task) PROVE TurnInv'
  BY <1>17, MovesEffect
     DEF WritesNext, Writes, Is, TurnInv, PlaceInv, PhaseInv, FreshInv, Tasks
<1>18. ASSUME NEW task \in Tasks, WritesOut(task) PROVE TurnInv'
  BY <1>18, MovesEffect, NoJobFields
     DEF WritesOut, Writes, WritesLast, Wrote, Over, Frees, QueueOK, TurnInv, PlaceInv,
         PhaseInv, FreshInv, Is, Tasks
<1>19. ASSUME NEW task \in Tasks, WritesOn(task) PROVE TurnInv'
  <2>1. job[task].turn # owner.turn \/ interruptedFor' = interruptedFor
    BY <1>19 DEF WritesOn, TurnInv
  <2>2. \A u \in Turns : u # job[task].turn => interruptedFor'[u] = interruptedFor[u]
    BY <1>19, Shapes DEF WritesOn, Interrupted
  <2>3. owner' = owner /\ \E there \in {"stale", "replaying"} : Moves(task, there)
    BY <1>19 DEF WritesOn, WritesLast, Writes
  <2>4. /\ job'[task].turn = job[task].turn /\ job'[task].after = job[task].after
        /\ task # "shutdown"
    BY <1>19, PlaceFacts DEF WritesOn, WritesLast, Writes, Is
  <2>5. \A other \in Tasks : other # task => job'[other] = job[other]
    BY <2>3, MovesEffect
  <2>6. owner.turn \in Turns \cup {None}
    BY Shapes
  <2>7. QED
    BY <2>1, <2>2, <2>3, <2>4, <2>5, <2>6, Names DEF TurnInv
<1>20. ASSUME NEW task \in Tasks, RefusesTool(task) PROVE TurnInv'
  BY <1>20, MovesEffect, Names DEF RefusesTool, Handles, Event, Is, Left, TurnInv
<1>21. ASSUME NEW task \in Tasks, AdmitsTool(task) PROVE TurnInv'
  BY <1>21, MovesEffect, NoJobFields, Names
     DEF AdmitsTool, Handles, Event, Back, Is, TurnInv
<1>22. ASSUME NEW task \in Tasks, HearsPart(task) PROVE TurnInv'
  BY <1>22, MovesEffect, NoJobFields, Names DEF HearsPart, Handles, Event, Back, Is, TurnInv
<1>23. ASSUME NEW task \in Tasks, PassesEnd(task) PROVE TurnInv'
  BY <1>23, MovesEffect, NoJobFields, Names DEF PassesEnd, Handles, Event, Back, Is, TurnInv
<1>24. ASSUME NEW task \in Tasks, EndsUnspoken(task) PROVE TurnInv'
  BY <1>24, MovesEffect, NoJobFields
     DEF EndsUnspoken, Handles, Event, Back, Is, EndsTurn, TurnInv, PlaceInv, PhaseInv,
         FreshInv, Nobody
<1>25. ASSUME NEW task \in Tasks, EndsForNext(task) PROVE TurnInv'
  BY <1>25, MovesEffect
     DEF EndsForNext, Handles, Event, EndsTurn, Renews, Is, TurnInv, PlaceInv, PhaseInv,
         FreshInv, Nobody
<1>26. ASSUME NEW task \in Tasks, EndsSession(task) PROVE TurnInv'
  BY <1>26, MovesEffect, NoJobFields
     DEF EndsSession, Over, Frees, QueueOK, Handles, Event, EndsTurn, TurnInv, PlaceInv,
         PhaseInv, FreshInv, Is, Nobody
<1>27. ASSUME NEW task \in Tasks, EndsForSpeech(task) PROVE TurnInv'
  BY <1>27, MovesEffect, PlaceFacts
     DEF EndsForSpeech, Handles, Event, Is, Left, EndsTurn, TurnInv, PlaceInv, PhaseInv,
         FreshInv, Nobody
<1>28. ASSUME NEW task \in Tasks, Retired(task) PROVE TurnInv'
  BY <1>28, MovesEffect, Names DEF Retired, Alike, Is, TurnInv
<1>29. ASSUME NEW task \in Tasks, Submits(task) PROVE TurnInv'
  BY <1>29, MovesEffect, Names DEF Submits, Alike, Is, TurnInv
<1>30. ASSUME NEW task \in Tasks, AnswerOver(task) PROVE TurnInv'
  BY <1>30, MovesEffect, NoJobFields, Names DEF AnswerOver, Back, Is, EndsAnswer, TurnInv
<1>31. ASSUME NEW task \in Tasks, AnswerForNext(task) PROVE TurnInv'
  BY <1>31, MovesEffect, Names DEF AnswerForNext, Renews, Is, EndsAnswer, TurnInv
<1>32. ASSUME NEW task \in Tasks, FailsStart(task) PROVE TurnInv'
  BY <1>32, MovesEffect, NoJobFields, Names
     DEF FailsStart, Rejecting, Is, Over, Frees, QueueOK, TurnInv
<1>33. ASSUME NEW task \in Tasks, Fails(task) PROVE TurnInv'
  BY <1>33, MovesEffect, NoJobFields
     DEF Fails, Over, Frees, QueueOK, Waits, TurnInv, PlaceInv, PhaseInv, FreshInv, Is,
         Tasks
<1>34. ASSUME Overflows PROVE TurnInv'
  BY <1>34, MovesEffect, NoJobFields, Names DEF Overflows, Rejecting, Is, TurnInv
<1>35. ASSUME Expires PROVE TurnInv'
  <2>1. DEFINE j == [NoJob EXCEPT !.turn = owner.turn, !.gen = owner.gen]
  <2>2. /\ job'["watchdog"] = j /\ owner' = owner /\ interruptedFor' = interruptedFor
        /\ \A task \in Tasks : task # "watchdog" => job'[task] = job[task]
    BY <1>35, MovesEffect, Names DEF Expires
  <2>3. Is(j, "nothing", owner.gen, owner.turn, <<>>, <<>>, "idle", 0)
    BY JobOf DEF TypeOK
  <2>4. job'["watchdog"].after # "stale" /\ job'["shutdown"] = job["shutdown"]
    BY <2>2, <2>3, Names DEF Is
  <2>5. QED
    BY <2>2, <2>4 DEF TurnInv
<1>36. ASSUME WatchdogTombstones PROVE TurnInv'
  BY <1>36, MovesEffect, Names DEF WatchdogTombstones, Interrupted, TurnInv
<1>37. ASSUME WatchdogLeaves PROVE TurnInv'
  BY <1>37, MovesEffect, NoJobFields
     DEF WatchdogLeaves, GiveUp, Frees, QueueOK, TurnInv, PlaceInv, PhaseInv, FreshInv, Is,
         Tasks
<1>38. ASSUME TearsDown PROVE TurnInv'
  <2>1. DEFINE j == [NoJob EXCEPT !.turn = owner.turn, !.gen = owner.gen]
  <2>2. /\ job'["shutdown"] = j /\ interruptedFor' = interruptedFor
        /\ \A task \in Tasks : task # "shutdown" => job'[task] = job[task]
    BY <1>38, JobShape, Names DEF TearsDown
  <2>3. Is(j, "nothing", owner.gen, owner.turn, <<>>, <<>>, "idle", 0)
    BY JobOf DEF TypeOK
  <2>4. owner'.turn = owner.turn /\ (owner.turn # None => owner'.interrupting)
    BY <1>38, Shapes DEF TearsDown
  <2>5. QED
    BY <2>2, <2>3, <2>4 DEF TurnInv, Is
<1>39. ASSUME TearsDownLocks PROVE TurnInv'
  BY <1>39, MovesEffect, Names DEF TearsDownLocks, Joins, QueueOK, TurnInv
<1>40. ASSUME ShutdownTombstones PROVE TurnInv'
  BY <1>40, MovesEffect, Names DEF ShutdownTombstones, Interrupted, TurnInv
<1>41. ASSUME Ends PROVE TurnInv'
  BY <1>41, NoJobFields DEF Ends, TurnInv, PlaceInv, PhaseInv, FreshInv, Is, Tasks
<1>42. CASE UNCHANGED vars
  BY <1>42 DEF vars, TurnInv
<1> QED
  BY <1>1, <1>2, <1>3, <1>4, <1>5, <1>6, <1>7, <1>8, <1>9, <1>10, <1>11, <1>12, <1>13,
     <1>14, <1>15, <1>16, <1>17, <1>18, <1>19, <1>20, <1>21, <1>22, <1>23, <1>24, <1>25,
     <1>26, <1>27, <1>28, <1>29, <1>30, <1>31, <1>32, <1>33, <1>34, <1>35, <1>36, <1>37,
     <1>38, <1>39, <1>40, <1>41, <1>42
     DEF Steps

(* A turn that ran a tool is not interrupted.                              *)
LEMMA ToolsStep ==
    TypeOK /\ PlaceInv /\ EventInv /\ FreshInv /\ TurnInv /\ ToolInv /\ [Steps]_vars
       => ToolInv'
<1> SUFFICES ASSUME TypeOK, PlaceInv, EventInv, FreshInv, TurnInv, ToolInv, [Steps]_vars
             PROVE  ToolInv'
  OBVIOUS
<1> USE DEF userVars, turnVars, taskVars, toolVars, ownerVars, serverVars, speechVars,
            interruptVars
<1>1. ASSUME NotesTurn \/ Buffers \/ RendersOn \/ MayFail
      PROVE  ToolInv'
  <2>1. UNCHANGED <<interruptedFor, crossed, tool, asked, owner, job>>
    BY <1>1 DEF NotesTurn, Buffers, RendersOn, MayFail
  <2>2. QED
    BY <2>1 DEF ToolInv, Ran
<1>2. ASSUME NEW t \in Turns, Takes(t)
      PROVE  ToolInv'
  <2>1. UNCHANGED <<interruptedFor, crossed, tool, asked, owner, job>>
    BY <1>2 DEF Takes
  <2>2. QED
    BY <2>1 DEF ToolInv, Ran
<1>3. ASSUME NEW t \in Turns, NEW ev \in Events, Says(t, ev)
      PROVE  ToolInv'
  <2>1. UNCHANGED <<interruptedFor, crossed, tool, asked, owner, job>>
    BY <1>3 DEF Says
  <2>2. QED
    BY <2>1 DEF ToolInv, Ran
<1>4. ASSUME NEW task \in Tasks, AsksTurn(task) PROVE ToolInv'
  BY <1>4, MovesEffect DEF AsksTurn, Is, ToolInv, Ran
<1>5. ASSUME NEW task \in Tasks, AsksEnd(task) PROVE ToolInv'
  BY <1>5, MovesEffect DEF AsksEnd, Is, ToolInv, Ran
<1>6. ASSUME NEW task \in Tasks, Asks(task) PROVE ToolInv'
  BY <1>6, MovesEffect DEF Asks, Alike, Is, Joins, QueueOK, ToolInv, Ran
<1>7. ASSUME NEW task \in Tasks, GivesBack(task) PROVE ToolInv'
  <2>1. /\ asked' = asked
        /\ \A r \in Reqs : r \in crossed' \/ tool'[r] = "admitted" => Ran(r)
    BY <1>7, Shapes DEF GivesBack, Ran
  <2>2. \A u \in Turns :
           interruptedFor'[u] \cap {"barge", "stale"} = interruptedFor[u] \cap {"barge", "stale"}
    BY <1>7, Shapes DEF GivesBack
  <2>3. /\ owner'.turn \in {owner.turn, None}
        /\ (owner.hadTool /\ owner'.turn # None => owner'.hadTool)
    BY <1>7, Shapes DEF GivesBack
  <2>4. \A other \in Tasks : other # task => job'[other] = job[other]
    BY <1>7, MovesEffect DEF GivesBack, GiveUp
  <2>5. job'[task].after = "stale" =>
            job[task].after = "stale" /\ job'[task].turn = job[task].turn
    BY <1>7, NoJobFields DEF GivesBack, GiveUp, Is
  <2>6. QED
    BY <2>1, <2>2, <2>3, <2>4, <2>5, RanStays
<1>8. ASSUME NEW task \in Tasks, OrdersTurn(task) PROVE ToolInv'
  BY <1>8, MovesEffect, Names
     DEF OrdersTurn, Alike, Is, ToolInv, Ran, PlaceInv, EventInv, FreshInv, TurnInv, Tasks,
         Fresh
<1>9. ASSUME NEW task \in Tasks, TombstonesTurn(task) PROVE ToolInv'
  <2>1. /\ asked' = asked
        /\ \A r \in Reqs : r \in crossed' \/ tool'[r] = "admitted" => Ran(r)
    BY <1>9 DEF TombstonesTurn, Ran
  <2>2. owner'.turn = owner.turn /\ ~owner.hadTool /\ ~owner'.hadTool
    BY <1>9, Shapes DEF TombstonesTurn
  <2>3. \A u \in Turns : u # owner.turn => interruptedFor'[u] = interruptedFor[u]
    BY <1>9, Shapes DEF TombstonesTurn, Interrupted
  <2>4. \A other \in Tasks : other # task => job'[other] = job[other]
    BY <1>9, MovesEffect DEF TombstonesTurn
  <2>5. job'[task].after # "stale"
    BY <1>9, PlaceFacts DEF TombstonesTurn, Is
  <2>6. QED
    BY <2>1, <2>2, <2>3, <2>4, <2>5, RanStays
<1>10. ASSUME NEW task \in Tasks, Accepted(task) PROVE ToolInv'
  <2>1. /\ asked' = asked
        /\ \A r \in Reqs : r \in crossed' \/ tool'[r] = "admitted" => Ran(r)
    BY <1>10, Shapes DEF Accepted, Ran
  <2>2. \A u \in Turns :
           interruptedFor'[u] \cap {"barge", "stale"} = interruptedFor[u] \cap {"barge", "stale"}
    BY <1>10, Shapes DEF Accepted
  <2>3. /\ owner'.turn \in {owner.turn, None}
        /\ (owner.hadTool /\ owner'.turn # None => owner'.hadTool)
    BY <1>10, Shapes DEF Accepted
  <2>4. \A other \in Tasks : other # task => job'[other] = job[other]
    BY <1>10, MovesEffect DEF Accepted
  <2>5. job'[task].after = "stale" =>
            job[task].after = "stale" /\ job'[task].turn = job[task].turn
    BY <1>10 DEF Accepted, Alike, Is
  <2>6. QED
    BY <2>1, <2>2, <2>3, <2>4, <2>5, RanStays
<1>11. ASSUME NEW task \in Tasks, LateRejects(task) PROVE ToolInv'
  <2>0. reply # None /\ Fresh(reply)
    BY <1>11, Shapes DEF LateRejects, Starts, FreshInv
  <2>1. /\ asked' = asked
        /\ \A r \in Reqs : r \in crossed' \/ tool'[r] = "admitted" => Ran(r)
    BY <1>11 DEF LateRejects, Starts, Rejecting, Ran
  <2>2. \A u \in Turns :
           interruptedFor'[u] \cap {"barge", "stale"} = interruptedFor[u] \cap {"barge", "stale"}
    BY <1>11, Shapes, <2>0 DEF LateRejects, Starts, Rejecting
  <2>3. /\ owner'.turn \in {owner.turn, None}
        /\ (owner.hadTool /\ owner'.turn # None => owner'.hadTool)
    BY <1>11, Shapes, <2>0 DEF LateRejects, Starts
  <2>4. \A other \in Tasks : other # task => job'[other] = job[other]
    BY <1>11, MovesEffect DEF LateRejects, Starts, Rejecting
  <2>5. job'[task].after = "stale" => Fresh(job'[task].turn)
    BY <1>11, <2>0 DEF LateRejects, Starts, Is, Rejecting
  <2>6. QED
    BY <2>1, <2>2, <2>3, <2>4, <2>5, RanStays
<1>12. ASSUME NEW task \in Tasks, LateInterrupts(task) PROVE ToolInv'
  <2>0. reply # None /\ Fresh(reply)
    BY <1>12, Shapes DEF LateInterrupts, Starts, FreshInv
  <2>1. /\ asked' = asked
        /\ \A r \in Reqs : r \in crossed' \/ tool'[r] = "admitted" => Ran(r)
    BY <1>12, Shapes DEF LateInterrupts, Starts, Ran
  <2>2. \A u \in Turns :
           \/ interruptedFor'[u] \cap {"barge", "stale"}
                = interruptedFor[u] \cap {"barge", "stale"}
           \/ Fresh(u)
    BY <1>12, Shapes, <2>0 DEF LateInterrupts, Interrupted, Starts
  <2>3. /\ owner'.turn \in {owner.turn, None}
        /\ (owner.hadTool /\ owner'.turn # None => owner'.hadTool)
    BY <1>12, <2>0 DEF LateInterrupts, Interrupted, Starts
  <2>4. \A other \in Tasks : other # task => job'[other] = job[other]
    BY <1>12, MovesEffect DEF LateInterrupts, Starts
  <2>5. job'[task].after = "stale" => Fresh(job'[task].turn)
    BY <1>12, <2>0 DEF LateInterrupts, Is, Starts
  <2>6. QED
    BY <2>1, <2>2, <2>3, <2>4, <2>5, RanStays
<1>13. ASSUME NEW task \in Tasks, OwnsRejects(task) PROVE ToolInv'
  <2>0. reply # None /\ Fresh(reply)
    BY <1>13, Shapes DEF OwnsRejects, Starts, Owns, FreshInv
  <2>1. /\ asked' = asked
        /\ \A r \in Reqs : r \in crossed' \/ tool'[r] = "admitted" => Ran(r)
    BY <1>13 DEF OwnsRejects, Starts, Rejecting, Owns, Ran
  <2>2. \A u \in Turns :
           interruptedFor'[u] \cap {"barge", "stale"} = interruptedFor[u] \cap {"barge", "stale"}
    BY <1>13, <2>0 DEF OwnsRejects, Starts, Rejecting, Owns
  <2>3. Fresh(owner'.turn)
    BY <1>13, <2>0 DEF OwnsRejects, Starts, Owns
  <2>4. \A other \in Tasks : other # task => job'[other] = job[other]
    BY <1>13, MovesEffect DEF OwnsRejects, Starts, Rejecting, Owns
  <2>5. job'[task].after = "stale" =>
            job[task].after = "stale" /\ job'[task].turn = job[task].turn
    BY <1>13, <2>0 DEF OwnsRejects, Starts, Is, Rejecting, Owns
  <2>6. QED
    BY <2>1, <2>2, <2>3, <2>4, <2>5, RanStays
<1>14. ASSUME NEW task \in Tasks, OwnsReplays(task) PROVE ToolInv'
  <2>0. reply # None /\ Fresh(reply)
    BY <1>14, Shapes DEF OwnsReplays, Starts, Owns, FreshInv
  <2>1. /\ asked' = asked
        /\ \A r \in Reqs : r \in crossed' \/ tool'[r] = "admitted" => Ran(r)
    BY <1>14 DEF OwnsReplays, Starts, Owns, Ran
  <2>2. \A u \in Turns :
           interruptedFor'[u] \cap {"barge", "stale"} = interruptedFor[u] \cap {"barge", "stale"}
    BY <1>14, Shapes, <2>0 DEF OwnsReplays, Starts, Owns
  <2>3. Fresh(owner'.turn)
    BY <1>14, <2>0 DEF OwnsReplays, Starts, Owns
  <2>4. \A other \in Tasks : other # task => job'[other] = job[other]
    BY <1>14, MovesEffect DEF OwnsReplays, Starts, Owns
  <2>5. job'[task].after = "stale" =>
            job[task].after = "stale" /\ job'[task].turn = job[task].turn
    BY <1>14, <2>0 DEF OwnsReplays, Starts, Is, Owns
  <2>6. QED
    BY <2>1, <2>2, <2>3, <2>4, <2>5, RanStays
<1>15. ASSUME NEW task \in Tasks, WritesNext(task) PROVE ToolInv'
  <2>1. /\ asked' = asked
        /\ \A r \in Reqs : r \in crossed' \/ tool'[r] = "admitted" => Ran(r)
    BY <1>15, Shapes DEF WritesNext, Writes, Ran
  <2>2. \A u \in Turns :
           interruptedFor'[u] \cap {"barge", "stale"} = interruptedFor[u] \cap {"barge", "stale"}
    BY <1>15, Shapes DEF WritesNext, Writes
  <2>3. /\ owner'.turn \in {owner.turn, None}
        /\ (owner.hadTool /\ owner'.turn # None => owner'.hadTool)
    BY <1>15, Shapes DEF WritesNext, Writes
  <2>4. \A other \in Tasks : other # task => job'[other] = job[other]
    BY <1>15, MovesEffect DEF WritesNext
  <2>5. job'[task].after = "stale" =>
            job[task].after = "stale" /\ job'[task].turn = job[task].turn
    BY <1>15 DEF WritesNext, Is
  <2>6. QED
    BY <2>1, <2>2, <2>3, <2>4, <2>5, RanStays
<1>16. ASSUME NEW task \in Tasks, WritesOut(task) PROVE ToolInv'
  <2>1. /\ asked' = asked
        /\ \A r \in Reqs : r \in crossed' \/ tool'[r] = "admitted" => Ran(r)
    BY <1>16 DEF WritesOut, Writes, WritesLast, Wrote, Ran
  <2>2. \A u \in Turns :
           interruptedFor'[u] \cap {"barge", "stale"} = interruptedFor[u] \cap {"barge", "stale"}
    BY <1>16 DEF WritesOut, Writes, WritesLast, Wrote
  <2>3. /\ owner'.turn \in {owner.turn, None}
        /\ (owner.hadTool /\ owner'.turn # None => owner'.hadTool)
    BY <1>16 DEF WritesOut, Writes, WritesLast, Wrote
  <2>4. \A other \in Tasks : other # task => job'[other] = job[other]
    BY <1>16, MovesEffect DEF WritesOut, WritesLast, Over
  <2>5. job'[task].after = "stale" =>
            job[task].after = "stale" /\ job'[task].turn = job[task].turn
    BY <1>16, NoJobFields DEF WritesOut, WritesLast, Over, Is
  <2>6. QED
    BY <2>1, <2>2, <2>3, <2>4, <2>5, RanStays
<1>17. ASSUME NEW task \in Tasks, WritesOn(task) PROVE ToolInv'
  <2>1. /\ asked' = asked
        /\ \A r \in Reqs : r \in crossed' \/ tool'[r] = "admitted" => Ran(r)
    BY <1>17 DEF WritesOn, Writes, WritesLast, Wrote, Ran
  <2>2. \A u \in Turns :
           \/ interruptedFor'[u] = interruptedFor[u]
           \/ job[task].after = "stale" /\ job[task].turn = u
    BY <1>17, Shapes DEF WritesOn, Interrupted
  <2>3. /\ owner'.turn \in {owner.turn, None}
        /\ (owner.hadTool /\ owner'.turn # None => owner'.hadTool)
    BY <1>17 DEF WritesOn, Interrupted, Writes, WritesLast, Wrote
  <2>4. \A other \in Tasks : other # task => job'[other] = job[other]
    BY <1>17, MovesEffect DEF WritesOn, WritesLast
  <2>5. job'[task].after = "stale" =>
            job[task].after = "stale" /\ job'[task].turn = job[task].turn
    BY <1>17 DEF WritesOn, Is, WritesLast
  <2>6. QED
    BY <2>1, <2>2, <2>3, <2>4, <2>5, RanStays
<1>18. ASSUME NEW task \in Tasks, RefusesTool(task) PROVE ToolInv'
  <2>1. /\ asked' = asked
        /\ \A r \in Reqs : r \in crossed' \/ tool'[r] = "admitted" => Ran(r)
    BY <1>18, EventKnown DEF RefusesTool, Handles, Ran
  <2>2. \A u \in Turns :
           interruptedFor'[u] \cap {"barge", "stale"} = interruptedFor[u] \cap {"barge", "stale"}
    BY <1>18, Shapes DEF RefusesTool, Handles, Event
  <2>3. /\ owner'.turn \in {owner.turn, None}
        /\ (owner.hadTool /\ owner'.turn # None => owner'.hadTool)
    BY <1>18 DEF RefusesTool, Handles, Event
  <2>4. \A other \in Tasks : other # task => job'[other] = job[other]
    BY <1>18, MovesEffect DEF RefusesTool, Handles
  <2>5. job'[task].after = "stale" =>
            job[task].after = "stale" /\ job'[task].turn = job[task].turn
    BY <1>18 DEF RefusesTool, Is
  <2>6. QED
    BY <2>1, <2>2, <2>3, <2>4, <2>5, RanStays
<1>19. ASSUME NEW task \in Tasks, AdmitsTool(task) PROVE ToolInv'
  <2>1. /\ asked' = asked
        /\ \A r \in Reqs : r \in crossed' \/ tool'[r] = "admitted" =>
               Ran(r) \/ asked[r] = owner.turn
    <3>1. Handles(task) /\ Event(task).kind = "tool" /\ Event(task).turn = owner.turn
      BY <1>19 DEF AdmitsTool
    <3>2. Event(task).what \in Reqs /\ asked[Event(task).what] = owner.turn
      BY <3>1, EventKnown
    <3>3. asked' = asked /\ crossed' = crossed
      BY <3>1 DEF Handles
    <3>4. \A r \in Reqs : r # Event(task).what => tool'[r] = tool[r]
      BY <1>19, Shapes DEF AdmitsTool
    <3>5. QED
      BY <3>2, <3>3, <3>4 DEF Ran
  <2>2. \A u \in Turns :
           interruptedFor'[u] \cap {"barge", "stale"} = interruptedFor[u] \cap {"barge", "stale"}
    BY <1>19, Shapes DEF AdmitsTool, Handles, Event
  <2>3. /\ owner'.turn = owner.turn /\ owner'.hadTool /\ owner.turn # None /\ ~owner.interrupting
    BY <1>19, EventHandled, EventFields, Names DEF AdmitsTool
  <2>4. \A other \in Tasks : other # task => job'[other] = job[other]
    BY <1>19, MovesEffect DEF AdmitsTool, Handles, Back
  <2>5. job'[task].after = "stale" =>
            job[task].after = "stale" /\ job'[task].turn = job[task].turn
    BY <1>19, EventHandled, BackJob, NoJobFields DEF AdmitsTool, Is
  <2>6. QED
    BY <2>1, <2>2, <2>3, <2>4, <2>5, RanStays
<1>20. ASSUME NEW task \in Tasks, HearsPart(task) PROVE ToolInv'
  <2>1. /\ asked' = asked
        /\ \A r \in Reqs : r \in crossed' \/ tool'[r] = "admitted" => Ran(r)
    BY <1>20 DEF HearsPart, Handles, Event, Ran
  <2>2. \A u \in Turns :
           interruptedFor'[u] \cap {"barge", "stale"} = interruptedFor[u] \cap {"barge", "stale"}
    BY <1>20, Shapes DEF HearsPart, Handles, Event
  <2>3. /\ owner'.turn \in {owner.turn, None}
        /\ (owner.hadTool /\ owner'.turn # None => owner'.hadTool)
    BY <1>20 DEF HearsPart, Handles, Event
  <2>4. \A other \in Tasks : other # task => job'[other] = job[other]
    BY <1>20, MovesEffect DEF HearsPart, Handles, Back
  <2>5. job'[task].after = "stale" =>
            job[task].after = "stale" /\ job'[task].turn = job[task].turn
    BY <1>20, EventHandled, BackJob, NoJobFields DEF HearsPart, Is
  <2>6. QED
    BY <2>1, <2>2, <2>3, <2>4, <2>5, RanStays
<1>21. ASSUME NEW task \in Tasks, PassesEnd(task) PROVE ToolInv'
  <2>1. /\ asked' = asked
        /\ \A r \in Reqs : r \in crossed' \/ tool'[r] = "admitted" => Ran(r)
    BY <1>21 DEF PassesEnd, Handles, Event, Ran
  <2>2. \A u \in Turns :
           interruptedFor'[u] \cap {"barge", "stale"} = interruptedFor[u] \cap {"barge", "stale"}
    BY <1>21, Shapes DEF PassesEnd, Handles, Event
  <2>3. /\ owner'.turn \in {owner.turn, None}
        /\ (owner.hadTool /\ owner'.turn # None => owner'.hadTool)
    BY <1>21 DEF PassesEnd, Handles, Event
  <2>4. \A other \in Tasks : other # task => job'[other] = job[other]
    BY <1>21, MovesEffect DEF PassesEnd, Handles, Back
  <2>5. job'[task].after = "stale" =>
            job[task].after = "stale" /\ job'[task].turn = job[task].turn
    BY <1>21, EventHandled, BackJob, NoJobFields DEF PassesEnd, Is
  <2>6. QED
    BY <2>1, <2>2, <2>3, <2>4, <2>5, RanStays
<1>22. ASSUME NEW task \in Tasks, EndsUnspoken(task) PROVE ToolInv'
  <2>1. /\ asked' = asked
        /\ \A r \in Reqs : r \in crossed' \/ tool'[r] = "admitted" => Ran(r)
    BY <1>22 DEF EndsUnspoken, Handles, Event, EndsTurn, Ran
  <2>2. \A u \in Turns :
           interruptedFor'[u] \cap {"barge", "stale"} = interruptedFor[u] \cap {"barge", "stale"}
    BY <1>22 DEF EndsUnspoken, Handles, Event, EndsTurn
  <2>3. /\ owner'.turn \in {owner.turn, None}
        /\ (owner.hadTool /\ owner'.turn # None => owner'.hadTool)
    BY <1>22 DEF EndsUnspoken, Handles, Event, EndsTurn, Nobody
  <2>4. \A other \in Tasks : other # task => job'[other] = job[other]
    BY <1>22, MovesEffect DEF EndsUnspoken, Handles, Back, EndsTurn
  <2>5. job'[task].after = "stale" =>
            job[task].after = "stale" /\ job'[task].turn = job[task].turn
    BY <1>22, EventHandled, BackJob, NoJobFields DEF EndsUnspoken, Is, EndsTurn
  <2>6. QED
    BY <2>1, <2>2, <2>3, <2>4, <2>5, RanStays
<1>23. ASSUME NEW task \in Tasks, EndsForNext(task) PROVE ToolInv'
  <2>1. /\ asked' = asked
        /\ \A r \in Reqs : r \in crossed' \/ tool'[r] = "admitted" => Ran(r)
    BY <1>23 DEF EndsForNext, Handles, Event, EndsTurn, Renews, Ran
  <2>2. \A u \in Turns :
           interruptedFor'[u] \cap {"barge", "stale"} = interruptedFor[u] \cap {"barge", "stale"}
    BY <1>23 DEF EndsForNext, Handles, Event, EndsTurn, Renews
  <2>3. /\ owner'.turn \in {owner.turn, None}
        /\ (owner.hadTool /\ owner'.turn # None => owner'.hadTool)
    BY <1>23 DEF EndsForNext, Handles, Event, EndsTurn, Renews, Nobody
  <2>4. \A other \in Tasks : other # task => job'[other] = job[other]
    BY <1>23, MovesEffect DEF EndsForNext, Handles, EndsTurn, Renews
  <2>5. job'[task].after = "stale" =>
            job[task].after = "stale" /\ job'[task].turn = job[task].turn
    BY <1>23 DEF EndsForNext, EndsTurn, Renews, Is
  <2>6. QED
    BY <2>1, <2>2, <2>3, <2>4, <2>5, RanStays
<1>24. ASSUME NEW task \in Tasks, EndsSession(task) PROVE ToolInv'
  <2>1. /\ asked' = asked
        /\ \A r \in Reqs : r \in crossed' \/ tool'[r] = "admitted" => Ran(r)
    BY <1>24 DEF EndsSession, Handles, Event, EndsTurn, Ran
  <2>2. \A u \in Turns :
           interruptedFor'[u] \cap {"barge", "stale"} = interruptedFor[u] \cap {"barge", "stale"}
    BY <1>24 DEF EndsSession, Handles, Event, EndsTurn
  <2>3. /\ owner'.turn \in {owner.turn, None}
        /\ (owner.hadTool /\ owner'.turn # None => owner'.hadTool)
    BY <1>24 DEF EndsSession, Handles, Event, EndsTurn, Nobody
  <2>4. \A other \in Tasks : other # task => job'[other] = job[other]
    BY <1>24, MovesEffect DEF EndsSession, Over, Handles, EndsTurn
  <2>5. job'[task].after = "stale" =>
            job[task].after = "stale" /\ job'[task].turn = job[task].turn
    BY <1>24, NoJobFields DEF EndsSession, Over, EndsTurn, Is
  <2>6. QED
    BY <2>1, <2>2, <2>3, <2>4, <2>5, RanStays
<1>25. ASSUME NEW task \in Tasks, EndsForSpeech(task) PROVE ToolInv'
  <2>1. /\ asked' = asked
        /\ \A r \in Reqs : r \in crossed' \/ tool'[r] = "admitted" => Ran(r)
    BY <1>25 DEF EndsForSpeech, Handles, Event, EndsTurn, Ran
  <2>2. \A u \in Turns :
           interruptedFor'[u] \cap {"barge", "stale"} = interruptedFor[u] \cap {"barge", "stale"}
    BY <1>25 DEF EndsForSpeech, Handles, Event, EndsTurn
  <2>3. /\ owner'.turn \in {owner.turn, None}
        /\ (owner.hadTool /\ owner'.turn # None => owner'.hadTool)
    BY <1>25 DEF EndsForSpeech, Handles, Event, EndsTurn, Nobody
  <2>4. \A other \in Tasks : other # task => job'[other] = job[other]
    BY <1>25, MovesEffect DEF EndsForSpeech, Handles, EndsTurn
  <2>5. job'[task].after # "stale"
    <3>1. Handles(task) /\ job'[task].after = job[task].after
      BY <1>25 DEF EndsForSpeech, EndsTurn, Is
    <3>2. QED
      BY <3>1, EventHandled, PlaceFacts
  <2>6. QED
    BY <2>1, <2>2, <2>3, <2>4, <2>5, RanStays
<1>26. ASSUME NEW task \in Tasks, Retired(task) PROVE ToolInv'
  <2>1. /\ asked' = asked
        /\ \A r \in Reqs : r \in crossed' \/ tool'[r] = "admitted" => Ran(r)
    BY <1>26, Shapes DEF Retired, Ran
  <2>2. \A u \in Turns :
           interruptedFor'[u] \cap {"barge", "stale"} = interruptedFor[u] \cap {"barge", "stale"}
    BY <1>26, Shapes DEF Retired
  <2>3. /\ owner'.turn \in {owner.turn, None}
        /\ (owner.hadTool /\ owner'.turn # None => owner'.hadTool)
    BY <1>26, Shapes DEF Retired
  <2>4. \A other \in Tasks : other # task => job'[other] = job[other]
    BY <1>26, MovesEffect DEF Retired
  <2>5. job'[task].after = "stale" =>
            job[task].after = "stale" /\ job'[task].turn = job[task].turn
    BY <1>26 DEF Retired, Alike, Is
  <2>6. QED
    BY <2>1, <2>2, <2>3, <2>4, <2>5, RanStays
<1>27. ASSUME NEW task \in Tasks, Submits(task) PROVE ToolInv'
  <2>1. /\ asked' = asked
        /\ \A r \in Reqs : r \in crossed' \/ tool'[r] = "admitted" => Ran(r)
    BY <1>27, Shapes DEF Submits, Ran
  <2>2. \A u \in Turns :
           interruptedFor'[u] \cap {"barge", "stale"} = interruptedFor[u] \cap {"barge", "stale"}
    BY <1>27, Shapes DEF Submits
  <2>3. /\ owner'.turn \in {owner.turn, None}
        /\ (owner.hadTool /\ owner'.turn # None => owner'.hadTool)
    BY <1>27, Shapes DEF Submits
  <2>4. \A other \in Tasks : other # task => job'[other] = job[other]
    BY <1>27, MovesEffect DEF Submits
  <2>5. job'[task].after = "stale" =>
            job[task].after = "stale" /\ job'[task].turn = job[task].turn
    BY <1>27 DEF Submits, Alike, Is
  <2>6. QED
    BY <2>1, <2>2, <2>3, <2>4, <2>5, RanStays
<1>28. ASSUME NEW task \in Tasks, AnswerOver(task) PROVE ToolInv'
  <2>1. /\ asked' = asked
        /\ \A r \in Reqs : r \in crossed' \/ tool'[r] = "admitted" => Ran(r)
    BY <1>28, Shapes DEF AnswerOver, EndsAnswer, Ran
  <2>2. \A u \in Turns :
           interruptedFor'[u] \cap {"barge", "stale"} = interruptedFor[u] \cap {"barge", "stale"}
    BY <1>28, Shapes DEF AnswerOver, EndsAnswer
  <2>3. /\ owner'.turn \in {owner.turn, None}
        /\ (owner.hadTool /\ owner'.turn # None => owner'.hadTool)
    BY <1>28, Shapes DEF AnswerOver, EndsAnswer
  <2>4. \A other \in Tasks : other # task => job'[other] = job[other]
    BY <1>28, MovesEffect DEF AnswerOver, Back, EndsAnswer
  <2>5. job'[task].after = "stale" =>
            job[task].after = "stale" /\ job'[task].turn = job[task].turn
    BY <1>28, BackJob, NoJobFields DEF AnswerOver, Is, EndsAnswer, Answering
  <2>6. QED
    BY <2>1, <2>2, <2>3, <2>4, <2>5, RanStays
<1>29. ASSUME NEW task \in Tasks, AnswerForNext(task) PROVE ToolInv'
  BY <1>29, MovesEffect DEF AnswerForNext, Renews, Is, EndsAnswer, ToolInv, Ran
<1>30. ASSUME NEW task \in Tasks, FailsStart(task) PROVE ToolInv'
  <2>1. /\ asked' = asked
        /\ \A r \in Reqs : r \in crossed' \/ tool'[r] = "admitted" => Ran(r)
    BY <1>30, Shapes DEF FailsStart, Rejecting, Ran
  <2>2. \A u \in Turns :
           interruptedFor'[u] \cap {"barge", "stale"} = interruptedFor[u] \cap {"barge", "stale"}
    BY <1>30, Shapes DEF FailsStart, Rejecting
  <2>3. /\ owner'.turn \in {owner.turn, None}
        /\ (owner.hadTool /\ owner'.turn # None => owner'.hadTool)
    BY <1>30, Shapes DEF FailsStart
  <2>4. \A other \in Tasks : other # task => job'[other] = job[other]
    BY <1>30, MovesEffect DEF FailsStart, Rejecting, Over
  <2>5. job'[task].after = "stale" =>
            job[task].after = "stale" /\ job'[task].turn = job[task].turn
    BY <1>30, NoJobFields DEF FailsStart, Rejecting, Is, Over
  <2>6. QED
    BY <2>1, <2>2, <2>3, <2>4, <2>5, RanStays
<1>31. ASSUME NEW task \in Tasks, Fails(task) PROVE ToolInv'
  <2>1. /\ asked' = asked
        /\ \A r \in Reqs : r \in crossed' \/ tool'[r] = "admitted" => Ran(r)
    BY <1>31, Shapes DEF Fails, Waits, Ran
  <2>2. \A u \in Turns :
           interruptedFor'[u] \cap {"barge", "stale"} = interruptedFor[u] \cap {"barge", "stale"}
    BY <1>31, Shapes DEF Fails, Waits
  <2>3. /\ owner'.turn \in {owner.turn, None}
        /\ (owner.hadTool /\ owner'.turn # None => owner'.hadTool)
    BY <1>31, Shapes DEF Fails, Waits
  <2>4. \A other \in Tasks : other # task => job'[other] = job[other]
    BY <1>31, MovesEffect DEF Fails, Over, Waits
  <2>5. job'[task].after = "stale" =>
            job[task].after = "stale" /\ job'[task].turn = job[task].turn
    BY <1>31, NoJobFields DEF Fails, Over, Waits, Is
  <2>6. QED
    BY <2>1, <2>2, <2>3, <2>4, <2>5, RanStays
<1>32. ASSUME Overflows PROVE ToolInv'
  <2>1. /\ asked' = asked
        /\ \A r \in Reqs : r \in crossed' \/ tool'[r] = "admitted" => Ran(r)
    BY <1>32, Shapes DEF Overflows, Rejecting, Ran
  <2>2. \A u \in Turns :
           interruptedFor'[u] \cap {"barge", "stale"} = interruptedFor[u] \cap {"barge", "stale"}
    BY <1>32, Shapes DEF Overflows, Rejecting
  <2>3. /\ owner'.turn \in {owner.turn, None}
        /\ (owner.hadTool /\ owner'.turn # None => owner'.hadTool)
    BY <1>32, Shapes DEF Overflows
  <2>4. \A other \in Tasks : other # "exec" => job'[other] = job[other]
    BY <1>32, MovesEffect, Names DEF Overflows, Rejecting
  <2>5. job'["exec"].after = "stale" =>
            job["exec"].after = "stale" /\ job'["exec"].turn = job["exec"].turn
    BY <1>32, NoJobFields DEF Overflows, Rejecting, Is
  <2>6. QED
    BY <2>1, <2>2, <2>3, <2>4, <2>5, RanStays
<1>33. ASSUME NEW r \in Reqs, CallsTool(r) PROVE ToolInv'
  BY <1>33, PlaceFacts DEF CallsTool, ToolInv, Ran
<1>34. ASSUME NEW r \in Reqs, SettlesTool(r) PROVE ToolInv'
  BY <1>34, HoldsKept DEF SettlesTool, ToolInv, Ran
<1>35. ASSUME Expires PROVE ToolInv'
  <2>1. /\ asked' = asked
        /\ \A r \in Reqs : r \in crossed' \/ tool'[r] = "admitted" => Ran(r)
    BY <1>35, Shapes DEF Expires, Ran
  <2>2. \A u \in Turns :
           interruptedFor'[u] \cap {"barge", "stale"} = interruptedFor[u] \cap {"barge", "stale"}
    BY <1>35, Shapes DEF Expires
  <2>3. /\ owner'.turn \in {owner.turn, None}
        /\ (owner.hadTool /\ owner'.turn # None => owner'.hadTool)
    BY <1>35, Shapes DEF Expires
  <2>4. \A other \in Tasks : other # "watchdog" => job'[other] = job[other]
    BY <1>35, MovesEffect, Names DEF Expires
  <2>5. job'["watchdog"].after # "stale"
    <3>1. DEFINE j == [NoJob EXCEPT !.turn = owner.turn, !.gen = owner.gen]
    <3>2. Is(j, "nothing", owner.gen, owner.turn, <<>>, <<>>, "idle", 0)
      BY JobOf, Shapes
    <3>3. QED
      BY <1>35, <3>2 DEF Expires, Is
  <2>6. QED
    BY <2>1, <2>2, <2>3, <2>4, <2>5, RanStays
<1>36. ASSUME WatchdogTombstones PROVE ToolInv'
  <2>1. /\ asked' = asked
        /\ \A r \in Reqs : r \in crossed' \/ tool'[r] = "admitted" => Ran(r)
    BY <1>36, Shapes DEF WatchdogTombstones, Ran
  <2>2. \A u \in Turns :
           interruptedFor'[u] \cap {"barge", "stale"} = interruptedFor[u] \cap {"barge", "stale"}
    BY <1>36, Shapes DEF WatchdogTombstones, Interrupted
  <2>3. /\ owner'.turn \in {owner.turn, None}
        /\ (owner.hadTool /\ owner'.turn # None => owner'.hadTool)
    BY <1>36, Shapes DEF WatchdogTombstones, Interrupted
  <2>4. \A other \in Tasks : other # "watchdog" => job'[other] = job[other]
    BY <1>36, MovesEffect, Names DEF WatchdogTombstones
  <2>5. job'["watchdog"].after = "stale" =>
            job["watchdog"].after = "stale" /\ job'["watchdog"].turn = job["watchdog"].turn
    BY <1>36 DEF WatchdogTombstones
  <2>6. QED
    BY <2>1, <2>2, <2>3, <2>4, <2>5, RanStays
<1>37. ASSUME WatchdogLeaves PROVE ToolInv'
  <2>1. /\ asked' = asked
        /\ \A r \in Reqs : r \in crossed' \/ tool'[r] = "admitted" => Ran(r)
    BY <1>37, Shapes DEF WatchdogLeaves, Ran
  <2>2. \A u \in Turns :
           interruptedFor'[u] \cap {"barge", "stale"} = interruptedFor[u] \cap {"barge", "stale"}
    BY <1>37, Shapes DEF WatchdogLeaves
  <2>3. /\ owner'.turn \in {owner.turn, None}
        /\ (owner.hadTool /\ owner'.turn # None => owner'.hadTool)
    BY <1>37, Shapes DEF WatchdogLeaves
  <2>4. \A other \in Tasks : other # "watchdog" => job'[other] = job[other]
    BY <1>37, MovesEffect, Names DEF WatchdogLeaves, GiveUp
  <2>5. job'["watchdog"].after = "stale" =>
            job["watchdog"].after = "stale" /\ job'["watchdog"].turn = job["watchdog"].turn
    BY <1>37, NoJobFields DEF WatchdogLeaves, GiveUp, Is
  <2>6. QED
    BY <2>1, <2>2, <2>3, <2>4, <2>5, RanStays
<1>38. ASSUME TearsDown PROVE ToolInv'
  BY <1>38, NoJobFields
     DEF TearsDown, ToolInv, Ran, PlaceInv, EventInv, FreshInv, TurnInv, Is
<1>39. ASSUME TearsDownAnswers PROVE ToolInv'
  BY <1>39, PlaceFacts DEF TearsDownAnswers, ToolInv, Ran
<1>40. ASSUME TearsDownLocks PROVE ToolInv'
  <2>1. /\ asked' = asked
        /\ \A r \in Reqs : r \in crossed' \/ tool'[r] = "admitted" => Ran(r)
    BY <1>40, Shapes DEF TearsDownLocks, Ran
  <2>2. \A u \in Turns :
           interruptedFor'[u] \cap {"barge", "stale"} = interruptedFor[u] \cap {"barge", "stale"}
    BY <1>40, Shapes DEF TearsDownLocks
  <2>3. /\ owner'.turn \in {owner.turn, None}
        /\ (owner.hadTool /\ owner'.turn # None => owner'.hadTool)
    BY <1>40, Shapes DEF TearsDownLocks
  <2>4. \A other \in Tasks : other # "shutdown" => job'[other] = job[other]
    BY <1>40, MovesEffect, Names DEF TearsDownLocks
  <2>5. job'["shutdown"].after = "stale" =>
            job["shutdown"].after = "stale" /\ job'["shutdown"].turn = job["shutdown"].turn
    BY <1>40 DEF TearsDownLocks
  <2>6. QED
    BY <2>1, <2>2, <2>3, <2>4, <2>5, RanStays
<1>41. ASSUME ShutdownTombstones PROVE ToolInv'
  BY <1>41, MovesEffect, Names DEF ShutdownTombstones, Interrupted, ToolInv, Ran
<1>42. ASSUME Ends PROVE ToolInv'
  BY <1>42, NoJobFields DEF Ends, ToolInv, Ran, PlaceInv, EventInv, FreshInv, TurnInv, Is
<1>43. ASSUME NEW t \in Turns, NEW r \in Reqs, AsksTool(t, r) PROVE ToolInv'
  BY <1>43, MovesEffect, NoJobFields DEF AsksTool, ToolInv, Ran
<1>44. CASE UNCHANGED vars
  BY <1>44 DEF vars, ToolInv, Ran
<1> QED
  BY <1>1, <1>2, <1>3, <1>4, <1>5, <1>6, <1>7, <1>8, <1>9, <1>10, <1>11, <1>12, <1>13,
     <1>14, <1>15, <1>16, <1>17, <1>18, <1>19, <1>20, <1>21, <1>22, <1>23, <1>24, <1>25,
     <1>26, <1>27, <1>28, <1>29, <1>30, <1>31, <1>32, <1>33, <1>34, <1>35, <1>36, <1>37,
     <1>38, <1>39, <1>40, <1>41, <1>42, <1>43, <1>44
     DEF Steps

(* The active turn was started for the generation it has.                  *)
LEMMA OwnerStep ==
    TypeOK /\ PlaceInv /\ LockInv /\ StartInv /\ FreshInv /\ OwnerInv /\ [Steps]_vars
       => OwnerInv'
<1> SUFFICES ASSUME TypeOK, PlaceInv, LockInv, StartInv, FreshInv, OwnerInv, [Steps]_vars
             PROVE  OwnerInv'
  OBVIOUS
<1> USE DEF userVars, turnVars, taskVars, toolVars, ownerVars, serverVars, speechVars,
            interruptVars
<1>1. ASSUME NEW task \in Tasks, AsksTurn(task) \/ AsksEnd(task) \/ Asks(task) \/
                GivesBack(task) \/ Accepted(task) \/ WritesNext(task) \/ WritesOut(task) \/
                WritesOn(task) \/ RefusesTool(task) \/ PassesEnd(task) \/ Retired(task) \/
                Submits(task) \/ AnswerOver(task) \/ AnswerForNext(task) \/ FailsStart(task)
                \/ Fails(task)
      PROVE  OwnerInv'
  <2>1. UNCHANGED <<heard, owner, startedFor, finished>>
    BY <1>1
       DEF AsksTurn, AsksEnd, Asks, GivesBack, Accepted, WritesNext, WritesOut, WritesOn,
           RefusesTool, PassesEnd, Retired, Submits, AnswerOver, AnswerForNext, FailsStart,
           Fails, Writes, WritesLast, Handles, EndsAnswer
  <2>2. QED
    BY <2>1 DEF OwnerInv
<1>2. ASSUME NotesTurn \/ Buffers \/ Overflows \/ RendersOn \/ Expires \/ WatchdogLeaves \/
                MayFail \/ TearsDownAnswers \/ TearsDownLocks \/ ShutdownTombstones \/ Ends
      PROVE  OwnerInv'
  <2>1. UNCHANGED <<heard, owner, startedFor, finished>>
    BY <1>2
       DEF NotesTurn, Buffers, Overflows, RendersOn, Expires, WatchdogLeaves, MayFail,
           TearsDownAnswers, TearsDownLocks, ShutdownTombstones, Ends
  <2>2. QED
    BY <2>1 DEF OwnerInv
<1>3. ASSUME NEW r \in Reqs, CallsTool(r) \/ SettlesTool(r)
      PROVE  OwnerInv'
  <2>1. UNCHANGED <<heard, owner, startedFor, finished>>
    BY <1>3 DEF CallsTool, SettlesTool
  <2>2. QED
    BY <2>1 DEF OwnerInv
<1>4. ASSUME NEW t \in Turns, Takes(t)
      PROVE  OwnerInv'
  <2>1. UNCHANGED <<heard, owner, startedFor, finished>>
    BY <1>4 DEF Takes
  <2>2. QED
    BY <2>1 DEF OwnerInv
<1>5. ASSUME NEW t \in Turns, NEW r \in Reqs, AsksTool(t, r)
      PROVE  OwnerInv'
  <2>1. UNCHANGED <<heard, owner, startedFor, finished>>
    BY <1>5 DEF AsksTool
  <2>2. QED
    BY <2>1 DEF OwnerInv
<1>6. ASSUME NEW t \in Turns, NEW ev \in Events, Says(t, ev)
      PROVE  OwnerInv'
  <2>1. UNCHANGED <<heard, owner, startedFor, finished>>
    BY <1>6 DEF Says
  <2>2. QED
    BY <2>1 DEF OwnerInv
<1>7. ASSUME NEW task \in Tasks, OrdersTurn(task) PROVE OwnerInv'
  BY <1>7, PlaceFacts DEF OrdersTurn, Alike, OwnerInv
<1>8. ASSUME NEW task \in Tasks, TombstonesTurn(task) PROVE OwnerInv'
  BY <1>8, PlaceFacts DEF TombstonesTurn, Interrupted, OwnerInv
<1>9. ASSUME NEW task \in Tasks, LateRejects(task) PROVE OwnerInv'
  BY <1>9, PlaceFacts
     DEF LateRejects, Starts, Rejecting, OwnerInv, PlaceInv, LockInv, StartInv, FreshInv
<1>10. ASSUME NEW task \in Tasks, LateInterrupts(task) PROVE OwnerInv'
  BY <1>10, PlaceFacts
     DEF LateInterrupts, Interrupted, Starts, OwnerInv, PlaceInv, LockInv, StartInv,
         FreshInv
<1>11. ASSUME NEW task \in Tasks, OwnsRejects(task) PROVE OwnerInv'
  <2>1. /\ Starts(task) /\ job[task].gen = generation
        /\ owner' = [Nobody EXCEPT !.turn = reply, !.gen = generation]
    BY <1>11 DEF OwnsRejects, Owns
  <2>2. reply # None /\ reply \in Turns /\ Fresh(reply) /\ pc[task] = "starting"
    BY <2>1, Shapes DEF Starts, FreshInv
  <2>3. heard' = heard /\ finished' = finished /\ startedFor'[reply] = generation
    BY <2>1, <2>2, Shapes DEF Starts
  <2>4. heard = {}
    BY <2>2, Names DEF StartInv, OwnerInv, TypeOK
  <2>5. owner'.turn = reply /\ owner'.gen = generation /\ generation # 0
    BY <2>1, <2>2, PlaceFacts
  <2>6. QED
    BY <2>2, <2>3, <2>4, <2>5 DEF OwnerInv, Fresh
<1>12. ASSUME NEW task \in Tasks, OwnsReplays(task) PROVE OwnerInv'
  <2>1. /\ Starts(task) /\ job[task].gen = generation
        /\ owner' = [Nobody EXCEPT !.turn = reply, !.gen = generation]
    BY <1>12 DEF OwnsReplays, Owns
  <2>2. reply # None /\ reply \in Turns /\ Fresh(reply) /\ pc[task] = "starting"
    BY <2>1, Shapes DEF Starts, FreshInv
  <2>3. heard' = heard /\ finished' = finished /\ startedFor'[reply] = generation
    BY <2>1, <2>2, Shapes DEF Starts
  <2>4. heard = {}
    BY <2>2, Names DEF StartInv, OwnerInv, TypeOK
  <2>5. owner'.turn = reply /\ owner'.gen = generation /\ generation # 0
    BY <2>1, <2>2, PlaceFacts
  <2>6. QED
    BY <2>2, <2>3, <2>4, <2>5 DEF OwnerInv, Fresh
<1>13. ASSUME NEW task \in Tasks, AdmitsTool(task) PROVE OwnerInv'
  BY <1>13, PlaceFacts DEF AdmitsTool, Handles, Event, Back, OwnerInv
<1>14. ASSUME NEW task \in Tasks, HearsPart(task) PROVE OwnerInv'
  BY <1>14, HoldsKept DEF HearsPart, Handles, Event, Back, OwnerInv
<1>15. ASSUME NEW task \in Tasks, EndsUnspoken(task) PROVE OwnerInv'
  BY <1>15, PlaceFacts
     DEF EndsUnspoken, Handles, Event, Back, EndsTurn, OwnerInv, PlaceInv, LockInv,
         StartInv, FreshInv, Nobody
<1>16. ASSUME NEW task \in Tasks, EndsForNext(task) PROVE OwnerInv'
  BY <1>16, PlaceFacts
     DEF EndsForNext, Handles, Event, EndsTurn, Renews, OwnerInv, PlaceInv, LockInv,
         StartInv, FreshInv, Nobody
<1>17. ASSUME NEW task \in Tasks, EndsSession(task) PROVE OwnerInv'
  BY <1>17, PlaceFacts
     DEF EndsSession, Over, Frees, QueueOK, Handles, Event, EndsTurn, OwnerInv, PlaceInv,
         LockInv, StartInv, FreshInv, Nobody
<1>18. ASSUME NEW task \in Tasks, EndsForSpeech(task) PROVE OwnerInv'
  BY <1>18, PlaceFacts
     DEF EndsForSpeech, Handles, Event, Left, EndsTurn, OwnerInv, PlaceInv, LockInv,
         StartInv, FreshInv, Nobody
<1>19. ASSUME WatchdogTombstones PROVE OwnerInv'
  BY <1>19, PlaceFacts DEF WatchdogTombstones, Interrupted, OwnerInv
<1>20. ASSUME TearsDown PROVE OwnerInv'
  BY <1>20, PlaceFacts DEF TearsDown, OwnerInv
<1>21. CASE UNCHANGED vars
  BY <1>21 DEF vars, OwnerInv
<1> QED
  BY <1>1, <1>2, <1>3, <1>4, <1>5, <1>6, <1>7, <1>8, <1>9, <1>10, <1>11, <1>12, <1>13,
     <1>14, <1>15, <1>16, <1>17, <1>18, <1>19, <1>20, <1>21
     DEF Steps

(* Answers that were submitted.                                            *)
LEMMA SpokenStep ==
    TypeOK /\ PlaceInv /\ FreshInv /\ AnswerInv /\ SpokenInv /\ [Steps]_vars => SpokenInv'
<1> SUFFICES ASSUME TypeOK, PlaceInv, FreshInv, AnswerInv, SpokenInv, [Steps]_vars
             PROVE  SpokenInv'
  OBVIOUS
<1> USE DEF userVars, turnVars, taskVars, toolVars, ownerVars, serverVars, speechVars,
            interruptVars
<1>1. ASSUME NEW task \in Tasks, AsksTurn(task) \/ AsksEnd(task) \/ Asks(task) \/
                GivesBack(task) \/ OrdersTurn(task) \/ TombstonesTurn(task) \/ Accepted(task)
                \/ WritesNext(task) \/ WritesOut(task) \/ WritesOn(task) \/ RefusesTool(task)
                \/ AdmitsTool(task) \/ HearsPart(task) \/ PassesEnd(task) \/ Retired(task) \/
                AnswerOver(task) \/ AnswerForNext(task) \/ FailsStart(task) \/ Fails(task)
      PROVE  SpokenInv'
  <2>1. UNCHANGED <<spoken, startedFor, finished>>
    BY <1>1
       DEF AsksTurn, AsksEnd, Asks, GivesBack, OrdersTurn, TombstonesTurn, Accepted,
           WritesNext, WritesOut, WritesOn, RefusesTool, AdmitsTool, HearsPart, PassesEnd,
           Retired, AnswerOver, AnswerForNext, FailsStart, Fails, Writes, WritesLast,
           Handles, EndsAnswer
  <2>2. QED
    BY <2>1 DEF SpokenInv
<1>2. ASSUME NotesTurn \/ Buffers \/ Overflows \/ RendersOn \/ Expires \/ WatchdogTombstones
                \/ WatchdogLeaves \/ MayFail \/ TearsDown \/ TearsDownAnswers \/
                TearsDownLocks \/ ShutdownTombstones \/ Ends
      PROVE  SpokenInv'
  <2>1. UNCHANGED <<spoken, startedFor, finished>>
    BY <1>2
       DEF NotesTurn, Buffers, Overflows, RendersOn, Expires, WatchdogTombstones,
           WatchdogLeaves, MayFail, TearsDown, TearsDownAnswers, TearsDownLocks,
           ShutdownTombstones, Ends
  <2>2. QED
    BY <2>1 DEF SpokenInv
<1>3. ASSUME NEW r \in Reqs, CallsTool(r) \/ SettlesTool(r)
      PROVE  SpokenInv'
  <2>1. UNCHANGED <<spoken, startedFor, finished>>
    BY <1>3 DEF CallsTool, SettlesTool
  <2>2. QED
    BY <2>1 DEF SpokenInv
<1>4. ASSUME NEW t \in Turns, Takes(t)
      PROVE  SpokenInv'
  <2>1. UNCHANGED <<spoken, startedFor, finished>>
    BY <1>4 DEF Takes
  <2>2. QED
    BY <2>1 DEF SpokenInv
<1>5. ASSUME NEW t \in Turns, NEW r \in Reqs, AsksTool(t, r)
      PROVE  SpokenInv'
  <2>1. UNCHANGED <<spoken, startedFor, finished>>
    BY <1>5 DEF AsksTool
  <2>2. QED
    BY <2>1 DEF SpokenInv
<1>6. ASSUME NEW t \in Turns, NEW ev \in Events, Says(t, ev)
      PROVE  SpokenInv'
  <2>1. UNCHANGED <<spoken, startedFor, finished>>
    BY <1>6 DEF Says
  <2>2. QED
    BY <2>1 DEF SpokenInv
<1>7. ASSUME NEW task \in Tasks, LateRejects(task) PROVE SpokenInv'
  BY <1>7, PlaceFacts, Shapes
     DEF LateRejects, Starts, Rejecting, SpokenInv, PlaceInv, FreshInv, AnswerInv, Fresh
<1>8. ASSUME NEW task \in Tasks, LateInterrupts(task) PROVE SpokenInv'
  BY <1>8, PlaceFacts, Shapes
     DEF LateInterrupts, Interrupted, Starts, SpokenInv, PlaceInv, FreshInv, AnswerInv,
         Fresh
<1>9. ASSUME NEW task \in Tasks, OwnsRejects(task) PROVE SpokenInv'
  BY <1>9, PlaceFacts, Shapes
     DEF OwnsRejects, Starts, Rejecting, Owns, SpokenInv, PlaceInv, FreshInv, AnswerInv,
         Fresh
<1>10. ASSUME NEW task \in Tasks, OwnsReplays(task) PROVE SpokenInv'
  BY <1>10, PlaceFacts, Shapes
     DEF OwnsReplays, Starts, Owns, SpokenInv, PlaceInv, FreshInv, AnswerInv, Fresh
<1>11. ASSUME NEW task \in Tasks, EndsUnspoken(task) PROVE SpokenInv'
  BY <1>11, PlaceFacts DEF EndsUnspoken, Handles, Event, Back, EndsTurn, SpokenInv
<1>12. ASSUME NEW task \in Tasks, EndsForNext(task) PROVE SpokenInv'
  BY <1>12, PlaceFacts DEF EndsForNext, Handles, Event, EndsTurn, Renews, SpokenInv
<1>13. ASSUME NEW task \in Tasks, EndsSession(task) PROVE SpokenInv'
  BY <1>13, PlaceFacts
     DEF EndsSession, Over, Frees, QueueOK, Handles, Event, EndsTurn, SpokenInv
<1>14. ASSUME NEW task \in Tasks, EndsForSpeech(task) PROVE SpokenInv'
  BY <1>14, PlaceFacts DEF EndsForSpeech, Handles, Event, Left, EndsTurn, SpokenInv
<1>15. ASSUME NEW task \in Tasks, Submits(task) PROVE SpokenInv'
  BY <1>15, MovesEffect
     DEF Submits, Alike, SpokenInv, PlaceInv, FreshInv, AnswerInv, Answering
<1>16. CASE UNCHANGED vars
  BY <1>16 DEF vars, SpokenInv
<1> QED
  BY <1>1, <1>2, <1>3, <1>4, <1>5, <1>6, <1>7, <1>8, <1>9, <1>10, <1>11, <1>12, <1>13,
     <1>14, <1>15, <1>16
     DEF Steps

(* Answers and their turns.                                                *)
LEMMA AnswerStep ==
    TypeOK /\ PlaceInv /\ LockInv /\ FreshInv /\ OwnerInv /\ SpokenInv /\ AnswerInv /\
       [Steps]_vars
       => AnswerInv'
<1> SUFFICES ASSUME TypeOK, PlaceInv, LockInv, FreshInv, OwnerInv, SpokenInv, AnswerInv,
                    [Steps]_vars
             PROVE  AnswerInv'
  OBVIOUS
<1> USE DEF userVars, turnVars, taskVars, toolVars, ownerVars, serverVars, speechVars,
            interruptVars
<1>1. ASSUME NotesTurn \/ Buffers \/ RendersOn \/ MayFail \/ TearsDownAnswers
      PROVE  AnswerInv'
  <2>1. UNCHANGED <<startedFor, finished, pc, job, spoken>>
    BY <1>1 DEF NotesTurn, Buffers, RendersOn, MayFail, TearsDownAnswers
  <2>2. QED
    BY <2>1 DEF AnswerInv
<1>2. ASSUME NEW r \in Reqs, CallsTool(r) \/ SettlesTool(r)
      PROVE  AnswerInv'
  <2>1. UNCHANGED <<startedFor, finished, pc, job, spoken>>
    BY <1>2 DEF CallsTool, SettlesTool
  <2>2. QED
    BY <2>1 DEF AnswerInv
<1>3. ASSUME NEW t \in Turns, Takes(t)
      PROVE  AnswerInv'
  <2>1. UNCHANGED <<startedFor, finished, pc, job, spoken>>
    BY <1>3 DEF Takes
  <2>2. QED
    BY <2>1 DEF AnswerInv
<1>4. ASSUME NEW t \in Turns, NEW r \in Reqs, AsksTool(t, r)
      PROVE  AnswerInv'
  <2>1. UNCHANGED <<startedFor, finished, pc, job, spoken>>
    BY <1>4 DEF AsksTool
  <2>2. QED
    BY <2>1 DEF AnswerInv
<1>5. ASSUME NEW t \in Turns, NEW ev \in Events, Says(t, ev)
      PROVE  AnswerInv'
  <2>1. UNCHANGED <<startedFor, finished, pc, job, spoken>>
    BY <1>5 DEF Says
  <2>2. QED
    BY <2>1 DEF AnswerInv
<1>6. ASSUME NEW task \in Tasks, AsksTurn(task) PROVE AnswerInv'
  BY <1>6, MovesEffect DEF AsksTurn, AnswerInv, Answering
<1>7. ASSUME NEW task \in Tasks, AsksEnd(task) PROVE AnswerInv'
  BY <1>7, MovesEffect DEF AsksEnd, AnswerInv, Answering, Tasks
<1>8. ASSUME NEW task \in Tasks, Asks(task) PROVE AnswerInv'
  <2>1. UNCHANGED <<startedFor, finished, spoken>> /\ pc'[task] \notin Answering
    BY <1>8, MovesEffect DEF Asks, Answering
  <2>2. \A other \in Tasks : other # task => pc'[other] = pc[other] /\ job'[other] = job[other]
    BY <1>8, MovesEffect DEF Asks
  <2>3. QED
    BY <2>1, <2>2 DEF AnswerInv
<1>9. ASSUME NEW task \in Tasks, GivesBack(task) PROVE AnswerInv'
  BY <1>9, MovesEffect DEF GivesBack, GiveUp, Frees, AnswerInv, Answering
<1>10. ASSUME NEW task \in Tasks, OrdersTurn(task) PROVE AnswerInv'
  BY <1>10, MovesEffect DEF OrdersTurn, AnswerInv, Answering, LockInv, FreshInv, OwnerInv
<1>11. ASSUME NEW task \in Tasks, TombstonesTurn(task) PROVE AnswerInv'
  BY <1>11, MovesEffect DEF TombstonesTurn, AnswerInv, Answering
<1>12. ASSUME NEW task \in Tasks, Accepted(task) PROVE AnswerInv'
  BY <1>12, MovesEffect DEF Accepted, AnswerInv, Answering
<1>13. ASSUME NEW task \in Tasks, LateRejects(task) PROVE AnswerInv'
  BY <1>13, MovesEffect, Shapes
     DEF LateRejects, Starts, Rejecting, AnswerInv, Answering, FreshInv, Tasks, Fresh
<1>14. ASSUME NEW task \in Tasks, LateInterrupts(task) PROVE AnswerInv'
  BY <1>14, MovesEffect, Shapes
     DEF LateInterrupts, Interrupted, Starts, AnswerInv, Answering, FreshInv, Tasks, Fresh
<1>15. ASSUME NEW task \in Tasks, OwnsRejects(task) PROVE AnswerInv'
  BY <1>15, MovesEffect, Shapes
     DEF OwnsRejects, Starts, Is, Rejecting, Owns, AnswerInv, Answering, PlaceInv, LockInv,
         FreshInv, SpokenInv, Fresh
<1>16. ASSUME NEW task \in Tasks, OwnsReplays(task) PROVE AnswerInv'
  BY <1>16, MovesEffect, Shapes
     DEF OwnsReplays, Starts, Owns, AnswerInv, Answering, FreshInv, Tasks, Fresh
<1>17. ASSUME NEW task \in Tasks, WritesNext(task) PROVE AnswerInv'
  BY <1>17, MovesEffect DEF WritesNext, Writes, AnswerInv, Answering, LockInv
<1>18. ASSUME NEW task \in Tasks, WritesOut(task) PROVE AnswerInv'
  BY <1>18, MovesEffect DEF WritesOut, Writes, WritesLast, Over, AnswerInv, Answering
<1>19. ASSUME NEW task \in Tasks, WritesOn(task) PROVE AnswerInv'
  BY <1>19, MovesEffect DEF WritesOn, Writes, WritesLast, AnswerInv, Answering
<1>20. ASSUME NEW task \in Tasks, RefusesTool(task) PROVE AnswerInv'
  BY <1>20, MovesEffect DEF RefusesTool, Handles, AnswerInv, Answering
<1>21. ASSUME NEW task \in Tasks, AdmitsTool(task) PROVE AnswerInv'
  BY <1>21, MovesEffect DEF AdmitsTool, Handles, Back, AnswerInv, Answering
<1>22. ASSUME NEW task \in Tasks, HearsPart(task) PROVE AnswerInv'
  BY <1>22, MovesEffect DEF HearsPart, Handles, Back, AnswerInv, Answering
<1>23. ASSUME NEW task \in Tasks, PassesEnd(task) PROVE AnswerInv'
  BY <1>23, MovesEffect DEF PassesEnd, Handles, Back, AnswerInv, Answering
<1>24. ASSUME NEW task \in Tasks, EndsUnspoken(task) PROVE AnswerInv'
  BY <1>24, MovesEffect DEF EndsUnspoken, Handles, Back, EndsTurn, AnswerInv, Answering
<1>25. ASSUME NEW task \in Tasks, EndsForNext(task) PROVE AnswerInv'
  BY <1>25, MovesEffect DEF EndsForNext, Handles, EndsTurn, Renews, AnswerInv, Answering
<1>26. ASSUME NEW task \in Tasks, EndsSession(task) PROVE AnswerInv'
  BY <1>26, MovesEffect DEF EndsSession, Over, Handles, EndsTurn, AnswerInv, Answering
<1>27. ASSUME NEW task \in Tasks, EndsForSpeech(task) PROVE AnswerInv'
  <2>1. /\ Handles(task) /\ \E there \in {"retiring", "settling"} : Moves(task, there)
        /\ finished' = finished \cup {owner.turn} /\ Event(task).turn = owner.turn
        /\ job'[task].gen = owner.gen /\ job'[task].turn = owner.turn /\ job'[task].said = heard
    BY <1>27 DEF EndsForSpeech, EndsTurn, Is
  <2>2. /\ startedFor' = startedFor /\ spoken' = spoken /\ owner.turn # None
    BY <2>1, EventHandled, EventFields, Names DEF Handles
  <2>3. /\ pc'[task] \in {"retiring", "settling"}
        /\ \A other \in Tasks : other # task => pc'[other] = pc[other] /\ job'[other] = job[other]
    BY <2>1, MovesEffect
  <2>4. /\ startedFor[owner.turn] = owner.gen /\ owner.gen # 0 /\ owner.turn \notin finished
        /\ \A h \in heard : h[1] = owner.turn
        /\ \A s \in spoken : s.turn # owner.turn
    BY <2>2 DEF OwnerInv, SpokenInv
  <2>5. \A other \in Tasks : pc[other] \in Answering => job[other].turn # owner.turn
    BY <2>4 DEF AnswerInv
  <2>6. ASSUME NEW other \in Tasks, other # task, pc'[other] \in Answering
        PROVE  /\ job'[other].turn \in finished'
               /\ startedFor'[job'[other].turn] = job'[other].gen /\ job'[other].gen # 0
               /\ \A h \in job'[other].said : h[1] = job'[other].turn
               /\ pc'[other] # "appending" => \A s \in spoken' : s.turn # job'[other].turn
               /\ \A third \in Tasks :
                     third # other /\ pc'[third] \in Answering =>
                         job'[third].turn # job'[other].turn
    BY <2>1, <2>2, <2>3, <2>5, <2>6 DEF AnswerInv
  <2>7. QED
    BY <2>1, <2>2, <2>3, <2>4, <2>5, <2>6 DEF AnswerInv
<1>28. ASSUME NEW task \in Tasks, Retired(task) PROVE AnswerInv'
  BY <1>28, MovesEffect DEF Retired, Alike, Is, AnswerInv, Answering
<1>29. ASSUME NEW task \in Tasks, Submits(task) PROVE AnswerInv'
  BY <1>29, MovesEffect DEF Submits, Alike, Is, AnswerInv, Answering
<1>30. ASSUME NEW task \in Tasks, AnswerOver(task) PROVE AnswerInv'
  BY <1>30, MovesEffect DEF AnswerOver, Back, EndsAnswer, AnswerInv, Answering
<1>31. ASSUME NEW task \in Tasks, AnswerForNext(task) PROVE AnswerInv'
  BY <1>31, MovesEffect DEF AnswerForNext, Renews, EndsAnswer, AnswerInv, Answering
<1>32. ASSUME NEW task \in Tasks, FailsStart(task) PROVE AnswerInv'
  BY <1>32, MovesEffect DEF FailsStart, Rejecting, Over, AnswerInv, Answering
<1>33. ASSUME NEW task \in Tasks, Fails(task) PROVE AnswerInv'
  BY <1>33, MovesEffect DEF Fails, Over, AnswerInv, Answering
<1>34. ASSUME Overflows PROVE AnswerInv'
  BY <1>34, MovesEffect DEF Overflows, Rejecting, AnswerInv, Answering, Tasks
<1>35. ASSUME Expires PROVE AnswerInv'
  BY <1>35, MovesEffect DEF Expires, AnswerInv, Answering, Tasks
<1>36. ASSUME WatchdogTombstones PROVE AnswerInv'
  BY <1>36, MovesEffect DEF WatchdogTombstones, AnswerInv, Answering, Tasks
<1>37. ASSUME WatchdogLeaves PROVE AnswerInv'
  BY <1>37, MovesEffect DEF WatchdogLeaves, GiveUp, AnswerInv, Answering, Tasks
<1>38. ASSUME TearsDown PROVE AnswerInv'
  BY <1>38, PlaceFacts DEF TearsDown, AnswerInv
<1>39. ASSUME TearsDownLocks PROVE AnswerInv'
  BY <1>39, MovesEffect DEF TearsDownLocks, AnswerInv, Answering, Tasks
<1>40. ASSUME ShutdownTombstones PROVE AnswerInv'
  BY <1>40, MovesEffect DEF ShutdownTombstones, AnswerInv, Answering, Tasks
<1>41. ASSUME Ends PROVE AnswerInv'
  BY <1>41 DEF Ends, AnswerInv, Answering
<1>42. CASE UNCHANGED vars
  BY <1>42 DEF vars, AnswerInv
<1> QED
  BY <1>1, <1>2, <1>3, <1>4, <1>5, <1>6, <1>7, <1>8, <1>9, <1>10, <1>11, <1>12, <1>13,
     <1>14, <1>15, <1>16, <1>17, <1>18, <1>19, <1>20, <1>21, <1>22, <1>23, <1>24, <1>25,
     <1>26, <1>27, <1>28, <1>29, <1>30, <1>31, <1>32, <1>33, <1>34, <1>35, <1>36, <1>37,
     <1>38, <1>39, <1>40, <1>41, <1>42
     DEF Steps

(* Nothing is newer than the newest generation.                            *)
LEMMA BoundStep ==
    TypeOK /\ PlaceInv /\ LockInv /\ StartInv /\ FreshInv /\ OwnerInv /\ BoundInv /\
       [Steps]_vars
       => BoundInv'
<1> SUFFICES ASSUME TypeOK, PlaceInv, LockInv, StartInv, FreshInv, OwnerInv, BoundInv,
                    [Steps]_vars
             PROVE  BoundInv'
  OBVIOUS
<1> USE DEF userVars, turnVars, taskVars, toolVars, ownerVars, serverVars, speechVars,
            interruptVars
<1>1. ASSUME NotesTurn \/ Buffers \/ RendersOn \/ MayFail \/ TearsDownAnswers
      PROVE  BoundInv'
  <2>1. UNCHANGED <<queued, generation, requested, owner, job, startedFor>>
    BY <1>1 DEF NotesTurn, Buffers, RendersOn, MayFail, TearsDownAnswers
  <2>2. QED
    BY <2>1 DEF BoundInv, Wants
<1>2. ASSUME NEW r \in Reqs, CallsTool(r) \/ SettlesTool(r)
      PROVE  BoundInv'
  <2>1. UNCHANGED <<queued, generation, requested, owner, job, startedFor>>
    BY <1>2 DEF CallsTool, SettlesTool
  <2>2. QED
    BY <2>1 DEF BoundInv, Wants
<1>3. ASSUME NEW t \in Turns, Takes(t)
      PROVE  BoundInv'
  <2>1. UNCHANGED <<queued, generation, requested, owner, job, startedFor>>
    BY <1>3 DEF Takes
  <2>2. QED
    BY <2>1 DEF BoundInv, Wants
<1>4. ASSUME NEW t \in Turns, NEW r \in Reqs, AsksTool(t, r)
      PROVE  BoundInv'
  <2>1. UNCHANGED <<queued, generation, requested, owner, job, startedFor>>
    BY <1>4 DEF AsksTool
  <2>2. QED
    BY <2>1 DEF BoundInv, Wants
<1>5. ASSUME NEW t \in Turns, NEW ev \in Events, Says(t, ev)
      PROVE  BoundInv'
  <2>1. UNCHANGED <<queued, generation, requested, owner, job, startedFor>>
    BY <1>5 DEF Says
  <2>2. QED
    BY <2>1 DEF BoundInv, Wants
<1>6. ASSUME NEW task \in Tasks, AsksTurn(task) PROVE BoundInv'
  <2>1. \A other \in Tasks : other # task => Wants(other)' = Wants(other)
    BY <1>6, MoveWants DEF AsksTurn
  <2>2. Wants(task)' = generation'
    BY <1>6, WantsNext DEF AsksTurn
  <2>3. queued' = queued /\ startedFor' = startedFor /\ requested' = generation' /\ owner' = owner
    BY <1>6 DEF AsksTurn
  <2>4. generation' \in {generation, generation + 1}
    BY <1>6 DEF AsksTurn
  <2>5. QED
    BY <2>1, <2>2, <2>3, <2>4, WantsFacts, Shapes DEF BoundInv
<1>7. ASSUME NEW task \in Tasks, AsksEnd(task) PROVE BoundInv'
  <2>1. \A other \in Tasks : other # task => Wants(other)' = Wants(other)
    BY <1>7, MoveWants DEF AsksEnd
  <2>2. Wants(task)' \in {0, Wants(task)}
    BY <1>7, WantsNext DEF AsksEnd, Is
  <2>3. queued' \in {0, queued} /\ startedFor' = startedFor
    BY <1>7 DEF AsksEnd
  <2>4. generation' = generation + 1 /\ requested' = requested /\ owner' = owner
    BY <1>7 DEF AsksEnd
  <2>5. QED
    BY <2>1, <2>2, <2>3, <2>4, WantsFacts, Shapes DEF BoundInv
<1>8. ASSUME NEW task \in Tasks, Asks(task) PROVE BoundInv'
  BY <1>8, MovesEffect
     DEF Asks, Alike, Is, Joins, QueueOK, BoundInv, Wants, PlaceInv, LockInv, StartInv,
         FreshInv, OwnerInv
<1>9. ASSUME NEW task \in Tasks, GivesBack(task) PROVE BoundInv'
  <2>1. /\ Moves(task, "idle") /\ job'[task] = NoJob /\ startedFor' = startedFor
        /\ queued' = queued \/ /\ queued' = generation /\ pc[task] = "locking"
                               /\ job[task].does = "start" /\ job[task].gen = generation
    BY <1>9 DEF GivesBack, GiveUp
  <2>2. Wants(task)' = 0 /\ \A other \in Tasks : other # task => Wants(other)' = Wants(other)
    BY <2>1, WantsNext, MoveWants
  <2>3. queued' = queued \/ queued' = Wants(task)
    BY <2>1, WantsFacts
  <2>4. generation' = generation /\ requested' = requested /\ owner' = owner
    BY <1>9 DEF GivesBack, GiveUp
  <2>5. QED
    BY <2>1, <2>2, <2>3, <2>4, Shapes DEF BoundInv
<1>10. ASSUME NEW task \in Tasks, OrdersTurn(task) PROVE BoundInv'
  BY <1>10, MovesEffect, NoJobFields, Shapes DEF OrdersTurn, Alike, Is, BoundInv, Wants
<1>11. ASSUME NEW task \in Tasks, TombstonesTurn(task) PROVE BoundInv'
  BY <1>11, MovesEffect DEF TombstonesTurn, Is, Interrupted, BoundInv, Wants
<1>12. ASSUME NEW task \in Tasks, Accepted(task) PROVE BoundInv'
  BY <1>12, MovesEffect DEF Accepted, Alike, Is, BoundInv, Wants
<1>13. ASSUME NEW task \in Tasks, LateRejects(task) PROVE BoundInv'
  <2>1. Starts(task) /\ \E there : Moves(task, there)
    BY <1>13 DEF LateRejects, Rejecting
  <2>2. job'[task].does = job[task].does /\ job'[task].after \in {"stale", "replaying"}
    BY <1>13 DEF LateRejects, Is, Rejecting
  <2>3. /\ pc[task] = "starting" /\ queued' = queued /\ reply # None
        /\ startedFor' = [startedFor EXCEPT ![reply] = job[task].gen]
    BY <2>1 DEF Starts
  <2>4. Wants(task) = job[task].gen /\ Wants(task) # 0 /\ Wants(task)' = 0
    BY <2>2, <2>3, WantsFacts, WantsNext, PlaceFacts
  <2>5. \A other \in Tasks : other # task => Wants(other)' = Wants(other)
    BY <2>1, MoveWants
  <2>6. \A t \in Turns : startedFor'[t] = IF t = reply THEN Wants(task) ELSE startedFor[t]
    BY <2>3, <2>4, Shapes
  <2>7. generation' = generation /\ requested' = requested /\ owner' = owner
    BY <1>13 DEF LateRejects, Starts, Rejecting
  <2>8. /\ queued' <= generation /\ requested' <= generation /\ owner'.gen <= generation
        /\ \A other \in Tasks : Wants(other)' <= generation
    BY <2>1, <2>2, <2>3, <2>4, <2>5, <2>6, <2>7, WantsFacts, Shapes DEF BoundInv
  <2>9. \A t \in Turns : startedFor'[t] <= generation
    BY <2>1, <2>2, <2>3, <2>4, <2>5, <2>6, <2>7, Shapes DEF BoundInv
  <2>10. QED
    BY <2>7, <2>8, <2>9 DEF BoundInv
<1>14. ASSUME NEW task \in Tasks, LateInterrupts(task) PROVE BoundInv'
  <2>1. Starts(task) /\ \E there : Moves(task, there)
    BY <1>14 DEF LateInterrupts
  <2>2. job'[task].does = job[task].does /\ job'[task].after \in {"stale", "replaying"}
    BY <1>14 DEF LateInterrupts, Is
  <2>3. /\ pc[task] = "starting" /\ queued' = queued /\ reply # None
        /\ startedFor' = [startedFor EXCEPT ![reply] = job[task].gen]
    BY <2>1 DEF Starts
  <2>4. Wants(task) = job[task].gen /\ Wants(task) # 0 /\ Wants(task)' = 0
    BY <2>2, <2>3, WantsFacts, WantsNext, PlaceFacts
  <2>5. \A other \in Tasks : other # task => Wants(other)' = Wants(other)
    BY <2>1, MoveWants
  <2>6. \A t \in Turns : startedFor'[t] = IF t = reply THEN Wants(task) ELSE startedFor[t]
    BY <2>3, <2>4, Shapes
  <2>7. generation' = generation /\ requested' = requested /\ owner' = owner
    BY <1>14 DEF LateInterrupts, Starts
  <2>8. /\ queued' <= generation /\ requested' <= generation /\ owner'.gen <= generation
        /\ \A other \in Tasks : Wants(other)' <= generation
    BY <2>1, <2>2, <2>3, <2>4, <2>5, <2>6, <2>7, WantsFacts, Shapes DEF BoundInv
  <2>9. \A t \in Turns : startedFor'[t] <= generation
    BY <2>1, <2>2, <2>3, <2>4, <2>5, <2>6, <2>7, Shapes DEF BoundInv
  <2>10. QED
    BY <2>7, <2>8, <2>9 DEF BoundInv
<1>15. ASSUME NEW task \in Tasks, OwnsRejects(task) PROVE BoundInv'
  BY <1>15, MovesEffect, PlaceFacts, WantsFacts
     DEF OwnsRejects, Starts, Is, Rejecting, Owns, BoundInv, Wants
<1>16. ASSUME NEW task \in Tasks, OwnsReplays(task) PROVE BoundInv'
  BY <1>16, MovesEffect, Shapes DEF OwnsReplays, Starts, Is, Owns, BoundInv, Wants
<1>17. ASSUME NEW task \in Tasks, WritesNext(task) PROVE BoundInv'
  BY <1>17, MovesEffect, HoldsKept
     DEF WritesNext, Writes, Is, BoundInv, Wants, PlaceInv, LockInv, StartInv, FreshInv,
         OwnerInv
<1>18. ASSUME NEW task \in Tasks, WritesOut(task) PROVE BoundInv'
  <2>1. \A other \in Tasks : other # task => Wants(other)' = Wants(other)
    BY <1>18, MoveWants DEF WritesOut, WritesLast, Over
  <2>2. Wants(task)' \in {0, Wants(task)}
    BY <1>18, WantsNext DEF WritesOut, WritesLast, Over
  <2>3. queued' \in {0, queued} /\ startedFor' = startedFor
    BY <1>18 DEF WritesOut, Writes, WritesLast, Over
  <2>4. generation' = generation /\ requested' = requested /\ owner' = owner
    BY <1>18 DEF WritesOut, Writes, WritesLast, Over
  <2>5. /\ queued' <= generation /\ requested' <= generation /\ owner'.gen <= generation
        /\ \A other \in Tasks : Wants(other)' <= generation
    BY <2>1, <2>2, <2>3, <2>4, WantsFacts, Shapes DEF BoundInv
  <2>6. \A t \in Turns : startedFor'[t] <= generation
    BY <2>1, <2>2, <2>3, <2>4, Shapes DEF BoundInv
  <2>7. QED
    BY <2>4, <2>5, <2>6 DEF BoundInv
<1>19. ASSUME NEW task \in Tasks, WritesOn(task) PROVE BoundInv'
  BY <1>19, MovesEffect, HoldsKept, PlaceFacts
     DEF WritesOn, Is, Interrupted, Writes, WritesLast, Wrote, BoundInv, Wants
<1>20. ASSUME NEW task \in Tasks, RefusesTool(task) PROVE BoundInv'
  BY <1>20, MovesEffect, Names DEF RefusesTool, Handles, Event, Is, Left, BoundInv, Wants
<1>21. ASSUME NEW task \in Tasks, AdmitsTool(task) PROVE BoundInv'
  BY <1>21, MovesEffect, PlaceFacts, NoJobFields
     DEF AdmitsTool, Handles, Event, Back, Is, BoundInv, Wants
<1>22. ASSUME NEW task \in Tasks, HearsPart(task) PROVE BoundInv'
  BY <1>22, MovesEffect, NoJobFields, Shapes
     DEF HearsPart, Handles, Event, Back, Is, BoundInv, Wants, PlaceInv, LockInv, StartInv,
         FreshInv, OwnerInv
<1>23. ASSUME NEW task \in Tasks, PassesEnd(task) PROVE BoundInv'
  BY <1>23, MovesEffect, NoJobFields, WantsFacts
     DEF PassesEnd, Handles, Event, Back, Is, BoundInv, Wants, PlaceInv, LockInv, StartInv,
         FreshInv, OwnerInv
<1>24. ASSUME NEW task \in Tasks, EndsUnspoken(task) PROVE BoundInv'
  BY <1>24, MovesEffect, NoJobFields, Shapes
     DEF EndsUnspoken, Handles, Event, Back, Is, EndsTurn, BoundInv, Wants, PlaceInv,
         LockInv, StartInv, FreshInv, OwnerInv, Nobody
<1>25. ASSUME NEW task \in Tasks, EndsForNext(task) PROVE BoundInv'
  BY <1>25, MovesEffect, Shapes
     DEF EndsForNext, Handles, Event, EndsTurn, Renews, Is, BoundInv, Wants, PlaceInv,
         LockInv, StartInv, FreshInv, OwnerInv, Nobody
<1>26. ASSUME NEW task \in Tasks, EndsSession(task) PROVE BoundInv'
  BY <1>26, MovesEffect, PlaceFacts, NoJobFields
     DEF EndsSession, Over, Frees, QueueOK, Handles, Event, EndsTurn, BoundInv, Wants, Is,
         PlaceInv, LockInv, StartInv, FreshInv, OwnerInv, Nobody
<1>27. ASSUME NEW task \in Tasks, EndsForSpeech(task) PROVE BoundInv'
  BY <1>27, MovesEffect, Shapes
     DEF EndsForSpeech, Handles, Event, Is, Left, EndsTurn, BoundInv, Wants, PlaceInv,
         LockInv, StartInv, FreshInv, OwnerInv, Nobody
<1>28. ASSUME NEW task \in Tasks, Retired(task) PROVE BoundInv'
  BY <1>28, MovesEffect DEF Retired, Alike, Is, BoundInv, Wants
<1>29. ASSUME NEW task \in Tasks, Submits(task) PROVE BoundInv'
  BY <1>29, MovesEffect DEF Submits, Alike, Is, BoundInv, Wants
<1>30. ASSUME NEW task \in Tasks, AnswerOver(task) PROVE BoundInv'
  BY <1>30, MovesEffect, PlaceFacts, NoJobFields, Shapes
     DEF AnswerOver, Back, Is, EndsAnswer, BoundInv, Wants
<1>31. ASSUME NEW task \in Tasks, AnswerForNext(task) PROVE BoundInv'
  BY <1>31, MovesEffect, Shapes DEF AnswerForNext, Renews, Is, EndsAnswer, BoundInv, Wants
<1>32. ASSUME NEW task \in Tasks, FailsStart(task) PROVE BoundInv'
  BY <1>32, MovesEffect, HoldsKept, NoJobFields, Names, Shapes
     DEF FailsStart, Rejecting, Is, Over, Frees, QueueOK, BoundInv, Wants
<1>33. ASSUME NEW task \in Tasks, Fails(task) PROVE BoundInv'
  BY <1>33, MovesEffect, NoJobFields, Shapes
     DEF Fails, Over, Frees, QueueOK, Waits, BoundInv, Wants, Is, PlaceInv, LockInv,
         StartInv, FreshInv, OwnerInv
<1>34. ASSUME Overflows PROVE BoundInv'
  <2>1. \A other \in Tasks : other # "exec" => Wants(other)' = Wants(other)
    BY <1>34, MoveWants, Names DEF Overflows, Rejecting
  <2>2. Wants("exec")' \in {0, Wants("exec")}
    BY <1>34, WantsNext, Names DEF Overflows, Rejecting, Is
  <2>3. queued' \in {0, queued} /\ startedFor' = startedFor
    BY <1>34 DEF Overflows, Rejecting
  <2>4. generation' = generation /\ requested' = requested /\ owner' = owner
    BY <1>34 DEF Overflows, Rejecting
  <2>5. QED
    BY <2>1, <2>2, <2>3, <2>4, Shapes DEF BoundInv
<1>35. ASSUME Expires PROVE BoundInv'
  <2>1. Moves("watchdog", "locking") /\ queued' = queued /\ startedFor' = startedFor
    BY <1>35 DEF Expires
  <2>2. Wants("watchdog")' = 0
    <3>1. DEFINE j == [NoJob EXCEPT !.turn = owner.turn, !.gen = owner.gen]
    <3>2. Is(j, "nothing", owner.gen, owner.turn, <<>>, <<>>, "idle", 0) /\ job'["watchdog"] = j
      BY <1>35, JobOf, Shapes DEF Expires
    <3>3. QED
      BY <3>2, WantsNext, Names DEF Is
  <2>3. generation' = generation /\ requested' = requested /\ owner' = owner
    BY <1>35 DEF Expires
  <2>4. QED
    BY <2>1, <2>2, <2>3, MoveWants, Shapes, Names DEF BoundInv
<1>36. ASSUME WatchdogTombstones PROVE BoundInv'
  BY <1>36, MovesEffect, Names, Shapes, WantsFacts
     DEF WatchdogTombstones, Interrupted, BoundInv, Wants
<1>37. ASSUME WatchdogLeaves PROVE BoundInv'
  <2>1. \A other \in Tasks : other # "watchdog" => Wants(other)' = Wants(other)
    BY <1>37, MoveWants, Names DEF WatchdogLeaves, GiveUp
  <2>2. Wants("watchdog")' \in {0, Wants("watchdog")}
    BY <1>37, WantsNext, Names DEF WatchdogLeaves, GiveUp
  <2>3. queued' \in {0, queued} /\ startedFor' = startedFor
    BY <1>37 DEF WatchdogLeaves, GiveUp
  <2>4. generation' = generation /\ requested' = requested /\ owner' = owner
    BY <1>37 DEF WatchdogLeaves, GiveUp
  <2>5. QED
    BY <2>1, <2>2, <2>3, <2>4, Shapes DEF BoundInv
<1>38. ASSUME TearsDown PROVE BoundInv'
  BY <1>38, NoJobFields, Shapes, WantsFacts DEF TearsDown, BoundInv, Wants, Is
<1>39. ASSUME TearsDownLocks PROVE BoundInv'
  BY <1>39, MovesEffect, Names
     DEF TearsDownLocks, Joins, QueueOK, BoundInv, Wants, PlaceInv, LockInv, StartInv,
         FreshInv, OwnerInv
<1>40. ASSUME ShutdownTombstones PROVE BoundInv'
  BY <1>40, MovesEffect, Names DEF ShutdownTombstones, Interrupted, BoundInv, Wants
<1>41. ASSUME Ends PROVE BoundInv'
  BY <1>41, NoJobFields, Shapes DEF Ends, BoundInv, Wants, Is
<1>42. CASE UNCHANGED vars
  BY <1>42 DEF vars, BoundInv, Wants
<1> QED
  BY <1>1, <1>2, <1>3, <1>4, <1>5, <1>6, <1>7, <1>8, <1>9, <1>10, <1>11, <1>12, <1>13,
     <1>14, <1>15, <1>16, <1>17, <1>18, <1>19, <1>20, <1>21, <1>22, <1>23, <1>24, <1>25,
     <1>26, <1>27, <1>28, <1>29, <1>30, <1>31, <1>32, <1>33, <1>34, <1>35, <1>36, <1>37,
     <1>38, <1>39, <1>40, <1>41, <1>42
     DEF Steps

(* A generation has one turn at most.                                      *)
LEMMA TokenStep ==
    TypeOK /\ PlaceInv /\ LockInv /\ StartInv /\ FreshInv /\ BoundInv /\ UserInv /\ TokenInv
       /\ [Steps]_vars
       => TokenInv'
<1> SUFFICES ASSUME TypeOK, PlaceInv, LockInv, StartInv, FreshInv, BoundInv, UserInv,
                    TokenInv, [Steps]_vars
             PROVE  TokenInv'
  OBVIOUS
<1> USE DEF userVars, turnVars, taskVars, toolVars, ownerVars, serverVars, speechVars,
            interruptVars
<1>1. ASSUME NotesTurn \/ Buffers \/ RendersOn \/ MayFail \/ TearsDownAnswers
      PROVE  TokenInv'
  <2>1. UNCHANGED <<queued, owner, job, startedFor>>
    BY <1>1 DEF NotesTurn, Buffers, RendersOn, MayFail, TearsDownAnswers
  <2>2. QED
    BY <2>1 DEF TokenInv, Wants
<1>2. ASSUME NEW r \in Reqs, CallsTool(r) \/ SettlesTool(r)
      PROVE  TokenInv'
  <2>1. UNCHANGED <<queued, owner, job, startedFor>>
    BY <1>2 DEF CallsTool, SettlesTool
  <2>2. QED
    BY <2>1 DEF TokenInv, Wants
<1>3. ASSUME NEW t \in Turns, Takes(t)
      PROVE  TokenInv'
  <2>1. UNCHANGED <<queued, owner, job, startedFor>>
    BY <1>3 DEF Takes
  <2>2. QED
    BY <2>1 DEF TokenInv, Wants
<1>4. ASSUME NEW t \in Turns, NEW r \in Reqs, AsksTool(t, r)
      PROVE  TokenInv'
  <2>1. UNCHANGED <<queued, owner, job, startedFor>>
    BY <1>4 DEF AsksTool
  <2>2. QED
    BY <2>1 DEF TokenInv, Wants
<1>5. ASSUME NEW t \in Turns, NEW ev \in Events, Says(t, ev)
      PROVE  TokenInv'
  <2>1. UNCHANGED <<queued, owner, job, startedFor>>
    BY <1>5 DEF Says
  <2>2. QED
    BY <2>1 DEF TokenInv, Wants
<1>6. ASSUME NEW task \in Tasks, AsksTurn(task) PROVE TokenInv'
  <2>1. /\ Moves(task, "enter")
        /\ Is(job'[task], "start", generation', None, <<>>, <<>>, "idle", 0)
        /\ queued' = queued /\ startedFor' = startedFor
        /\ \/ generation' = generation + 1
           \/ generation' = generation /\ generation # 0 /\ ~user.handled
    BY <1>6 DEF AsksTurn
  <2>2. /\ Wants(task)' = generation'
        /\ \A other \in Tasks : other # task => Wants(other)' = Wants(other)
    BY <2>1, WantsNext, MoveWants
  <2>3. /\ \A other \in Tasks : Wants(other) \in Nat /\ Wants(other) # generation'
        /\ queued # generation' /\ \A t \in Turns : startedFor[t] # generation'
    BY <2>1, Shapes, WantsFacts DEF BoundInv, UserInv
  <2>4. QED
    BY <2>1, <2>2, <2>3 DEF TokenInv
<1>7. ASSUME NEW task \in Tasks, AsksEnd(task) PROVE TokenInv'
  <2>1. \A other \in Tasks : other # task => Wants(other)' = Wants(other)
    BY <1>7, MoveWants DEF AsksEnd
  <2>2. Wants(task)' \in {0, Wants(task)}
    BY <1>7, WantsNext DEF AsksEnd, Is
  <2>3. queued' \in {0, queued} /\ startedFor' = startedFor
    BY <1>7 DEF AsksEnd
  <2>4. QED
    BY <2>1, <2>2, <2>3, TokenStays
<1>8. ASSUME NEW task \in Tasks, Asks(task) PROVE TokenInv'
  <2>1. \A other \in Tasks : other # task => Wants(other)' = Wants(other)
    BY <1>8, MoveWants DEF Asks
  <2>2. Wants(task)' \in {0, Wants(task)}
    BY <1>8, WantsNext DEF Asks
  <2>3. queued' \in {0, queued} /\ startedFor' = startedFor
    BY <1>8 DEF Asks
  <2>4. QED
    BY <2>1, <2>2, <2>3, TokenStays
<1>9. ASSUME NEW task \in Tasks, GivesBack(task) PROVE TokenInv'
  <2>1. /\ Moves(task, "idle") /\ job'[task] = NoJob /\ startedFor' = startedFor
        /\ queued' = queued \/ /\ queued' = generation /\ pc[task] = "locking"
                               /\ job[task].does = "start" /\ job[task].gen = generation
    BY <1>9 DEF GivesBack, GiveUp
  <2>2. Wants(task)' = 0 /\ \A other \in Tasks : other # task => Wants(other)' = Wants(other)
    BY <2>1, WantsNext, MoveWants
  <2>3. queued' = queued \/ queued' = Wants(task)
    BY <2>1, WantsFacts
  <2>4. QED
    BY <2>1, <2>2, <2>3 DEF TokenInv
<1>10. ASSUME NEW task \in Tasks, OrdersTurn(task) PROVE TokenInv'
  <2>1. \A other \in Tasks : other # task => Wants(other)' = Wants(other)
    BY <1>10, MoveWants DEF OrdersTurn
  <2>2. Wants(task)' \in {0, Wants(task)}
    BY <1>10, WantsNext DEF OrdersTurn
  <2>3. queued' \in {0, queued} /\ startedFor' = startedFor
    BY <1>10 DEF OrdersTurn
  <2>4. QED
    BY <2>1, <2>2, <2>3, TokenStays
<1>11. ASSUME NEW task \in Tasks, TombstonesTurn(task) PROVE TokenInv'
  <2>1. \A other \in Tasks : other # task => Wants(other)' = Wants(other)
    BY <1>11, MoveWants DEF TombstonesTurn
  <2>2. Wants(task)' = Wants(task)
    BY <1>11, WantsNext DEF TombstonesTurn
  <2>3. queued' \in {0, queued} /\ startedFor' = startedFor
    BY <1>11 DEF TombstonesTurn
  <2>4. QED
    BY <2>1, <2>2, <2>3, TokenStays
<1>12. ASSUME NEW task \in Tasks, Accepted(task) PROVE TokenInv'
  <2>1. \A other \in Tasks : other # task => Wants(other)' = Wants(other)
    BY <1>12, MoveWants DEF Accepted
  <2>2. Wants(task)' \in {0, Wants(task)}
    BY <1>12, WantsNext DEF Accepted
  <2>3. queued' \in {0, queued} /\ startedFor' = startedFor
    BY <1>12 DEF Accepted
  <2>4. QED
    BY <2>1, <2>2, <2>3, TokenStays
<1>13. ASSUME NEW task \in Tasks, LateRejects(task) PROVE TokenInv'
  <2>1. Starts(task) /\ \E there : Moves(task, there)
    BY <1>13 DEF LateRejects, Rejecting
  <2>2. job'[task].does = job[task].does /\ job'[task].after \in {"stale", "replaying"}
    BY <1>13 DEF LateRejects, Is, Rejecting
  <2>3. /\ pc[task] = "starting" /\ queued' = queued /\ reply # None
        /\ startedFor' = [startedFor EXCEPT ![reply] = job[task].gen]
    BY <2>1 DEF Starts
  <2>4. Wants(task) = job[task].gen /\ Wants(task) # 0 /\ Wants(task)' = 0
    BY <2>2, <2>3, WantsFacts, WantsNext, PlaceFacts
  <2>5. \A other \in Tasks : other # task => Wants(other)' = Wants(other)
    BY <2>1, MoveWants
  <2>6. \A t \in Turns : startedFor'[t] = IF t = reply THEN Wants(task) ELSE startedFor[t]
    BY <2>3, <2>4, Shapes
  <2>7. QED
    BY <2>3, <2>4, <2>5, <2>6 DEF TokenInv
<1>14. ASSUME NEW task \in Tasks, LateInterrupts(task) PROVE TokenInv'
  <2>1. Starts(task) /\ \E there : Moves(task, there)
    BY <1>14 DEF LateInterrupts
  <2>2. job'[task].does = job[task].does /\ job'[task].after \in {"stale", "replaying"}
    BY <1>14 DEF LateInterrupts, Is
  <2>3. /\ pc[task] = "starting" /\ queued' = queued /\ reply # None
        /\ startedFor' = [startedFor EXCEPT ![reply] = job[task].gen]
    BY <2>1 DEF Starts
  <2>4. Wants(task) = job[task].gen /\ Wants(task) # 0 /\ Wants(task)' = 0
    BY <2>2, <2>3, WantsFacts, WantsNext, PlaceFacts
  <2>5. \A other \in Tasks : other # task => Wants(other)' = Wants(other)
    BY <2>1, MoveWants
  <2>6. \A t \in Turns : startedFor'[t] = IF t = reply THEN Wants(task) ELSE startedFor[t]
    BY <2>3, <2>4, Shapes
  <2>7. QED
    BY <2>3, <2>4, <2>5, <2>6 DEF TokenInv
<1>15. ASSUME NEW task \in Tasks, OwnsRejects(task) PROVE TokenInv'
  <2>1. Starts(task) /\ \E there : Moves(task, there)
    BY <1>15 DEF OwnsRejects, Rejecting, Owns
  <2>2. job'[task].does = job[task].does /\ job'[task].after \in {"stale", "replaying"}
    BY <1>15 DEF OwnsRejects, Is, Rejecting, Owns
  <2>3. /\ pc[task] = "starting" /\ queued' = queued /\ reply # None
        /\ startedFor' = [startedFor EXCEPT ![reply] = job[task].gen]
    BY <2>1 DEF Starts
  <2>4. Wants(task) = job[task].gen /\ Wants(task) # 0 /\ Wants(task)' = 0
    BY <2>2, <2>3, WantsFacts, WantsNext, PlaceFacts
  <2>5. \A other \in Tasks : other # task => Wants(other)' = Wants(other)
    BY <2>1, MoveWants
  <2>6. \A t \in Turns : startedFor'[t] = IF t = reply THEN Wants(task) ELSE startedFor[t]
    BY <2>3, <2>4, Shapes
  <2>7. QED
    BY <2>3, <2>4, <2>5, <2>6 DEF TokenInv
<1>16. ASSUME NEW task \in Tasks, OwnsReplays(task) PROVE TokenInv'
  <2>1. Starts(task) /\ \E there : Moves(task, there)
    BY <1>16 DEF OwnsReplays, Owns
  <2>2. job'[task].does = job[task].does /\ job'[task].after \in {"stale", "replaying"}
    BY <1>16 DEF OwnsReplays, Is, Owns
  <2>3. /\ pc[task] = "starting" /\ queued' = queued /\ reply # None
        /\ startedFor' = [startedFor EXCEPT ![reply] = job[task].gen]
    BY <2>1 DEF Starts
  <2>4. Wants(task) = job[task].gen /\ Wants(task) # 0 /\ Wants(task)' = 0
    BY <2>2, <2>3, WantsFacts, WantsNext, PlaceFacts
  <2>5. \A other \in Tasks : other # task => Wants(other)' = Wants(other)
    BY <2>1, MoveWants
  <2>6. \A t \in Turns : startedFor'[t] = IF t = reply THEN Wants(task) ELSE startedFor[t]
    BY <2>3, <2>4, Shapes
  <2>7. QED
    BY <2>3, <2>4, <2>5, <2>6 DEF TokenInv
<1>17. ASSUME NEW task \in Tasks, WritesNext(task) PROVE TokenInv'
  <2>1. \A other \in Tasks : other # task => Wants(other)' = Wants(other)
    BY <1>17, MoveWants DEF WritesNext
  <2>2. Wants(task)' = Wants(task)
    BY <1>17, WantsNext DEF WritesNext
  <2>3. queued' \in {0, queued} /\ startedFor' = startedFor
    BY <1>17 DEF WritesNext, Writes
  <2>4. QED
    BY <2>1, <2>2, <2>3, TokenStays
<1>18. ASSUME NEW task \in Tasks, WritesOut(task) PROVE TokenInv'
  <2>1. \A other \in Tasks : other # task => Wants(other)' = Wants(other)
    BY <1>18, MoveWants DEF WritesOut, WritesLast, Over
  <2>2. Wants(task)' \in {0, Wants(task)}
    BY <1>18, WantsNext DEF WritesOut, WritesLast, Over
  <2>3. queued' \in {0, queued} /\ startedFor' = startedFor
    BY <1>18 DEF WritesOut, Writes, WritesLast, Over
  <2>4. QED
    BY <2>1, <2>2, <2>3, TokenStays
<1>19. ASSUME NEW task \in Tasks, WritesOn(task) PROVE TokenInv'
  <2>1. \A other \in Tasks : other # task => Wants(other)' = Wants(other)
    BY <1>19, MoveWants DEF WritesOn, WritesLast
  <2>2. Wants(task)' = Wants(task)
    BY <1>19, WantsNext DEF WritesOn
  <2>3. queued' \in {0, queued} /\ startedFor' = startedFor
    BY <1>19 DEF WritesOn, Writes, WritesLast
  <2>4. QED
    BY <2>1, <2>2, <2>3, TokenStays
<1>20. ASSUME NEW task \in Tasks, RefusesTool(task) PROVE TokenInv'
  <2>1. \A other \in Tasks : other # task => Wants(other)' = Wants(other)
    BY <1>20, MoveWants DEF RefusesTool
  <2>2. Wants(task)' = Wants(task)
    BY <1>20, WantsNext DEF RefusesTool
  <2>3. queued' \in {0, queued} /\ startedFor' = startedFor
    BY <1>20 DEF RefusesTool, Handles
  <2>4. QED
    BY <2>1, <2>2, <2>3, TokenStays
<1>21. ASSUME NEW task \in Tasks, AdmitsTool(task) PROVE TokenInv'
  <2>1. (\E gen, t : Back(task, gen, t)) /\ pc[task] \in {"idle", "replaying"} \cup Answering
    BY <1>21, EventHandled DEF AdmitsTool
  <2>2. queued' \in {0, queued} /\ startedFor' = startedFor
    BY <1>21 DEF AdmitsTool, Handles
  <2>3. QED
    BY <2>1, <2>2, BackWants, TokenStays
<1>22. ASSUME NEW task \in Tasks, HearsPart(task) PROVE TokenInv'
  <2>1. (\E gen, t : Back(task, gen, t)) /\ pc[task] \in {"idle", "replaying"} \cup Answering
    BY <1>22, EventHandled DEF HearsPart
  <2>2. queued' \in {0, queued} /\ startedFor' = startedFor
    BY <1>22 DEF HearsPart, Handles
  <2>3. QED
    BY <2>1, <2>2, BackWants, TokenStays
<1>23. ASSUME NEW task \in Tasks, PassesEnd(task) PROVE TokenInv'
  <2>1. (\E gen, t : Back(task, gen, t)) /\ pc[task] \in {"idle", "replaying"} \cup Answering
    BY <1>23, EventHandled DEF PassesEnd
  <2>2. queued' \in {0, queued} /\ startedFor' = startedFor
    BY <1>23 DEF PassesEnd, Handles
  <2>3. QED
    BY <2>1, <2>2, BackWants, TokenStays
<1>24. ASSUME NEW task \in Tasks, EndsUnspoken(task) PROVE TokenInv'
  <2>1. (\E gen, t : Back(task, gen, t)) /\ pc[task] \in {"idle", "replaying"} \cup Answering
    BY <1>24, EventHandled DEF EndsUnspoken, EndsTurn
  <2>2. queued' \in {0, queued} /\ startedFor' = startedFor
    BY <1>24 DEF EndsUnspoken, Handles, EndsTurn
  <2>3. QED
    BY <2>1, <2>2, BackWants, TokenStays
<1>25. ASSUME NEW task \in Tasks, EndsForNext(task) PROVE TokenInv'
  <2>1. /\ Moves(task, "enter") /\ Is(job'[task], "start", queued, None, <<>>, <<>>, "idle", 0)
        /\ queued' = 0 /\ queued # 0 /\ startedFor' = startedFor
    BY <1>25 DEF EndsForNext, EndsTurn, Renews, Handles
  <2>2. Wants(task)' = queued /\ \A other \in Tasks : other # task => Wants(other)' = Wants(other)
    BY <2>1, WantsNext, MoveWants
  <2>3. QED
    BY <2>1, <2>2 DEF TokenInv
<1>26. ASSUME NEW task \in Tasks, EndsSession(task) PROVE TokenInv'
  <2>1. \A other \in Tasks : other # task => Wants(other)' = Wants(other)
    BY <1>26, MoveWants DEF EndsSession, Over, EndsTurn
  <2>2. Wants(task)' \in {0, Wants(task)}
    BY <1>26, WantsNext DEF EndsSession, Over, EndsTurn
  <2>3. queued' \in {0, queued} /\ startedFor' = startedFor
    BY <1>26 DEF EndsSession, Over, Handles, EndsTurn
  <2>4. QED
    BY <2>1, <2>2, <2>3, TokenStays
<1>27. ASSUME NEW task \in Tasks, EndsForSpeech(task) PROVE TokenInv'
  <2>1. /\ Handles(task) /\ (\E there : Moves(task, there)) /\ queued' = 0
        /\ Is(job'[task], job[task].does, owner.gen, owner.turn, job[task].reject, Left(task),
              job[task].after, queued)
    BY <1>27 DEF EndsForSpeech, EndsTurn
  <2>2. startedFor' = startedFor
    BY <2>1 DEF Handles
  <2>3. \A other \in Tasks : other # task => Wants(other)' = Wants(other)
    BY <2>1, MoveWants
  <2>4. Wants(task)' \in {0, queued}
    BY <2>1, EventHandled, PlaceFacts, WantsNext DEF Is
  <2>5. QED
    BY <2>1, <2>2, <2>3, <2>4 DEF TokenInv
<1>28. ASSUME NEW task \in Tasks, Retired(task) PROVE TokenInv'
  <2>1. \A other \in Tasks : other # task => Wants(other)' = Wants(other)
    BY <1>28, MoveWants DEF Retired
  <2>2. Wants(task)' \in {0, Wants(task)}
    BY <1>28, WantsNext DEF Retired
  <2>3. queued' \in {0, queued} /\ startedFor' = startedFor
    BY <1>28 DEF Retired
  <2>4. QED
    BY <2>1, <2>2, <2>3, TokenStays
<1>29. ASSUME NEW task \in Tasks, Submits(task) PROVE TokenInv'
  <2>1. \A other \in Tasks : other # task => Wants(other)' = Wants(other)
    BY <1>29, MoveWants DEF Submits
  <2>2. Wants(task)' \in {0, Wants(task)}
    BY <1>29, WantsNext DEF Submits
  <2>3. queued' \in {0, queued} /\ startedFor' = startedFor
    BY <1>29 DEF Submits
  <2>4. QED
    BY <2>1, <2>2, <2>3, TokenStays
<1>30. ASSUME NEW task \in Tasks, AnswerOver(task) PROVE TokenInv'
  <2>1. (\E gen, t : Back(task, gen, t)) /\ pc[task] \in {"idle", "replaying"} \cup Answering
    BY <1>30, EventHandled DEF AnswerOver, EndsAnswer, Answering
  <2>2. queued' \in {0, queued} /\ startedFor' = startedFor
    BY <1>30 DEF AnswerOver, EndsAnswer
  <2>3. QED
    BY <2>1, <2>2, BackWants, TokenStays
<1>31. ASSUME NEW task \in Tasks, AnswerForNext(task) PROVE TokenInv'
  <2>1. /\ pc[task] \in Answering /\ job[task].next = generation
        /\ Moves(task, "enter")
        /\ Is(job'[task], "start", generation, None, <<>>, <<>>, "idle", 0)
        /\ queued' = queued /\ startedFor' = startedFor
    BY <1>31 DEF AnswerForNext, EndsAnswer, Renews, Answering
  <2>2. Wants(task)' = Wants(task)
    BY <2>1, WantsNext, WantsFacts
  <2>3. QED
    BY <2>1, <2>2, MoveWants, TokenStays
<1>32. ASSUME NEW task \in Tasks, FailsStart(task) PROVE TokenInv'
  <2>1. \A other \in Tasks : other # task => Wants(other)' = Wants(other)
    BY <1>32, MoveWants DEF FailsStart, Rejecting, Over
  <2>2. Wants(task)' \in {0, Wants(task)}
    BY <1>32, WantsNext DEF FailsStart, Rejecting, Is, Over
  <2>3. queued' \in {0, queued} /\ startedFor' = startedFor
    BY <1>32 DEF FailsStart, Rejecting, Over
  <2>4. QED
    BY <2>1, <2>2, <2>3, TokenStays
<1>33. ASSUME NEW task \in Tasks, Fails(task) PROVE TokenInv'
  <2>1. \A other \in Tasks : other # task => Wants(other)' = Wants(other)
    BY <1>33, MoveWants DEF Fails, Over, Waits
  <2>2. Wants(task)' \in {0, Wants(task)}
    BY <1>33, WantsNext DEF Fails, Over, Waits
  <2>3. queued' \in {0, queued} /\ startedFor' = startedFor
    BY <1>33 DEF Fails, Over, Waits
  <2>4. QED
    BY <2>1, <2>2, <2>3, TokenStays
<1>34. ASSUME Overflows PROVE TokenInv'
  <2>1. \A other \in Tasks : other # "exec" => Wants(other)' = Wants(other)
    BY <1>34, MoveWants, Names DEF Overflows, Rejecting
  <2>2. Wants("exec")' \in {0, Wants("exec")}
    BY <1>34, WantsNext, Names DEF Overflows, Rejecting, Is
  <2>3. queued' \in {0, queued} /\ startedFor' = startedFor
    BY <1>34 DEF Overflows, Rejecting
  <2>4. QED
    BY <2>1, <2>2, <2>3, TokenStays, Names
<1>35. ASSUME Expires PROVE TokenInv'
  <2>1. Moves("watchdog", "locking") /\ queued' = queued /\ startedFor' = startedFor
    BY <1>35 DEF Expires
  <2>2. Wants("watchdog")' = 0
    <3>1. DEFINE j == [NoJob EXCEPT !.turn = owner.turn, !.gen = owner.gen]
    <3>2. Is(j, "nothing", owner.gen, owner.turn, <<>>, <<>>, "idle", 0) /\ job'["watchdog"] = j
      BY <1>35, JobOf, Shapes DEF Expires
    <3>3. QED
      BY <3>2, WantsNext, Names DEF Is
  <2>3. QED
    BY <2>1, <2>2, MoveWants, TokenStays, Names
<1>36. ASSUME WatchdogTombstones PROVE TokenInv'
  <2>1. \A other \in Tasks : other # "watchdog" => Wants(other)' = Wants(other)
    BY <1>36, MoveWants, Names DEF WatchdogTombstones
  <2>2. Wants("watchdog")' \in {0, Wants("watchdog")}
    BY <1>36, WantsNext, Names DEF WatchdogTombstones
  <2>3. queued' \in {0, queued} /\ startedFor' = startedFor
    BY <1>36 DEF WatchdogTombstones
  <2>4. QED
    BY <2>1, <2>2, <2>3, TokenStays, Names
<1>37. ASSUME WatchdogLeaves PROVE TokenInv'
  <2>1. \A other \in Tasks : other # "watchdog" => Wants(other)' = Wants(other)
    BY <1>37, MoveWants, Names DEF WatchdogLeaves, GiveUp
  <2>2. Wants("watchdog")' \in {0, Wants("watchdog")}
    BY <1>37, WantsNext, Names DEF WatchdogLeaves, GiveUp
  <2>3. queued' \in {0, queued} /\ startedFor' = startedFor
    BY <1>37 DEF WatchdogLeaves, GiveUp
  <2>4. QED
    BY <2>1, <2>2, <2>3, TokenStays, Names
<1>38. ASSUME TearsDown PROVE TokenInv'
  BY <1>38, NoJobFields DEF TearsDown, TokenInv, Wants, Is
<1>39. ASSUME TearsDownLocks PROVE TokenInv'
  <2>1. \A other \in Tasks : other # "shutdown" => Wants(other)' = Wants(other)
    BY <1>39, MoveWants, Names DEF TearsDownLocks
  <2>2. Wants("shutdown")' \in {0, Wants("shutdown")}
    BY <1>39, WantsNext, Names DEF TearsDownLocks
  <2>3. queued' \in {0, queued} /\ startedFor' = startedFor
    BY <1>39 DEF TearsDownLocks
  <2>4. QED
    BY <2>1, <2>2, <2>3, TokenStays, Names
<1>40. ASSUME ShutdownTombstones PROVE TokenInv'
  <2>1. \A other \in Tasks : other # "shutdown" => Wants(other)' = Wants(other)
    BY <1>40, MoveWants, Names DEF ShutdownTombstones
  <2>2. Wants("shutdown")' \in {0, Wants("shutdown")}
    BY <1>40, WantsNext, Names DEF ShutdownTombstones
  <2>3. queued' \in {0, queued} /\ startedFor' = startedFor
    BY <1>40 DEF ShutdownTombstones
  <2>4. QED
    BY <2>1, <2>2, <2>3, TokenStays, Names
<1>41. ASSUME Ends PROVE TokenInv'
  BY <1>41, NoJobFields DEF Ends, TokenInv, Wants, Is
<1>42. CASE UNCHANGED vars
  BY <1>42 DEF vars, TokenInv, Wants
<1> QED
  BY <1>1, <1>2, <1>3, <1>4, <1>5, <1>6, <1>7, <1>8, <1>9, <1>10, <1>11, <1>12, <1>13,
     <1>14, <1>15, <1>16, <1>17, <1>18, <1>19, <1>20, <1>21, <1>22, <1>23, <1>24, <1>25,
     <1>26, <1>27, <1>28, <1>29, <1>30, <1>31, <1>32, <1>33, <1>34, <1>35, <1>36, <1>37,
     <1>38, <1>39, <1>40, <1>41, <1>42
     DEF Steps

(* The request of the newest generation.                                   *)
LEMMA UtteranceStep ==
    TypeOK /\ PlaceInv /\ LockInv /\ StartInv /\ BoundInv /\ UserInv /\ [Steps]_vars
       => UserInv'
<1> SUFFICES ASSUME TypeOK, PlaceInv, LockInv, StartInv, BoundInv, UserInv, [Steps]_vars
             PROVE  UserInv'
  OBVIOUS
<1> USE DEF userVars, turnVars, taskVars, toolVars, ownerVars, serverVars, speechVars,
            interruptVars
<1>1. ASSUME Buffers \/ RendersOn \/ MayFail \/ TearsDownAnswers
      PROVE  UserInv'
  <2>1. UNCHANGED <<user, queued, generation, job, startedFor>>
    BY <1>1 DEF Buffers, RendersOn, MayFail, TearsDownAnswers
  <2>2. QED
    BY <2>1 DEF UserInv, Wants
<1>2. ASSUME NEW r \in Reqs, CallsTool(r) \/ SettlesTool(r)
      PROVE  UserInv'
  <2>1. UNCHANGED <<user, queued, generation, job, startedFor>>
    BY <1>2 DEF CallsTool, SettlesTool
  <2>2. QED
    BY <2>1 DEF UserInv, Wants
<1>3. ASSUME NEW t \in Turns, Takes(t)
      PROVE  UserInv'
  <2>1. UNCHANGED <<user, queued, generation, job, startedFor>>
    BY <1>3 DEF Takes
  <2>2. QED
    BY <2>1 DEF UserInv, Wants
<1>4. ASSUME NEW t \in Turns, NEW r \in Reqs, AsksTool(t, r)
      PROVE  UserInv'
  <2>1. UNCHANGED <<user, queued, generation, job, startedFor>>
    BY <1>4 DEF AsksTool
  <2>2. QED
    BY <2>1 DEF UserInv, Wants
<1>5. ASSUME NEW t \in Turns, NEW ev \in Events, Says(t, ev)
      PROVE  UserInv'
  <2>1. UNCHANGED <<user, queued, generation, job, startedFor>>
    BY <1>5 DEF Says
  <2>2. QED
    BY <2>1 DEF UserInv, Wants
<1>6. ASSUME NEW task \in Tasks, AsksTurn(task) PROVE UserInv'
  BY <1>6, PlaceFacts DEF AsksTurn, UserInv
<1>7. ASSUME NEW task \in Tasks, AsksEnd(task) PROVE UserInv'
  <2>1. \A other \in Tasks : other # task => Wants(other)' = Wants(other)
    BY <1>7, MoveWants DEF AsksEnd
  <2>2. Wants(task)' = 0
    BY <1>7, WantsNext DEF AsksEnd, Is
  <2>3. queued' = queued /\ startedFor' = startedFor /\ generation' = generation + 1
    BY <1>7 DEF AsksEnd
  <2>4. QED
    BY <2>1, <2>2, <2>3, WantsFacts, Shapes DEF UserInv, BoundInv
<1>8. ASSUME NEW task \in Tasks, Asks(task) PROVE UserInv'
  BY <1>8, MovesEffect, HoldsKept, PlaceFacts
     DEF Asks, Alike, Is, Joins, QueueOK, UserInv, Wants
<1>9. ASSUME NEW task \in Tasks, GivesBack(task) PROVE UserInv'
  <2>1. /\ Moves(task, "idle") /\ job'[task] = NoJob /\ startedFor' = startedFor
        /\ generation' = generation /\ user' = user
        /\ queued' = queued \/ /\ queued' = generation /\ pc[task] = "locking"
                               /\ job[task].does = "start" /\ job[task].gen = generation
    BY <1>9 DEF GivesBack, GiveUp
  <2>2. Wants(task)' = 0 /\ \A other \in Tasks : other # task => Wants(other)' = Wants(other)
    BY <2>1, WantsNext, MoveWants
  <2>3. queued' = queued \/ queued' = Wants(task)
    BY <2>1, WantsFacts
  <2>4. QED
    BY <2>1, <2>2, <2>3 DEF UserInv
<1>10. ASSUME NEW task \in Tasks, OrdersTurn(task) PROVE UserInv'
  BY <1>10, PlaceFacts DEF OrdersTurn, Alike, UserInv, Wants
<1>11. ASSUME NEW task \in Tasks, TombstonesTurn(task) PROVE UserInv'
  BY <1>11, MovesEffect DEF TombstonesTurn, Is, Interrupted, UserInv, Wants
<1>12. ASSUME NEW task \in Tasks, Accepted(task) PROVE UserInv'
  BY <1>12, MovesEffect DEF Accepted, Alike, Is, UserInv, Wants
<1>13. ASSUME NEW task \in Tasks, LateRejects(task) PROVE UserInv'
  <2>1. Starts(task) /\ \E there : Moves(task, there)
    BY <1>13 DEF LateRejects, Rejecting
  <2>2. job'[task].does = job[task].does /\ job'[task].after \in {"stale", "replaying"}
    BY <1>13 DEF LateRejects, Is, Rejecting
  <2>3. /\ pc[task] = "starting" /\ queued' = queued /\ reply # None
        /\ startedFor' = [startedFor EXCEPT ![reply] = job[task].gen]
    BY <2>1 DEF Starts
  <2>4. Wants(task) = job[task].gen /\ Wants(task) # 0 /\ Wants(task)' = 0
    BY <2>2, <2>3, WantsFacts, WantsNext, PlaceFacts
  <2>5. \A other \in Tasks : other # task => Wants(other)' = Wants(other)
    BY <2>1, MoveWants
  <2>6. \A t \in Turns : startedFor'[t] = IF t = reply THEN Wants(task) ELSE startedFor[t]
    BY <2>3, <2>4, Shapes
  <2>7. generation' = generation /\ user' = user
    BY <1>13 DEF LateRejects, Starts, Rejecting
  <2>8. QED
    BY <2>1, <2>2, <2>3, <2>4, <2>5, <2>6, <2>7 DEF UserInv
<1>14. ASSUME NEW task \in Tasks, LateInterrupts(task) PROVE UserInv'
  <2>1. Starts(task) /\ \E there : Moves(task, there)
    BY <1>14 DEF LateInterrupts
  <2>2. job'[task].does = job[task].does /\ job'[task].after \in {"stale", "replaying"}
    BY <1>14 DEF LateInterrupts, Is
  <2>3. /\ pc[task] = "starting" /\ queued' = queued /\ reply # None
        /\ startedFor' = [startedFor EXCEPT ![reply] = job[task].gen]
    BY <2>1 DEF Starts
  <2>4. Wants(task) = job[task].gen /\ Wants(task) # 0 /\ Wants(task)' = 0
    BY <2>2, <2>3, WantsFacts, WantsNext, PlaceFacts
  <2>5. \A other \in Tasks : other # task => Wants(other)' = Wants(other)
    BY <2>1, MoveWants
  <2>6. \A t \in Turns : startedFor'[t] = IF t = reply THEN Wants(task) ELSE startedFor[t]
    BY <2>3, <2>4, Shapes
  <2>7. generation' = generation /\ user' = user
    BY <1>14 DEF LateInterrupts, Starts
  <2>8. QED
    BY <2>1, <2>2, <2>3, <2>4, <2>5, <2>6, <2>7 DEF UserInv
<1>15. ASSUME NEW task \in Tasks, OwnsRejects(task) PROVE UserInv'
  BY <1>15, PlaceFacts DEF OwnsRejects, Starts, Rejecting, Owns, UserInv, Wants
<1>16. ASSUME NEW task \in Tasks, OwnsReplays(task) PROVE UserInv'
  BY <1>16, PlaceFacts DEF OwnsReplays, Starts, Owns, UserInv, Wants
<1>17. ASSUME NEW task \in Tasks, WritesNext(task) PROVE UserInv'
  BY <1>17, MovesEffect DEF WritesNext, Writes, Is, UserInv, Wants
<1>18. ASSUME NEW task \in Tasks, WritesOut(task) PROVE UserInv'
  <2>1. \A other \in Tasks : other # task => Wants(other)' = Wants(other)
    BY <1>18, MoveWants DEF WritesOut, WritesLast, Over
  <2>2. Wants(task)' \in {0, Wants(task)}
    BY <1>18, WantsNext DEF WritesOut, WritesLast, Over
  <2>3. queued' \in {0, queued} /\ startedFor' = startedFor
    BY <1>18 DEF WritesOut, Writes, WritesLast, Over
  <2>4. generation' = generation /\ user' = user
    BY <1>18 DEF WritesOut, Writes, WritesLast, Over
  <2>5. QED
    BY <2>1, <2>2, <2>3, <2>4 DEF UserInv
<1>19. ASSUME NEW task \in Tasks, WritesOn(task) PROVE UserInv'
  BY <1>19, MovesEffect
     DEF WritesOn, Is, Interrupted, Writes, WritesLast, Wrote, UserInv, Wants
<1>20. ASSUME NEW task \in Tasks, RefusesTool(task) PROVE UserInv'
  BY <1>20, MovesEffect, Names DEF RefusesTool, Handles, Event, Is, Left, UserInv, Wants
<1>21. ASSUME NEW task \in Tasks, AdmitsTool(task) PROVE UserInv'
  BY <1>21, MovesEffect, NoJobFields
     DEF AdmitsTool, Handles, Event, Back, Is, UserInv, Wants
<1>22. ASSUME NEW task \in Tasks, HearsPart(task) PROVE UserInv'
  BY <1>22, MovesEffect, NoJobFields DEF HearsPart, Handles, Event, Back, Is, UserInv, Wants
<1>23. ASSUME NEW task \in Tasks, PassesEnd(task) PROVE UserInv'
  BY <1>23, MovesEffect, NoJobFields DEF PassesEnd, Handles, Event, Back, Is, UserInv, Wants
<1>24. ASSUME NEW task \in Tasks, EndsUnspoken(task) PROVE UserInv'
  BY <1>24, MovesEffect, NoJobFields
     DEF EndsUnspoken, Handles, Event, Back, Is, EndsTurn, UserInv, Wants, PlaceInv,
         LockInv, StartInv, BoundInv
<1>25. ASSUME NEW task \in Tasks, EndsForNext(task) PROVE UserInv'
  BY <1>25, PlaceFacts DEF EndsForNext, Handles, Event, EndsTurn, Renews, UserInv
<1>26. ASSUME NEW task \in Tasks, EndsSession(task) PROVE UserInv'
  BY <1>26, MovesEffect, NoJobFields, Names
     DEF EndsSession, Over, Frees, QueueOK, Handles, Event, EndsTurn, UserInv, Wants, Is
<1>27. ASSUME NEW task \in Tasks, EndsForSpeech(task) PROVE UserInv'
  BY <1>27, MovesEffect, PlaceFacts
     DEF EndsForSpeech, Handles, Event, Is, Left, EndsTurn, UserInv, Wants
<1>28. ASSUME NEW task \in Tasks, Retired(task) PROVE UserInv'
  BY <1>28, MovesEffect DEF Retired, Alike, Is, UserInv, Wants
<1>29. ASSUME NEW task \in Tasks, Submits(task) PROVE UserInv'
  BY <1>29, MovesEffect DEF Submits, Alike, Is, UserInv, Wants
<1>30. ASSUME NEW task \in Tasks, AnswerOver(task) PROVE UserInv'
  BY <1>30, MovesEffect, NoJobFields DEF AnswerOver, Back, Is, EndsAnswer, UserInv, Wants
<1>31. ASSUME NEW task \in Tasks, AnswerForNext(task) PROVE UserInv'
  BY <1>31, PlaceFacts
     DEF AnswerForNext, Renews, EndsAnswer, UserInv, Wants, PlaceInv, LockInv, StartInv,
         BoundInv, Answering
<1>32. ASSUME NEW task \in Tasks, FailsStart(task) PROVE UserInv'
  BY <1>32, MovesEffect, PlaceFacts, NoJobFields
     DEF FailsStart, Rejecting, Is, Over, Frees, QueueOK, UserInv, Wants
<1>33. ASSUME NEW task \in Tasks, Fails(task) PROVE UserInv'
  BY <1>33, MovesEffect, NoJobFields
     DEF Fails, Over, Frees, QueueOK, Waits, UserInv, Wants, Is
<1>34. ASSUME NotesTurn PROVE UserInv'
  BY <1>34, PlaceFacts DEF NotesTurn, UserInv, Wants
<1>35. ASSUME Overflows PROVE UserInv'
  BY <1>35, MovesEffect, NoJobFields, Names, WantsFacts
     DEF Overflows, Rejecting, Is, UserInv, Wants
<1>36. ASSUME Expires PROVE UserInv'
  <2>1. Moves("watchdog", "locking") /\ queued' = queued /\ startedFor' = startedFor
    BY <1>36 DEF Expires
  <2>2. Wants("watchdog")' = 0
    <3>1. DEFINE j == [NoJob EXCEPT !.turn = owner.turn, !.gen = owner.gen]
    <3>2. Is(j, "nothing", owner.gen, owner.turn, <<>>, <<>>, "idle", 0) /\ job'["watchdog"] = j
      BY <1>36, JobOf, Shapes DEF Expires
    <3>3. QED
      BY <3>2, WantsNext, Names DEF Is
  <2>3. generation' = generation /\ user' = user
    BY <1>36 DEF Expires
  <2>4. QED
    BY <2>1, <2>2, <2>3, MoveWants, Names DEF UserInv
<1>37. ASSUME WatchdogTombstones PROVE UserInv'
  BY <1>37, MovesEffect, PlaceFacts, Names, Shapes
     DEF WatchdogTombstones, Interrupted, UserInv, Wants, PlaceInv, LockInv, StartInv,
         BoundInv, Answering
<1>38. ASSUME WatchdogLeaves PROVE UserInv'
  BY <1>38, MovesEffect, NoJobFields, Names
     DEF WatchdogLeaves, GiveUp, Frees, QueueOK, UserInv, Wants, Is
<1>39. ASSUME TearsDown PROVE UserInv'
  BY <1>39, NoJobFields, Shapes
     DEF TearsDown, UserInv, Wants, Is, PlaceInv, LockInv, StartInv, BoundInv
<1>40. ASSUME TearsDownLocks PROVE UserInv'
  BY <1>40, MovesEffect, PlaceFacts, Names
     DEF TearsDownLocks, Joins, QueueOK, UserInv, Wants
<1>41. ASSUME ShutdownTombstones PROVE UserInv'
  BY <1>41, MovesEffect, Names DEF ShutdownTombstones, Interrupted, UserInv, Wants
<1>42. ASSUME Ends PROVE UserInv'
  BY <1>42, NoJobFields DEF Ends, UserInv, Wants, Is
<1>43. CASE UNCHANGED vars
  BY <1>43 DEF vars, UserInv, Wants
<1> QED
  BY <1>1, <1>2, <1>3, <1>4, <1>5, <1>6, <1>7, <1>8, <1>9, <1>10, <1>11, <1>12, <1>13,
     <1>14, <1>15, <1>16, <1>17, <1>18, <1>19, <1>20, <1>21, <1>22, <1>23, <1>24, <1>25,
     <1>26, <1>27, <1>28, <1>29, <1>30, <1>31, <1>32, <1>33, <1>34, <1>35, <1>36, <1>37,
     <1>38, <1>39, <1>40, <1>41, <1>42, <1>43
     DEF Steps

(* The newest request is kept.                                             *)
LEMMA NewestStep ==
    TypeOK /\ PlaceInv /\ LockInv /\ StartInv /\ FreshInv /\ BoundInv /\ PhaseInv /\ NewestInv
       /\ [Steps]_vars
       => NewestInv'
<1> SUFFICES ASSUME TypeOK, PlaceInv, LockInv, StartInv, FreshInv, BoundInv, PhaseInv,
                    NewestInv, [Steps]_vars
             PROVE  NewestInv'
  OBVIOUS
<1> USE DEF userVars, turnVars, taskVars, toolVars, ownerVars, serverVars, speechVars,
            interruptVars
<1>1. ASSUME NotesTurn \/ Buffers \/ RendersOn \/ TearsDownAnswers
      PROVE  NewestInv'
  <2>1. UNCHANGED <<requested, generation, failure, queued, job, startedFor>>
    BY <1>1 DEF NotesTurn, Buffers, RendersOn, TearsDownAnswers
  <2>2. QED
    BY <2>1 DEF NewestInv, Wants
<1>2. ASSUME NEW r \in Reqs, CallsTool(r)
      PROVE  NewestInv'
  <2>1. UNCHANGED <<requested, generation, failure, queued, job, startedFor>>
    BY <1>2 DEF CallsTool
  <2>2. QED
    BY <2>1 DEF NewestInv, Wants
<1>3. ASSUME NEW t \in Turns, Takes(t)
      PROVE  NewestInv'
  <2>1. UNCHANGED <<requested, generation, failure, queued, job, startedFor>>
    BY <1>3 DEF Takes
  <2>2. QED
    BY <2>1 DEF NewestInv, Wants
<1>4. ASSUME NEW t \in Turns, NEW r \in Reqs, AsksTool(t, r)
      PROVE  NewestInv'
  <2>1. UNCHANGED <<requested, generation, failure, queued, job, startedFor>>
    BY <1>4 DEF AsksTool
  <2>2. QED
    BY <2>1 DEF NewestInv, Wants
<1>5. ASSUME NEW t \in Turns, NEW ev \in Events, Says(t, ev)
      PROVE  NewestInv'
  <2>1. UNCHANGED <<requested, generation, failure, queued, job, startedFor>>
    BY <1>5 DEF Says
  <2>2. QED
    BY <2>1 DEF NewestInv, Wants
<1>6. ASSUME NEW task \in Tasks, AsksTurn(task) PROVE NewestInv'
  BY <1>6, PlaceFacts DEF AsksTurn, Is, NewestInv, Wants
<1>7. ASSUME NEW task \in Tasks, AsksEnd(task) PROVE NewestInv'
  BY <1>7, PlaceFacts, Shapes
     DEF AsksEnd, NewestInv, PlaceInv, LockInv, StartInv, FreshInv, BoundInv, PhaseInv
<1>8. ASSUME NEW task \in Tasks, Asks(task) PROVE NewestInv'
  <2>1. Wants(task)' = Wants(task)
    BY <1>8, WantsNext DEF Asks
  <2>2. \A other \in Tasks : other # task => Wants(other)' = Wants(other)
    BY <1>8, MoveWants DEF Asks
  <2>3. UNCHANGED <<requested, generation, failure, queued, startedFor>>
    BY <1>8 DEF Asks
  <2>4. QED
    BY <2>1, <2>2, <2>3 DEF NewestInv
<1>9. ASSUME NEW task \in Tasks, GivesBack(task) PROVE NewestInv'
  <2>1. /\ Moves(task, "idle") /\ (failure => failure')
        /\ UNCHANGED <<requested, generation, startedFor>>
    BY <1>9 DEF GivesBack, GiveUp
  <2>2. \/ queued' = generation
        \/ queued' = queued /\ Wants(task) \in {0} \cup (Nat \ {generation})
    BY <1>9 DEF GivesBack
  <2>3. \A other \in Tasks : other # task => Wants(other)' = Wants(other)
    BY <2>1, MoveWants
  <2>4. QED
    BY <2>1, <2>2, <2>3 DEF NewestInv
<1>10. ASSUME NEW task \in Tasks, OrdersTurn(task) PROVE NewestInv'
  BY <1>10, PlaceFacts DEF OrdersTurn, Alike, Is, NewestInv, Wants
<1>11. ASSUME NEW task \in Tasks, TombstonesTurn(task) PROVE NewestInv'
  BY <1>11, MovesEffect DEF TombstonesTurn, Is, Interrupted, NewestInv, Wants
<1>12. ASSUME NEW task \in Tasks, Accepted(task) PROVE NewestInv'
  BY <1>12, MovesEffect DEF Accepted, Alike, Is, NewestInv, Wants
<1>13. ASSUME NEW task \in Tasks, LateRejects(task) PROVE NewestInv'
  <2>1. Starts(task) /\ \E there : Moves(task, there)
    BY <1>13 DEF LateRejects, Rejecting
  <2>2. job'[task].does = job[task].does /\ job'[task].after \in {"stale", "replaying"}
    BY <1>13 DEF LateRejects, Is, Rejecting
  <2>3. /\ pc[task] = "starting" /\ queued' = queued /\ reply # None
        /\ startedFor' = [startedFor EXCEPT ![reply] = job[task].gen]
    BY <2>1 DEF Starts
  <2>4. Wants(task) = job[task].gen /\ Wants(task) # 0 /\ Wants(task)' = 0
    BY <2>2, <2>3, WantsFacts, WantsNext, PlaceFacts
  <2>5. \A other \in Tasks : other # task => Wants(other)' = Wants(other)
    BY <2>1, MoveWants
  <2>6. \A t \in Turns : startedFor'[t] = IF t = reply THEN Wants(task) ELSE startedFor[t]
    BY <2>3, <2>4, Shapes
  <2>7. generation' = generation /\ requested' = requested /\ failure' = failure
    BY <1>13 DEF LateRejects, Starts
  <2>8. reply \in Turns
    BY <2>3, Shapes
  <2>9. \E t \in Turns : startedFor'[t] = Wants(task)
    BY <2>6, <2>8
  <2>10. ASSUME NEW t \in Turns, startedFor[t] = requested, requested # 0
        PROVE  startedFor'[t] = requested
    BY <2>10, <2>3, <2>6, Names DEF FreshInv, Fresh
  <2>11. QED
    BY <2>3, <2>4, <2>5, <2>7, <2>9, <2>10 DEF NewestInv
<1>14. ASSUME NEW task \in Tasks, LateInterrupts(task) PROVE NewestInv'
  BY <1>14, MovesEffect, NoJobFields
     DEF LateInterrupts, Is, Interrupted, Starts, NewestInv, Wants, PlaceInv, LockInv,
         StartInv, FreshInv, BoundInv, PhaseInv, Fresh
<1>15. ASSUME NEW task \in Tasks, OwnsRejects(task) PROVE NewestInv'
  BY <1>15, PlaceFacts, Shapes DEF OwnsRejects, Starts, Rejecting, Owns, NewestInv
<1>16. ASSUME NEW task \in Tasks, OwnsReplays(task) PROVE NewestInv'
  BY <1>16, PlaceFacts, Shapes DEF OwnsReplays, Starts, Owns, NewestInv
<1>17. ASSUME NEW task \in Tasks, WritesNext(task) PROVE NewestInv'
  BY <1>17, MovesEffect, HoldsKept, Names
     DEF WritesNext, Writes, Is, NewestInv, Wants, PlaceInv, LockInv, StartInv, FreshInv,
         BoundInv, PhaseInv
<1>18. ASSUME NEW task \in Tasks, WritesOut(task) PROVE NewestInv'
  BY <1>18, MovesEffect, NoJobFields, WantsFacts
     DEF WritesOut, Writes, WritesLast, Wrote, Over, Frees, QueueOK, NewestInv, Wants,
         PlaceInv, LockInv, StartInv, FreshInv, BoundInv, PhaseInv
<1>19. ASSUME NEW task \in Tasks, WritesOn(task) PROVE NewestInv'
  BY <1>19, MovesEffect
     DEF WritesOn, Is, Interrupted, Writes, WritesLast, Wrote, NewestInv, Wants
<1>20. ASSUME NEW task \in Tasks, RefusesTool(task) PROVE NewestInv'
  BY <1>20, MovesEffect DEF RefusesTool, Handles, Event, Is, Left, NewestInv, Wants
<1>21. ASSUME NEW task \in Tasks, AdmitsTool(task) PROVE NewestInv'
  BY <1>21, MovesEffect, Names, WantsFacts
     DEF AdmitsTool, Handles, Event, Back, NewestInv, Wants
<1>22. ASSUME NEW task \in Tasks, HearsPart(task) PROVE NewestInv'
  BY <1>22, MovesEffect, WantsFacts DEF HearsPart, Handles, Event, Back, NewestInv, Wants
<1>23. ASSUME NEW task \in Tasks, PassesEnd(task) PROVE NewestInv'
  BY <1>23, MovesEffect, PlaceFacts, WantsFacts
     DEF PassesEnd, Handles, Event, Back, Is, NewestInv, Wants
<1>24. ASSUME NEW task \in Tasks, EndsUnspoken(task) PROVE NewestInv'
  BY <1>24, MovesEffect, PlaceFacts
     DEF EndsUnspoken, Handles, Event, Back, EndsTurn, NewestInv, Wants
<1>25. ASSUME NEW task \in Tasks, EndsForNext(task) PROVE NewestInv'
  BY <1>25, PlaceFacts
     DEF EndsForNext, Handles, Event, EndsTurn, Renews, Is, NewestInv, Wants
<1>26. ASSUME NEW task \in Tasks, EndsSession(task) PROVE NewestInv'
  BY <1>26, PlaceFacts
     DEF EndsSession, Over, Frees, QueueOK, Handles, Event, EndsTurn, NewestInv
<1>27. ASSUME NEW task \in Tasks, EndsForSpeech(task) PROVE NewestInv'
  BY <1>27, MovesEffect, PlaceFacts
     DEF EndsForSpeech, Handles, Event, Is, Left, EndsTurn, NewestInv, Wants, PlaceInv,
         LockInv, StartInv, FreshInv, BoundInv, PhaseInv
<1>28. ASSUME NEW task \in Tasks, Retired(task) PROVE NewestInv'
  BY <1>28, MovesEffect DEF Retired, Alike, Is, NewestInv, Wants
<1>29. ASSUME NEW task \in Tasks, Submits(task) PROVE NewestInv'
  BY <1>29, MovesEffect DEF Submits, Alike, Is, NewestInv, Wants
<1>30. ASSUME NEW task \in Tasks, AnswerOver(task) PROVE NewestInv'
  BY <1>30, MovesEffect, WantsFacts
     DEF AnswerOver, Back, EndsAnswer, NewestInv, Wants, PlaceInv, LockInv, StartInv,
         FreshInv, BoundInv, PhaseInv, Answering
<1>31. ASSUME NEW task \in Tasks, AnswerForNext(task) PROVE NewestInv'
  BY <1>31, PlaceFacts DEF AnswerForNext, Renews, Is, EndsAnswer, NewestInv, Wants
<1>32. ASSUME NEW task \in Tasks, FailsStart(task) PROVE NewestInv'
  BY <1>32, PlaceFacts DEF FailsStart, Rejecting, Over, Frees, QueueOK, NewestInv
<1>33. ASSUME NEW task \in Tasks, Fails(task) PROVE NewestInv'
  BY <1>33, PlaceFacts DEF Fails, Over, Frees, QueueOK, Waits, NewestInv
<1>34. ASSUME Overflows PROVE NewestInv'
  BY <1>34, PlaceFacts DEF Overflows, Rejecting, NewestInv
<1>35. ASSUME NEW r \in Reqs, SettlesTool(r) PROVE NewestInv'
  BY <1>35, PlaceFacts DEF SettlesTool, NewestInv, Wants
<1>36. ASSUME Expires PROVE NewestInv'
  BY <1>36, MovesEffect, Names, WantsFacts DEF Expires, Joins, QueueOK, NewestInv, Wants
<1>37. ASSUME WatchdogTombstones PROVE NewestInv'
  BY <1>37, PlaceFacts, Shapes
     DEF WatchdogTombstones, Interrupted, NewestInv, PlaceInv, LockInv, StartInv, FreshInv,
         BoundInv, PhaseInv
<1>38. ASSUME WatchdogLeaves PROVE NewestInv'
  BY <1>38, MovesEffect, Names, WantsFacts
     DEF WatchdogLeaves, GiveUp, Frees, QueueOK, NewestInv, Wants
<1>39. ASSUME MayFail PROVE NewestInv'
  BY <1>39, PlaceFacts DEF MayFail, NewestInv
<1>40. ASSUME TearsDown PROVE NewestInv'
  BY <1>40, PlaceFacts DEF TearsDown, NewestInv
<1>41. ASSUME TearsDownLocks PROVE NewestInv'
  BY <1>41, MovesEffect, Names DEF TearsDownLocks, Joins, QueueOK, NewestInv, Wants
<1>42. ASSUME ShutdownTombstones PROVE NewestInv'
  BY <1>42, MovesEffect, Names DEF ShutdownTombstones, Interrupted, NewestInv, Wants
<1>43. ASSUME Ends PROVE NewestInv'
  BY <1>43, PlaceFacts
     DEF Ends, NewestInv, PlaceInv, LockInv, StartInv, FreshInv, BoundInv, PhaseInv
<1>44. CASE UNCHANGED vars
  BY <1>44 DEF vars, NewestInv, Wants
<1> QED
  BY <1>1, <1>2, <1>3, <1>4, <1>5, <1>6, <1>7, <1>8, <1>9, <1>10, <1>11, <1>12, <1>13,
     <1>14, <1>15, <1>16, <1>17, <1>18, <1>19, <1>20, <1>21, <1>22, <1>23, <1>24, <1>25,
     <1>26, <1>27, <1>28, <1>29, <1>30, <1>31, <1>32, <1>33, <1>34, <1>35, <1>36, <1>37,
     <1>38, <1>39, <1>40, <1>41, <1>42, <1>43, <1>44
     DEF Steps

(* The step keeps this part of the type.                                   *)
LEMMA UserTypeStep ==
    TypeOK /\ [Steps]_vars => UserType'
<1> SUFFICES ASSUME TypeOK, [Steps]_vars PROVE UserType'
  OBVIOUS
<1> USE DEF userVars, turnVars, taskVars, toolVars, ownerVars, serverVars, speechVars,
            interruptVars
<1>1. ASSUME NEW task \in Tasks, Asks(task) \/ OrdersTurn(task) \/ TombstonesTurn(task) \/
                Accepted(task) \/ LateRejects(task) \/ LateInterrupts(task) \/
                OwnsRejects(task)
      PROVE  UserType'
  <2>1. UNCHANGED <<generation, requested, user, userGen, claimed>>
    BY <1>1
       DEF Asks, OrdersTurn, TombstonesTurn, Accepted, LateRejects, LateInterrupts,
           OwnsRejects, Starts, Owns
  <2>2. QED
    BY <2>1 DEF UserType, TypeOK
<1>2. ASSUME NEW task \in Tasks, OwnsReplays(task) \/ WritesNext(task) \/ WritesOut(task) \/
                WritesOn(task) \/ RefusesTool(task) \/ AdmitsTool(task) \/ HearsPart(task)
      PROVE  UserType'
  <2>1. UNCHANGED <<generation, requested, user, userGen, claimed>>
    BY <1>2
       DEF OwnsReplays, WritesNext, WritesOut, WritesOn, RefusesTool, AdmitsTool, HearsPart,
           Starts, Owns, Writes, WritesLast, Handles
  <2>2. QED
    BY <2>1 DEF UserType, TypeOK
<1>3. ASSUME NEW task \in Tasks, PassesEnd(task) \/ EndsUnspoken(task) \/ EndsForNext(task) \/
                EndsSession(task) \/ EndsForSpeech(task) \/ Retired(task) \/ Submits(task)
      PROVE  UserType'
  <2>1. UNCHANGED <<generation, requested, user, userGen, claimed>>
    BY <1>3
       DEF PassesEnd, EndsUnspoken, EndsForNext, EndsSession, EndsForSpeech, Retired,
           Submits, Handles, EndsTurn
  <2>2. QED
    BY <2>1 DEF UserType, TypeOK
<1>4. ASSUME NEW task \in Tasks, AnswerOver(task) \/ AnswerForNext(task) \/ FailsStart(task)
                \/ Fails(task)
      PROVE  UserType'
  <2>1. UNCHANGED <<generation, requested, user, userGen, claimed>>
    BY <1>4 DEF AnswerOver, AnswerForNext, FailsStart, Fails, EndsAnswer
  <2>2. QED
    BY <2>1 DEF UserType, TypeOK
<1>5. ASSUME Buffers \/ Overflows \/ RendersOn \/ Expires \/ WatchdogLeaves \/ MayFail \/
                TearsDownAnswers
      PROVE  UserType'
  <2>1. UNCHANGED <<generation, requested, user, userGen, claimed>>
    BY <1>5
       DEF Buffers, Overflows, RendersOn, Expires, WatchdogLeaves, MayFail, TearsDownAnswers
  <2>2. QED
    BY <2>1 DEF UserType, TypeOK
<1>6. ASSUME TearsDownLocks \/ ShutdownTombstones \/ Ends
      PROVE  UserType'
  <2>1. UNCHANGED <<generation, requested, user, userGen, claimed>>
    BY <1>6 DEF TearsDownLocks, ShutdownTombstones, Ends
  <2>2. QED
    BY <2>1 DEF UserType, TypeOK
<1>7. ASSUME NEW r \in Reqs, CallsTool(r) \/ SettlesTool(r)
      PROVE  UserType'
  <2>1. UNCHANGED <<generation, requested, user, userGen, claimed>>
    BY <1>7 DEF CallsTool, SettlesTool
  <2>2. QED
    BY <2>1 DEF UserType, TypeOK
<1>8. ASSUME NEW t \in Turns, Takes(t)
      PROVE  UserType'
  <2>1. UNCHANGED <<generation, requested, user, userGen, claimed>>
    BY <1>8 DEF Takes
  <2>2. QED
    BY <2>1 DEF UserType, TypeOK
<1>9. ASSUME NEW t \in Turns, NEW r \in Reqs, AsksTool(t, r)
      PROVE  UserType'
  <2>1. UNCHANGED <<generation, requested, user, userGen, claimed>>
    BY <1>9 DEF AsksTool
  <2>2. QED
    BY <2>1 DEF UserType, TypeOK
<1>10. ASSUME NEW t \in Turns, NEW ev \in Events, Says(t, ev)
      PROVE  UserType'
  <2>1. UNCHANGED <<generation, requested, user, userGen, claimed>>
    BY <1>10 DEF Says
  <2>2. QED
    BY <2>1 DEF UserType, TypeOK
<1>11. ASSUME NEW task \in Tasks, AsksTurn(task) PROVE UserType'
  <2>1. /\ generation' = generation + 1 \/ generation' = generation
        /\ requested' = generation' /\ claimed' = claimed
        /\ user' \in [pending : Nat, handled : {TRUE}] /\ userGen' \in [UserTurns -> Nat]
    BY <1>11 DEF AsksTurn
  <2>2. generation' \in Nat
    BY <2>1, Shapes
  <2>3. user' \in [pending : Nat, handled : BOOLEAN]
    BY <2>1
  <2>4. QED
    BY <2>1, <2>2, <2>3 DEF UserType, TypeOK
<1>12. ASSUME NEW task \in Tasks, AsksEnd(task) PROVE UserType'
  BY <1>12 DEF AsksEnd, UserType, TypeOK
<1>13. ASSUME NEW task \in Tasks, GivesBack(task) PROVE UserType'
  BY <1>13 DEF GivesBack, GiveUp, Frees, QueueOK, UserType, TypeOK
<1>14. ASSUME NotesTurn PROVE UserType'
  BY <1>14, Shapes DEF NotesTurn, UserType
<1>15. ASSUME WatchdogTombstones PROVE UserType'
  BY <1>15 DEF WatchdogTombstones, Interrupted, UserType, TypeOK
<1>16. ASSUME TearsDown PROVE UserType'
  BY <1>16, Shapes DEF TearsDown, UserType, TypeOK
<1>17. CASE UNCHANGED vars
  BY <1>17 DEF vars, UserType, TypeOK
<1> QED
  BY <1>1, <1>2, <1>3, <1>4, <1>5, <1>6, <1>7, <1>8, <1>9, <1>10, <1>11, <1>12, <1>13,
     <1>14, <1>15, <1>16, <1>17
     DEF Steps

(* The step keeps this part of the type.                                   *)
LEMMA OwnerTypeStep ==
    TypeOK /\ PlaceInv /\ [Steps]_vars => OwnerType'
<1> SUFFICES ASSUME TypeOK, PlaceInv, [Steps]_vars PROVE OwnerType'
  OBVIOUS
<1> USE DEF userVars, turnVars, taskVars, toolVars, ownerVars, serverVars, speechVars,
            interruptVars
<1>1. ASSUME NEW task \in Tasks, AsksTurn(task) \/ AsksEnd(task) \/ Asks(task) \/
                Accepted(task) \/ WritesNext(task) \/ WritesOut(task) \/ WritesOn(task)
      PROVE  OwnerType'
  <2>1. UNCHANGED <<owner, finished, heard, starting, queued>>
    BY <1>1
       DEF AsksTurn, AsksEnd, Asks, Accepted, WritesNext, WritesOut, WritesOn, Writes,
           WritesLast
  <2>2. QED
    BY <2>1 DEF OwnerType, TypeOK, TypeOK
<1>2. ASSUME NEW task \in Tasks, RefusesTool(task) \/ PassesEnd(task) \/ Retired(task) \/
                Submits(task) \/ AnswerOver(task) \/ AnswerForNext(task) \/ Fails(task)
      PROVE  OwnerType'
  <2>1. UNCHANGED <<owner, finished, heard, starting, queued>>
    BY <1>2
       DEF RefusesTool, PassesEnd, Retired, Submits, AnswerOver, AnswerForNext, Fails,
           Handles, EndsAnswer
  <2>2. QED
    BY <2>1 DEF OwnerType, TypeOK, TypeOK
<1>3. ASSUME NotesTurn \/ Buffers \/ Overflows \/ RendersOn \/ Expires \/ WatchdogLeaves \/
                MayFail
      PROVE  OwnerType'
  <2>1. UNCHANGED <<owner, finished, heard, starting, queued>>
    BY <1>3 DEF NotesTurn, Buffers, Overflows, RendersOn, Expires, WatchdogLeaves, MayFail
  <2>2. QED
    BY <2>1 DEF OwnerType, TypeOK, TypeOK
<1>4. ASSUME TearsDownAnswers \/ TearsDownLocks \/ ShutdownTombstones \/ Ends
      PROVE  OwnerType'
  <2>1. UNCHANGED <<owner, finished, heard, starting, queued>>
    BY <1>4 DEF TearsDownAnswers, TearsDownLocks, ShutdownTombstones, Ends
  <2>2. QED
    BY <2>1 DEF OwnerType, TypeOK, TypeOK
<1>5. ASSUME NEW r \in Reqs, CallsTool(r) \/ SettlesTool(r)
      PROVE  OwnerType'
  <2>1. UNCHANGED <<owner, finished, heard, starting, queued>>
    BY <1>5 DEF CallsTool, SettlesTool
  <2>2. QED
    BY <2>1 DEF OwnerType, TypeOK, TypeOK
<1>6. ASSUME NEW t \in Turns, Takes(t)
      PROVE  OwnerType'
  <2>1. UNCHANGED <<owner, finished, heard, starting, queued>>
    BY <1>6 DEF Takes
  <2>2. QED
    BY <2>1 DEF OwnerType, TypeOK, TypeOK
<1>7. ASSUME NEW t \in Turns, NEW r \in Reqs, AsksTool(t, r)
      PROVE  OwnerType'
  <2>1. UNCHANGED <<owner, finished, heard, starting, queued>>
    BY <1>7 DEF AsksTool
  <2>2. QED
    BY <2>1 DEF OwnerType, TypeOK, TypeOK
<1>8. ASSUME NEW t \in Turns, NEW ev \in Events, Says(t, ev)
      PROVE  OwnerType'
  <2>1. UNCHANGED <<owner, finished, heard, starting, queued>>
    BY <1>8 DEF Says
  <2>2. QED
    BY <2>1 DEF OwnerType, TypeOK, TypeOK
<1>9. ASSUME NEW task \in Tasks, GivesBack(task) PROVE OwnerType'
  BY <1>9, EventFields, Names DEF GivesBack, GiveUp, Frees, QueueOK, OwnerType, TypeOK
<1>10. ASSUME NEW task \in Tasks, OrdersTurn(task) PROVE OwnerType'
  BY <1>10, Shapes DEF OrdersTurn, Alike, OwnerType, TypeOK
<1>11. ASSUME NEW task \in Tasks, TombstonesTurn(task) PROVE OwnerType'
  BY <1>11, Shapes DEF TombstonesTurn, Interrupted, OwnerType, TypeOK
<1>12. ASSUME NEW task \in Tasks, LateRejects(task) PROVE OwnerType'
  BY <1>12, Shapes DEF LateRejects, Starts, Rejecting, OwnerType, TypeOK
<1>13. ASSUME NEW task \in Tasks, LateInterrupts(task) PROVE OwnerType'
  BY <1>13, Shapes DEF LateInterrupts, Interrupted, Starts, OwnerType, TypeOK
<1>14. ASSUME NEW task \in Tasks, OwnsRejects(task) PROVE OwnerType'
  BY <1>14, Shapes
     DEF OwnsRejects, Starts, Rejecting, Owns, OwnerType, TypeOK, PlaceInv, Nobody
<1>15. ASSUME NEW task \in Tasks, OwnsReplays(task) PROVE OwnerType'
  BY <1>15, Shapes DEF OwnsReplays, Starts, Owns, OwnerType, TypeOK, PlaceInv, Nobody
<1>16. ASSUME NEW task \in Tasks, AdmitsTool(task) PROVE OwnerType'
  BY <1>16, Shapes DEF AdmitsTool, Handles, Event, Back, OwnerType, TypeOK
<1>17. ASSUME NEW task \in Tasks, HearsPart(task) PROVE OwnerType'
  <2>1. Handles(task) /\ Event(task).kind = "part"
        /\ heard' \in {heard, heard \cup {<<Event(task).turn, Event(task).what>>}}
        /\ UNCHANGED <<owner, finished, queued>>
    BY <1>17 DEF HearsPart
  <2>2. Event(task).turn \in Turns /\ Event(task).what \in Nat
    BY <2>1, EventHandled, EventFields
  <2>3. heard' \subseteq Turns \X Nat
    BY <2>1, <2>2 DEF TypeOK
  <2>4. starting' = starting
    BY <2>1 DEF Handles
  <2>5. QED
    BY <2>1, <2>3, <2>4 DEF OwnerType, TypeOK
<1>18. ASSUME NEW task \in Tasks, EndsUnspoken(task) PROVE OwnerType'
  <2>1. Handles(task) /\ Event(task).turn = owner.turn
        /\ owner' = Nobody /\ finished' = finished \cup {owner.turn} /\ heard' = {} /\ queued' = 0
    BY <1>18 DEF EndsUnspoken, EndsTurn
  <2>2. Event(task) \in Events /\ Event(task).turn \in Turns
    BY <2>1, EventHandled, EventFields
  <2>3. starting' = starting
    BY <2>1 DEF Handles
  <2>4. QED
    BY <1>18, <2>1, <2>2, <2>3 DEF Nobody, OwnerType, TypeOK
<1>19. ASSUME NEW task \in Tasks, EndsForNext(task) PROVE OwnerType'
  <2>1. Handles(task) /\ Event(task).turn = owner.turn
        /\ owner' = Nobody /\ finished' = finished \cup {owner.turn} /\ heard' = {} /\ queued' = 0
    BY <1>19 DEF EndsForNext, EndsTurn
  <2>2. Event(task) \in Events /\ Event(task).turn \in Turns
    BY <2>1, EventHandled, EventFields
  <2>3. starting' = starting
    BY <2>1 DEF Handles
  <2>4. QED
    BY <1>19, <2>1, <2>2, <2>3 DEF Nobody, OwnerType, TypeOK
<1>20. ASSUME NEW task \in Tasks, EndsSession(task) PROVE OwnerType'
  <2>1. Handles(task) /\ Event(task).turn = owner.turn
        /\ owner' = Nobody /\ finished' = finished \cup {owner.turn} /\ heard' = {} /\ queued' = 0
    BY <1>20 DEF EndsSession, EndsTurn
  <2>2. Event(task) \in Events /\ Event(task).turn \in Turns
    BY <2>1, EventHandled, EventFields
  <2>3. starting' = starting
    BY <2>1 DEF Handles
  <2>4. QED
    BY <1>20, <2>1, <2>2, <2>3 DEF Nobody, OwnerType, TypeOK
<1>21. ASSUME NEW task \in Tasks, EndsForSpeech(task) PROVE OwnerType'
  <2>1. Handles(task) /\ Event(task).turn = owner.turn
        /\ owner' = Nobody /\ finished' = finished \cup {owner.turn} /\ heard' = {} /\ queued' = 0
    BY <1>21 DEF EndsForSpeech, EndsTurn
  <2>2. Event(task) \in Events /\ Event(task).turn \in Turns
    BY <2>1, EventHandled, EventFields
  <2>3. starting' = starting
    BY <2>1 DEF Handles
  <2>4. QED
    BY <1>21, <2>1, <2>2, <2>3 DEF Nobody, OwnerType, TypeOK
<1>22. ASSUME NEW task \in Tasks, FailsStart(task) PROVE OwnerType'
  BY <1>22, Shapes DEF FailsStart, Rejecting, Over, Frees, QueueOK, OwnerType, TypeOK
<1>23. ASSUME WatchdogTombstones PROVE OwnerType'
  BY <1>23, Shapes DEF WatchdogTombstones, Interrupted, OwnerType, TypeOK
<1>24. ASSUME TearsDown PROVE OwnerType'
  BY <1>24, Shapes DEF TearsDown, OwnerType, TypeOK
<1>25. CASE UNCHANGED vars
  BY <1>25 DEF vars, OwnerType, TypeOK
<1> QED
  BY <1>1, <1>2, <1>3, <1>4, <1>5, <1>6, <1>7, <1>8, <1>9, <1>10, <1>11, <1>12, <1>13,
     <1>14, <1>15, <1>16, <1>17, <1>18, <1>19, <1>20, <1>21, <1>22, <1>23, <1>24, <1>25
     DEF Steps

(* The step keeps this part of the type.                                   *)
LEMMA TaskTypeStep ==
    TypeOK /\ PlaceInv /\ LockInv /\ [Steps]_vars => TaskType'
<1> SUFFICES ASSUME TypeOK, PlaceInv, LockInv, [Steps]_vars PROVE TaskType'
  OBVIOUS
<1> USE DEF userVars, turnVars, taskVars, toolVars, ownerVars, serverVars, speechVars,
            interruptVars
<1>1. ASSUME NotesTurn \/ Buffers \/ RendersOn \/ MayFail \/ TearsDownAnswers
      PROVE  TaskType'
  <2>1. UNCHANGED <<pc, job>>
    BY <1>1 DEF NotesTurn, Buffers, RendersOn, MayFail, TearsDownAnswers
  <2>2. QED
    BY <2>1 DEF TaskType, TypeOK
<1>2. ASSUME NEW r \in Reqs, CallsTool(r) \/ SettlesTool(r)
      PROVE  TaskType'
  <2>1. UNCHANGED <<pc, job>>
    BY <1>2 DEF CallsTool, SettlesTool
  <2>2. QED
    BY <2>1 DEF TaskType, TypeOK
<1>3. ASSUME NEW t \in Turns, Takes(t)
      PROVE  TaskType'
  <2>1. UNCHANGED <<pc, job>>
    BY <1>3 DEF Takes
  <2>2. QED
    BY <2>1 DEF TaskType, TypeOK
<1>4. ASSUME NEW t \in Turns, NEW r \in Reqs, AsksTool(t, r)
      PROVE  TaskType'
  <2>1. UNCHANGED <<pc, job>>
    BY <1>4 DEF AsksTool
  <2>2. QED
    BY <2>1 DEF TaskType, TypeOK
<1>5. ASSUME NEW t \in Turns, NEW ev \in Events, Says(t, ev)
      PROVE  TaskType'
  <2>1. UNCHANGED <<pc, job>>
    BY <1>5 DEF Says
  <2>2. QED
    BY <2>1 DEF TaskType, TypeOK
<1>6. ASSUME NEW task \in Tasks, AsksTurn(task) PROVE TaskType'
  <2>1. Moves(task, "enter") /\ "enter" \in Waits
    BY <1>6 DEF AsksTurn, Waits
  <2>2. QED
    BY <2>1, MoveType
<1>7. ASSUME NEW task \in Tasks, AsksEnd(task) PROVE TaskType'
  <2>1. \E there \in Waits \cup {"idle", "replaying", "over"} : Moves(task, there)
    BY <1>7 DEF AsksEnd, Waits
  <2>2. QED
    BY <2>1, MoveType
<1>8. ASSUME NEW task \in Tasks, Asks(task) PROVE TaskType'
  <2>1. \E there \in Waits \cup {"idle", "replaying", "over"} : Moves(task, there)
    BY <1>8 DEF Asks, Waits
  <2>2. QED
    BY <2>1, MoveType
<1>9. ASSUME NEW task \in Tasks, GivesBack(task) PROVE TaskType'
  <2>1. \E there \in Waits \cup {"idle", "replaying", "over"} : Moves(task, there)
    BY <1>9 DEF GivesBack, GiveUp, Waits
  <2>2. QED
    BY <2>1, MoveType
<1>10. ASSUME NEW task \in Tasks, OrdersTurn(task) PROVE TaskType'
  <2>1. \E there \in Waits \cup {"idle", "replaying", "over"} : Moves(task, there)
    BY <1>10 DEF OrdersTurn, Waits
  <2>2. QED
    BY <2>1, MoveType
<1>11. ASSUME NEW task \in Tasks, TombstonesTurn(task) PROVE TaskType'
  <2>1. \E there \in Waits \cup {"idle", "replaying", "over"} : Moves(task, there)
    BY <1>11 DEF TombstonesTurn, Waits
  <2>2. QED
    BY <2>1, MoveType
<1>12. ASSUME NEW task \in Tasks, Accepted(task) PROVE TaskType'
  <2>1. \E there \in Waits \cup {"idle", "replaying", "over"} : Moves(task, there)
    BY <1>12 DEF Accepted, Waits
  <2>2. QED
    BY <2>1, MoveType
<1>13. ASSUME NEW task \in Tasks, LateRejects(task) PROVE TaskType'
  <2>1. \E there \in Waits \cup {"idle", "replaying", "over"} : Moves(task, there)
    BY <1>13 DEF LateRejects, Starts, Rejecting, Waits
  <2>2. QED
    BY <2>1, MoveType
<1>14. ASSUME NEW task \in Tasks, LateInterrupts(task) PROVE TaskType'
  <2>1. \E there \in Waits \cup {"idle", "replaying", "over"} : Moves(task, there)
    BY <1>14 DEF LateInterrupts, Starts, Waits
  <2>2. QED
    BY <2>1, MoveType
<1>15. ASSUME NEW task \in Tasks, OwnsRejects(task) PROVE TaskType'
  <2>1. \E there \in Waits \cup {"idle", "replaying", "over"} : Moves(task, there)
    BY <1>15 DEF OwnsRejects, Starts, Rejecting, Owns, Waits
  <2>2. QED
    BY <2>1, MoveType
<1>16. ASSUME NEW task \in Tasks, OwnsReplays(task) PROVE TaskType'
  <2>1. \E there \in Waits \cup {"idle", "replaying", "over"} : Moves(task, there)
    BY <1>16 DEF OwnsReplays, Starts, Owns, Waits
  <2>2. QED
    BY <2>1, MoveType
<1>17. ASSUME NEW task \in Tasks, WritesNext(task) PROVE TaskType'
  <2>1. \E there \in Waits \cup {"idle", "replaying", "over"} : Moves(task, there)
    BY <1>17 DEF WritesNext, Writes, Waits
  <2>2. QED
    BY <2>1, MoveType
<1>18. ASSUME NEW task \in Tasks, WritesOut(task) PROVE TaskType'
  <2>1. \E there \in Waits \cup {"idle", "replaying", "over"} : Moves(task, there)
    BY <1>18 DEF WritesOut, Writes, WritesLast, Over, Waits
  <2>2. QED
    BY <2>1, MoveType
<1>19. ASSUME NEW task \in Tasks, WritesOn(task) PROVE TaskType'
  <2>1. \E there \in Waits \cup {"idle", "replaying", "over"} : Moves(task, there)
    BY <1>19 DEF WritesOn, Writes, WritesLast, Waits
  <2>2. QED
    BY <2>1, MoveType
<1>20. ASSUME NEW task \in Tasks, RefusesTool(task) PROVE TaskType'
  <2>1. \E there \in Waits \cup {"idle", "replaying", "over"} : Moves(task, there)
    BY <1>20 DEF RefusesTool, Waits
  <2>2. QED
    BY <2>1, MoveType
<1>21. ASSUME NEW task \in Tasks, AdmitsTool(task) PROVE TaskType'
  <2>1. Moves(task, job[task].after) /\ job[task].after \in {"idle", "replaying"}
    BY <1>21, PlaceFacts DEF AdmitsTool, Back
  <2>2. QED
    BY <2>1, MoveType
<1>22. ASSUME NEW task \in Tasks, HearsPart(task) PROVE TaskType'
  <2>1. Moves(task, job[task].after) /\ job[task].after \in {"idle", "replaying"}
    BY <1>22, PlaceFacts DEF HearsPart, Back
  <2>2. QED
    BY <2>1, MoveType
<1>23. ASSUME NEW task \in Tasks, PassesEnd(task) PROVE TaskType'
  <2>1. Moves(task, job[task].after) /\ job[task].after \in {"idle", "replaying"}
    BY <1>23, PlaceFacts DEF PassesEnd, Back
  <2>2. QED
    BY <2>1, MoveType
<1>24. ASSUME NEW task \in Tasks, EndsUnspoken(task) PROVE TaskType'
  <2>1. Moves(task, job[task].after) /\ job[task].after \in {"idle", "replaying"}
    BY <1>24 DEF EndsUnspoken, EndsTurn, Back
  <2>2. QED
    BY <2>1, MoveType
<1>25. ASSUME NEW task \in Tasks, EndsForNext(task) PROVE TaskType'
  <2>1. \E there \in Waits \cup {"idle", "replaying", "over"} : Moves(task, there)
    BY <1>25 DEF EndsForNext, EndsTurn, Renews, Waits
  <2>2. QED
    BY <2>1, MoveType
<1>26. ASSUME NEW task \in Tasks, EndsSession(task) PROVE TaskType'
  <2>1. \E there \in Waits \cup {"idle", "replaying", "over"} : Moves(task, there)
    BY <1>26 DEF EndsSession, Over, EndsTurn, Waits
  <2>2. QED
    BY <2>1, MoveType
<1>27. ASSUME NEW task \in Tasks, EndsForSpeech(task) PROVE TaskType'
  <2>1. \E there \in Waits \cup {"idle", "replaying", "over"} : Moves(task, there)
    BY <1>27 DEF EndsForSpeech, EndsTurn, Waits
  <2>2. QED
    BY <2>1, MoveType
<1>28. ASSUME NEW task \in Tasks, Retired(task) PROVE TaskType'
  <2>1. \E there \in Waits \cup {"idle", "replaying", "over"} : Moves(task, there)
    BY <1>28 DEF Retired, Waits
  <2>2. QED
    BY <2>1, MoveType
<1>29. ASSUME NEW task \in Tasks, Submits(task) PROVE TaskType'
  <2>1. \E there \in Waits \cup {"idle", "replaying", "over"} : Moves(task, there)
    BY <1>29 DEF Submits, Waits
  <2>2. QED
    BY <2>1, MoveType
<1>30. ASSUME NEW task \in Tasks, AnswerOver(task) PROVE TaskType'
  <2>1. Moves(task, job[task].after) /\ job[task].after \in {"idle", "replaying"}
    BY <1>30 DEF AnswerOver, EndsAnswer, Back
  <2>2. QED
    BY <2>1, MoveType
<1>31. ASSUME NEW task \in Tasks, AnswerForNext(task) PROVE TaskType'
  <2>1. \E there \in Waits \cup {"idle", "replaying", "over"} : Moves(task, there)
    BY <1>31 DEF AnswerForNext, Renews, EndsAnswer, Waits
  <2>2. QED
    BY <2>1, MoveType
<1>32. ASSUME NEW task \in Tasks, FailsStart(task) PROVE TaskType'
  <2>1. \E there \in Waits \cup {"idle", "replaying", "over"} : Moves(task, there)
    BY <1>32 DEF FailsStart, Rejecting, Over, Waits
  <2>2. QED
    BY <2>1, MoveType
<1>33. ASSUME NEW task \in Tasks, Fails(task) PROVE TaskType'
  <2>1. \E there \in Waits \cup {"idle", "replaying", "over"} : Moves(task, there)
    BY <1>33 DEF Fails, Over, Waits
  <2>2. QED
    BY <2>1, MoveType
<1>34. ASSUME Overflows PROVE TaskType'
  <2>1. \E there \in Waits \cup {"idle", "replaying", "over"} : Moves("exec", there)
    BY <1>34 DEF Overflows, Rejecting, Waits
  <2>2. QED
    BY <2>1, MoveType, Names
<1>35. ASSUME Expires PROVE TaskType'
  <2>1. \E there \in Waits \cup {"idle", "replaying", "over"} : Moves("watchdog", there)
    BY <1>35 DEF Expires, Waits
  <2>2. QED
    BY <2>1, MoveType, Names
<1>36. ASSUME WatchdogTombstones PROVE TaskType'
  <2>1. \E there \in Waits \cup {"idle", "replaying", "over"} : Moves("watchdog", there)
    BY <1>36 DEF WatchdogTombstones, Waits
  <2>2. QED
    BY <2>1, MoveType, Names
<1>37. ASSUME WatchdogLeaves PROVE TaskType'
  <2>1. \E there \in Waits \cup {"idle", "replaying", "over"} : Moves("watchdog", there)
    BY <1>37 DEF WatchdogLeaves, GiveUp, Waits
  <2>2. QED
    BY <2>1, MoveType, Names
<1>38. ASSUME TearsDown PROVE TaskType'
  <2>1. DEFINE j == [NoJob EXCEPT !.turn = owner.turn, !.gen = owner.gen]
  <2>2. j \in Jobs
    BY Shapes, JobOf
  <2>3. pc' = pc /\ job' = [job EXCEPT !["shutdown"] = j]
    BY <1>38 DEF TearsDown
  <2>4. QED
    BY <2>2, <2>3 DEF TaskType, TypeOK
<1>39. ASSUME TearsDownLocks PROVE TaskType'
  <2>1. \E there \in Waits \cup {"idle", "replaying", "over"} : Moves("shutdown", there)
    BY <1>39 DEF TearsDownLocks, Waits
  <2>2. QED
    BY <2>1, MoveType, Names
<1>40. ASSUME ShutdownTombstones PROVE TaskType'
  <2>1. \E there \in Waits \cup {"idle", "replaying", "over"} : Moves("shutdown", there)
    BY <1>40 DEF ShutdownTombstones, Waits
  <2>2. QED
    BY <2>1, MoveType, Names
<1>41. ASSUME Ends PROVE TaskType'
  BY <1>41, JobShape, NoJobFields DEF Ends, TaskType
<1>42. CASE UNCHANGED vars
  BY <1>42 DEF vars, TaskType, TypeOK
<1> QED
  BY <1>1, <1>2, <1>3, <1>4, <1>5, <1>6, <1>7, <1>8, <1>9, <1>10, <1>11, <1>12, <1>13,
     <1>14, <1>15, <1>16, <1>17, <1>18, <1>19, <1>20, <1>21, <1>22, <1>23, <1>24, <1>25,
     <1>26, <1>27, <1>28, <1>29, <1>30, <1>31, <1>32, <1>33, <1>34, <1>35, <1>36, <1>37,
     <1>38, <1>39, <1>40, <1>41, <1>42
     DEF Steps

(* The step keeps this part of the type.                                   *)
LEMMA LockTypeStep ==
    TypeOK /\ [Steps]_vars => LockType'
<1> SUFFICES ASSUME TypeOK, [Steps]_vars PROVE LockType'
  OBVIOUS
<1> USE DEF userVars, turnVars, taskVars, toolVars, ownerVars, serverVars, speechVars,
            interruptVars
<1>1. ASSUME NEW task \in Tasks, AsksTurn(task) \/ AsksEnd(task) \/ OrdersTurn(task) \/
                TombstonesTurn(task) \/ Accepted(task) \/ LateRejects(task) \/
                LateInterrupts(task)
      PROVE  LockType'
  <2>1. UNCHANGED lockQueue
    BY <1>1
       DEF AsksTurn, AsksEnd, OrdersTurn, TombstonesTurn, Accepted, LateRejects,
           LateInterrupts, Starts
  <2>2. QED
    BY <2>1 DEF LockType, TypeOK
<1>2. ASSUME NEW task \in Tasks, OwnsRejects(task) \/ OwnsReplays(task) \/ WritesNext(task) \/
                WritesOn(task) \/ RefusesTool(task) \/ EndsForSpeech(task) \/ Retired(task)
      PROVE  LockType'
  <2>1. UNCHANGED lockQueue
    BY <1>2
       DEF OwnsRejects, OwnsReplays, WritesNext, WritesOn, RefusesTool, EndsForSpeech,
           Retired, Starts, Owns, Writes, WritesLast, Handles, EndsTurn
  <2>2. QED
    BY <2>1 DEF LockType, TypeOK
<1>3. ASSUME NEW task \in Tasks, Submits(task)
      PROVE  LockType'
  <2>1. UNCHANGED lockQueue
    BY <1>3 DEF Submits
  <2>2. QED
    BY <2>1 DEF LockType, TypeOK
<1>4. ASSUME NotesTurn \/ Buffers \/ Overflows \/ RendersOn \/ WatchdogTombstones \/ MayFail
                \/ TearsDown
      PROVE  LockType'
  <2>1. UNCHANGED lockQueue
    BY <1>4
       DEF NotesTurn, Buffers, Overflows, RendersOn, WatchdogTombstones, MayFail, TearsDown
  <2>2. QED
    BY <2>1 DEF LockType, TypeOK
<1>5. ASSUME TearsDownAnswers \/ ShutdownTombstones
      PROVE  LockType'
  <2>1. UNCHANGED lockQueue
    BY <1>5 DEF TearsDownAnswers, ShutdownTombstones
  <2>2. QED
    BY <2>1 DEF LockType, TypeOK
<1>6. ASSUME NEW r \in Reqs, CallsTool(r) \/ SettlesTool(r)
      PROVE  LockType'
  <2>1. UNCHANGED lockQueue
    BY <1>6 DEF CallsTool, SettlesTool
  <2>2. QED
    BY <2>1 DEF LockType, TypeOK
<1>7. ASSUME NEW t \in Turns, Takes(t)
      PROVE  LockType'
  <2>1. UNCHANGED lockQueue
    BY <1>7 DEF Takes
  <2>2. QED
    BY <2>1 DEF LockType, TypeOK
<1>8. ASSUME NEW t \in Turns, NEW r \in Reqs, AsksTool(t, r)
      PROVE  LockType'
  <2>1. UNCHANGED lockQueue
    BY <1>8 DEF AsksTool
  <2>2. QED
    BY <2>1 DEF LockType, TypeOK
<1>9. ASSUME NEW t \in Turns, NEW ev \in Events, Says(t, ev)
      PROVE  LockType'
  <2>1. UNCHANGED lockQueue
    BY <1>9 DEF Says
  <2>2. QED
    BY <2>1 DEF LockType, TypeOK
<1>10. ASSUME NEW task \in Tasks, Asks(task) PROVE LockType'
  BY <1>10 DEF Asks, Alike, Joins, QueueOK, LockType
<1>11. ASSUME NEW task \in Tasks, GivesBack(task) PROVE LockType'
  BY <1>11 DEF GivesBack, GiveUp, Frees, QueueOK, LockType
<1>12. ASSUME NEW task \in Tasks, WritesOut(task) PROVE LockType'
  BY <1>12 DEF WritesOut, Writes, WritesLast, Wrote, Over, Frees, QueueOK, LockType, TypeOK
<1>13. ASSUME NEW task \in Tasks, AdmitsTool(task) PROVE LockType'
  BY <1>13 DEF AdmitsTool, Handles, Event, Back, LockType, TypeOK
<1>14. ASSUME NEW task \in Tasks, HearsPart(task) PROVE LockType'
  BY <1>14 DEF HearsPart, Handles, Event, Back, LockType, TypeOK
<1>15. ASSUME NEW task \in Tasks, PassesEnd(task) PROVE LockType'
  BY <1>15 DEF PassesEnd, Handles, Event, Back, LockType, TypeOK
<1>16. ASSUME NEW task \in Tasks, EndsUnspoken(task) PROVE LockType'
  BY <1>16 DEF EndsUnspoken, Handles, Event, Back, EndsTurn, LockType, TypeOK
<1>17. ASSUME NEW task \in Tasks, EndsForNext(task) PROVE LockType'
  BY <1>17 DEF EndsForNext, Handles, Event, EndsTurn, Renews, LockType, TypeOK
<1>18. ASSUME NEW task \in Tasks, EndsSession(task) PROVE LockType'
  BY <1>18 DEF EndsSession, Over, Frees, QueueOK, Handles, Event, EndsTurn, LockType
<1>19. ASSUME NEW task \in Tasks, AnswerOver(task) PROVE LockType'
  BY <1>19 DEF AnswerOver, Back, EndsAnswer, LockType, TypeOK
<1>20. ASSUME NEW task \in Tasks, AnswerForNext(task) PROVE LockType'
  BY <1>20 DEF AnswerForNext, Renews, EndsAnswer, LockType, TypeOK
<1>21. ASSUME NEW task \in Tasks, FailsStart(task) PROVE LockType'
  BY <1>21 DEF FailsStart, Rejecting, Over, Frees, QueueOK, LockType, TypeOK
<1>22. ASSUME NEW task \in Tasks, Fails(task) PROVE LockType'
  BY <1>22 DEF Fails, Over, Frees, QueueOK, Waits, LockType
<1>23. ASSUME Expires PROVE LockType'
  BY <1>23 DEF Expires, Joins, QueueOK, LockType
<1>24. ASSUME WatchdogLeaves PROVE LockType'
  BY <1>24 DEF WatchdogLeaves, GiveUp, Frees, QueueOK, LockType
<1>25. ASSUME TearsDownLocks PROVE LockType'
  BY <1>25 DEF TearsDownLocks, Joins, QueueOK, LockType
<1>26. ASSUME Ends PROVE LockType'
  <2>1. lockQueue' = <<>>
    BY <1>26 DEF Ends
  <2>2. QED
    BY <2>1 DEF LockType, IsInjective
<1>27. CASE UNCHANGED vars
  BY <1>27 DEF vars, LockType, TypeOK
<1> QED
  BY <1>1, <1>2, <1>3, <1>4, <1>5, <1>6, <1>7, <1>8, <1>9, <1>10, <1>11, <1>12, <1>13,
     <1>14, <1>15, <1>16, <1>17, <1>18, <1>19, <1>20, <1>21, <1>22, <1>23, <1>24, <1>25,
     <1>26, <1>27
     DEF Steps

(* The step keeps this part of the type.                                   *)
LEMMA RunTypeStep ==
    TypeOK /\ [Steps]_vars => RunType'
<1> SUFFICES ASSUME TypeOK, [Steps]_vars PROVE RunType'
  OBVIOUS
<1> USE DEF userVars, turnVars, taskVars, toolVars, ownerVars, serverVars, speechVars,
            interruptVars
<1>1. ASSUME NEW task \in Tasks, AsksTurn(task) \/ AsksEnd(task) \/ Asks(task) \/
                OrdersTurn(task) \/ TombstonesTurn(task) \/ Accepted(task) \/ Retired(task)
      PROVE  RunType'
  <2>1. UNCHANGED <<running, reply>>
    BY <1>1 DEF AsksTurn, AsksEnd, Asks, OrdersTurn, TombstonesTurn, Accepted, Retired
  <2>2. QED
    BY <2>1 DEF RunType, TypeOK
<1>2. ASSUME NEW task \in Tasks, Submits(task) \/ Fails(task)
      PROVE  RunType'
  <2>1. UNCHANGED <<running, reply>>
    BY <1>2 DEF Submits, Fails
  <2>2. QED
    BY <2>1 DEF RunType, TypeOK
<1>3. ASSUME NotesTurn \/ Buffers \/ RendersOn \/ Expires \/ WatchdogTombstones \/
                WatchdogLeaves \/ MayFail
      PROVE  RunType'
  <2>1. UNCHANGED <<running, reply>>
    BY <1>3
       DEF NotesTurn, Buffers, RendersOn, Expires, WatchdogTombstones, WatchdogLeaves,
           MayFail
  <2>2. QED
    BY <2>1 DEF RunType, TypeOK
<1>4. ASSUME TearsDown \/ TearsDownAnswers \/ TearsDownLocks \/ ShutdownTombstones \/ Ends
      PROVE  RunType'
  <2>1. UNCHANGED <<running, reply>>
    BY <1>4 DEF TearsDown, TearsDownAnswers, TearsDownLocks, ShutdownTombstones, Ends
  <2>2. QED
    BY <2>1 DEF RunType, TypeOK
<1>5. ASSUME NEW r \in Reqs, CallsTool(r) \/ SettlesTool(r)
      PROVE  RunType'
  <2>1. UNCHANGED <<running, reply>>
    BY <1>5 DEF CallsTool, SettlesTool
  <2>2. QED
    BY <2>1 DEF RunType, TypeOK
<1>6. ASSUME NEW t \in Turns, NEW r \in Reqs, AsksTool(t, r)
      PROVE  RunType'
  <2>1. UNCHANGED <<running, reply>>
    BY <1>6 DEF AsksTool
  <2>2. QED
    BY <2>1 DEF RunType, TypeOK
<1>7. ASSUME NEW t \in Turns, NEW ev \in Events, Says(t, ev)
      PROVE  RunType'
  <2>1. UNCHANGED <<running, reply>>
    BY <1>7 DEF Says
  <2>2. QED
    BY <2>1 DEF RunType, TypeOK
<1>8. ASSUME NEW task \in Tasks, GivesBack(task) PROVE RunType'
  BY <1>8, Shapes DEF GivesBack, GiveUp, Frees, QueueOK, RunType
<1>9. ASSUME NEW task \in Tasks, LateRejects(task) PROVE RunType'
  BY <1>9 DEF LateRejects, Starts, Rejecting, RunType
<1>10. ASSUME NEW task \in Tasks, LateInterrupts(task) PROVE RunType'
  BY <1>10 DEF LateInterrupts, Interrupted, Starts, RunType
<1>11. ASSUME NEW task \in Tasks, OwnsRejects(task) PROVE RunType'
  BY <1>11 DEF OwnsRejects, Starts, Rejecting, Owns, RunType
<1>12. ASSUME NEW task \in Tasks, OwnsReplays(task) PROVE RunType'
  BY <1>12 DEF OwnsReplays, Starts, Owns, RunType
<1>13. ASSUME NEW task \in Tasks, WritesNext(task) PROVE RunType'
  BY <1>13, Shapes DEF WritesNext, Writes, RunType
<1>14. ASSUME NEW task \in Tasks, WritesOut(task) PROVE RunType'
  BY <1>14, Shapes DEF WritesOut, Writes, WritesLast, Wrote, Over, Frees, QueueOK, RunType
<1>15. ASSUME NEW task \in Tasks, WritesOn(task) PROVE RunType'
  BY <1>15, Shapes DEF WritesOn, Interrupted, Writes, WritesLast, Wrote, RunType
<1>16. ASSUME NEW task \in Tasks, RefusesTool(task) PROVE RunType'
  BY <1>16, Shapes DEF RefusesTool, Handles, Event, Left, RunType
<1>17. ASSUME NEW task \in Tasks, AdmitsTool(task) PROVE RunType'
  BY <1>17, Shapes DEF AdmitsTool, Handles, Event, Back, RunType
<1>18. ASSUME NEW task \in Tasks, HearsPart(task) PROVE RunType'
  BY <1>18, Shapes DEF HearsPart, Handles, Event, Back, RunType
<1>19. ASSUME NEW task \in Tasks, PassesEnd(task) PROVE RunType'
  BY <1>19, Shapes DEF PassesEnd, Handles, Event, Back, RunType
<1>20. ASSUME NEW task \in Tasks, EndsUnspoken(task) PROVE RunType'
  BY <1>20, Shapes DEF EndsUnspoken, Handles, Event, Back, EndsTurn, RunType
<1>21. ASSUME NEW task \in Tasks, EndsForNext(task) PROVE RunType'
  BY <1>21, Shapes DEF EndsForNext, Handles, Event, EndsTurn, Renews, RunType
<1>22. ASSUME NEW task \in Tasks, EndsSession(task) PROVE RunType'
  BY <1>22, Shapes DEF EndsSession, Over, Frees, QueueOK, Handles, Event, EndsTurn, RunType
<1>23. ASSUME NEW task \in Tasks, EndsForSpeech(task) PROVE RunType'
  BY <1>23, Shapes DEF EndsForSpeech, Handles, Event, Left, EndsTurn, RunType
<1>24. ASSUME NEW task \in Tasks, AnswerOver(task) PROVE RunType'
  BY <1>24, Shapes DEF AnswerOver, Back, EndsAnswer, RunType
<1>25. ASSUME NEW task \in Tasks, AnswerForNext(task) PROVE RunType'
  BY <1>25, Shapes DEF AnswerForNext, Renews, EndsAnswer, RunType
<1>26. ASSUME NEW task \in Tasks, FailsStart(task) PROVE RunType'
  BY <1>26 DEF FailsStart, Rejecting, Over, Frees, QueueOK, RunType
<1>27. ASSUME Overflows PROVE RunType'
  BY <1>27, Shapes DEF Overflows, Rejecting, RunType
<1>28. ASSUME NEW t \in Turns, Takes(t) PROVE RunType'
  BY <1>28 DEF Takes, RunType, TypeOK
<1>29. CASE UNCHANGED vars
  BY <1>29 DEF vars, RunType, TypeOK
<1> QED
  BY <1>1, <1>2, <1>3, <1>4, <1>5, <1>6, <1>7, <1>8, <1>9, <1>10, <1>11, <1>12, <1>13,
     <1>14, <1>15, <1>16, <1>17, <1>18, <1>19, <1>20, <1>21, <1>22, <1>23, <1>24, <1>25,
     <1>26, <1>27, <1>28, <1>29
     DEF Steps

(* The step keeps this part of the type.                                   *)
LEMMA EventsTypeStep ==
    TypeOK /\ PlaceInv /\ [Steps]_vars => EventsType'
<1> SUFFICES ASSUME TypeOK, PlaceInv, [Steps]_vars PROVE EventsType'
  OBVIOUS
<1> USE DEF userVars, turnVars, taskVars, toolVars, ownerVars, serverVars, speechVars,
            interruptVars
<1>1. ASSUME NEW task \in Tasks, AsksTurn(task) \/ AsksEnd(task) \/ Asks(task) \/
                GivesBack(task) \/ TombstonesTurn(task) \/ Accepted(task) \/ WritesNext(task)
      PROVE  EventsType'
  <2>1. UNCHANGED <<early, inbox>>
    BY <1>1
       DEF AsksTurn, AsksEnd, Asks, GivesBack, TombstonesTurn, Accepted, WritesNext, Writes
  <2>2. QED
    BY <2>1 DEF EventsType, TypeOK
<1>2. ASSUME NEW task \in Tasks, WritesOut(task) \/ WritesOn(task) \/ Retired(task) \/
                Submits(task) \/ AnswerOver(task) \/ AnswerForNext(task) \/ Fails(task)
      PROVE  EventsType'
  <2>1. UNCHANGED <<early, inbox>>
    BY <1>2
       DEF WritesOut, WritesOn, Retired, Submits, AnswerOver, AnswerForNext, Fails, Writes,
           WritesLast, EndsAnswer
  <2>2. QED
    BY <2>1 DEF EventsType, TypeOK
<1>3. ASSUME NotesTurn \/ RendersOn \/ Expires \/ WatchdogTombstones \/ WatchdogLeaves \/
                MayFail \/ TearsDown
      PROVE  EventsType'
  <2>1. UNCHANGED <<early, inbox>>
    BY <1>3
       DEF NotesTurn, RendersOn, Expires, WatchdogTombstones, WatchdogLeaves, MayFail,
           TearsDown
  <2>2. QED
    BY <2>1 DEF EventsType, TypeOK
<1>4. ASSUME TearsDownAnswers \/ TearsDownLocks \/ ShutdownTombstones \/ Ends
      PROVE  EventsType'
  <2>1. UNCHANGED <<early, inbox>>
    BY <1>4 DEF TearsDownAnswers, TearsDownLocks, ShutdownTombstones, Ends
  <2>2. QED
    BY <2>1 DEF EventsType, TypeOK
<1>5. ASSUME NEW r \in Reqs, CallsTool(r) \/ SettlesTool(r)
      PROVE  EventsType'
  <2>1. UNCHANGED <<early, inbox>>
    BY <1>5 DEF CallsTool, SettlesTool
  <2>2. QED
    BY <2>1 DEF EventsType, TypeOK
<1>6. ASSUME NEW t \in Turns, Takes(t)
      PROVE  EventsType'
  <2>1. UNCHANGED <<early, inbox>>
    BY <1>6 DEF Takes
  <2>2. QED
    BY <2>1 DEF EventsType, TypeOK
<1>7. ASSUME NEW task \in Tasks, OrdersTurn(task) PROVE EventsType'
  <2>1. early' = <<>> /\ inbox' = inbox
    BY <1>7 DEF OrdersTurn
  <2>2. QED
    BY <2>1, NoEvents DEF EventsType, TypeOK
<1>8. ASSUME NEW task \in Tasks, LateRejects(task) PROVE EventsType'
  BY <1>8, EventQueues, NoEvents
     DEF LateRejects, Starts, Rejecting, EventsType, TypeOK, PlaceInv
<1>9. ASSUME NEW task \in Tasks, LateInterrupts(task) PROVE EventsType'
  BY <1>9, EventQueues, NoEvents
     DEF LateInterrupts, Interrupted, Starts, EventsType, TypeOK, PlaceInv
<1>10. ASSUME NEW task \in Tasks, OwnsRejects(task) PROVE EventsType'
  BY <1>10, EventQueues, NoEvents
     DEF OwnsRejects, Starts, Rejecting, Owns, EventsType, TypeOK, PlaceInv
<1>11. ASSUME NEW task \in Tasks, OwnsReplays(task) PROVE EventsType'
  BY <1>11, EventQueues, NoEvents
     DEF OwnsReplays, Starts, Owns, EventsType, TypeOK, PlaceInv
<1>12. ASSUME NEW task \in Tasks, RefusesTool(task) PROVE EventsType'
  BY <1>12, EventQueues, NoEvents DEF RefusesTool, Handles, Event, Left, EventsType, TypeOK
<1>13. ASSUME NEW task \in Tasks, AdmitsTool(task) PROVE EventsType'
  BY <1>13, EventQueues, NoEvents
     DEF AdmitsTool, Handles, Event, Back, Is, EventsType, TypeOK
<1>14. ASSUME NEW task \in Tasks, HearsPart(task) PROVE EventsType'
  BY <1>14, EventQueues, NoEvents DEF HearsPart, Handles, Event, Back, EventsType, TypeOK
<1>15. ASSUME NEW task \in Tasks, PassesEnd(task) PROVE EventsType'
  BY <1>15, EventQueues, NoEvents DEF PassesEnd, Handles, Event, Back, EventsType, TypeOK
<1>16. ASSUME NEW task \in Tasks, EndsUnspoken(task) PROVE EventsType'
  BY <1>16, EventQueues, NoEvents
     DEF EndsUnspoken, Handles, Event, Back, Is, EndsTurn, EventsType, TypeOK
<1>17. ASSUME NEW task \in Tasks, EndsForNext(task) PROVE EventsType'
  BY <1>17, EventQueues, NoEvents
     DEF EndsForNext, Handles, Event, EndsTurn, Renews, EventsType, TypeOK
<1>18. ASSUME NEW task \in Tasks, EndsSession(task) PROVE EventsType'
  BY <1>18, EventQueues, NoEvents
     DEF EndsSession, Over, Frees, QueueOK, Handles, Event, EndsTurn, EventsType, TypeOK
<1>19. ASSUME NEW task \in Tasks, EndsForSpeech(task) PROVE EventsType'
  BY <1>19, EventQueues, NoEvents
     DEF EndsForSpeech, Handles, Event, Left, EndsTurn, EventsType, TypeOK
<1>20. ASSUME NEW task \in Tasks, FailsStart(task) PROVE EventsType'
  BY <1>20, EventQueues, NoEvents
     DEF FailsStart, Rejecting, Over, Frees, QueueOK, EventsType, TypeOK, PlaceInv
<1>21. ASSUME Buffers PROVE EventsType'
  <2>1. /\ inbox # <<>> /\ inbox' = Tail(inbox)
        /\ early' = Append(early, Head(inbox)) /\ Len(early) < MaxEarly
    BY <1>21 DEF Buffers
  <2>2. Head(inbox) \in Events /\ inbox' \in Seq(Events) /\ early' \in Seq(Events)
    BY <2>1, EventQueues
  <2>3. Len(early') = Len(early) + 1 /\ Len(early) \in Nat
    BY <2>1, <2>2 DEF TypeOK
  <2>4. QED
    BY <2>1, <2>2, <2>3, BoundsAssumption DEF EventsType
<1>22. ASSUME Overflows PROVE EventsType'
  BY <1>22, EventQueues, NoEvents DEF Overflows, Rejecting, EventsType, TypeOK
<1>23. ASSUME NEW t \in Turns, NEW r \in Reqs, AsksTool(t, r) PROVE EventsType'
  <2>1. inbox' = Append(inbox, [turn |-> t, kind |-> "tool", what |-> r]) /\ early' = early
    BY <1>23 DEF AsksTool
  <2>2. [turn |-> t, kind |-> "tool", what |-> r] \in Events
    BY DEF Events
  <2>3. inbox' \in Seq(Events)
    BY <2>1, <2>2, EventQueues
  <2>4. QED
    BY <2>1, <2>3 DEF EventsType, TypeOK
<1>24. ASSUME NEW t \in Turns, NEW ev \in Events, Says(t, ev) PROVE EventsType'
  BY <1>24, EventQueues, NoEvents DEF Says, EventsType, TypeOK
<1>25. CASE UNCHANGED vars
  BY <1>25 DEF vars, EventsType, TypeOK
<1> QED
  BY <1>1, <1>2, <1>3, <1>4, <1>5, <1>6, <1>7, <1>8, <1>9, <1>10, <1>11, <1>12, <1>13,
     <1>14, <1>15, <1>16, <1>17, <1>18, <1>19, <1>20, <1>21, <1>22, <1>23, <1>24, <1>25
     DEF Steps

(* The step keeps this part of the type.                                   *)
LEMMA RequestTypeStep ==
    TypeOK /\ PlaceInv /\ [Steps]_vars => RequestType'
<1> SUFFICES ASSUME TypeOK, PlaceInv, [Steps]_vars PROVE RequestType'
  OBVIOUS
<1> USE DEF userVars, turnVars, taskVars, toolVars, ownerVars, serverVars, speechVars,
            interruptVars
<1>1. ASSUME NEW task \in Tasks, AsksTurn(task) \/ AsksEnd(task) \/ Asks(task) \/
                GivesBack(task) \/ OrdersTurn(task) \/ TombstonesTurn(task) \/ Accepted(task)
      PROVE  RequestType'
  <2>1. UNCHANGED <<tool, asked, crossed, failedClosed>>
    BY <1>1 DEF AsksTurn, AsksEnd, Asks, GivesBack, OrdersTurn, TombstonesTurn, Accepted
  <2>2. QED
    BY <2>1 DEF RequestType, TypeOK
<1>2. ASSUME NEW task \in Tasks, LateInterrupts(task) \/ OwnsReplays(task) \/ HearsPart(task)
                \/ PassesEnd(task) \/ EndsUnspoken(task) \/ EndsForNext(task) \/
                EndsSession(task)
      PROVE  RequestType'
  <2>1. UNCHANGED <<tool, asked, crossed, failedClosed>>
    BY <1>2
       DEF LateInterrupts, OwnsReplays, HearsPart, PassesEnd, EndsUnspoken, EndsForNext,
           EndsSession, Starts, Owns, Handles, EndsTurn
  <2>2. QED
    BY <2>1 DEF RequestType, TypeOK
<1>3. ASSUME NEW task \in Tasks, EndsForSpeech(task) \/ Retired(task) \/ Submits(task) \/
                AnswerOver(task) \/ AnswerForNext(task)
      PROVE  RequestType'
  <2>1. UNCHANGED <<tool, asked, crossed, failedClosed>>
    BY <1>3
       DEF EndsForSpeech, Retired, Submits, AnswerOver, AnswerForNext, Handles, EndsTurn,
           EndsAnswer
  <2>2. QED
    BY <2>1 DEF RequestType, TypeOK
<1>4. ASSUME NotesTurn \/ Buffers \/ RendersOn \/ Expires \/ WatchdogTombstones \/
                WatchdogLeaves \/ MayFail
      PROVE  RequestType'
  <2>1. UNCHANGED <<tool, asked, crossed, failedClosed>>
    BY <1>4
       DEF NotesTurn, Buffers, RendersOn, Expires, WatchdogTombstones, WatchdogLeaves,
           MayFail
  <2>2. QED
    BY <2>1 DEF RequestType, TypeOK
<1>5. ASSUME TearsDownLocks \/ ShutdownTombstones \/ Ends
      PROVE  RequestType'
  <2>1. UNCHANGED <<tool, asked, crossed, failedClosed>>
    BY <1>5 DEF TearsDownLocks, ShutdownTombstones, Ends
  <2>2. QED
    BY <2>1 DEF RequestType, TypeOK
<1>6. ASSUME NEW t \in Turns, Takes(t)
      PROVE  RequestType'
  <2>1. UNCHANGED <<tool, asked, crossed, failedClosed>>
    BY <1>6 DEF Takes
  <2>2. QED
    BY <2>1 DEF RequestType, TypeOK
<1>7. ASSUME NEW t \in Turns, NEW ev \in Events, Says(t, ev)
      PROVE  RequestType'
  <2>1. UNCHANGED <<tool, asked, crossed, failedClosed>>
    BY <1>7 DEF Says
  <2>2. QED
    BY <2>1 DEF RequestType, TypeOK
<1>8. ASSUME NEW task \in Tasks, LateRejects(task) PROVE RequestType'
  BY <1>8 DEF LateRejects, Starts, Rejecting, RequestType, TypeOK
<1>9. ASSUME NEW task \in Tasks, OwnsRejects(task) PROVE RequestType'
  BY <1>9 DEF OwnsRejects, Starts, Rejecting, Owns, RequestType, TypeOK
<1>10. ASSUME NEW task \in Tasks, WritesNext(task) PROVE RequestType'
  BY <1>10 DEF WritesNext, Writes, RequestType, TypeOK
<1>11. ASSUME NEW task \in Tasks, WritesOut(task) PROVE RequestType'
  BY <1>11
     DEF WritesOut, Writes, WritesLast, Wrote, Over, Frees, QueueOK, RequestType, TypeOK
<1>12. ASSUME NEW task \in Tasks, WritesOn(task) PROVE RequestType'
  BY <1>12 DEF WritesOn, Interrupted, Writes, WritesLast, Wrote, RequestType, TypeOK
<1>13. ASSUME NEW task \in Tasks, RefusesTool(task) PROVE RequestType'
  BY <1>13 DEF RefusesTool, Handles, Event, Left, RequestType, TypeOK
<1>14. ASSUME NEW task \in Tasks, AdmitsTool(task) PROVE RequestType'
  <2>1. /\ Handles(task) /\ Event(task).kind = "tool"
        /\ \E said \in {"admitted", "refused"} : tool' = [tool EXCEPT ![Event(task).what] = said]
    BY <1>14 DEF AdmitsTool
  <2>2. asked' = asked /\ crossed' = crossed /\ failedClosed' = failedClosed
    BY <2>1 DEF Handles
  <2>3. PICK said \in {"admitted", "refused"} : tool' = [tool EXCEPT ![Event(task).what] = said]
    BY <2>1
  <2>4. tool' \in [Reqs -> {"unseen", "admitted", "refused", "calling", "claimed", "rejecting",
                            "cancelled", "answered", "dropped"}]
    BY <2>3, Shapes
  <2>5. QED
    BY <2>2, <2>4 DEF RequestType, TypeOK
<1>15. ASSUME NEW task \in Tasks, FailsStart(task) PROVE RequestType'
  <2>1. UNCHANGED <<asked, crossed, failedClosed>>
    BY <1>15 DEF FailsStart
  <2>2. tool' = tool \/ \E r : tool' = [tool EXCEPT ![r] = "rejecting"]
    BY <1>15 DEF FailsStart, Rejecting
  <2>3. tool' \in [Reqs -> {"unseen", "admitted", "refused", "calling", "claimed", "rejecting",
                            "cancelled", "answered", "dropped"}]
    BY <2>2, Shapes
  <2>4. QED
    BY <2>1, <2>3 DEF RequestType, TypeOK
<1>16. ASSUME NEW task \in Tasks, Fails(task) PROVE RequestType'
  BY <1>16, Shapes DEF Fails, Over, Frees, QueueOK, Waits, RequestType, TypeOK
<1>17. ASSUME Overflows PROVE RequestType'
  <2>1. UNCHANGED <<asked, crossed, failedClosed>>
    BY <1>17 DEF Overflows
  <2>2. tool' = tool \/ \E r : tool' = [tool EXCEPT ![r] = "rejecting"]
    BY <1>17 DEF Overflows, Rejecting
  <2>3. tool' \in [Reqs -> {"unseen", "admitted", "refused", "calling", "claimed", "rejecting",
                            "cancelled", "answered", "dropped"}]
    BY <2>2, Shapes
  <2>4. QED
    BY <2>1, <2>3 DEF RequestType, TypeOK
<1>18. ASSUME NEW r \in Reqs, CallsTool(r) PROVE RequestType'
  BY <1>18 DEF CallsTool, RequestType, TypeOK
<1>19. ASSUME NEW r \in Reqs, SettlesTool(r) PROVE RequestType'
  BY <1>19 DEF SettlesTool, RequestType, TypeOK
<1>20. ASSUME TearsDown PROVE RequestType'
  BY <1>20 DEF TearsDown, RequestType, TypeOK
<1>21. ASSUME TearsDownAnswers PROVE RequestType'
  BY <1>21 DEF TearsDownAnswers, RequestType, TypeOK
<1>22. ASSUME NEW t \in Turns, NEW r \in Reqs, AsksTool(t, r) PROVE RequestType'
  BY <1>22 DEF AsksTool, RequestType, TypeOK
<1>23. CASE UNCHANGED vars
  BY <1>23 DEF vars, RequestType, TypeOK
<1> QED
  BY <1>1, <1>2, <1>3, <1>4, <1>5, <1>6, <1>7, <1>8, <1>9, <1>10, <1>11, <1>12, <1>13,
     <1>14, <1>15, <1>16, <1>17, <1>18, <1>19, <1>20, <1>21, <1>22, <1>23
     DEF Steps

(* The step keeps this part of the type.                                   *)
LEMMA PhaseTypeStep ==
    TypeOK /\ [Steps]_vars => PhaseType'
<1> SUFFICES ASSUME TypeOK, [Steps]_vars PROVE PhaseType'
  OBVIOUS
<1> USE DEF userVars, turnVars, taskVars, toolVars, ownerVars, serverVars, speechVars,
            interruptVars
<1>1. ASSUME NEW task \in Tasks, AsksTurn(task) \/ AsksEnd(task) \/ Asks(task) \/
                TombstonesTurn(task) \/ Accepted(task) \/ LateRejects(task) \/
                LateInterrupts(task)
      PROVE  PhaseType'
  <2>1. UNCHANGED <<phase, failure, ordered>>
    BY <1>1
       DEF AsksTurn, AsksEnd, Asks, TombstonesTurn, Accepted, LateRejects, LateInterrupts,
           Starts
  <2>2. QED
    BY <2>1 DEF PhaseType, TypeOK
<1>2. ASSUME NEW task \in Tasks, OwnsRejects(task) \/ OwnsReplays(task) \/ WritesNext(task) \/
                WritesOut(task) \/ WritesOn(task) \/ RefusesTool(task) \/ HearsPart(task)
      PROVE  PhaseType'
  <2>1. UNCHANGED <<phase, failure, ordered>>
    BY <1>2
       DEF OwnsRejects, OwnsReplays, WritesNext, WritesOut, WritesOn, RefusesTool,
           HearsPart, Starts, Owns, Writes, WritesLast, Handles
  <2>2. QED
    BY <2>1 DEF PhaseType, TypeOK
<1>3. ASSUME NEW task \in Tasks, PassesEnd(task) \/ EndsUnspoken(task) \/ EndsForNext(task) \/
                EndsForSpeech(task) \/ Retired(task) \/ Submits(task) \/ AnswerOver(task)
      PROVE  PhaseType'
  <2>1. UNCHANGED <<phase, failure, ordered>>
    BY <1>3
       DEF PassesEnd, EndsUnspoken, EndsForNext, EndsForSpeech, Retired, Submits,
           AnswerOver, Handles, EndsTurn, EndsAnswer
  <2>2. QED
    BY <2>1 DEF PhaseType, TypeOK
<1>4. ASSUME NEW task \in Tasks, AnswerForNext(task)
      PROVE  PhaseType'
  <2>1. UNCHANGED <<phase, failure, ordered>>
    BY <1>4 DEF AnswerForNext, EndsAnswer
  <2>2. QED
    BY <2>1 DEF PhaseType, TypeOK
<1>5. ASSUME NotesTurn \/ Buffers \/ RendersOn \/ Expires \/ WatchdogTombstones \/
                WatchdogLeaves \/ ShutdownTombstones
      PROVE  PhaseType'
  <2>1. UNCHANGED <<phase, failure, ordered>>
    BY <1>5
       DEF NotesTurn, Buffers, RendersOn, Expires, WatchdogTombstones, WatchdogLeaves,
           ShutdownTombstones
  <2>2. QED
    BY <2>1 DEF PhaseType, TypeOK
<1>6. ASSUME NEW r \in Reqs, CallsTool(r)
      PROVE  PhaseType'
  <2>1. UNCHANGED <<phase, failure, ordered>>
    BY <1>6 DEF CallsTool
  <2>2. QED
    BY <2>1 DEF PhaseType, TypeOK
<1>7. ASSUME NEW t \in Turns, NEW r \in Reqs, AsksTool(t, r)
      PROVE  PhaseType'
  <2>1. UNCHANGED <<phase, failure, ordered>>
    BY <1>7 DEF AsksTool
  <2>2. QED
    BY <2>1 DEF PhaseType, TypeOK
<1>8. ASSUME NEW t \in Turns, NEW ev \in Events, Says(t, ev)
      PROVE  PhaseType'
  <2>1. UNCHANGED <<phase, failure, ordered>>
    BY <1>8 DEF Says
  <2>2. QED
    BY <2>1 DEF PhaseType, TypeOK
<1>9. ASSUME NEW task \in Tasks, GivesBack(task) PROVE PhaseType'
  BY <1>9 DEF GivesBack, GiveUp, Frees, QueueOK, PhaseType, TypeOK
<1>10. ASSUME NEW task \in Tasks, OrdersTurn(task) PROVE PhaseType'
  BY <1>10 DEF OrdersTurn, Alike, PhaseType, TypeOK
<1>11. ASSUME NEW task \in Tasks, AdmitsTool(task) PROVE PhaseType'
  BY <1>11 DEF AdmitsTool, Handles, Event, Back, PhaseType, TypeOK
<1>12. ASSUME NEW task \in Tasks, EndsSession(task) PROVE PhaseType'
  BY <1>12
     DEF EndsSession, Over, Frees, QueueOK, Handles, Event, EndsTurn, PhaseType, TypeOK
<1>13. ASSUME NEW task \in Tasks, FailsStart(task) PROVE PhaseType'
  BY <1>13 DEF FailsStart, Rejecting, Over, Frees, QueueOK, PhaseType, TypeOK
<1>14. ASSUME NEW task \in Tasks, Fails(task) PROVE PhaseType'
  BY <1>14 DEF Fails, Over, Frees, QueueOK, Waits, PhaseType, TypeOK
<1>15. ASSUME Overflows PROVE PhaseType'
  BY <1>15 DEF Overflows, Rejecting, PhaseType, TypeOK
<1>16. ASSUME NEW r \in Reqs, SettlesTool(r) PROVE PhaseType'
  BY <1>16 DEF SettlesTool, PhaseType, TypeOK
<1>17. ASSUME MayFail PROVE PhaseType'
  BY <1>17 DEF MayFail, PhaseType, TypeOK
<1>18. ASSUME TearsDown PROVE PhaseType'
  BY <1>18 DEF TearsDown, PhaseType, TypeOK
<1>19. ASSUME TearsDownAnswers PROVE PhaseType'
  BY <1>19 DEF TearsDownAnswers, PhaseType, TypeOK
<1>20. ASSUME TearsDownLocks PROVE PhaseType'
  BY <1>20 DEF TearsDownLocks, Joins, QueueOK, PhaseType, TypeOK
<1>21. ASSUME Ends PROVE PhaseType'
  BY <1>21 DEF Ends, PhaseType, TypeOK
<1>22. ASSUME NEW t \in Turns, Takes(t) PROVE PhaseType'
  BY <1>22 DEF Takes, PhaseType, TypeOK
<1>23. CASE UNCHANGED vars
  BY <1>23 DEF vars, PhaseType, TypeOK
<1> QED
  BY <1>1, <1>2, <1>3, <1>4, <1>5, <1>6, <1>7, <1>8, <1>9, <1>10, <1>11, <1>12, <1>13,
     <1>14, <1>15, <1>16, <1>17, <1>18, <1>19, <1>20, <1>21, <1>22, <1>23
     DEF Steps

(* The step keeps this part of the type.                                   *)
LEMMA ServerTypeStep ==
    TypeOK /\ [Steps]_vars => ServerType'
<1> SUFFICES ASSUME TypeOK, [Steps]_vars PROVE ServerType'
  OBVIOUS
<1> USE DEF userVars, turnVars, taskVars, toolVars, ownerVars, serverVars, speechVars,
            interruptVars
<1>1. ASSUME NEW task \in Tasks, AsksTurn(task) \/ AsksEnd(task) \/ Asks(task) \/
                GivesBack(task) \/ OrdersTurn(task) \/ TombstonesTurn(task) \/ Accepted(task)
      PROVE  ServerType'
  <2>1. UNCHANGED <<turnState, parts>>
    BY <1>1 DEF AsksTurn, AsksEnd, Asks, GivesBack, OrdersTurn, TombstonesTurn, Accepted
  <2>2. QED
    BY <2>1 DEF ServerType, TypeOK
<1>2. ASSUME NEW task \in Tasks, LateRejects(task) \/ LateInterrupts(task) \/
                OwnsRejects(task) \/ OwnsReplays(task) \/ WritesNext(task) \/ WritesOut(task)
                \/ WritesOn(task)
      PROVE  ServerType'
  <2>1. UNCHANGED <<turnState, parts>>
    BY <1>2
       DEF LateRejects, LateInterrupts, OwnsRejects, OwnsReplays, WritesNext, WritesOut,
           WritesOn, Starts, Owns, Writes, WritesLast
  <2>2. QED
    BY <2>1 DEF ServerType, TypeOK
<1>3. ASSUME NEW task \in Tasks, RefusesTool(task) \/ AdmitsTool(task) \/ HearsPart(task) \/
                PassesEnd(task) \/ EndsUnspoken(task) \/ EndsForNext(task) \/
                EndsSession(task)
      PROVE  ServerType'
  <2>1. UNCHANGED <<turnState, parts>>
    BY <1>3
       DEF RefusesTool, AdmitsTool, HearsPart, PassesEnd, EndsUnspoken, EndsForNext,
           EndsSession, Handles, EndsTurn
  <2>2. QED
    BY <2>1 DEF ServerType, TypeOK
<1>4. ASSUME NEW task \in Tasks, EndsForSpeech(task) \/ Retired(task) \/ Submits(task) \/
                AnswerOver(task) \/ AnswerForNext(task) \/ FailsStart(task) \/ Fails(task)
      PROVE  ServerType'
  <2>1. UNCHANGED <<turnState, parts>>
    BY <1>4
       DEF EndsForSpeech, Retired, Submits, AnswerOver, AnswerForNext, FailsStart, Fails,
           Handles, EndsTurn, EndsAnswer
  <2>2. QED
    BY <2>1 DEF ServerType, TypeOK
<1>5. ASSUME NotesTurn \/ Buffers \/ Overflows \/ RendersOn \/ Expires \/ WatchdogTombstones
                \/ WatchdogLeaves
      PROVE  ServerType'
  <2>1. UNCHANGED <<turnState, parts>>
    BY <1>5
       DEF NotesTurn, Buffers, Overflows, RendersOn, Expires, WatchdogTombstones,
           WatchdogLeaves
  <2>2. QED
    BY <2>1 DEF ServerType, TypeOK
<1>6. ASSUME MayFail \/ TearsDown \/ TearsDownAnswers \/ TearsDownLocks \/ ShutdownTombstones
                \/ Ends
      PROVE  ServerType'
  <2>1. UNCHANGED <<turnState, parts>>
    BY <1>6
       DEF MayFail, TearsDown, TearsDownAnswers, TearsDownLocks, ShutdownTombstones, Ends
  <2>2. QED
    BY <2>1 DEF ServerType, TypeOK
<1>7. ASSUME NEW r \in Reqs, CallsTool(r) \/ SettlesTool(r)
      PROVE  ServerType'
  <2>1. UNCHANGED <<turnState, parts>>
    BY <1>7 DEF CallsTool, SettlesTool
  <2>2. QED
    BY <2>1 DEF ServerType, TypeOK
<1>8. ASSUME NEW t \in Turns, NEW r \in Reqs, AsksTool(t, r)
      PROVE  ServerType'
  <2>1. UNCHANGED <<turnState, parts>>
    BY <1>8 DEF AsksTool
  <2>2. QED
    BY <2>1 DEF ServerType, TypeOK
<1>9. ASSUME NEW t \in Turns, Takes(t) PROVE ServerType'
  BY <1>9 DEF Takes, ServerType, TypeOK
<1>10. ASSUME NEW t \in Turns, NEW ev \in Events, Says(t, ev) PROVE ServerType'
  <2>1. /\ turnState' = [turnState EXCEPT ![t] = turnState'[t]]
        /\ turnState'[t] \in {"running", "over"}
        /\ parts' \in [Turns -> Nat]
    BY <1>10 DEF Says
  <2>2. turnState' \in [Turns -> {"unborn", "running", "over"}]
    BY <2>1 DEF TypeOK
  <2>3. QED
    BY <2>1, <2>2 DEF ServerType
<1>11. CASE UNCHANGED vars
  BY <1>11 DEF vars, ServerType, TypeOK
<1> QED
  BY <1>1, <1>2, <1>3, <1>4, <1>5, <1>6, <1>7, <1>8, <1>9, <1>10, <1>11 DEF Steps

(* The step keeps this part of the type.                                   *)
LEMMA SpeechTypeStep ==
    TypeOK /\ AnswerInv /\ [Steps]_vars => SpeechType'
<1> SUFFICES ASSUME TypeOK, AnswerInv, [Steps]_vars PROVE SpeechType'
  OBVIOUS
<1> USE DEF userVars, turnVars, taskVars, toolVars, ownerVars, serverVars, speechVars,
            interruptVars
<1>1. ASSUME NEW task \in Tasks, AsksTurn(task) \/ AsksEnd(task) \/ Asks(task) \/
                GivesBack(task) \/ OrdersTurn(task) \/ TombstonesTurn(task) \/ Accepted(task)
      PROVE  SpeechType'
  <2>1. UNCHANGED <<render, lost, spoken>>
    BY <1>1 DEF AsksTurn, AsksEnd, Asks, GivesBack, OrdersTurn, TombstonesTurn, Accepted
  <2>2. QED
    BY <2>1 DEF SpeechType, TypeOK
<1>2. ASSUME NEW task \in Tasks, LateRejects(task) \/ LateInterrupts(task) \/
                OwnsRejects(task) \/ OwnsReplays(task) \/ WritesNext(task) \/ WritesOut(task)
                \/ WritesOn(task)
      PROVE  SpeechType'
  <2>1. UNCHANGED <<render, lost, spoken>>
    BY <1>2
       DEF LateRejects, LateInterrupts, OwnsRejects, OwnsReplays, WritesNext, WritesOut,
           WritesOn, Starts, Owns, Writes, WritesLast
  <2>2. QED
    BY <2>1 DEF SpeechType, TypeOK
<1>3. ASSUME NEW task \in Tasks, RefusesTool(task) \/ AdmitsTool(task) \/ HearsPart(task) \/
                PassesEnd(task) \/ EndsSession(task) \/ EndsForSpeech(task) \/ Retired(task)
      PROVE  SpeechType'
  <2>1. UNCHANGED <<render, lost, spoken>>
    BY <1>3
       DEF RefusesTool, AdmitsTool, HearsPart, PassesEnd, EndsSession, EndsForSpeech,
           Retired, Handles, EndsTurn
  <2>2. QED
    BY <2>1 DEF SpeechType, TypeOK
<1>4. ASSUME NEW task \in Tasks, AnswerOver(task) \/ AnswerForNext(task) \/ FailsStart(task)
      PROVE  SpeechType'
  <2>1. UNCHANGED <<render, lost, spoken>>
    BY <1>4 DEF AnswerOver, AnswerForNext, FailsStart, EndsAnswer
  <2>2. QED
    BY <2>1 DEF SpeechType, TypeOK
<1>5. ASSUME NotesTurn \/ Buffers \/ Overflows \/ Expires \/ WatchdogTombstones \/
                WatchdogLeaves \/ MayFail
      PROVE  SpeechType'
  <2>1. UNCHANGED <<render, lost, spoken>>
    BY <1>5
       DEF NotesTurn, Buffers, Overflows, Expires, WatchdogTombstones, WatchdogLeaves,
           MayFail
  <2>2. QED
    BY <2>1 DEF SpeechType, TypeOK
<1>6. ASSUME TearsDown \/ TearsDownAnswers \/ TearsDownLocks \/ ShutdownTombstones \/ Ends
      PROVE  SpeechType'
  <2>1. UNCHANGED <<render, lost, spoken>>
    BY <1>6 DEF TearsDown, TearsDownAnswers, TearsDownLocks, ShutdownTombstones, Ends
  <2>2. QED
    BY <2>1 DEF SpeechType, TypeOK
<1>7. ASSUME NEW r \in Reqs, CallsTool(r) \/ SettlesTool(r)
      PROVE  SpeechType'
  <2>1. UNCHANGED <<render, lost, spoken>>
    BY <1>7 DEF CallsTool, SettlesTool
  <2>2. QED
    BY <2>1 DEF SpeechType, TypeOK
<1>8. ASSUME NEW t \in Turns, Takes(t)
      PROVE  SpeechType'
  <2>1. UNCHANGED <<render, lost, spoken>>
    BY <1>8 DEF Takes
  <2>2. QED
    BY <2>1 DEF SpeechType, TypeOK
<1>9. ASSUME NEW t \in Turns, NEW r \in Reqs, AsksTool(t, r)
      PROVE  SpeechType'
  <2>1. UNCHANGED <<render, lost, spoken>>
    BY <1>9 DEF AsksTool
  <2>2. QED
    BY <2>1 DEF SpeechType, TypeOK
<1>10. ASSUME NEW t \in Turns, NEW ev \in Events, Says(t, ev)
      PROVE  SpeechType'
  <2>1. UNCHANGED <<render, lost, spoken>>
    BY <1>10 DEF Says
  <2>2. QED
    BY <2>1 DEF SpeechType, TypeOK
<1>11. ASSUME NEW task \in Tasks, EndsUnspoken(task) PROVE SpeechType'
  BY <1>11, JobShape DEF EndsUnspoken, Handles, Event, Back, EndsTurn, SpeechType, TypeOK
<1>12. ASSUME NEW task \in Tasks, EndsForNext(task) PROVE SpeechType'
  BY <1>12, JobShape DEF EndsForNext, Handles, Event, EndsTurn, Renews, SpeechType, TypeOK
<1>13. ASSUME NEW task \in Tasks, Submits(task) PROVE SpeechType'
  <2>1. /\ render' = job[task].gen /\ lost' = lost
        /\ spoken' = spoken \cup {[turn |-> job[task].turn, gen |-> job[task].gen,
                                   said |-> job[task].said]}
    BY <1>13 DEF Submits
  <2>2. job[task] \in Jobs /\ job[task].turn \in Turns
    BY <1>13, JobShape DEF AnswerInv, TypeOK, Submits, Answering
  <2>3. job[task].gen \in Nat /\ job[task].said \in SUBSET (Turns \X Nat)
    BY <2>2 DEF Jobs
  <2>4. [turn |-> job[task].turn, gen |-> job[task].gen, said |-> job[task].said]
           \in [turn : Turns, gen : Nat, said : SUBSET (Turns \X Nat)]
    BY <2>2, <2>3
  <2>5. QED
    BY <2>1, <2>3, <2>4 DEF SpeechType, TypeOK
<1>14. ASSUME NEW task \in Tasks, Fails(task) PROVE SpeechType'
  BY <1>14, JobShape DEF Fails, Over, Frees, QueueOK, Waits, SpeechType, TypeOK
<1>15. ASSUME RendersOn PROVE SpeechType'
  BY <1>15, JobShape DEF RendersOn, SpeechType, TypeOK
<1>16. CASE UNCHANGED vars
  BY <1>16 DEF vars, SpeechType, TypeOK
<1> QED
  BY <1>1, <1>2, <1>3, <1>4, <1>5, <1>6, <1>7, <1>8, <1>9, <1>10, <1>11, <1>12, <1>13,
     <1>14, <1>15, <1>16
     DEF Steps

(* The step keeps this part of the type.                                   *)
LEMMA HistoryTypeStep ==
    TypeOK /\ PlaceInv /\ TurnInv /\ [Steps]_vars => HistoryType'
<1> SUFFICES ASSUME TypeOK, PlaceInv, TurnInv, [Steps]_vars PROVE HistoryType'
  OBVIOUS
<1> USE DEF userVars, turnVars, taskVars, toolVars, ownerVars, serverVars, speechVars,
            interruptVars
<1>1. ASSUME NEW task \in Tasks, AsksTurn(task) \/ AsksEnd(task) \/ Asks(task) \/
                GivesBack(task) \/ OrdersTurn(task) \/ Accepted(task) \/ WritesNext(task)
      PROVE  HistoryType'
  <2>1. UNCHANGED <<interruptedFor, startedFor>>
    BY <1>1 DEF AsksTurn, AsksEnd, Asks, GivesBack, OrdersTurn, Accepted, WritesNext, Writes
  <2>2. QED
    BY <2>1 DEF HistoryType, TypeOK
<1>2. ASSUME NEW task \in Tasks, WritesOut(task) \/ RefusesTool(task) \/ AdmitsTool(task) \/
                HearsPart(task) \/ PassesEnd(task) \/ EndsUnspoken(task) \/ EndsForNext(task)
      PROVE  HistoryType'
  <2>1. UNCHANGED <<interruptedFor, startedFor>>
    BY <1>2
       DEF WritesOut, RefusesTool, AdmitsTool, HearsPart, PassesEnd, EndsUnspoken,
           EndsForNext, Writes, WritesLast, Handles, EndsTurn
  <2>2. QED
    BY <2>1 DEF HistoryType, TypeOK
<1>3. ASSUME NEW task \in Tasks, EndsSession(task) \/ EndsForSpeech(task) \/ Retired(task) \/
                Submits(task) \/ AnswerOver(task) \/ AnswerForNext(task) \/ Fails(task)
      PROVE  HistoryType'
  <2>1. UNCHANGED <<interruptedFor, startedFor>>
    BY <1>3
       DEF EndsSession, EndsForSpeech, Retired, Submits, AnswerOver, AnswerForNext, Fails,
           Handles, EndsTurn, EndsAnswer
  <2>2. QED
    BY <2>1 DEF HistoryType, TypeOK
<1>4. ASSUME NotesTurn \/ Buffers \/ RendersOn \/ Expires \/ WatchdogLeaves \/ MayFail \/
                TearsDown
      PROVE  HistoryType'
  <2>1. UNCHANGED <<interruptedFor, startedFor>>
    BY <1>4 DEF NotesTurn, Buffers, RendersOn, Expires, WatchdogLeaves, MayFail, TearsDown
  <2>2. QED
    BY <2>1 DEF HistoryType, TypeOK
<1>5. ASSUME TearsDownAnswers \/ TearsDownLocks \/ Ends
      PROVE  HistoryType'
  <2>1. UNCHANGED <<interruptedFor, startedFor>>
    BY <1>5 DEF TearsDownAnswers, TearsDownLocks, Ends
  <2>2. QED
    BY <2>1 DEF HistoryType, TypeOK
<1>6. ASSUME NEW r \in Reqs, CallsTool(r) \/ SettlesTool(r)
      PROVE  HistoryType'
  <2>1. UNCHANGED <<interruptedFor, startedFor>>
    BY <1>6 DEF CallsTool, SettlesTool
  <2>2. QED
    BY <2>1 DEF HistoryType, TypeOK
<1>7. ASSUME NEW t \in Turns, Takes(t)
      PROVE  HistoryType'
  <2>1. UNCHANGED <<interruptedFor, startedFor>>
    BY <1>7 DEF Takes
  <2>2. QED
    BY <2>1 DEF HistoryType, TypeOK
<1>8. ASSUME NEW t \in Turns, NEW r \in Reqs, AsksTool(t, r)
      PROVE  HistoryType'
  <2>1. UNCHANGED <<interruptedFor, startedFor>>
    BY <1>8 DEF AsksTool
  <2>2. QED
    BY <2>1 DEF HistoryType, TypeOK
<1>9. ASSUME NEW t \in Turns, NEW ev \in Events, Says(t, ev)
      PROVE  HistoryType'
  <2>1. UNCHANGED <<interruptedFor, startedFor>>
    BY <1>9 DEF Says
  <2>2. QED
    BY <2>1 DEF HistoryType, TypeOK
<1>10. ASSUME NEW task \in Tasks, TombstonesTurn(task) PROVE HistoryType'
  BY <1>10, Shapes, JobShape DEF TombstonesTurn, Interrupted, HistoryType
<1>11. ASSUME NEW task \in Tasks, LateRejects(task) PROVE HistoryType'
  <2>1. /\ startedFor' = [startedFor EXCEPT ![reply] = job[task].gen]
        /\ interruptedFor' = interruptedFor \/ Interrupted(reply, "stale")
    BY <1>11 DEF LateRejects, Starts, Rejecting
  <2>2. job[task].gen \in Nat
    BY JobShape DEF Jobs
  <2>3. startedFor' \in [Turns -> Nat]
    BY <2>1, <2>2, Shapes
  <2>4. interruptedFor' \in [Turns -> SUBSET {"barge", "stale", "watchdog", "shutdown"}]
    BY <2>1, Shapes DEF Interrupted
  <2>5. QED
    BY <2>3, <2>4 DEF HistoryType
<1>12. ASSUME NEW task \in Tasks, LateInterrupts(task) PROVE HistoryType'
  <2>1. /\ startedFor' = [startedFor EXCEPT ![reply] = job[task].gen]
        /\ interruptedFor' = interruptedFor \/ Interrupted(reply, "stale")
    BY <1>12 DEF LateInterrupts, Starts, Rejecting
  <2>2. job[task].gen \in Nat
    BY JobShape DEF Jobs
  <2>3. startedFor' \in [Turns -> Nat]
    BY <2>1, <2>2, Shapes
  <2>4. interruptedFor' \in [Turns -> SUBSET {"barge", "stale", "watchdog", "shutdown"}]
    BY <2>1, Shapes DEF Interrupted
  <2>5. QED
    BY <2>3, <2>4 DEF HistoryType
<1>13. ASSUME NEW task \in Tasks, OwnsRejects(task) PROVE HistoryType'
  BY <1>13, Shapes, JobShape DEF OwnsRejects, Starts, Rejecting, Owns, HistoryType
<1>14. ASSUME NEW task \in Tasks, OwnsReplays(task) PROVE HistoryType'
  BY <1>14, Shapes, JobShape DEF OwnsReplays, Starts, Owns, HistoryType
<1>15. ASSUME NEW task \in Tasks, WritesOn(task) PROVE HistoryType'
  <2>1. startedFor' = startedFor
    BY <1>15 DEF WritesOn, WritesLast, Writes
  <2>2. interruptedFor' = interruptedFor \/ Interrupted(job[task].turn, "stale")
    BY <1>15 DEF WritesOn
  <2>3. QED
    BY <2>1, <2>2, Shapes DEF Interrupted, HistoryType
<1>16. ASSUME NEW task \in Tasks, FailsStart(task) PROVE HistoryType'
  BY <1>16, Shapes, JobShape DEF FailsStart, Rejecting, Over, Frees, QueueOK, HistoryType
<1>17. ASSUME Overflows PROVE HistoryType'
  BY <1>17, Shapes, JobShape DEF Overflows, Rejecting, HistoryType
<1>18. ASSUME WatchdogTombstones PROVE HistoryType'
  BY <1>18, Shapes, JobShape DEF WatchdogTombstones, Interrupted, HistoryType
<1>19. ASSUME ShutdownTombstones PROVE HistoryType'
  BY <1>19, Shapes, JobShape DEF ShutdownTombstones, Interrupted, HistoryType
<1>20. CASE UNCHANGED vars
  BY <1>20 DEF vars, HistoryType, TypeOK
<1> QED
  BY <1>1, <1>2, <1>3, <1>4, <1>5, <1>6, <1>7, <1>8, <1>9, <1>10, <1>11, <1>12, <1>13,
     <1>14, <1>15, <1>16, <1>17, <1>18, <1>19, <1>20
     DEF Steps

(* No tool request is forgotten.                                           *)
LEMMA ForgottenStep ==
    TypeOK /\ PlaceInv /\ PhaseInv /\ LockInv /\ StartInv /\ ForgottenInv /\ [Steps]_vars
       => ForgottenInv'
<1> SUFFICES ASSUME TypeOK, PlaceInv, PhaseInv, LockInv, StartInv, ForgottenInv, [Steps]_vars
             PROVE  ForgottenInv'
  OBVIOUS
<1> USE DEF userVars, turnVars, taskVars, toolVars, ownerVars, serverVars, speechVars,
            interruptVars
<1>1. ASSUME NotesTurn \/ RendersOn
      PROVE  ForgottenInv'
  <2>1. UNCHANGED <<failure, asked, tool, inbox, early, job>>
    BY <1>1 DEF NotesTurn, RendersOn
  <2>2. QED
    BY <2>1 DEF ForgottenInv, Coming, Awaits
<1>2. ASSUME NEW t \in Turns, Takes(t)
      PROVE  ForgottenInv'
  <2>1. UNCHANGED <<failure, asked, tool, inbox, early, job>>
    BY <1>2 DEF Takes
  <2>2. QED
    BY <2>1 DEF ForgottenInv, Coming, Awaits
<1>3. ASSUME NEW task \in Tasks, AsksTurn(task) PROVE ForgottenInv'
  <2>1. /\ \E there : Moves(task, there)
        /\ (failure => failure') /\ UNCHANGED <<asked, tool, inbox, early>>
    BY <1>3 DEF AsksTurn
  <2>2. job'[task].reject = job[task].reject /\ job'[task].todo = job[task].todo
    BY <1>3, PlaceFacts DEF AsksTurn, Is
  <2>3. QED
    BY <2>1, <2>2, AwaitsOn
<1>4. ASSUME NEW task \in Tasks, AsksEnd(task) PROVE ForgottenInv'
  <2>1. /\ \E there : Moves(task, there)
        /\ (failure => failure') /\ UNCHANGED <<asked, tool, inbox, early>>
    BY <1>4 DEF AsksEnd
  <2>2. job'[task].reject = job[task].reject /\ job'[task].todo = job[task].todo
    BY <1>4, PlaceFacts DEF AsksEnd, Is
  <2>3. QED
    BY <2>1, <2>2, AwaitsOn
<1>5. ASSUME NEW task \in Tasks, Asks(task) PROVE ForgottenInv'
  <2>1. /\ \E there : Moves(task, there)
        /\ (failure => failure') /\ UNCHANGED <<asked, tool, inbox, early>>
    BY <1>5 DEF Asks
  <2>2. job'[task].reject = job[task].reject /\ job'[task].todo = job[task].todo
    BY <1>5 DEF Asks, Alike, Is
  <2>3. QED
    BY <2>1, <2>2, AwaitsOn
<1>6. ASSUME NEW task \in Tasks, GivesBack(task) PROVE ForgottenInv'
  <2>1. /\ \E there : Moves(task, there)
        /\ (failure => failure') /\ UNCHANGED <<asked, tool, inbox, early>>
        /\ job'[task] = NoJob /\ job[task].todo = <<>> /\ pc[task] # "rejecting"
    BY <1>6 DEF GivesBack, GiveUp
  <2>2. job[task].reject = <<>>
    BY <2>1 DEF PlaceInv, Fits
  <2>3. QED
    BY <2>1, <2>2, AwaitsOn, NoJobFields DEF Is
<1>7. ASSUME NEW task \in Tasks, OrdersTurn(task) PROVE ForgottenInv'
  <2>1. /\ Moves(task, "starting") /\ failure' = failure /\ early' = <<>>
        /\ UNCHANGED <<asked, tool, inbox>> /\ Alike(job'[task], job[task])
        /\ Holds(task) /\ pc[task] # "starting"
    BY <1>7 DEF OrdersTurn
  <2>2. early' = early
    BY <2>1, AloneInLock DEF StartInv
  <2>3. QED
    BY <2>1, <2>2, AwaitsOn DEF Alike, Is
<1>8. ASSUME NEW task \in Tasks, TombstonesTurn(task) PROVE ForgottenInv'
  <2>1. /\ \E there : Moves(task, there)
        /\ (failure => failure') /\ UNCHANGED <<asked, tool, inbox, early>>
    BY <1>8 DEF TombstonesTurn
  <2>2. job'[task].reject = job[task].reject /\ job'[task].todo = job[task].todo
    BY <1>8 DEF TombstonesTurn, Is
  <2>3. QED
    BY <2>1, <2>2, AwaitsOn
<1>9. ASSUME NEW task \in Tasks, Accepted(task) PROVE ForgottenInv'
  <2>1. /\ \E there : Moves(task, there)
        /\ (failure => failure') /\ UNCHANGED <<asked, tool, inbox, early>>
    BY <1>9 DEF Accepted
  <2>2. job'[task].reject = job[task].reject /\ job'[task].todo = job[task].todo
    BY <1>9 DEF Accepted, Alike, Is
  <2>3. QED
    BY <2>1, <2>2, AwaitsOn
<1>10. ASSUME NEW task \in Tasks, LateRejects(task) PROVE ForgottenInv'
  <2>1. /\ Starts(task) /\ \E there : Moves(task, there)
        /\ tool' = [tool EXCEPT ![Head(job'[task].reject)] = "rejecting"]
    BY <1>10 DEF LateRejects, Rejecting
  <2>2. early' = <<>> /\ UNCHANGED <<failure, asked, inbox>> /\ pc[task] = "starting"
    BY <2>1 DEF Starts
  <2>3. job[task].reject = <<>> /\ job[task].todo = <<>>
    BY <2>2, PlaceFacts
  <2>4. ReqsOf(ToSet(early)) = ToSet(job'[task].reject) \cup ReqsOf(ToSet(job'[task].todo))
    BY <1>10, <2>3, ReqsFacts, NoneLeft DEF LateRejects, Is
  <2>5. Coming \cup Awaits(task) \subseteq Coming' \cup Awaits(task)'
    BY <2>2, <2>3, <2>4, NoneLeft, ReqsFacts DEF Coming, Awaits
  <2>6. \A r \in Reqs : tool'[r] = "unseen" => tool[r] = "unseen"
    BY <2>1, Shapes
  <2>7. QED
    BY <2>1, <2>2, <2>5, <2>6, WaitsOn
<1>11. ASSUME NEW task \in Tasks, LateInterrupts(task) PROVE ForgottenInv'
  <2>1. /\ Starts(task) /\ \E there : Moves(task, there)
        /\ tool' = tool
    BY <1>11 DEF LateInterrupts
  <2>2. early' = <<>> /\ UNCHANGED <<failure, asked, inbox>> /\ pc[task] = "starting"
    BY <2>1 DEF Starts
  <2>3. job[task].reject = <<>> /\ job[task].todo = <<>>
    BY <2>2, PlaceFacts
  <2>4. ReqsOf(ToSet(early)) = ToSet(job'[task].reject) \cup ReqsOf(ToSet(job'[task].todo))
    BY <1>11, <2>3, ReqsFacts, NoneLeft DEF LateInterrupts, Is
  <2>5. Coming \cup Awaits(task) \subseteq Coming' \cup Awaits(task)'
    BY <2>2, <2>3, <2>4, NoneLeft, ReqsFacts DEF Coming, Awaits
  <2>6. \A r \in Reqs : tool'[r] = "unseen" => tool[r] = "unseen"
    BY <2>1, Shapes
  <2>7. QED
    BY <2>1, <2>2, <2>5, <2>6, WaitsOn
<1>12. ASSUME NEW task \in Tasks, OwnsRejects(task) PROVE ForgottenInv'
  <2>1. /\ Starts(task) /\ \E there : Moves(task, there)
        /\ tool' = [tool EXCEPT ![Head(job'[task].reject)] = "rejecting"]
    BY <1>12 DEF OwnsRejects, Rejecting, Owns
  <2>2. early' = <<>> /\ UNCHANGED <<failure, asked, inbox>> /\ pc[task] = "starting"
    BY <2>1 DEF Starts
  <2>3. job[task].reject = <<>> /\ job[task].todo = <<>>
    BY <2>2, PlaceFacts
  <2>4. ReqsOf(ToSet(early)) = ToSet(job'[task].reject) \cup ReqsOf(ToSet(job'[task].todo))
    BY <1>12, <2>3, ReqsFacts DEF OwnsRejects, Owns
  <2>5. Coming \cup Awaits(task) \subseteq Coming' \cup Awaits(task)'
    BY <2>2, <2>3, <2>4, NoneLeft, ReqsFacts DEF Coming, Awaits
  <2>6. \A r \in Reqs : tool'[r] = "unseen" => tool[r] = "unseen"
    BY <2>1, Shapes
  <2>7. QED
    BY <2>1, <2>2, <2>5, <2>6, WaitsOn
<1>13. ASSUME NEW task \in Tasks, OwnsReplays(task) PROVE ForgottenInv'
  <2>1. /\ Starts(task) /\ \E there : Moves(task, there)
        /\ tool' = tool
    BY <1>13 DEF OwnsReplays, Owns
  <2>2. early' = <<>> /\ UNCHANGED <<failure, asked, inbox>> /\ pc[task] = "starting"
    BY <2>1 DEF Starts
  <2>3. job[task].reject = <<>> /\ job[task].todo = <<>>
    BY <2>2, PlaceFacts
  <2>4. ReqsOf(ToSet(early)) = ToSet(job'[task].reject) \cup ReqsOf(ToSet(job'[task].todo))
    BY <1>13, <2>3, ReqsFacts DEF OwnsReplays, Owns
  <2>5. Coming \cup Awaits(task) \subseteq Coming' \cup Awaits(task)'
    BY <2>2, <2>3, <2>4, NoneLeft, ReqsFacts DEF Coming, Awaits
  <2>6. \A r \in Reqs : tool'[r] = "unseen" => tool[r] = "unseen"
    BY <2>1, Shapes
  <2>7. QED
    BY <2>1, <2>2, <2>5, <2>6, WaitsOn
<1>14. ASSUME NEW task \in Tasks, WritesNext(task) PROVE ForgottenInv'
  <2>1. /\ \E there : Moves(task, there)
        /\ UNCHANGED <<failure, asked, inbox, early>> /\ pc[task] = "rejecting"
        /\ \E other : tool' = [tool EXCEPT ![Head(job[task].reject)] = "answered",
                                     ![other] = "rejecting"]
    BY <1>14 DEF WritesNext, Writes
  <2>2. job[task].reject \in Seq(Reqs) /\ job[task].reject # <<>>
    BY <2>1, JobShape, PlaceFacts DEF Jobs
  <2>3. ToSet(job[task].reject) = ToSet(Tail(job[task].reject)) \cup {Head(job[task].reject)}
    BY <2>2, TailSet
  <2>4. job'[task].reject = Tail(job[task].reject) /\ job'[task].todo = job[task].todo
    BY <1>14, <2>1 DEF WritesNext, Writes, Is
  <2>5. \A r \in Reqs : tool'[r] = "unseen" => tool[r] = "unseen" /\ r # Head(job[task].reject)
    BY <2>1, Shapes
  <2>6. Awaits(task) = Awaits(task)' \cup {Head(job[task].reject)} /\ Coming' = Coming
    BY <2>1, <2>3, <2>4 DEF Awaits, Coming
  <2>7. QED
    BY <2>1, <2>5, <2>6, WaitsOn
<1>15. ASSUME NEW task \in Tasks, WritesOut(task) PROVE ForgottenInv'
  <2>1. /\ \E there : Moves(task, there)
        /\ UNCHANGED <<failure, asked, inbox, early>> /\ pc[task] = "rejecting"
        /\ tool' = [tool EXCEPT ![Head(job[task].reject)] = "answered"]
    BY <1>15 DEF WritesOut, Writes, WritesLast, Over, Wrote
  <2>2. job[task].reject \in Seq(Reqs) /\ job[task].reject # <<>>
    BY <2>1, JobShape, PlaceFacts DEF Jobs
  <2>3. ToSet(job[task].reject) = ToSet(Tail(job[task].reject)) \cup {Head(job[task].reject)}
    BY <2>2, TailSet
  <2>4. job'[task].reject = Tail(job[task].reject) /\ job'[task].todo = job[task].todo
    <3>1. /\ job[task].after \in {"idle", "over"} /\ Tail(job[task].reject) = <<>>
          /\ job'[task] = NoJob
      BY <1>15 DEF WritesOut, WritesLast
    <3>2. job[task].todo = <<>>
      BY <3>1 DEF PlaceInv, Fits
    <3>3. QED
      BY <3>1, <3>2, NoJobFields DEF Is
  <2>5. \A r \in Reqs : tool'[r] = "unseen" => tool[r] = "unseen" /\ r # Head(job[task].reject)
    BY <2>1, Shapes
  <2>6. Awaits(task) = Awaits(task)' \cup {Head(job[task].reject)} /\ Coming' = Coming
    BY <2>1, <2>3, <2>4 DEF Awaits, Coming
  <2>7. QED
    BY <2>1, <2>5, <2>6, WaitsOn
<1>16. ASSUME NEW task \in Tasks, WritesOn(task) PROVE ForgottenInv'
  <2>1. /\ \E there : Moves(task, there)
        /\ UNCHANGED <<failure, asked, inbox, early>> /\ pc[task] = "rejecting"
        /\ tool' = [tool EXCEPT ![Head(job[task].reject)] = "answered"]
    BY <1>16 DEF WritesOn, Writes, WritesLast, Wrote
  <2>2. job[task].reject \in Seq(Reqs) /\ job[task].reject # <<>>
    BY <2>1, JobShape, PlaceFacts DEF Jobs
  <2>3. ToSet(job[task].reject) = ToSet(Tail(job[task].reject)) \cup {Head(job[task].reject)}
    BY <2>2, TailSet
  <2>4. job'[task].reject = Tail(job[task].reject) /\ job'[task].todo = job[task].todo
    BY <1>16, <2>1 DEF WritesOn, Is, Writes, WritesLast
  <2>5. \A r \in Reqs : tool'[r] = "unseen" => tool[r] = "unseen" /\ r # Head(job[task].reject)
    BY <2>1, Shapes
  <2>6. Awaits(task) = Awaits(task)' \cup {Head(job[task].reject)} /\ Coming' = Coming
    BY <2>1, <2>3, <2>4 DEF Awaits, Coming
  <2>7. QED
    BY <2>1, <2>5, <2>6, WaitsOn
<1>17. ASSUME NEW task \in Tasks, RefusesTool(task) PROVE ForgottenInv'
  <2>1. /\ Handles(task) /\ \E there : Moves(task, there)
        /\ (failure => failure') /\ tool' = [tool EXCEPT ![Event(task).what] = "rejecting"]
        /\ Event(task).kind = "tool"
    BY <1>17 DEF RefusesTool
  <2>2. early' = early /\ asked' = asked
    BY <2>1 DEF Handles
  <2>3. job'[task].todo = Left(task) /\ job[task].reject = <<>>
    BY <2>1, PlaceFacts, EventHandled, <1>17 DEF RefusesTool, Is
  <2>4. /\ ToSet(inbox) \cup ToSet(job[task].todo)
              = ToSet(inbox') \cup ToSet(job'[task].todo) \cup {Event(task)}
    <3>1. pc[task] = "idle" => job[task].todo = <<>>
      BY PlaceFacts
    <3>2. QED
      BY <2>1, <2>3, <3>1, EventHandled, NoneLeft
  <2>5. \A r \in Coming \cup Awaits(task) :
           r \in Coming' \cup Awaits(task)' \/ (Event(task).kind = "tool" /\ r = Event(task).what)
    <3>1. \A r : r \in Coming \cup Awaits(task) =>
             \E ev \in ToSet(inbox) \cup ToSet(job[task].todo) \cup ToSet(early) :
                ev.kind = "tool" /\ r = ev.what
      BY <2>3, ReqsFacts, NoneLeft DEF Coming, Awaits
    <3>2. \A r : (\E ev \in ToSet(inbox') \cup ToSet(job'[task].todo) \cup ToSet(early) :
                     ev.kind = "tool" /\ r = ev.what)
                 => r \in Coming' \cup Awaits(task)'
      BY <2>2, ReqsFacts DEF Coming, Awaits
    <3>3. QED
      BY <2>4, <3>1, <3>2
  <2>6. \A r \in Reqs : tool'[r] = "unseen" =>
           tool[r] = "unseen" /\ ~(Event(task).kind = "tool" /\ r = Event(task).what)
    BY <2>1, Shapes
  <2>7. QED
    BY <2>1, <2>2, <2>5, <2>6, WaitsOn
<1>18. ASSUME NEW task \in Tasks, AdmitsTool(task) PROVE ForgottenInv'
  <2>1. /\ Handles(task) /\ \E there : Moves(task, there)
        /\ (failure => failure')
        /\ \E said \in {"admitted", "refused"} : tool' = [tool EXCEPT ![Event(task).what] = said]
        /\ Event(task).kind = "tool"
    BY <1>18 DEF AdmitsTool, Back
  <2>2. early' = early /\ asked' = asked
    BY <2>1 DEF Handles
  <2>3. job'[task].todo = Left(task) /\ job[task].reject = <<>>
    <3>1. \E gen, t : Back(task, gen, t)
      BY <1>18 DEF AdmitsTool
    <3>2. QED
      BY <2>1, <3>1, BackJob, PlaceFacts, EventHandled, NoJobFields DEF Is
  <2>4. /\ ToSet(inbox) \cup ToSet(job[task].todo)
              = ToSet(inbox') \cup ToSet(job'[task].todo) \cup {Event(task)}
    <3>1. pc[task] = "idle" => job[task].todo = <<>>
      BY PlaceFacts
    <3>2. QED
      BY <2>1, <2>3, <3>1, EventHandled
  <2>5. \A r \in Coming \cup Awaits(task) :
           r \in Coming' \cup Awaits(task)' \/ (Event(task).kind = "tool" /\ r = Event(task).what)
    <3>1. \A r : r \in Coming \cup Awaits(task) =>
             \E ev \in ToSet(inbox) \cup ToSet(job[task].todo) \cup ToSet(early) :
                ev.kind = "tool" /\ r = ev.what
      BY <2>3, ReqsFacts, NoneLeft DEF Coming, Awaits
    <3>2. \A r : (\E ev \in ToSet(inbox') \cup ToSet(job'[task].todo) \cup ToSet(early) :
                     ev.kind = "tool" /\ r = ev.what)
                 => r \in Coming' \cup Awaits(task)'
      BY <2>2, ReqsFacts DEF Coming, Awaits
    <3>3. QED
      BY <2>4, <3>1, <3>2
  <2>6. \A r \in Reqs : tool'[r] = "unseen" =>
           tool[r] = "unseen" /\ ~(Event(task).kind = "tool" /\ r = Event(task).what)
    BY <2>1, Shapes
  <2>7. QED
    BY <2>1, <2>2, <2>5, <2>6, WaitsOn
<1>19. ASSUME NEW task \in Tasks, HearsPart(task) PROVE ForgottenInv'
  <2>1. /\ Handles(task) /\ \E there : Moves(task, there)
        /\ (failure => failure') /\ tool' = tool
        /\ Event(task).kind # "tool"
    BY <1>19 DEF HearsPart, Back
  <2>2. early' = early /\ asked' = asked
    BY <2>1 DEF Handles
  <2>3. job'[task].todo = Left(task) /\ job[task].reject = <<>>
    <3>1. \E gen, t : Back(task, gen, t)
      BY <1>19 DEF HearsPart
    <3>2. QED
      BY <2>1, <3>1, BackJob, PlaceFacts, EventHandled, NoJobFields DEF Is
  <2>4. /\ ToSet(inbox) \cup ToSet(job[task].todo)
              = ToSet(inbox') \cup ToSet(job'[task].todo) \cup {Event(task)}
    <3>1. pc[task] = "idle" => job[task].todo = <<>>
      BY PlaceFacts
    <3>2. QED
      BY <2>1, <2>3, <3>1, EventHandled
  <2>5. \A r \in Coming \cup Awaits(task) :
           r \in Coming' \cup Awaits(task)' \/ (Event(task).kind = "tool" /\ r = Event(task).what)
    <3>1. \A r : r \in Coming \cup Awaits(task) =>
             \E ev \in ToSet(inbox) \cup ToSet(job[task].todo) \cup ToSet(early) :
                ev.kind = "tool" /\ r = ev.what
      BY <2>3, ReqsFacts, NoneLeft DEF Coming, Awaits
    <3>2. \A r : (\E ev \in ToSet(inbox') \cup ToSet(job'[task].todo) \cup ToSet(early) :
                     ev.kind = "tool" /\ r = ev.what)
                 => r \in Coming' \cup Awaits(task)'
      BY <2>2, ReqsFacts DEF Coming, Awaits
    <3>3. QED
      BY <2>4, <3>1, <3>2
  <2>6. \A r \in Reqs : tool'[r] = "unseen" =>
           tool[r] = "unseen" /\ ~(Event(task).kind = "tool" /\ r = Event(task).what)
    BY <2>1, Shapes
  <2>7. QED
    BY <2>1, <2>2, <2>5, <2>6, WaitsOn
<1>20. ASSUME NEW task \in Tasks, PassesEnd(task) PROVE ForgottenInv'
  <2>1. /\ Handles(task) /\ \E there : Moves(task, there)
        /\ (failure => failure') /\ tool' = tool
        /\ Event(task).kind # "tool"
    BY <1>20 DEF PassesEnd, Back
  <2>2. early' = early /\ asked' = asked
    BY <2>1 DEF Handles
  <2>3. job'[task].todo = Left(task) /\ job[task].reject = <<>>
    <3>1. \E gen, t : Back(task, gen, t)
      BY <1>20 DEF PassesEnd
    <3>2. QED
      BY <2>1, <3>1, BackJob, PlaceFacts, EventHandled, NoJobFields DEF Is
  <2>4. /\ ToSet(inbox) \cup ToSet(job[task].todo)
              = ToSet(inbox') \cup ToSet(job'[task].todo) \cup {Event(task)}
    <3>1. pc[task] = "idle" => job[task].todo = <<>>
      BY PlaceFacts
    <3>2. QED
      BY <2>1, <2>3, <3>1, EventHandled
  <2>5. \A r \in Coming \cup Awaits(task) :
           r \in Coming' \cup Awaits(task)' \/ (Event(task).kind = "tool" /\ r = Event(task).what)
    <3>1. \A r : r \in Coming \cup Awaits(task) =>
             \E ev \in ToSet(inbox) \cup ToSet(job[task].todo) \cup ToSet(early) :
                ev.kind = "tool" /\ r = ev.what
      BY <2>3, ReqsFacts, NoneLeft DEF Coming, Awaits
    <3>2. \A r : (\E ev \in ToSet(inbox') \cup ToSet(job'[task].todo) \cup ToSet(early) :
                     ev.kind = "tool" /\ r = ev.what)
                 => r \in Coming' \cup Awaits(task)'
      BY <2>2, ReqsFacts DEF Coming, Awaits
    <3>3. QED
      BY <2>4, <3>1, <3>2
  <2>6. \A r \in Reqs : tool'[r] = "unseen" =>
           tool[r] = "unseen" /\ ~(Event(task).kind = "tool" /\ r = Event(task).what)
    BY <2>1, Shapes
  <2>7. QED
    BY <2>1, <2>2, <2>5, <2>6, WaitsOn
<1>21. ASSUME NEW task \in Tasks, EndsUnspoken(task) PROVE ForgottenInv'
  <2>1. /\ Handles(task) /\ \E there : Moves(task, there)
        /\ (failure => failure') /\ tool' = tool
        /\ Event(task).kind # "tool"
    BY <1>21 DEF EndsUnspoken, Back, EndsTurn
  <2>2. early' = early /\ asked' = asked
    BY <2>1 DEF Handles
  <2>3. job'[task].todo = Left(task) /\ job[task].reject = <<>>
    <3>1. \E gen, t : Back(task, gen, t)
      BY <1>21 DEF EndsUnspoken
    <3>2. QED
      BY <2>1, <3>1, BackJob, PlaceFacts, EventHandled, NoJobFields DEF Is
  <2>4. /\ ToSet(inbox) \cup ToSet(job[task].todo)
              = ToSet(inbox') \cup ToSet(job'[task].todo) \cup {Event(task)}
    <3>1. pc[task] = "idle" => job[task].todo = <<>>
      BY PlaceFacts
    <3>2. QED
      BY <2>1, <2>3, <3>1, EventHandled
  <2>5. \A r \in Coming \cup Awaits(task) :
           r \in Coming' \cup Awaits(task)' \/ (Event(task).kind = "tool" /\ r = Event(task).what)
    <3>1. \A r : r \in Coming \cup Awaits(task) =>
             \E ev \in ToSet(inbox) \cup ToSet(job[task].todo) \cup ToSet(early) :
                ev.kind = "tool" /\ r = ev.what
      BY <2>3, ReqsFacts, NoneLeft DEF Coming, Awaits
    <3>2. \A r : (\E ev \in ToSet(inbox') \cup ToSet(job'[task].todo) \cup ToSet(early) :
                     ev.kind = "tool" /\ r = ev.what)
                 => r \in Coming' \cup Awaits(task)'
      BY <2>2, ReqsFacts DEF Coming, Awaits
    <3>3. QED
      BY <2>4, <3>1, <3>2
  <2>6. \A r \in Reqs : tool'[r] = "unseen" =>
           tool[r] = "unseen" /\ ~(Event(task).kind = "tool" /\ r = Event(task).what)
    BY <2>1, Shapes
  <2>7. QED
    BY <2>1, <2>2, <2>5, <2>6, WaitsOn
<1>22. ASSUME NEW task \in Tasks, EndsForNext(task) PROVE ForgottenInv'
  <2>1. /\ Handles(task) /\ \E there : Moves(task, there)
        /\ (failure => failure') /\ tool' = tool
        /\ Event(task).kind # "tool"
    BY <1>22 DEF EndsForNext, EndsTurn, Renews
  <2>2. early' = early /\ asked' = asked
    BY <2>1 DEF Handles
  <2>3. job'[task].todo = Left(task) /\ job[task].reject = <<>>
    <3>1. pc[task] = "idle" /\ running = None
      BY <1>22, PlaceFacts DEF StartInv, EndsForNext, EndsTurn, Handles
    <3>2. QED
      BY <1>22, <2>1, <3>1, PlaceFacts, EventHandled DEF EndsForNext, Renews, Is
  <2>4. /\ ToSet(inbox) \cup ToSet(job[task].todo)
              = ToSet(inbox') \cup ToSet(job'[task].todo) \cup {Event(task)}
    <3>1. pc[task] = "idle" => job[task].todo = <<>>
      BY PlaceFacts
    <3>2. QED
      BY <2>1, <2>3, <3>1, EventHandled
  <2>5. \A r \in Coming \cup Awaits(task) :
           r \in Coming' \cup Awaits(task)' \/ (Event(task).kind = "tool" /\ r = Event(task).what)
    <3>1. \A r : r \in Coming \cup Awaits(task) =>
             \E ev \in ToSet(inbox) \cup ToSet(job[task].todo) \cup ToSet(early) :
                ev.kind = "tool" /\ r = ev.what
      BY <2>3, ReqsFacts, NoneLeft DEF Coming, Awaits
    <3>2. \A r : (\E ev \in ToSet(inbox') \cup ToSet(job'[task].todo) \cup ToSet(early) :
                     ev.kind = "tool" /\ r = ev.what)
                 => r \in Coming' \cup Awaits(task)'
      BY <2>2, ReqsFacts DEF Coming, Awaits
    <3>3. QED
      BY <2>4, <3>1, <3>2
  <2>6. \A r \in Reqs : tool'[r] = "unseen" =>
           tool[r] = "unseen" /\ ~(Event(task).kind = "tool" /\ r = Event(task).what)
    BY <2>1, Shapes
  <2>7. QED
    BY <2>1, <2>2, <2>5, <2>6, WaitsOn
<1>23. ASSUME NEW task \in Tasks, EndsSession(task) PROVE ForgottenInv'
  <2>1. failure' = TRUE
    BY <1>23 DEF EndsSession
  <2>2. QED
    BY <2>1 DEF ForgottenInv
<1>24. ASSUME NEW task \in Tasks, EndsForSpeech(task) PROVE ForgottenInv'
  <2>1. /\ Handles(task) /\ \E there : Moves(task, there)
        /\ (failure => failure') /\ tool' = tool
        /\ Event(task).kind # "tool"
    BY <1>24 DEF EndsForSpeech, EndsTurn
  <2>2. early' = early /\ asked' = asked
    BY <2>1 DEF Handles
  <2>3. job'[task].todo = Left(task) /\ job[task].reject = <<>>
    BY <2>1, PlaceFacts, EventHandled, <1>24 DEF EndsForSpeech, Is, EndsTurn
  <2>4. /\ ToSet(inbox) \cup ToSet(job[task].todo)
              = ToSet(inbox') \cup ToSet(job'[task].todo) \cup {Event(task)}
    <3>1. pc[task] = "idle" => job[task].todo = <<>>
      BY PlaceFacts
    <3>2. QED
      BY <2>1, <2>3, <3>1, EventHandled
  <2>5. \A r \in Coming \cup Awaits(task) :
           r \in Coming' \cup Awaits(task)' \/ (Event(task).kind = "tool" /\ r = Event(task).what)
    <3>1. \A r : r \in Coming \cup Awaits(task) =>
             \E ev \in ToSet(inbox) \cup ToSet(job[task].todo) \cup ToSet(early) :
                ev.kind = "tool" /\ r = ev.what
      BY <2>3, ReqsFacts, NoneLeft DEF Coming, Awaits
    <3>2. \A r : (\E ev \in ToSet(inbox') \cup ToSet(job'[task].todo) \cup ToSet(early) :
                     ev.kind = "tool" /\ r = ev.what)
                 => r \in Coming' \cup Awaits(task)'
      BY <2>2, ReqsFacts DEF Coming, Awaits
    <3>3. QED
      BY <2>4, <3>1, <3>2
  <2>6. \A r \in Reqs : tool'[r] = "unseen" =>
           tool[r] = "unseen" /\ ~(Event(task).kind = "tool" /\ r = Event(task).what)
    BY <2>1, Shapes
  <2>7. QED
    BY <2>1, <2>2, <2>5, <2>6, WaitsOn
<1>25. ASSUME NEW task \in Tasks, Retired(task) PROVE ForgottenInv'
  <2>1. /\ \E there : Moves(task, there)
        /\ (failure => failure') /\ UNCHANGED <<asked, tool, inbox, early>>
    BY <1>25 DEF Retired
  <2>2. job'[task].reject = job[task].reject /\ job'[task].todo = job[task].todo
    BY <1>25 DEF Retired, Alike, Is
  <2>3. QED
    BY <2>1, <2>2, AwaitsOn
<1>26. ASSUME NEW task \in Tasks, Submits(task) PROVE ForgottenInv'
  <2>1. /\ \E there : Moves(task, there)
        /\ (failure => failure') /\ UNCHANGED <<asked, tool, inbox, early>>
    BY <1>26 DEF Submits
  <2>2. job'[task].reject = job[task].reject /\ job'[task].todo = job[task].todo
    BY <1>26 DEF Submits, Alike, Is
  <2>3. QED
    BY <2>1, <2>2, AwaitsOn
<1>27. ASSUME NEW task \in Tasks, AnswerOver(task) PROVE ForgottenInv'
  <2>1. /\ \E there : Moves(task, there)
        /\ (failure => failure') /\ UNCHANGED <<asked, tool, inbox, early>>
    BY <1>27 DEF AnswerOver, Back, EndsAnswer
  <2>2. job'[task].reject = job[task].reject /\ job'[task].todo = job[task].todo
    BY <1>27, BackJob, PlaceFacts, NoJobFields DEF AnswerOver, Is, EndsAnswer, Answering
  <2>3. QED
    BY <2>1, <2>2, AwaitsOn
<1>28. ASSUME NEW task \in Tasks, AnswerForNext(task) PROVE ForgottenInv'
  <2>1. /\ \E there : Moves(task, there)
        /\ (failure => failure') /\ UNCHANGED <<asked, tool, inbox, early>>
    BY <1>28 DEF AnswerForNext, Renews, EndsAnswer
  <2>2. job'[task].reject = job[task].reject /\ job'[task].todo = job[task].todo
    BY <1>28, PlaceFacts DEF AnswerForNext, Renews, Is, EndsAnswer, Answering
  <2>3. QED
    BY <2>1, <2>2, AwaitsOn
<1>29. ASSUME NEW task \in Tasks, FailsStart(task) PROVE ForgottenInv'
  <2>1. failure' = TRUE
    BY <1>29 DEF FailsStart
  <2>2. QED
    BY <2>1 DEF ForgottenInv
<1>30. ASSUME NEW task \in Tasks, Fails(task) PROVE ForgottenInv'
  <2>1. failure' = TRUE
    BY <1>30 DEF Fails
  <2>2. QED
    BY <2>1 DEF ForgottenInv
<1>31. ASSUME Buffers PROVE ForgottenInv'
  <2>1. /\ inbox # <<>> /\ inbox' = Tail(inbox) /\ early' = Append(early, Head(inbox))
        /\ UNCHANGED <<failure, asked, tool, job>>
    BY <1>31 DEF Buffers
  <2>2. ToSet(inbox) \cup ToSet(early) = ToSet(inbox') \cup ToSet(early')
    BY <2>1, EventQueues
  <2>3. Coming' = Coming
    BY <2>2 DEF Coming
  <2>4. QED
    BY <2>1, <2>3 DEF ForgottenInv, Awaits
<1>32. ASSUME Overflows PROVE ForgottenInv'
  <2>1. failure' = TRUE
    BY <1>32 DEF Overflows
  <2>2. QED
    BY <2>1 DEF ForgottenInv
<1>33. ASSUME NEW r \in Reqs, CallsTool(r) PROVE ForgottenInv'
  <2>1. /\ tool' = [tool EXCEPT ![r] = "calling"]
        /\ UNCHANGED <<failure, asked, inbox, early, job>>
    BY <1>33 DEF CallsTool
  <2>2. QED
    BY <2>1, Shapes DEF ForgottenInv, Coming, Awaits
<1>34. ASSUME NEW r \in Reqs, SettlesTool(r) PROVE ForgottenInv'
  <2>1. /\ \E how \in {"claimed", "answered", "dropped"} : tool' = [tool EXCEPT ![r] = how]
        /\ (failure => failure') /\ UNCHANGED <<asked, inbox, early, job>>
    BY <1>34 DEF SettlesTool
  <2>2. QED
    BY <2>1, Shapes DEF ForgottenInv, Coming, Awaits
<1>35. ASSUME Expires PROVE ForgottenInv'
  <2>1. /\ \E there : Moves("watchdog", there)
        /\ (failure => failure') /\ UNCHANGED <<asked, tool, inbox, early>>
    BY <1>35 DEF Expires
  <2>2. /\ job'["watchdog"].reject = job["watchdog"].reject
        /\ job'["watchdog"].todo = job["watchdog"].todo
    BY <1>35, PlaceFacts, NoJobFields, Names DEF Expires, Is
  <2>3. QED
    BY <2>1, <2>2, AwaitsOn, Names
<1>36. ASSUME WatchdogTombstones PROVE ForgottenInv'
  <2>1. /\ \E there : Moves("watchdog", there)
        /\ (failure => failure') /\ UNCHANGED <<asked, tool, inbox, early>>
    BY <1>36 DEF WatchdogTombstones
  <2>2. /\ job'["watchdog"].reject = job["watchdog"].reject
        /\ job'["watchdog"].todo = job["watchdog"].todo
    BY <1>36 DEF WatchdogTombstones
  <2>3. QED
    BY <2>1, <2>2, AwaitsOn, Names
<1>37. ASSUME WatchdogLeaves PROVE ForgottenInv'
  <2>1. /\ \E there : Moves("watchdog", there)
        /\ (failure => failure') /\ UNCHANGED <<asked, tool, inbox, early>>
    BY <1>37 DEF WatchdogLeaves, GiveUp
  <2>2. /\ job'["watchdog"].reject = job["watchdog"].reject
        /\ job'["watchdog"].todo = job["watchdog"].todo
    BY <1>37, PlaceFacts, NoJobFields, Names DEF WatchdogLeaves, GiveUp, Is
  <2>3. QED
    BY <2>1, <2>2, AwaitsOn, Names
<1>38. ASSUME MayFail PROVE ForgottenInv'
  <2>1. failure' = TRUE
    BY <1>38 DEF MayFail
  <2>2. QED
    BY <2>1 DEF ForgottenInv
<1>39. ASSUME TearsDown PROVE ForgottenInv'
  <2>1. failure /\ failure' = failure
    BY <1>39 DEF TearsDown
  <2>2. QED
    BY <2>1 DEF ForgottenInv
<1>40. ASSUME TearsDownAnswers PROVE ForgottenInv'
  <2>1. /\ tool' = [s \in Reqs |-> IF tool[s] = "cancelled" THEN "claimed" ELSE tool[s]]
        /\ UNCHANGED <<failure, asked, inbox, early, job>>
    BY <1>40 DEF TearsDownAnswers
  <2>2. QED
    BY <2>1 DEF ForgottenInv, Coming, Awaits
<1>41. ASSUME TearsDownLocks PROVE ForgottenInv'
  <2>1. /\ \E there : Moves("shutdown", there)
        /\ (failure => failure') /\ UNCHANGED <<asked, tool, inbox, early>>
    BY <1>41 DEF TearsDownLocks
  <2>2. /\ job'["shutdown"].reject = job["shutdown"].reject
        /\ job'["shutdown"].todo = job["shutdown"].todo
    BY <1>41 DEF TearsDownLocks
  <2>3. QED
    BY <2>1, <2>2, AwaitsOn, Names
<1>42. ASSUME ShutdownTombstones PROVE ForgottenInv'
  <2>1. /\ \E there : Moves("shutdown", there)
        /\ (failure => failure') /\ UNCHANGED <<asked, tool, inbox, early>>
    BY <1>42 DEF ShutdownTombstones
  <2>2. /\ job'["shutdown"].reject = job["shutdown"].reject
        /\ job'["shutdown"].todo = job["shutdown"].todo
    BY <1>42 DEF ShutdownTombstones
  <2>3. QED
    BY <2>1, <2>2, AwaitsOn, Names
<1>43. ASSUME Ends PROVE ForgottenInv'
  <2>1. failure
    BY <1>43, Names DEF Ends, PhaseInv
  <2>2. failure' = failure
    BY <1>43 DEF Ends
  <2>3. QED
    BY <2>1, <2>2 DEF ForgottenInv
<1>44. ASSUME NEW t \in Turns, NEW r \in Reqs, AsksTool(t, r) PROVE ForgottenInv'
  <2>1. /\ asked' = [asked EXCEPT ![r] = t] /\ UNCHANGED <<failure, tool, early, job>>
        /\ inbox' = Append(inbox, [turn |-> t, kind |-> "tool", what |-> r])
    BY <1>44 DEF AsksTool
  <2>2. [turn |-> t, kind |-> "tool", what |-> r] \in Events
    BY DEF Events
  <2>3. ToSet(inbox') = ToSet(inbox) \cup {[turn |-> t, kind |-> "tool", what |-> r]}
    BY <2>1, <2>2, EventQueues
  <2>4. Coming' = Coming \cup {r}
    <3> DEFINE ev == [turn |-> t, kind |-> "tool", what |-> r]
    <3>1. ToSet(inbox') \cup ToSet(early') = (ToSet(inbox) \cup ToSet(early)) \cup {ev}
      BY <2>1, <2>3
    <3>2. ReqsOf({ev}) = {r}
      BY ReqsFacts
    <3> HIDE DEF ev
    <3>3. Coming' = Coming \cup ReqsOf({ev})
      BY <3>1, ReqsFacts DEF Coming
    <3>4. QED
      BY <3>2, <3>3
  <2>5. QED
    BY <2>1, <2>4, Shapes DEF ForgottenInv, Awaits
<1>45. ASSUME NEW t \in Turns, NEW ev \in Events, Says(t, ev) PROVE ForgottenInv'
  <2>1. /\ ev.kind # "tool" /\ UNCHANGED <<asked, failure, tool, early, job>>
        /\ inbox' = Append(inbox, ev)
    BY <1>45 DEF Says
  <2>2. Coming' = Coming
    <3>1. ToSet(inbox') \cup ToSet(early') = (ToSet(inbox) \cup ToSet(early)) \cup {ev}
      BY <2>1, EventQueues
    <3>2. ReqsOf({ev}) = {}
      BY <2>1, ReqsFacts
    <3>3. Coming' = Coming \cup ReqsOf({ev})
      BY <3>1, ReqsFacts DEF Coming
    <3>4. QED
      BY <3>2, <3>3
  <2>3. QED
    BY <2>1, <2>2 DEF ForgottenInv, Awaits
<1>46. CASE UNCHANGED vars
  BY <1>46 DEF vars, ForgottenInv, Coming, Awaits
<1> QED
  BY <1>1, <1>2, <1>3, <1>4, <1>5, <1>6, <1>7, <1>8, <1>9, <1>10, <1>11, <1>12, <1>13,
     <1>14, <1>15, <1>16, <1>17, <1>18, <1>19, <1>20, <1>21, <1>22, <1>23, <1>24, <1>25,
     <1>26, <1>27, <1>28, <1>29, <1>30, <1>31, <1>32, <1>33, <1>34, <1>35, <1>36, <1>37,
     <1>38, <1>39, <1>40, <1>41, <1>42, <1>43, <1>44, <1>45, <1>46
     DEF Steps

(* An idle task has no job.                                                *)
LEMMA IdleStep ==
    TypeOK /\ PlaceInv /\ IdleInv /\ [Steps]_vars => IdleInv'
<1> SUFFICES ASSUME TypeOK, PlaceInv, IdleInv, [Steps]_vars PROVE IdleInv'
  OBVIOUS
<1> USE DEF userVars, turnVars, taskVars, toolVars, ownerVars, serverVars, speechVars,
            interruptVars
<1>1. ASSUME NotesTurn \/ Buffers \/ RendersOn \/ MayFail \/ TearsDownAnswers
      PROVE  IdleInv'
  <2>1. UNCHANGED <<pc, job>>
    BY <1>1 DEF NotesTurn, Buffers, RendersOn, MayFail, TearsDownAnswers
  <2>2. QED
    BY <2>1 DEF IdleInv
<1>2. ASSUME NEW r \in Reqs, CallsTool(r) \/ SettlesTool(r)
      PROVE  IdleInv'
  <2>1. UNCHANGED <<pc, job>>
    BY <1>2 DEF CallsTool, SettlesTool
  <2>2. QED
    BY <2>1 DEF IdleInv
<1>3. ASSUME NEW t \in Turns, Takes(t)
      PROVE  IdleInv'
  <2>1. UNCHANGED <<pc, job>>
    BY <1>3 DEF Takes
  <2>2. QED
    BY <2>1 DEF IdleInv
<1>4. ASSUME NEW t \in Turns, NEW r \in Reqs, AsksTool(t, r)
      PROVE  IdleInv'
  <2>1. UNCHANGED <<pc, job>>
    BY <1>4 DEF AsksTool
  <2>2. QED
    BY <2>1 DEF IdleInv
<1>5. ASSUME NEW t \in Turns, NEW ev \in Events, Says(t, ev)
      PROVE  IdleInv'
  <2>1. UNCHANGED <<pc, job>>
    BY <1>5 DEF Says
  <2>2. QED
    BY <2>1 DEF IdleInv
<1>6. ASSUME NEW task \in Tasks, AsksTurn(task) PROVE IdleInv'
  BY <1>6, MovesEffect DEF AsksTurn, IdleInv
<1>7. ASSUME NEW task \in Tasks, AsksEnd(task) PROVE IdleInv'
  BY <1>7, MovesEffect DEF AsksEnd, Is, IdleInv
<1>8. ASSUME NEW task \in Tasks, Asks(task) PROVE IdleInv'
  BY <1>8, MovesEffect DEF Asks, Alike, Joins, QueueOK, IdleInv
<1>9. ASSUME NEW task \in Tasks, GivesBack(task) PROVE IdleInv'
  BY <1>9, MovesEffect, NoJobFields
     DEF GivesBack, GiveUp, Frees, QueueOK, IdleInv, PlaceInv, Is
<1>10. ASSUME NEW task \in Tasks, OrdersTurn(task) PROVE IdleInv'
  BY <1>10, MovesEffect DEF OrdersTurn, Alike, IdleInv
<1>11. ASSUME NEW task \in Tasks, TombstonesTurn(task) PROVE IdleInv'
  BY <1>11, MovesEffect DEF TombstonesTurn, Interrupted, IdleInv
<1>12. ASSUME NEW task \in Tasks, Accepted(task) PROVE IdleInv'
  BY <1>12, MovesEffect DEF Accepted, Alike, IdleInv
<1>13. ASSUME NEW task \in Tasks, LateRejects(task) PROVE IdleInv'
  BY <1>13, MovesEffect DEF LateRejects, Starts, Rejecting, IdleInv
<1>14. ASSUME NEW task \in Tasks, LateInterrupts(task) PROVE IdleInv'
  BY <1>14, MovesEffect DEF LateInterrupts, Interrupted, Starts, IdleInv
<1>15. ASSUME NEW task \in Tasks, OwnsRejects(task) PROVE IdleInv'
  BY <1>15, MovesEffect DEF OwnsRejects, Starts, Rejecting, Owns, IdleInv
<1>16. ASSUME NEW task \in Tasks, OwnsReplays(task) PROVE IdleInv'
  BY <1>16, MovesEffect DEF OwnsReplays, Starts, Owns, IdleInv
<1>17. ASSUME NEW task \in Tasks, WritesNext(task) PROVE IdleInv'
  BY <1>17, MovesEffect DEF WritesNext, Writes, IdleInv
<1>18. ASSUME NEW task \in Tasks, WritesOut(task) PROVE IdleInv'
  BY <1>18, MovesEffect, NoJobFields
     DEF WritesOut, Writes, WritesLast, Wrote, Over, Frees, QueueOK, IdleInv, PlaceInv, Is
<1>19. ASSUME NEW task \in Tasks, WritesOn(task) PROVE IdleInv'
  BY <1>19, MovesEffect DEF WritesOn, Interrupted, Writes, WritesLast, Wrote, IdleInv
<1>20. ASSUME NEW task \in Tasks, RefusesTool(task) PROVE IdleInv'
  BY <1>20, MovesEffect DEF RefusesTool, Handles, Event, Left, IdleInv
<1>21. ASSUME NEW task \in Tasks, AdmitsTool(task) PROVE IdleInv'
  <2>1. \E gen, t : Back(task, gen, t)
    BY <1>21 DEF AdmitsTool
  <2>2. pc[task] \in {"idle", "replaying"} \cup Answering
    BY <1>21, EventHandled DEF AdmitsTool
  <2>3. QED
    BY <2>1, <2>2, BackJob, NoJobFields DEF IdleInv, Is
<1>22. ASSUME NEW task \in Tasks, HearsPart(task) PROVE IdleInv'
  <2>1. \E gen, t : Back(task, gen, t)
    BY <1>22 DEF HearsPart
  <2>2. pc[task] \in {"idle", "replaying"} \cup Answering
    BY <1>22, EventHandled DEF HearsPart
  <2>3. QED
    BY <2>1, <2>2, BackJob, NoJobFields DEF IdleInv, Is
<1>23. ASSUME NEW task \in Tasks, PassesEnd(task) PROVE IdleInv'
  <2>1. \E gen, t : Back(task, gen, t)
    BY <1>23 DEF PassesEnd
  <2>2. pc[task] \in {"idle", "replaying"} \cup Answering
    BY <1>23, EventHandled DEF PassesEnd
  <2>3. QED
    BY <2>1, <2>2, BackJob, NoJobFields DEF IdleInv, Is
<1>24. ASSUME NEW task \in Tasks, EndsUnspoken(task) PROVE IdleInv'
  <2>1. \E gen, t : Back(task, gen, t)
    BY <1>24 DEF EndsUnspoken
  <2>2. pc[task] \in {"idle", "replaying"} \cup Answering
    BY <1>24, EventHandled DEF EndsUnspoken, EndsTurn
  <2>3. QED
    BY <2>1, <2>2, BackJob, NoJobFields DEF IdleInv, Is
<1>25. ASSUME NEW task \in Tasks, EndsForNext(task) PROVE IdleInv'
  BY <1>25, MovesEffect DEF EndsForNext, Handles, Event, EndsTurn, Renews, IdleInv
<1>26. ASSUME NEW task \in Tasks, EndsSession(task) PROVE IdleInv'
  BY <1>26, MovesEffect
     DEF EndsSession, Over, Frees, QueueOK, Handles, Event, EndsTurn, IdleInv
<1>27. ASSUME NEW task \in Tasks, EndsForSpeech(task) PROVE IdleInv'
  BY <1>27, MovesEffect DEF EndsForSpeech, Handles, Event, Left, EndsTurn, IdleInv
<1>28. ASSUME NEW task \in Tasks, Retired(task) PROVE IdleInv'
  BY <1>28, MovesEffect DEF Retired, Alike, IdleInv
<1>29. ASSUME NEW task \in Tasks, Submits(task) PROVE IdleInv'
  BY <1>29, MovesEffect DEF Submits, Alike, IdleInv
<1>30. ASSUME NEW task \in Tasks, AnswerOver(task) PROVE IdleInv'
  <2>1. \E gen, t : Back(task, gen, t)
    BY <1>30 DEF AnswerOver
  <2>2. pc[task] \in {"idle", "replaying"} \cup Answering
    BY <1>30, EventHandled DEF AnswerOver, EndsAnswer, Answering
  <2>3. QED
    BY <2>1, <2>2, BackJob, NoJobFields DEF IdleInv, Is
<1>31. ASSUME NEW task \in Tasks, AnswerForNext(task) PROVE IdleInv'
  BY <1>31, MovesEffect DEF AnswerForNext, Renews, EndsAnswer, IdleInv
<1>32. ASSUME NEW task \in Tasks, FailsStart(task) PROVE IdleInv'
  BY <1>32, MovesEffect DEF FailsStart, Rejecting, Over, Frees, QueueOK, IdleInv
<1>33. ASSUME NEW task \in Tasks, Fails(task) PROVE IdleInv'
  BY <1>33, MovesEffect DEF Fails, Over, Frees, QueueOK, Waits, IdleInv
<1>34. ASSUME Overflows PROVE IdleInv'
  BY <1>34, MovesEffect, NoJobFields, Names DEF Overflows, Rejecting, Is, IdleInv
<1>35. ASSUME Expires PROVE IdleInv'
  BY <1>35, MovesEffect, Names DEF Expires, Joins, QueueOK, IdleInv
<1>36. ASSUME WatchdogTombstones PROVE IdleInv'
  BY <1>36, MovesEffect, Names DEF WatchdogTombstones, Interrupted, IdleInv
<1>37. ASSUME WatchdogLeaves PROVE IdleInv'
  BY <1>37, MovesEffect, NoJobFields, Names
     DEF WatchdogLeaves, GiveUp, Frees, QueueOK, IdleInv, PlaceInv, Is
<1>38. ASSUME TearsDown PROVE IdleInv'
  BY <1>38, PlaceFacts DEF TearsDown, IdleInv
<1>39. ASSUME TearsDownLocks PROVE IdleInv'
  BY <1>39, MovesEffect, Names DEF TearsDownLocks, Joins, QueueOK, IdleInv
<1>40. ASSUME ShutdownTombstones PROVE IdleInv'
  BY <1>40, MovesEffect, Names DEF ShutdownTombstones, Interrupted, IdleInv
<1>41. ASSUME Ends PROVE IdleInv'
  BY <1>41, PlaceFacts DEF Ends, IdleInv
<1>42. CASE UNCHANGED vars
  BY <1>42 DEF vars, IdleInv
<1> QED
  BY <1>1, <1>2, <1>3, <1>4, <1>5, <1>6, <1>7, <1>8, <1>9, <1>10, <1>11, <1>12, <1>13,
     <1>14, <1>15, <1>16, <1>17, <1>18, <1>19, <1>20, <1>21, <1>22, <1>23, <1>24, <1>25,
     <1>26, <1>27, <1>28, <1>29, <1>30, <1>31, <1>32, <1>33, <1>34, <1>35, <1>36, <1>37,
     <1>38, <1>39, <1>40, <1>41, <1>42
     DEF Steps

-----------------------------------------------------------------------------
(* Every step of Next is of one of the kinds.                              *)

LEMMA GoesMoves ==
    ASSUME TypeOK, NEW task \in Tasks, NEW there, NEW j \in Jobs, Goes(task, there, j)
    PROVE  Moves(task, there) /\ job'[task] = j
<1>1. job'[task] = j /\ job' = [job EXCEPT ![task] = j]
  BY JobShape DEF Goes
<1>2. QED
  BY <1>1 DEF Moves, Goes

LEMMA LeaveFrees ==
    ASSUME TypeOK, NEW task \in Tasks, Holds(task), lockQueue' = Tail(lockQueue)
    PROVE  Frees(task)
<1>1. /\ lockQueue \in Seq(Tasks) /\ IsInjective(lockQueue) /\ lockQueue # <<>>
      /\ Head(lockQueue) = task
  BY DEF TypeOK, Holds
<1>2. /\ Tail(lockQueue) \in Seq(Tasks) /\ IsInjective(Tail(lockQueue))
      /\ ToSet(lockQueue) = ToSet(Tail(lockQueue)) \cup {task}
      /\ task \notin ToSet(Tail(lockQueue))
  BY <1>1, TailSet, TailOnce
<1>3. \A other \in Tasks \ {task} : ~Holds(other)
  BY <1>1 DEF Holds
<1>4. QED
  BY <1>2, <1>3 DEF Frees, QueueOK

LEMMA WithoutFrees ==
    ASSUME TypeOK, NEW task \in Tasks, lockQueue' = Without(task)
    PROVE  Frees(task)
<1>1. lockQueue \in Seq(Tasks) /\ IsInjective(lockQueue)
  BY DEF TypeOK
<1> DEFINE rest == Dropping(lockQueue, {task})
<1>2. /\ rest \in Seq(Tasks) /\ IsInjective(rest) /\ ToSet(rest) = ToSet(lockQueue) \ {task}
      /\ lockQueue # <<>> /\ Head(lockQueue) \notin {task} =>
            rest # <<>> /\ Head(rest) = Head(lockQueue)
  <2>1. \A gone : /\ Dropping(lockQueue, gone) \in Seq(Tasks)
                  /\ ToSet(Dropping(lockQueue, gone)) = ToSet(lockQueue) \ gone
                  /\ IsInjective(Dropping(lockQueue, gone))
                  /\ lockQueue # <<>> /\ Head(lockQueue) \notin gone =>
                        /\ Dropping(lockQueue, gone) # <<>>
                        /\ Head(Dropping(lockQueue, gone)) = Head(lockQueue)
    BY <1>1, DroppingKeeps
  <2>2. QED
    BY <2>1
<1> HIDE DEF rest
<1>3. lockQueue' = rest
  BY DEF Without, rest
<1>4. \A other \in Tasks \ {task} : Holds(other) => Holds(other)'
  BY <1>2, <1>3 DEF Holds
<1>5. QED
  BY <1>2, <1>3, <1>4 DEF Frees, QueueOK

LEMMA AppendJoins ==
    ASSUME TypeOK, LockInv, NEW task \in Tasks, pc[task] \in {"idle", "enter"},
           lockQueue' = Append(lockQueue, task)
    PROVE  Joins(task)
<1>1. lockQueue \in Seq(Tasks) /\ IsInjective(lockQueue)
  BY DEF TypeOK
<1>2. task \notin ToSet(lockQueue)
  BY DEF LockInv, InLock, Answering
<1>3. /\ lockQueue' \in Seq(Tasks) /\ IsInjective(lockQueue') /\ lockQueue' # <<>>
      /\ ToSet(lockQueue') = ToSet(lockQueue) \cup {task}
      /\ Head(lockQueue') = IF lockQueue = <<>> THEN task ELSE Head(lockQueue)
  BY <1>1, <1>2, AppendSet, JoinsOnce
<1>4. \A other \in Tasks : Holds(other) => Holds(other)'
  BY <1>3 DEF Holds
<1>5. QED
  BY <1>3, <1>4 DEF Joins, QueueOK

(* The jobs the procedures make.                                           *)
LEMMA StartingJob ==
    ASSUME NEW gen \in Nat
    PROVE  Starting(gen) \in Jobs /\ Is(Starting(gen), "start", gen, None, <<>>, <<>>, "idle", 0)
<1>1. Starting(gen) \in Jobs
  BY NoJobFields DEF Starting, Jobs
<1>2. QED
  BY <1>1 DEF Starting, NoJob, Is

LEMMA InterruptingJob ==
    ASSUME TypeOK, NEW binds \in SUBSET UserTurns
    PROVE  /\ Interrupting(binds) \in Jobs
           /\ Is(Interrupting(binds), "interrupt", owner.gen, owner.turn, <<>>, <<>>, "idle",
                 generation + 1)
<1>1. owner.turn \in Turns \cup {None} /\ owner.gen \in Nat /\ generation + 1 \in Nat
  BY Shapes
<1>2. Interrupting(binds) \in Jobs
  BY <1>1, NoJobFields DEF Interrupting, Jobs
<1>3. QED
  BY <1>2 DEF Interrupting, NoJob, Is

LEMMA RejectJob ==
    ASSUME NEW j \in Jobs, NEW requests \in Seq(Reqs), NEW k, k = [j EXCEPT !.reject = requests]
    PROVE  /\ k \in Jobs /\ Is(k, j.does, j.gen, j.turn, requests, j.todo, j.after, j.next)
           /\ k.said = j.said
<1>1. k \in Jobs
  BY DEF Jobs
<1>2. QED
  BY <1>1 DEF Jobs, Is

LEMMA TurnJob ==
    ASSUME NEW j \in Jobs, NEW t \in Turns \cup {None}, NEW k, k = [j EXCEPT !.turn = t]
    PROVE  k \in Jobs /\ Is(k, j.does, j.gen, t, j.reject, j.todo, j.after, j.next)
<1>1. k \in Jobs
  BY DEF Jobs
<1>2. QED
  BY <1>1 DEF Jobs, Is

LEMMA TodoJob ==
    ASSUME NEW j \in Jobs, NEW todo \in Seq(Events), NEW k, k = [j EXCEPT !.todo = todo]
    PROVE  /\ k \in Jobs /\ Is(k, j.does, j.gen, j.turn, j.reject, todo, j.after, j.next)
           /\ k.said = j.said
<1>1. k \in Jobs
  BY DEF Jobs
<1>2. QED
  BY <1>1 DEF Jobs, Is

LEMMA OverJob ==
    ASSUME NEW j \in Jobs, NEW k, k = [j EXCEPT !.next = 0, !.said = {}]
    PROVE  k \in Jobs /\ Is(k, j.does, j.gen, j.turn, j.reject, j.todo, j.after, 0)
<1>1. k \in Jobs
  BY DEF Jobs
<1>2. QED
  BY <1>1 DEF Jobs, Is

LEMMA LateJob ==
    ASSUME NEW j \in Jobs, NEW t \in Turns, NEW after \in {"stale", "replaying"},
           NEW todo \in Seq(Events)
    PROVE  /\ \A k : k = [j EXCEPT !.turn = t, !.after = after] =>
                 k \in Jobs /\ Is(k, j.does, j.gen, t, j.reject, j.todo, after, j.next)
           /\ \A k : k = [j EXCEPT !.turn = t, !.after = after, !.todo = todo] =>
                 k \in Jobs /\ Is(k, j.does, j.gen, t, j.reject, todo, after, j.next)
<1>1. ASSUME NEW k, k = [j EXCEPT !.turn = t, !.after = after]
      PROVE  k \in Jobs /\ Is(k, j.does, j.gen, t, j.reject, j.todo, after, j.next)
  <2>1. k \in Jobs
    BY <1>1 DEF Jobs
  <2>2. QED
    BY <1>1, <2>1 DEF Jobs, Is
<1>2. ASSUME NEW k, k = [j EXCEPT !.turn = t, !.after = after, !.todo = todo]
      PROVE  k \in Jobs /\ Is(k, j.does, j.gen, t, j.reject, todo, after, j.next)
  <2>1. k \in Jobs
    BY <1>2 DEF Jobs
  <2>2. QED
    BY <1>2, <2>1 DEF Jobs, Is
<1>3. QED
  BY <1>1, <1>2

LEMMA OutJob ==
    ASSUME NEW j, j = [NoJob EXCEPT !.after = "over"]
    PROVE  j \in Jobs /\ Is(j, "nothing", 0, None, <<>>, <<>>, "over", 0)
<1>1. j \in Jobs
  BY NoJobFields DEF Jobs
<1>2. QED
  BY <1>1 DEF NoJob, Is

LEMMA LeavesGivesUp ==
    ASSUME TypeOK, NEW task \in Tasks, Holds(task), Leaves(task)
    PROVE  /\ GiveUp(task) /\ userGen' \in [UserTurns -> Nat]
           /\ failure' \in BOOLEAN /\ (failure => failure')
<1>1. Goes(task, "idle", NoJob) /\ lockQueue' = Tail(lockQueue)
  BY DEF Leaves, Returns
<1>2. Moves(task, "idle") /\ job'[task] = NoJob
  BY <1>1, GoesMoves, NoJobFields
<1>3. GiveUp(task)
  BY <1>1, <1>2, LeaveFrees DEF GiveUp
<1>4. /\ userGen' = [u \in UserTurns |->
                       IF u \in job[task].binds THEN job[task].next ELSE userGen[u]]
      /\ failure' = (failure \/ (/\ task = "receive" /\ job[task].does = "interrupt"
                                 /\ ~Continuation))
  BY DEF Leaves, Returns
<1>5. job[task].next \in Nat /\ userGen \in [UserTurns -> Nat] /\ failure \in BOOLEAN
  BY DEF TypeOK, Jobs
<1>6. userGen' \in [UserTurns -> Nat]
  BY <1>4, <1>5
<1>7. failure' \in BOOLEAN /\ (failure => failure')
  BY <1>4, <1>5
<1>8. QED
  BY <1>3, <1>6, <1>7

(* The first request of a list is being rejected, or the list is empty.    *)
LEMMA RejectsMore ==
    ASSUME TypeOK, NEW task \in Tasks, NEW requests \in Seq(Reqs), NEW known, NEW j \in Jobs,
           Rejects(task, requests, known, j), requests # <<>>
    PROVE  /\ Moves(task, "rejecting")
           /\ Is(job'[task], j.does, j.gen, j.turn, requests, j.todo, j.after, j.next)
           /\ tool' = [known EXCEPT ![Head(requests)] = "rejecting"]
           /\ running' = None /\ UNCHANGED <<lockQueue, interruptedFor>>
<1> DEFINE k == [j EXCEPT !.reject = requests]
<1>1. k \in Jobs /\ Is(k, j.does, j.gen, j.turn, requests, j.todo, j.after, j.next)
  BY RejectJob
<1>2. Goes(task, "rejecting", k)
  BY DEF Rejects
<1> HIDE DEF k
<1>3. Moves(task, "rejecting") /\ job'[task] = k
  BY <1>1, <1>2, GoesMoves
<1>4. /\ tool' = [known EXCEPT ![Head(requests)] = "rejecting"]
      /\ running' = None /\ UNCHANGED <<lockQueue, interruptedFor>>
  BY DEF Rejects
<1>5. QED
  BY <1>1, <1>3, <1>4

LEMMA RejectsNone ==
    ASSUME TypeOK, NEW task \in Tasks, NEW known, NEW j \in Jobs,
           Rejects(task, <<>>, known, j)
    PROVE  /\ tool' = known /\ Moves(task, j.after)
           /\ running' = IF j.after = "replaying" THEN task ELSE None
           /\ j.after \in {"idle", "over"} => job'[task] = NoJob
           /\ j.after \in {"stale", "replaying"} =>
                 Is(job'[task], j.does, j.gen, j.turn, <<>>, j.todo, j.after, j.next)
           /\ lockQueue' = IF j.after = "over" THEN Without(task) ELSE lockQueue
           /\ IF j.after = "stale" THEN Interrupted(j.turn, "stale") ELSE UNCHANGED interruptedFor
<1> DEFINE k == [j EXCEPT !.reject = <<>>]
<1>1. k \in Jobs /\ Is(k, j.does, j.gen, j.turn, <<>>, j.todo, j.after, j.next)
  <2>1. <<>> \in Seq(Reqs)
    OBVIOUS
  <2>2. QED
    BY <2>1, RejectJob
<1>2. /\ j.after \in {"idle", "over"} => Goes(task, j.after, NoJob)
      /\ j.after \notin {"idle", "over"} => Goes(task, j.after, k)
  BY DEF Rejects
<1>3. /\ tool' = known
      /\ running' = IF j.after = "replaying" THEN task ELSE None
      /\ lockQueue' = IF j.after = "over" THEN Without(task) ELSE lockQueue
      /\ IF j.after = "stale" THEN Interrupted(j.turn, "stale") ELSE UNCHANGED interruptedFor
  BY DEF Rejects
<1> HIDE DEF k
<1>4. /\ Moves(task, j.after)
      /\ job'[task] = IF j.after \in {"idle", "over"} THEN NoJob ELSE k
  BY <1>1, <1>2, GoesMoves, NoJobFields
<1>5. QED
  BY <1>1, <1>3, <1>4

-----------------------------------------------------------------------------
(* The user's steps.                                                       *)
LEMMA UserKinds ==
    ASSUME TypeOK, UserStep
    PROVE  \/ \E task \in {"receive", "data"} : AsksTurn(task) \/ AsksEnd(task)
           \/ NotesTurn
<1> USE DEF userVars, turnVars, taskVars, toolVars, ownerVars, serverVars, speechVars,
            interruptVars
<1>1. "receive" \in Tasks /\ "data" \in Tasks /\ generation \in Nat /\ generation + 1 \in Nat
      /\ userGen \in [UserTurns -> Nat] /\ claimed \subseteq UserTurns
      /\ user \in [pending : Nat, handled : BOOLEAN]
  BY DEF TypeOK, Tasks
<1>2. CASE UserText
  <2>1. Goes("receive", "enter", Starting(generation + 1)) /\ generation' = generation + 1
    BY <1>2 DEF UserText, NewGeneration
  <2>2. /\ Moves("receive", "enter")
        /\ Is(job'["receive"], "start", generation', None, <<>>, <<>>, "idle", 0)
    BY <2>1, <1>1, StartingJob, GoesMoves
  <2>3. user' \in [pending : Nat, handled : {TRUE}] /\ requested' = generation'
    BY <1>2, <2>1 DEF UserText
  <2>4. AsksTurn("receive")
    BY <1>1, <1>2, <2>1, <2>2, <2>3 DEF UserText, AsksTurn, Ready
  <2>5. QED
    BY <2>4
<1>3. CASE UserInterrupt
  <2>1. Goes("receive", "enter", Interrupting({})) /\ generation' = generation + 1
    BY <1>3 DEF UserInterrupt, NewGeneration
  <2>2. /\ Moves("receive", "enter")
        /\ Is(job'["receive"], "interrupt", owner.gen, owner.turn, <<>>, <<>>, "idle",
              generation')
    BY <2>1, <1>1, InterruptingJob, GoesMoves
  <2>3. user' \in [pending : Nat, handled : BOOLEAN] /\ claimed' \subseteq UserTurns
    BY <1>1, <1>3 DEF UserInterrupt
  <2>4. AsksEnd("receive")
    BY <1>1, <1>3, <2>1, <2>2, <2>3 DEF UserInterrupt, AsksEnd, Ready
  <2>5. QED
    BY <2>4
<1>4. CASE SpeechStarted
  <2>1. Goes("data", "enter", Interrupting({})) /\ generation' = generation + 1
    BY <1>4 DEF SpeechStarted, NewGeneration
  <2>2. /\ Moves("data", "enter")
        /\ Is(job'["data"], "interrupt", owner.gen, owner.turn, <<>>, <<>>, "idle", generation')
    BY <2>1, <1>1, InterruptingJob, GoesMoves
  <2>3. user' \in [pending : Nat, handled : BOOLEAN] /\ claimed' \subseteq UserTurns
    BY <1>1, <1>4 DEF SpeechStarted
  <2>4. AsksEnd("data")
    BY <1>1, <1>4, <2>1, <2>2, <2>3 DEF SpeechStarted, AsksEnd, Ready
  <2>5. QED
    BY <2>4
<1>5. CASE \E u \in UserTurns : UserTurnCreated(u)
  <2>1. PICK u \in UserTurns : UserTurnCreated(u)
    BY <1>5
  <2>2. CASE /\ user.pending # 0 /\ user.pending = generation
             /\ userGen' = [userGen EXCEPT ![u] = generation]
             /\ user' = [user EXCEPT !.pending = 0]
             /\ UNCHANGED <<generation, pc, job>>
    <3>1. /\ user' \in [pending : Nat, handled : BOOLEAN] /\ user'.handled = user.handled
          /\ userGen' \in [UserTurns -> Nat]
      BY <1>1, <2>2
    <3>2. claimed' \subseteq UserTurns
      BY <1>1, <2>1 DEF UserTurnCreated
    <3>3. NotesTurn
      BY <2>1, <2>2, <3>1, <3>2 DEF UserTurnCreated, NotesTurn
    <3>4. QED
      BY <3>3
  <2>3. CASE /\ NewGeneration /\ user' = [user EXCEPT !.handled = FALSE]
             /\ Goes("data", "enter", Interrupting({u})) /\ UNCHANGED userGen
    <3>1. generation' = generation + 1
      BY <2>3 DEF NewGeneration
    <3>2. /\ Moves("data", "enter")
          /\ Is(job'["data"], "interrupt", owner.gen, owner.turn, <<>>, <<>>, "idle", generation')
      BY <2>3, <3>1, <1>1, InterruptingJob, GoesMoves
    <3>3. user' \in [pending : Nat, handled : BOOLEAN]
      BY <1>1, <2>3
    <3>4. claimed' \subseteq UserTurns
      BY <1>1, <2>1 DEF UserTurnCreated
    <3>5. AsksEnd("data")
      BY <1>1, <2>1, <2>3, <3>1, <3>2, <3>3, <3>4 DEF UserTurnCreated, AsksEnd, Ready
    <3>6. QED
      BY <3>5
  <2>4. QED
    BY <2>1, <2>2, <2>3 DEF UserTurnCreated
<1>6. CASE \E u \in UserTurns : UserTurnDone(u)
  <2>1. PICK u \in UserTurns : UserTurnDone(u)
    BY <1>6
  <2>2. /\ userGen[u] # 0 /\ userGen' \in [UserTurns -> Nat] /\ generation' = generation
        /\ Ready("data") /\ claimed' = claimed
        /\ UNCHANGED <<turnVars, lockQueue, running, toolVars, ownerVars, serverVars,
                       speechVars, interruptVars>>
    BY <1>1, <2>1 DEF UserTurnDone
  <2>3. CASE /\ userGen[u] = generation /\ ~user.handled /\ user' = [user EXCEPT !.handled = TRUE]
             /\ requested' = generation /\ Goes("data", "enter", Starting(generation))
    <3>1. /\ Moves("data", "enter") /\ user' \in [pending : Nat, handled : {TRUE}]
          /\ Is(job'["data"], "start", generation', None, <<>>, <<>>, "idle", 0)
      BY <2>2, <2>3, <1>1, StartingJob, GoesMoves
    <3>2. AsksTurn("data")
      BY <1>1, <2>2, <2>3, <3>1 DEF AsksTurn, Ready
    <3>3. QED
      BY <3>2
  <2>4. CASE /\ user' \in {user, [user EXCEPT !.handled = TRUE]}
             /\ UNCHANGED <<requested, pc, job>>
    <3>1. NotesTurn
      BY <1>1, <2>2, <2>4 DEF NotesTurn
    <3>2. QED
      BY <3>1
  <2>5. QED
    BY <2>1, <2>3, <2>4 DEF UserTurnDone
<1>7. QED
  BY <1>2, <1>3, <1>4, <1>5, <1>6 DEF UserStep

-----------------------------------------------------------------------------
(* start_background_turn and interrupt_active_background_turn.             *)
LEMMA GivesBackWhen ==
    ASSUME TypeOK, PlaceInv, LockInv, NEW task \in {"receive", "data", "exec"},
           pc[task] \in {"locking", "terminal", "stale", "replaying"},
           running \in {None, task}, running = task <=> pc[task] = "replaying",
           Holds(task), Leaves(task), job[task].todo = <<>>, running' = None,
           queued' \in {queued, generation},
           queued' # queued => /\ pc[task] = "locking" /\ job[task].does = "start"
                               /\ job[task].gen = generation /\ owner.turn # None,
           \/ queued' = generation /\ pc[task] = "locking"
           \/ Wants(task) # generation \/ Wants(task) = 0,
           UNCHANGED <<generation, user, claimed, requested, owner, finished, starting, early,
                       heard, toolVars, phase, serverVars, speechVars, interruptVars>>
    PROVE  GivesBack(task)
<1>1. task \in Tasks
  BY DEF Tasks
<1>2. /\ GiveUp(task) /\ userGen' \in [UserTurns -> Nat]
      /\ failure' \in BOOLEAN /\ (failure => failure')
  BY <1>1, LeavesGivesUp
<1>3. Wants(task) \in Nat
  BY <1>1, WantsFacts
<1>4. QED
  BY <1>1, <1>2, <1>3 DEF GivesBack

LEMMA TombstonesWhen ==
    ASSUME TypeOK, NEW task \in Tasks, Tombstones(task)
    PROVE  /\ Moves(task, "tombstoned")
           /\ Is(job'[task], job[task].does, job[task].gen, owner.turn, job[task].reject,
                 job[task].todo, job[task].after, job[task].next)
           /\ owner' = [owner EXCEPT !.interrupting = TRUE]
           /\ Interrupted(owner.turn, "barge")
<1> DEFINE k == [job[task] EXCEPT !.turn = owner.turn]
<1>1. job[task] \in Jobs /\ owner.turn \in Turns \cup {None}
  BY JobShape, Shapes
<1>2. /\ k \in Jobs
      /\ Is(k, job[task].does, job[task].gen, owner.turn, job[task].reject, job[task].todo,
            job[task].after, job[task].next)
  BY <1>1, TurnJob
<1>3. Goes(task, "tombstoned", k)
  BY DEF Tombstones
<1> HIDE DEF k
<1>4. Moves(task, "tombstoned") /\ job'[task] = k
  BY <1>2, <1>3, GoesMoves
<1>5. QED
  BY <1>2, <1>4 DEF Tombstones

LEMMA SameJob ==
    ASSUME TypeOK, NEW task \in Tasks, NEW there, Goes(task, there, job[task])
    PROVE  Moves(task, there) /\ job'[task] = job[task] /\ Alike(job'[task], job[task])
<1>1. job[task] \in Jobs
  BY JobShape
<1>2. Moves(task, there) /\ job'[task] = job[task]
  BY <1>1, GoesMoves
<1>3. QED
  BY <1>2 DEF Alike, Is

LEMMA AsksKind ==
    ASSUME TypeOK, PlaceInv, LockInv, NEW task \in Tasks, Enter(task)
    PROVE  Asks(task)
<1>1. pc[task] = "enter" /\ running = None /\ lockQueue' = Append(lockQueue, task)
      /\ Goes(task, "locking", job[task])
  BY DEF Enter, At
<1>2. task \in {"receive", "data", "exec"}
  BY <1>1, PlaceFacts
<1>3. Joins(task) /\ Moves(task, "locking") /\ Alike(job'[task], job[task])
  BY <1>1, AppendJoins, SameJob
<1>4. QED
  BY <1>1, <1>2, <1>3 DEF Enter, Asks

LEMMA StartTurnKinds ==
    ASSUME TypeOK, PlaceInv, LockInv, NEW task \in Tasks, StartTurn(task)
    PROVE  GivesBack(task) \/ TombstonesTurn(task) \/ OrdersTurn(task)
<1> USE DEF userVars, turnVars, taskVars, toolVars, ownerVars, serverVars, speechVars,
            interruptVars
<1>1. pc[task] = "locking" /\ running = None /\ Holds(task) /\ job[task].does = "start"
      /\ UNCHANGED <<generation, user, claimed, requested, running, toolVars, phase, reply,
                     turnState, parts, asked, inbox, speechVars, startedFor>>
  BY DEF StartTurn, At
<1>2. /\ task \in {"receive", "data", "exec"} /\ task # None
      /\ job[task].todo = <<>> /\ Wants(task) = job[task].gen
  <2>1. Fits(task, pc[task], job[task])
    BY DEF PlaceInv
  <2>2. task \in {"receive", "data", "exec"}
    BY <1>1, <2>1 DEF Fits, Tasks
  <2>3. QED
    BY <1>1, <2>2, PlaceFacts, WantsFacts, Names
<1>3. CASE /\ job[task].gen # generation /\ Leaves(task)
           /\ UNCHANGED <<turnVars, interruptedFor, ordered>>
  <2>1. GivesBack(task)
    BY <1>1, <1>2, <1>3, GivesBackWhen
  <2>2. QED
    BY <2>1
<1>4. CASE /\ job[task].gen = generation /\ owner.turn # None /\ ~Interruptible
           /\ queued' = generation /\ Leaves(task)
           /\ UNCHANGED <<owner, finished, starting, early, heard, interruptedFor, ordered>>
  <2>1. GivesBack(task)
    BY <1>1, <1>2, <1>4, GivesBackWhen
  <2>2. QED
    BY <2>1
<1>5. CASE /\ job[task].gen = generation /\ owner.turn # None /\ Interruptible
           /\ Tombstones(task)
           /\ UNCHANGED <<userGen, finished, starting, early, heard, queued, lockQueue,
                          ordered, failure>>
  <2>1. /\ Moves(task, "tombstoned")
        /\ Is(job'[task], job[task].does, job[task].gen, owner.turn, job[task].reject,
              job[task].todo, job[task].after, job[task].next)
        /\ owner' = [owner EXCEPT !.interrupting = TRUE] /\ Interrupted(owner.turn, "barge")
    BY <1>5, TombstonesWhen
  <2>2. TombstonesTurn(task)
    BY <1>1, <1>2, <1>5, <2>1 DEF TombstonesTurn, Interruptible
  <2>3. QED
    BY <2>2
<1>6. CASE /\ job[task].gen = generation /\ owner.turn = None /\ Orders(task)
           /\ UNCHANGED <<userGen, owner, finished, lockQueue, interruptedFor, failure>>
  <2>1. Moves(task, "starting") /\ Alike(job'[task], job[task])
    BY <1>6, SameJob DEF Orders
  <2>2. OrdersTurn(task)
    BY <1>1, <1>2, <1>6, <2>1 DEF OrdersTurn, Orders
  <2>3. QED
    BY <2>2
<1>7. QED
  BY <1>3, <1>4, <1>5, <1>6 DEF StartTurn

LEMMA InterruptTurnKinds ==
    ASSUME TypeOK, PlaceInv, LockInv, NEW task \in Tasks, InterruptTurn(task)
    PROVE  GivesBack(task) \/ TombstonesTurn(task)
<1> USE DEF userVars, turnVars, taskVars, toolVars, ownerVars, serverVars, speechVars,
            interruptVars
<1>1. pc[task] = "locking" /\ running = None /\ Holds(task) /\ job[task].does = "interrupt"
      /\ task \in {"receive", "data"}
      /\ UNCHANGED <<generation, user, claimed, requested, finished, starting, early, heard,
                     queued, running, toolVars, phase, serverVars, speechVars, startedFor>>
  BY DEF InterruptTurn, At
<1>2. /\ task \in {"receive", "data", "exec"} /\ task # None
      /\ job[task].todo = <<>> /\ Wants(task) = 0
  BY <1>1, PlaceFacts, WantsFacts, Names
<1>3. CASE owner.turn # None /\ Interruptible /\ Tombstones(task)
           /\ UNCHANGED <<userGen, lockQueue, failure>>
  <2>1. /\ Moves(task, "tombstoned")
        /\ Is(job'[task], job[task].does, job[task].gen, owner.turn, job[task].reject,
              job[task].todo, job[task].after, job[task].next)
        /\ owner' = [owner EXCEPT !.interrupting = TRUE] /\ Interrupted(owner.turn, "barge")
    BY <1>3, TombstonesWhen
  <2>2. TombstonesTurn(task)
    BY <1>1, <1>2, <1>3, <2>1 DEF TombstonesTurn, Interruptible
  <2>3. QED
    BY <2>2
<1>4. CASE Leaves(task) /\ UNCHANGED <<owner, interruptedFor>>
  <2>1. GivesBack(task)
    BY <1>1, <1>2, <1>4, GivesBackWhen
  <2>2. QED
    BY <2>1
<1>5. QED
  BY <1>3, <1>4 DEF InterruptTurn

LEMMA TerminalSeenKinds ==
    ASSUME TypeOK, PlaceInv, LockInv, StartInv, OwnerInv, NEW task \in Tasks,
           TerminalSeen(task)
    PROVE  GivesBack(task) \/ OrdersTurn(task)
<1> USE DEF userVars, turnVars, taskVars, toolVars, ownerVars, serverVars, speechVars,
            interruptVars
<1>1. /\ pc[task] = "terminal" /\ running = None /\ task \in {"receive", "data", "exec"}
      /\ UNCHANGED <<generation, user, claimed, requested, owner, finished, running, toolVars,
                     phase, reply, turnState, parts, asked, inbox, speechVars, interruptVars>>
  BY DEF TerminalSeen, At
<1>2. /\ task # None /\ job[task].todo = <<>> /\ Holds(task)
      /\ Wants(task) = IF job[task].does = "start" THEN job[task].gen ELSE 0
  BY <1>1, PlaceFacts, WantsFacts DEF LockInv, InLock
<1>3. CASE /\ job[task].does = "start" /\ job[task].gen = generation
           /\ Orders(task) /\ UNCHANGED <<userGen, lockQueue, failure>>
  <2>1. owner.turn = None
    BY <1>1 DEF StartInv, OwnerInv, TerminalSeen
  <2>2. Moves(task, "starting") /\ Alike(job'[task], job[task])
    BY <1>3, SameJob DEF Orders
  <2>3. OrdersTurn(task)
    BY <1>1, <1>2, <1>3, <2>1, <2>2 DEF OrdersTurn, Orders
  <2>4. QED
    BY <2>3
<1>4. CASE /\ ~(job[task].does = "start" /\ job[task].gen = generation)
           /\ Leaves(task) /\ UNCHANGED <<heard, queued, starting, early, ordered>>
  <2>1. Wants(task) # generation \/ Wants(task) = 0
    BY <1>2, <1>4
  <2>2. GivesBack(task)
    BY <1>1, <1>2, <1>4, <2>1, GivesBackWhen
  <2>3. QED
    BY <2>2
<1>5. QED
  BY <1>3, <1>4 DEF TerminalSeen

LEMMA StaleKind ==
    ASSUME TypeOK, PlaceInv, LockInv, NEW task \in Tasks, StaleInterrupted(task)
    PROVE  GivesBack(task)
<1> USE DEF userVars, turnVars, taskVars, toolVars, ownerVars, serverVars, speechVars,
            interruptVars
<1>1. pc[task] = "stale" /\ running = None /\ Leaves(task)
      /\ UNCHANGED <<generation, user, claimed, requested, turnVars, running, toolVars, phase,
                     serverVars, speechVars, interruptVars>>
  BY DEF StaleInterrupted, At
<1>2. job[task].todo = <<>>
  BY <1>1, PlaceFacts DEF PlaceInv, Fits
<1>3. /\ task # None /\ Holds(task) /\ Wants(task) = 0 /\ task \in {"receive", "data", "exec"}
  BY <1>1, PlaceFacts, WantsFacts DEF LockInv, InLock
<1>4. QED
  BY <1>1, <1>2, <1>3, GivesBackWhen

LEMMA RequestsOf ==
    ASSUME NEW q \in Seq(Events)
    PROVE  Requests(q) \in Seq(Reqs) /\ ToSet(Requests(q)) = ReqsOf(ToSet(q))
<1> DEFINE other == {ev \in ToSet(q) : ev.kind # "tool"}
           tools == Dropping(q, other)
           reqs == [i \in DOMAIN tools |-> tools[i].what]
<1>1. tools \in Seq(Events) /\ ToSet(tools) = ToSet(q) \ other
  <2>1. \A gone : Dropping(q, gone) \in Seq(Events) /\ ToSet(Dropping(q, gone)) = ToSet(q) \ gone
    BY DroppingKeeps
  <2>2. QED
    BY <2>1
<1>2. ToSet(tools) = {ev \in ToSet(q) : ev.kind = "tool"}
  BY <1>1
<1>3. Requests(q) = reqs
  BY DEF Requests
<1> HIDE DEF tools, other
<1>4. Len(tools) \in Nat /\ DOMAIN tools = 1 .. Len(tools)
  BY <1>1
<1>5. \A i \in 1 .. Len(tools) : tools[i] \in ToSet(tools)
  BY <1>4 DEF ToSet
<1>6. \A i \in 1 .. Len(tools) : tools[i] \in Events /\ tools[i].kind = "tool"
  BY <1>1, <1>2, <1>5
<1>7. \A i \in 1 .. Len(tools) : reqs[i] \in Reqs
  BY <1>4, <1>6, EventFields
<1>8. reqs = [i \in 1 .. Len(tools) |-> tools[i].what]
  BY <1>4
<1>9. reqs \in Seq(Reqs) /\ DOMAIN reqs = 1 .. Len(tools)
  BY <1>4, <1>7, <1>8
<1>10. ToSet(reqs) = {reqs[i] : i \in 1 .. Len(tools)}
  BY <1>9 DEF ToSet
<1>11. ToSet(tools) = {tools[i] : i \in 1 .. Len(tools)}
  BY <1>4 DEF ToSet
<1>12. \A r : r \in ToSet(reqs) <=> \E ev \in ToSet(tools) : r = ev.what
  BY <1>8, <1>10, <1>11
<1>13. \A r : r \in ReqsOf(ToSet(q)) <=> \E ev \in ToSet(tools) : r = ev.what
  BY <1>2 DEF ReqsOf
<1>14. QED
  BY <1>3, <1>9, <1>12, <1>13

LEMMA AcceptedKind ==
    ASSUME TypeOK, NEW task \in Tasks, InterruptAccepted(task)
    PROVE  Accepted(task)
<1>1. Goes(task, "terminal", job[task])
  BY DEF InterruptAccepted
<1>2. Moves(task, "terminal") /\ Alike(job'[task], job[task])
  BY <1>1, SameJob
<1>3. QED
  BY <1>2 DEF InterruptAccepted, Accepted, At

(* The events buffered for the turn and for other turns are those that     *)
(* were early.                                                             *)
LEMMA BufferedParts ==
    ASSUME TypeOK, NEW t \in Turns
    PROVE  /\ BufferedFor(t) \in Seq(Events) /\ BufferedForeign(t) \in Seq(Events)
           /\ ToSet(BufferedFor(t)) \subseteq ToSet(early)
           /\ ToSet(early) = ToSet(BufferedForeign(t)) \cup ToSet(BufferedFor(t))
<1>1. early \in Seq(Events)
  BY DEF TypeOK
<1>2. \A gone : /\ Dropping(early, gone) \in Seq(Events)
                /\ ToSet(Dropping(early, gone)) = ToSet(early) \ gone
  BY <1>1, DroppingKeeps
<1>3. /\ BufferedFor(t) \in Seq(Events)
      /\ ToSet(BufferedFor(t)) = ToSet(early) \ {ev \in ToSet(early) : ev.turn # t}
  BY <1>2 DEF BufferedFor
<1>4. /\ BufferedForeign(t) \in Seq(Events)
      /\ ToSet(BufferedForeign(t)) = ToSet(early) \ {ev \in ToSet(early) : ev.turn = t}
  BY <1>2 DEF BufferedForeign
<1>5. QED
  BY <1>3, <1>4

LEMMA TurnStartedKinds ==
    ASSUME TypeOK, PlaceInv, LockInv, NEW task \in Tasks, TurnStarted(task)
    PROVE  LateRejects(task) \/ LateInterrupts(task) \/ OwnsRejects(task) \/ OwnsReplays(task)
<1> USE DEF userVars, turnVars, taskVars, toolVars, ownerVars, serverVars, speechVars,
            interruptVars
<1>1. /\ pc[task] = "starting" /\ running = None /\ reply \in Turns /\ reply # None
      /\ reply' = None /\ starting' = FALSE /\ early' = <<>>
      /\ startedFor' = [startedFor EXCEPT ![reply] = job[task].gen]
  BY Shapes DEF TurnStarted, At
<1>2. /\ UNCHANGED <<generation, userVars, finished, heard, queued, failedClosed, crossed,
                     ownerVars, ordered, turnState, parts, asked, inbox, speechVars>>
  BY DEF TurnStarted
<1>3. job[task] \in Jobs /\ job[task].todo = <<>> /\ early \in Seq(Events)
  <2>1. job[task] \in Jobs
    BY JobShape
  <2>2. job[task].todo = <<>>
    BY <1>1, PlaceFacts
  <2>3. early \in Seq(Events)
    BY DEF TypeOK
  <2>4. QED
    BY <2>1, <2>2, <2>3
<1>4. CASE /\ job[task].gen # generation /\ UNCHANGED owner
           /\ Rejects(task, Requests(early), tool,
                      [job[task] EXCEPT !.turn = reply, !.after = "stale"])
  <2> DEFINE j == [job[task] EXCEPT !.turn = reply, !.after = "stale"]
             requests == Requests(early)
  <2>1. /\ j \in Jobs
        /\ Is(j, job[task].does, job[task].gen, reply, job[task].reject, job[task].todo, "stale",
              job[task].next)
    BY <1>1, <1>3, LateJob
  <2>2. requests \in Seq(Reqs) /\ ToSet(requests) = ReqsOf(ToSet(early))
    BY <1>3, RequestsOf
  <2>3. Rejects(task, requests, tool, j)
    BY <1>4
  <2> HIDE DEF j, requests
  <2>4. CASE requests # <<>>
    <3>1. /\ Moves(task, "rejecting")
          /\ Is(job'[task], j.does, j.gen, j.turn, requests, j.todo, j.after, j.next)
          /\ tool' = [tool EXCEPT ![Head(requests)] = "rejecting"]
          /\ running' = None /\ UNCHANGED <<lockQueue, interruptedFor>>
      BY <2>1, <2>2, <2>3, <2>4, RejectsMore
    <3>2. Starts(task) /\ Rejecting(task)
      BY <1>1, <1>2, <2>4, <3>1 DEF Starts, Rejecting, Is
    <3>3. /\ Is(job'[task], job[task].does, job[task].gen, reply, job'[task].reject,
                job[task].todo, "stale", job[task].next)
          /\ ToSet(job'[task].reject) = ReqsOf(ToSet(early))
      BY <2>1, <2>2, <3>1 DEF Is
    <3>4. LateRejects(task)
      BY <1>4, <3>2, <3>3 DEF LateRejects
    <3>5. QED
      BY <3>4
  <2>5. CASE requests = <<>>
    <3>1. Rejects(task, <<>>, tool, j) /\ j.after = "stale" /\ j.turn = reply
      BY <2>1, <2>3, <2>5 DEF Is
    <3>2. /\ tool' = tool /\ Moves(task, "stale") /\ running' = None /\ lockQueue' = lockQueue
          /\ Is(job'[task], j.does, j.gen, j.turn, <<>>, j.todo, j.after, j.next)
          /\ Interrupted(reply, "stale")
      BY <2>1, <3>1, RejectsNone
    <3>3. Starts(task)
      BY <1>1, <1>2, <3>2 DEF Starts
    <3>4. /\ Is(job'[task], job[task].does, job[task].gen, reply, <<>>, job[task].todo, "stale",
                job[task].next)
          /\ ReqsOf(ToSet(early)) = {}
      BY <2>1, <2>2, <2>5, <3>2, NoneLeft DEF Is
    <3>5. LateInterrupts(task)
      BY <1>4, <3>2, <3>3, <3>4 DEF LateInterrupts
    <3>6. QED
      BY <3>5
  <2>6. QED
    BY <2>4, <2>5
<1>5. CASE /\ job[task].gen = generation
           /\ owner' = [Nobody EXCEPT !.turn = reply, !.gen = generation]
           /\ Rejects(task, Requests(BufferedForeign(reply)), tool,
                      [job[task] EXCEPT !.turn = reply, !.after = "replaying",
                                        !.todo = BufferedFor(reply)])
  <2> DEFINE j == [job[task] EXCEPT !.turn = reply, !.after = "replaying",
                                    !.todo = BufferedFor(reply)]
             requests == Requests(BufferedForeign(reply))
             todo == BufferedFor(reply)
  <2>1. /\ todo \in Seq(Events) /\ BufferedForeign(reply) \in Seq(Events)
        /\ ToSet(todo) \subseteq ToSet(early)
        /\ ToSet(early) = ToSet(BufferedForeign(reply)) \cup ToSet(todo)
    BY <1>1, BufferedParts
  <2>2. /\ j \in Jobs
        /\ Is(j, job[task].does, job[task].gen, reply, job[task].reject, todo, "replaying",
              job[task].next)
    BY <1>1, <1>3, <2>1, LateJob
  <2>3. requests \in Seq(Reqs) /\ ToSet(requests) = ReqsOf(ToSet(BufferedForeign(reply)))
    BY <2>1, RequestsOf
  <2>4. Rejects(task, requests, tool, j)
    BY <1>5
  <2>5. ReqsOf(ToSet(early)) = ToSet(requests) \cup ReqsOf(ToSet(todo))
    BY <2>1, <2>3, ReqsFacts
  <2> HIDE DEF j, requests, todo
  <2>6. CASE requests # <<>>
    <3>1. /\ Moves(task, "rejecting")
          /\ Is(job'[task], j.does, j.gen, j.turn, requests, j.todo, j.after, j.next)
          /\ tool' = [tool EXCEPT ![Head(requests)] = "rejecting"]
          /\ running' = None /\ UNCHANGED <<lockQueue, interruptedFor>>
      BY <2>2, <2>3, <2>4, <2>6, RejectsMore
    <3>2. Starts(task) /\ Rejecting(task)
      BY <1>1, <1>2, <2>6, <3>1 DEF Starts, Rejecting, Is
    <3>3. /\ Is(job'[task], job[task].does, job[task].gen, reply, job'[task].reject,
                job'[task].todo, "replaying", job[task].next)
          /\ ToSet(job'[task].todo) \subseteq ToSet(early)
          /\ ReqsOf(ToSet(early)) = ToSet(job'[task].reject) \cup ReqsOf(ToSet(job'[task].todo))
      BY <2>1, <2>2, <2>5, <3>1 DEF Is
    <3>4. OwnsRejects(task)
      BY <1>5, <3>2, <3>3 DEF OwnsRejects, Owns
    <3>5. QED
      BY <3>4
  <2>7. CASE requests = <<>>
    <3>1. Rejects(task, <<>>, tool, j) /\ j.after = "replaying"
      BY <2>2, <2>4, <2>7 DEF Is
    <3>2. /\ tool' = tool /\ Moves(task, "replaying") /\ running' = task
          /\ lockQueue' = lockQueue /\ UNCHANGED interruptedFor
          /\ Is(job'[task], j.does, j.gen, j.turn, <<>>, j.todo, j.after, j.next)
      BY <2>2, <3>1, RejectsNone
    <3>3. Starts(task)
      BY <1>1, <1>2, <3>2 DEF Starts
    <3>4. /\ Is(job'[task], job[task].does, job[task].gen, reply, job'[task].reject,
                job'[task].todo, "replaying", job[task].next)
          /\ job'[task].reject = <<>> /\ ToSet(job'[task].todo) \subseteq ToSet(early)
          /\ ReqsOf(ToSet(early)) = ToSet(job'[task].reject) \cup ReqsOf(ToSet(job'[task].todo))
      BY <2>1, <2>2, <2>5, <2>7, <3>2 DEF Is
    <3>5. OwnsReplays(task)
      BY <1>5, <3>2, <3>3, <3>4 DEF OwnsReplays, Owns
    <3>6. QED
      BY <3>5
  <2>8. QED
    BY <2>6, <2>7
<1>6. QED
  BY <1>4, <1>5 DEF TurnStarted

LEMMA RejectionWrittenKinds ==
    ASSUME TypeOK, PlaceInv, NEW task \in Tasks, RejectionWritten(task)
    PROVE  WritesNext(task) \/ WritesOut(task) \/ WritesOn(task)
<1> USE DEF userVars, turnVars, taskVars, toolVars, ownerVars, serverVars, speechVars,
            interruptVars
<1> DEFINE j == job[task]
           first == Head(job[task].reject)
           rest == Tail(job[task].reject)
           known == [tool EXCEPT ![first] = "answered"]
<1>1. /\ pc[task] = "rejecting" /\ running = None
      /\ Rejects(task, rest, known, j)
  BY DEF RejectionWritten, At
<1>2. Writes(task)
  BY <1>1 DEF RejectionWritten, Writes
<1>3. j \in Jobs /\ j.reject \in Seq(Reqs) /\ j.reject # <<>>
      /\ j.after \in {"idle", "stale", "replaying", "over"}
  <2>1. j \in Jobs
    BY JobShape
  <2>2. QED
    BY <2>1, <1>1, PlaceFacts DEF Jobs
<1>4. rest \in Seq(Reqs)
  BY <1>3, TailSet
<1> HIDE DEF j, first, rest, known
<1>5. CASE rest # <<>>
  <2>1. /\ Moves(task, "rejecting")
        /\ Is(job'[task], j.does, j.gen, j.turn, rest, j.todo, j.after, j.next)
        /\ tool' = [known EXCEPT ![Head(rest)] = "rejecting"]
        /\ running' = None /\ UNCHANGED <<lockQueue, interruptedFor>>
    BY <1>1, <1>3, <1>4, <1>5, RejectsMore
  <2>2. tool' = [tool EXCEPT ![first] = "answered", ![Head(job'[task].reject)] = "rejecting"]
    BY <2>1 DEF known, Is
  <2>3. WritesNext(task)
    BY <1>2, <1>5, <2>1, <2>2 DEF WritesNext, Is, j, first, rest
  <2>4. QED
    BY <2>3
<1>6. CASE rest = <<>>
  <2>1. Rejects(task, <<>>, known, j)
    BY <1>1, <1>6
  <2>2. /\ tool' = known /\ Moves(task, j.after)
        /\ running' = IF j.after = "replaying" THEN task ELSE None
        /\ j.after \in {"idle", "over"} => job'[task] = NoJob
        /\ j.after \in {"stale", "replaying"} =>
              Is(job'[task], j.does, j.gen, j.turn, <<>>, j.todo, j.after, j.next)
        /\ lockQueue' = IF j.after = "over" THEN Without(task) ELSE lockQueue
        /\ IF j.after = "stale" THEN Interrupted(j.turn, "stale") ELSE UNCHANGED interruptedFor
    BY <1>3, <2>1, RejectsNone
  <2>3. WritesLast(task)
    BY <1>2, <1>6, <2>2 DEF WritesLast, Wrote, known, first, rest
  <2>4. CASE j.after = "idle"
    <3>1. WritesOut(task)
      BY <2>2, <2>3, <2>4 DEF WritesOut, j
    <3>2. QED
      BY <3>1
  <2>5. CASE j.after = "over"
    <3>1. Over(task)
      BY <2>2, <2>5, WithoutFrees DEF Over
    <3>2. WritesOut(task)
      BY <2>2, <2>3, <2>5, <3>1 DEF WritesOut, j
    <3>3. QED
      BY <3>2
  <2>6. CASE j.after \in {"stale", "replaying"}
    <3>1. WritesOn(task)
      BY <2>2, <2>3, <2>6 DEF WritesOn, j
    <3>2. QED
      BY <3>1
  <2>7. QED
    BY <1>3, <2>4, <2>5, <2>6
<1>7. QED
  BY <1>5, <1>6

-----------------------------------------------------------------------------
(* Failures, the watchdog, the teardown and the App Server.                *)
LEMMA RaisesKinds ==
    ASSUME TypeOK, PlaceInv, LockInv, PhaseInv, NEW task \in Tasks, Raises(task)
    PROVE  FailsStart(task) \/ Fails(task)
<1> USE DEF userVars, turnVars, taskVars, toolVars, ownerVars, serverVars, speechVars,
            interruptVars
<1>1. /\ running = None /\ pc[task] \in Waits /\ task # "shutdown" /\ failure' = TRUE
      /\ UNCHANGED <<generation, userVars, owner, finished, heard, queued, failedClosed,
                     crossed, phase, ordered, turnState, parts, asked, inbox, spoken,
                     lost, startedFor>>
  BY DEF Raises, MayRaise
<1>2. render' \in Nat
  BY DEF Raises, TypeOK
<1>3. CASE pc[task] = "starting"
  <2> DEFINE j == [NoJob EXCEPT !.after = "over"]
             requests == Requests(early)
  <2>1. /\ starting' = FALSE /\ early' = <<>> /\ reply' = None /\ render' = render
        /\ Rejects(task, requests, tool, j)
    BY <1>3 DEF Raises
  <2>2. j \in Jobs /\ Is(j, "nothing", 0, None, <<>>, <<>>, "over", 0)
    BY OutJob
  <2>3. requests \in Seq(Reqs)
    <3>1. early \in Seq(Events)
      BY DEF TypeOK
    <3>2. QED
      BY <3>1, RequestsOf
  <2> HIDE DEF j, requests
  <2>4. CASE requests # <<>>
    <3>1. /\ Moves(task, "rejecting")
          /\ Is(job'[task], j.does, j.gen, j.turn, requests, j.todo, j.after, j.next)
          /\ tool' = [tool EXCEPT ![Head(requests)] = "rejecting"]
          /\ running' = None /\ UNCHANGED <<lockQueue, interruptedFor>>
      BY <2>1, <2>2, <2>3, <2>4, RejectsMore
    <3>2. /\ Rejecting(task)
          /\ Is(job'[task], "nothing", 0, None, job'[task].reject, <<>>, "over", 0)
      BY <2>2, <2>4, <3>1 DEF Rejecting, Is
    <3>3. FailsStart(task)
      BY <1>1, <1>3, <2>1, <3>1, <3>2 DEF FailsStart
    <3>4. QED
      BY <3>3
  <2>5. CASE requests = <<>>
    <3>1. Rejects(task, <<>>, tool, j) /\ j.after = "over"
      BY <2>1, <2>2, <2>5 DEF Is
    <3>2. /\ tool' = tool /\ Moves(task, "over") /\ running' = None /\ job'[task] = NoJob
          /\ lockQueue' = Without(task) /\ UNCHANGED interruptedFor
      BY <2>2, <3>1, RejectsNone
    <3>3. Over(task)
      BY <3>2, WithoutFrees DEF Over
    <3>4. FailsStart(task)
      BY <1>1, <1>3, <2>1, <3>2, <3>3 DEF FailsStart
    <3>5. QED
      BY <3>4
  <2>6. QED
    BY <2>4, <2>5
<1>4. CASE pc[task] # "starting"
  <2>1. /\ Goes(task, "over", NoJob) /\ lockQueue' = Without(task)
        /\ UNCHANGED <<starting, early, reply, running, interruptedFor>>
    BY <1>4 DEF Raises
  <2>2. Over(task)
    BY <2>1, GoesMoves, NoJobFields, WithoutFrees DEF Over
  <2>3. tool' = tool \/ \E r \in Reqs : tool' = [tool EXCEPT ![r] = "dropped"]
    <3>1. CASE pc[task] = "rejecting"
      <4>1. tool' = [tool EXCEPT ![Head(job[task].reject)] = "dropped"]
        BY <1>4, <3>1 DEF Raises
      <4>2. job[task].reject \in Seq(Reqs) /\ job[task].reject # <<>>
        BY <3>1, JobShape, PlaceFacts DEF Jobs
      <4>3. Head(job[task].reject) \in Reqs
        BY <4>2, TailSet
      <4>4. QED
        BY <4>1, <4>3
    <3>2. CASE pc[task] # "rejecting"
      BY <1>4, <3>2 DEF Raises
    <3>3. QED
      BY <3>1, <3>2
  <2>4. Fails(task)
    BY <1>1, <1>2, <1>4, <2>1, <2>2, <2>3 DEF Fails
  <2>5. QED
    BY <2>4
<1>5. QED
  BY <1>3, <1>4

LEMMA WatchdogKinds ==
    ASSUME TypeOK, LockInv, TurnExpires \/ WatchdogInterrupts \/ WatchdogFails
    PROVE  Expires \/ WatchdogTombstones \/ WatchdogLeaves \/ Fails("watchdog")
<1> USE DEF userVars, turnVars, taskVars, toolVars, ownerVars, serverVars, speechVars,
            interruptVars
<1>1. CASE TurnExpires
  <2> DEFINE j == [NoJob EXCEPT !.turn = owner.turn, !.gen = owner.gen]
  <2>1. j \in Jobs
    BY Shapes, JobOf
  <2>2. /\ pc["watchdog"] = "idle" /\ running = None /\ phase = "live" /\ owner.turn # None
        /\ lockQueue' = Append(lockQueue, "watchdog") /\ Goes("watchdog", "locking", j)
    BY <1>1 DEF TurnExpires, Ready
  <2> HIDE DEF j
  <2>3. Moves("watchdog", "locking") /\ job'["watchdog"] = j
    BY <2>1, <2>2, GoesMoves, Names
  <2>4. Joins("watchdog")
    BY <2>2, AppendJoins, Names
  <2>5. Expires
    BY <1>1, <2>2, <2>3, <2>4 DEF TurnExpires, Expires, j
  <2>6. QED
    BY <2>5
<1>2. CASE WatchdogInterrupts
  <2>1. /\ pc["watchdog"] = "locking" /\ running = None /\ Holds("watchdog")
        /\ UNCHANGED <<userVars, finished, starting, early, heard, queued, running, toolVars,
                       ownerVars, serverVars, speechVars, startedFor>>
    BY <1>2 DEF WatchdogInterrupts, At
  <2>2. CASE owner.turn = job["watchdog"].turn /\ owner.gen = job["watchdog"].gen
    <3>1. /\ owner' = [owner EXCEPT !.interrupting = TRUE] /\ generation' = generation + 1
          /\ Interrupted(owner.turn, "watchdog") /\ lockQueue' = lockQueue
          /\ Goes("watchdog", "tombstoned", job["watchdog"])
      BY <1>2, <2>2 DEF WatchdogInterrupts
    <3>2. Moves("watchdog", "tombstoned") /\ job'["watchdog"] = job["watchdog"]
      BY <3>1, SameJob, Names
    <3>3. WatchdogTombstones
      BY <2>1, <2>2, <3>1, <3>2 DEF WatchdogTombstones
    <3>4. QED
      BY <3>3
  <2>3. CASE ~(owner.turn = job["watchdog"].turn /\ owner.gen = job["watchdog"].gen)
    <3>1. /\ Goes("watchdog", "idle", NoJob) /\ lockQueue' = Tail(lockQueue)
          /\ UNCHANGED <<generation, owner, interruptedFor>>
      BY <1>2, <2>3 DEF WatchdogInterrupts
    <3>2. GiveUp("watchdog")
      BY <2>1, <3>1, GoesMoves, NoJobFields, LeaveFrees, Names DEF GiveUp
    <3>3. WatchdogLeaves
      BY <2>1, <3>1, <3>2 DEF WatchdogLeaves
    <3>4. QED
      BY <3>3
  <2>4. QED
    BY <2>2, <2>3
<1>3. CASE WatchdogFails
  <2>1. /\ Goes("watchdog", "over", NoJob) /\ lockQueue' = Without("watchdog")
        /\ pc["watchdog"] = "terminal" /\ running = None /\ failure' = TRUE
        /\ UNCHANGED <<generation, userVars, turnVars, running, toolVars, phase,
                       serverVars, speechVars, interruptVars>>
    BY <1>3 DEF WatchdogFails, At
  <2>2. Over("watchdog") /\ render' \in Nat
    BY <2>1, GoesMoves, NoJobFields, WithoutFrees, Names DEF Over, TypeOK
  <2>3. Fails("watchdog")
    BY <2>1, <2>2 DEF Fails, Waits
  <2>4. QED
    BY <2>3
<1>4. QED
  BY <1>1, <1>2, <1>3

LEMMA ToolKinds ==
    ASSUME TypeOK, NEW r \in Reqs, ToolStep(r)
    PROVE  CallsTool(r) \/ SettlesTool(r)
<1>1. CASE ToolCalls(r)
  BY <1>1 DEF ToolCalls, CallsTool
<1>2. CASE ToolClaims(r)
  BY <1>2 DEF ToolClaims, SettlesTool, ownerVars, TypeOK
<1>3. CASE ToolAnswered(r)
  BY <1>3 DEF ToolAnswered, SettlesTool, toolVars, ownerVars, TypeOK
<1>4. QED
  BY <1>1, <1>2, <1>3 DEF ToolStep

LEMMA TearDownKinds ==
    ASSUME TypeOK, LockInv, PhaseInv, TearDownStep
    PROVE  TearsDown \/ TearsDownAnswers \/ TearsDownLocks \/ ShutdownTombstones \/ Ends
<1>1. CASE TearDown
  BY <1>1 DEF TearDown, TearsDown
<1>2. CASE TearDownAnswers
  BY <1>2 DEF TearDownAnswers, TearsDownAnswers
<1>3. CASE TearDownLocks
  <2>1. /\ phase = "answering" /\ running = None /\ lockQueue' = Append(lockQueue, "shutdown")
        /\ Goes("shutdown", "locking", job["shutdown"])
    BY <1>3 DEF TearDownLocks
  <2>2. Moves("shutdown", "locking") /\ job'["shutdown"] = job["shutdown"]
    BY <2>1, SameJob, Names
  <2>3. pc["shutdown"] = "idle"
    BY <2>1 DEF PhaseInv
  <2>4. Joins("shutdown")
    BY <2>1, <2>3, AppendJoins, Names
  <2>5. TearsDownLocks
    BY <1>3, <2>2, <2>4 DEF TearDownLocks, TearsDownLocks
  <2>6. QED
    BY <2>5
<1>4. CASE ShutdownInterrupts
  <2>1. /\ pc["shutdown"] = "locking" /\ running = None /\ Holds("shutdown")
        /\ UNCHANGED <<generation, userVars, turnVars, running, toolVars, failure,
                       serverVars, speechVars, startedFor>>
    BY <1>4 DEF ShutdownInterrupts, At
  <2>2. CASE /\ job["shutdown"].turn # None /\ owner.turn = job["shutdown"].turn
             /\ owner.gen = job["shutdown"].gen
    <3>1. /\ Interrupted(job["shutdown"].turn, "shutdown")
          /\ Goes("shutdown", "tombstoned", job["shutdown"])
          /\ UNCHANGED <<phase, lockQueue>>
      BY <1>4, <2>2 DEF ShutdownInterrupts
    <3>2. Moves("shutdown", "tombstoned") /\ job'["shutdown"] = job["shutdown"]
      BY <3>1, SameJob, Names
    <3>3. ShutdownTombstones
      BY <2>1, <2>2, <3>1, <3>2 DEF ShutdownTombstones, ownerVars
    <3>4. QED
      BY <3>3
  <2>3. CASE ~(/\ job["shutdown"].turn # None /\ owner.turn = job["shutdown"].turn
               /\ owner.gen = job["shutdown"].gen)
    <3>1. Closes /\ UNCHANGED interruptedFor
      BY <1>4, <2>3 DEF ShutdownInterrupts
    <3>2. Ends
      BY <2>1, <3>1 DEF Ends, Closes, interruptVars
    <3>3. QED
      BY <3>2
  <2>4. QED
    BY <2>2, <2>3
<1>5. CASE ShutdownEnds
  <2>1. Holds("shutdown")
    BY <1>5, Names DEF ShutdownEnds, At, LockInv, InLock
  <2>2. QED
    BY <1>5, <2>1 DEF ShutdownEnds, At, Closes, Ends
<1>6. QED
  BY <1>1, <1>2, <1>3, <1>4, <1>5 DEF TearDownStep

LEMMA ServerKinds ==
    ASSUME TypeOK, ServerStep
    PROVE  \E t \in Turns : \/ Takes(t) \/ \E r \in Reqs : AsksTool(t, r)
                            \/ \E ev \in Events : Says(t, ev)
<1>1. PICK t \in Turns : \/ TakesUp(t) \/ TurnSays(t)
                         \/ \E r \in Reqs : TurnAsks(t, r)
                         \/ \E status \in Statuses : TurnEnds(t, status)
  BY DEF ServerStep
<1>2. turnState \in [Turns -> {"unborn", "running", "over"}] /\ parts \in [Turns -> Nat]
  BY DEF TypeOK
<1>3. CASE TakesUp(t)
  <2>1. Takes(t)
    BY <1>3 DEF TakesUp, Takes
  <2>2. QED
    BY <2>1
<1>4. CASE TurnSays(t)
  <2> DEFINE ev == [turn |-> t, kind |-> "part", what |-> parts[t] + 1]
  <2>1. /\ inbox' = Append(inbox, ev) /\ parts' = [parts EXCEPT ![t] = @ + 1]
        /\ turnState[t] = "running" /\ turnState' = turnState
    BY <1>4 DEF TurnSays, Emits
  <2>2. ev \in Events /\ ev.turn = t /\ ev.kind # "tool"
    BY <1>2 DEF Events
  <2>3. /\ parts' \in [Turns -> Nat] /\ turnState' = [turnState EXCEPT ![t] = turnState'[t]]
        /\ turnState'[t] \in {"running", "over"}
    BY <1>2, <2>1
  <2> HIDE DEF ev
  <2>4. Says(t, ev)
    BY <1>4, <2>1, <2>2, <2>3 DEF TurnSays, Says
  <2>5. QED
    BY <2>2, <2>4
<1>5. CASE \E r \in Reqs : TurnAsks(t, r)
  <2>1. PICK r \in Reqs : TurnAsks(t, r)
    BY <1>5
  <2>2. AsksTool(t, r)
    BY <2>1 DEF TurnAsks, Emits, AsksTool
  <2>3. QED
    BY <2>2
<1>6. CASE \E status \in Statuses : TurnEnds(t, status)
  <2>1. PICK status \in Statuses : TurnEnds(t, status)
    BY <1>6
  <2> DEFINE ev == [turn |-> t, kind |-> "done", what |-> status]
  <2>2. /\ inbox' = Append(inbox, ev) /\ parts' = parts
        /\ turnState[t] = "running" /\ turnState' = [turnState EXCEPT ![t] = "over"]
    BY <2>1 DEF TurnEnds, Emits
  <2>3. ev \in Events /\ ev.turn = t /\ ev.kind # "tool"
    BY DEF Events
  <2>4. /\ parts' \in [Turns -> Nat] /\ turnState' = [turnState EXCEPT ![t] = turnState'[t]]
        /\ turnState'[t] \in {"running", "over"}
    BY <1>2, <2>2
  <2> HIDE DEF ev
  <2>5. Says(t, ev)
    BY <2>1, <2>2, <2>3, <2>4 DEF TurnEnds, Says
  <2>6. QED
    BY <2>3, <2>5
<1>7. QED
  BY <1>1, <1>3, <1>4, <1>5, <1>6

-----------------------------------------------------------------------------
(* Events of the executor and the speaking of an answer.                   *)
LEMMA BackWhen ==
    ASSUME TypeOK, NEW task \in Tasks, NEW gen, NEW t, NEW k \in Jobs,
           job[task].after \in {"idle", "replaying"},
           Is(k, job[task].does, gen, t, job[task].reject,
              IF pc[task] = "replaying" THEN Tail(job[task].todo) ELSE job[task].todo,
              job[task].after, 0),
           Goes(task, job[task].after, IF job[task].after = "idle" THEN NoJob ELSE k),
           running' = IF job[task].after = "replaying" THEN task ELSE None,
           lockQueue' = lockQueue
    PROVE  Back(task, gen, t)
<1>1. CASE job[task].after = "idle"
  <2>1. Goes(task, "idle", NoJob)
    BY <1>1
  <2>2. Moves(task, "idle") /\ job'[task] = NoJob
    BY <2>1, GoesMoves, NoJobFields
  <2>3. QED
    BY <1>1, <2>2 DEF Back
<1>2. CASE job[task].after = "replaying"
  <2>1. Goes(task, "replaying", k)
    BY <1>2
  <2>2. Moves(task, "replaying") /\ job'[task] = k
    BY <2>1, GoesMoves
  <2>3. QED
    BY <1>2, <2>2 DEF Back
<1>3. QED
  BY <1>1, <1>2

LEMMA AnswersNext ==
    ASSUME TypeOK, NEW task \in Tasks, NEW j \in Jobs, AfterAnswer(task, j),
           j.next # 0, j.next = generation, lockQueue' = lockQueue
    PROVE  Renews(task, generation)
<1>1. Goes(task, "enter", Starting(generation)) /\ running' = None
  BY DEF AfterAnswer
<1>2. generation \in Nat
  BY Shapes
<1>3. Moves(task, "enter") /\ Is(job'[task], "start", generation, None, <<>>, <<>>, "idle", 0)
  BY <1>1, <1>2, StartingJob, GoesMoves
<1>4. QED
  BY <1>1, <1>3 DEF Renews

LEMMA AnswersBack ==
    ASSUME TypeOK, NEW task \in Tasks, NEW j \in Jobs, AfterAnswer(task, j),
           j.next = 0 \/ j.next # generation, lockQueue' = lockQueue,
           job[task].after \in {"idle", "replaying"},
           Is(j, job[task].does, j.gen, j.turn, job[task].reject,
              IF pc[task] = "replaying" THEN Tail(job[task].todo) ELSE job[task].todo,
              job[task].after, j.next)
    PROVE  Back(task, j.gen, j.turn)
<1> DEFINE k == [j EXCEPT !.next = 0, !.said = {}]
<1>1. k \in Jobs /\ Is(k, j.does, j.gen, j.turn, j.reject, j.todo, j.after, 0)
  BY OverJob
<1>2. /\ Goes(task, j.after, IF j.after = "idle" THEN NoJob ELSE k)
      /\ running' = IF j.after = "replaying" THEN task ELSE None
  BY DEF AfterAnswer
<1> HIDE DEF k
<1>3. /\ j.after = job[task].after
      /\ Is(k, job[task].does, j.gen, j.turn, job[task].reject,
            IF pc[task] = "replaying" THEN Tail(job[task].todo) ELSE job[task].todo,
            job[task].after, 0)
  BY <1>1 DEF Is
<1>4. QED
  BY <1>1, <1>2, <1>3, BackWhen

(* The job with which an event is handled is that of the task.             *)
LEMMA HandlesJob ==
    ASSUME TypeOK, PlaceInv, NEW task \in Tasks, Handles(task)
    PROVE  /\ job[task].after \in {"idle", "replaying"} /\ job[task].next = 0
           /\ Left(task) = IF pc[task] = "replaying" THEN Tail(job[task].todo) ELSE job[task].todo
<1>1. pc[task] = "idle" => job[task].after = "idle" /\ job[task].next = 0 /\ job[task].todo = <<>>
  BY PlaceFacts
<1>2. pc[task] = "replaying" => job[task].after = "replaying" /\ job[task].next = 0
  BY PlaceFacts
<1>3. QED
  BY <1>1, <1>2, EventHandled DEF Left

LEMMA HandleToolKinds ==
    ASSUME TypeOK, PlaceInv, NEW task \in Tasks, Handles(task), NEW j \in Jobs,
           Is(j, job[task].does, job[task].gen, job[task].turn, job[task].reject, Left(task),
              job[task].after, job[task].next),
           Event(task).kind = "tool", HandleTool(task, Event(task).turn, Event(task).what, j),
           UNCHANGED <<finished, heard, queued, lost>>
    PROVE  RefusesTool(task) \/ AdmitsTool(task)
<1> DEFINE t == Event(task).turn
           r == Event(task).what
<1>1. r \in Reqs
  BY EventHandled, EventFields
<1>2. CASE Unowned(t)
  <2>1. Rejects(task, <<r>>, tool, j) /\ UNCHANGED <<owner, failure>>
    BY <1>2 DEF HandleTool
  <2>2. <<r>> \in Seq(Reqs) /\ <<r>> # <<>> /\ Head(<<r>>) = r
    BY <1>1
  <2> HIDE DEF r
  <2>3. /\ Moves(task, "rejecting")
        /\ Is(job'[task], j.does, j.gen, j.turn, <<r>>, j.todo, j.after, j.next)
        /\ tool' = [tool EXCEPT ![r] = "rejecting"]
        /\ running' = None /\ UNCHANGED <<lockQueue, interruptedFor>>
    BY <2>1, <2>2, RejectsMore
  <2>4. RefusesTool(task)
    BY <2>1, <2>3 DEF RefusesTool, Is, r
  <2>5. QED
    BY <2>4
<1>3. CASE ~Unowned(t)
  <2>1. /\ \E said \in {"admitted", "refused"} : tool' = [tool EXCEPT ![r] = said]
        /\ failure' \in {failure, TRUE}
        /\ owner' = [owner EXCEPT !.hadTool = TRUE]
        /\ Goes(task, j.after, IF j.after = "idle" THEN NoJob ELSE j)
        /\ running' = IF j.after = "replaying" THEN task ELSE None
        /\ UNCHANGED <<lockQueue, interruptedFor>>
    BY <1>3 DEF HandleTool
  <2>2. t = owner.turn /\ ~owner.interrupting /\ owner.gen = generation
    BY <1>3 DEF Unowned
  <2>3. failure' \in BOOLEAN /\ (failure => failure')
    <3>1. failure \in BOOLEAN
      BY DEF TypeOK
    <3>2. CASE failure' = failure
      BY <3>1, <3>2
    <3>3. CASE failure' = TRUE
      BY <3>3
    <3>4. QED
      BY <2>1, <3>2, <3>3
  <2>4. /\ j.after = job[task].after /\ job[task].after \in {"idle", "replaying"}
        /\ Is(j, job[task].does, job[task].gen, job[task].turn, job[task].reject,
              IF pc[task] = "replaying" THEN Tail(job[task].todo) ELSE job[task].todo,
              job[task].after, 0)
    BY HandlesJob DEF Is
  <2>5. Back(task, job[task].gen, job[task].turn)
    BY <2>1, <2>4, BackWhen
  <2>6. AdmitsTool(task)
    BY <2>1, <2>2, <2>3, <2>5 DEF AdmitsTool
  <2>7. QED
    BY <2>6
<1>4. QED
  BY <1>2, <1>3

LEMMA HandlePartKind ==
    ASSUME TypeOK, PlaceInv, NEW task \in Tasks, Handles(task), NEW j \in Jobs,
           Is(j, job[task].does, job[task].gen, job[task].turn, job[task].reject, Left(task),
              job[task].after, job[task].next),
           Event(task).kind = "part", HandlePart(task, Event(task).turn, Event(task).what, j),
           UNCHANGED <<owner, finished, queued, lost, failure, tool, lockQueue, interruptedFor>>
    PROVE  HearsPart(task)
<1>1. /\ heard' = IF Event(task).turn = owner.turn
                  THEN heard \cup {<<Event(task).turn, Event(task).what>>} ELSE heard
      /\ Goes(task, j.after, IF j.after = "idle" THEN NoJob ELSE j)
      /\ running' = IF j.after = "replaying" THEN task ELSE None
  BY DEF HandlePart, Hears
<1>2. /\ j.after = job[task].after /\ job[task].after \in {"idle", "replaying"}
      /\ Is(j, job[task].does, job[task].gen, job[task].turn, job[task].reject,
            IF pc[task] = "replaying" THEN Tail(job[task].todo) ELSE job[task].todo,
            job[task].after, 0)
  BY HandlesJob DEF Is
<1>3. Back(task, job[task].gen, job[task].turn)
  BY <1>1, <1>2, BackWhen
<1>4. QED
  BY <1>1, <1>3 DEF HearsPart

LEMMA HandleDoneKinds ==
    ASSUME TypeOK, PlaceInv, NEW task \in Tasks, Handles(task), NEW j \in Jobs,
           Is(j, job[task].does, job[task].gen, job[task].turn, job[task].reject, Left(task),
              job[task].after, job[task].next),
           Event(task).kind = "done", HandleDone(task, Event(task).turn, Event(task).what, j),
           UNCHANGED <<tool, interruptedFor>>
    PROVE  \/ PassesEnd(task) \/ EndsUnspoken(task) \/ EndsForNext(task) \/ EndsSession(task)
           \/ EndsForSpeech(task)
<1> DEFINE t == Event(task).turn
           status == Event(task).what
           todo == IF pc[task] = "replaying" THEN Tail(job[task].todo) ELSE job[task].todo
<1>1. /\ t \in Turns /\ job[task].after \in {"idle", "replaying"} /\ job[task].next = 0
      /\ Left(task) = todo
  BY EventHandled, EventFields, HandlesJob
<1>2. CASE t # owner.turn
  <2>1. /\ AfterAnswer(task, j)
        /\ UNCHANGED <<owner, finished, heard, queued, lost, failure, lockQueue>>
    BY <1>2 DEF HandleDone
  <2>2. /\ j.next = 0 /\ j.gen = job[task].gen /\ j.turn = job[task].turn
        /\ Is(j, job[task].does, j.gen, j.turn, job[task].reject, todo, job[task].after, j.next)
    BY <1>1 DEF Is
  <2>3. Back(task, j.gen, j.turn)
    BY <1>1, <2>1, <2>2, AnswersBack
  <2>4. PassesEnd(task)
    BY <1>2, <2>1, <2>2, <2>3 DEF PassesEnd
  <2>5. QED
    BY <2>4
<1>3. CASE t = owner.turn
  <2> DEFINE k == [j EXCEPT !.gen = owner.gen, !.turn = t, !.next = queued, !.said = heard]
  <2>1. owner.gen \in Nat /\ queued \in Nat /\ heard \in SUBSET (Turns \X Nat) /\ t \in Turns
    BY <1>1 DEF TypeOK
  <2>2. /\ k \in Jobs /\ Is(k, j.does, owner.gen, t, j.reject, j.todo, j.after, queued)
        /\ k.said = heard
    <3>1. k = [j EXCEPT !.gen = owner.gen, !.turn = t, !.next = queued, !.said = heard]
      OBVIOUS
    <3>2. t \in Turns \cup {None}
      BY <2>1
    <3> HIDE DEF k, t, status, todo
    <3>3. k \in Jobs
      BY <2>1, <3>1, <3>2 DEF Jobs
    <3>4. QED
      BY <3>1, <3>3 DEF Jobs, Is
  <2>3. /\ owner' = Nobody /\ finished' = finished \cup {t} /\ heard' = {} /\ queued' = 0
        /\ \/ /\ owner.gen # generation /\ AfterAnswer(task, k)
              /\ UNCHANGED <<lost, failure, lockQueue>>
           \/ /\ Goes(task, "over", NoJob) /\ running' = None /\ failure' = TRUE
              /\ lockQueue' = Without(task) /\ UNCHANGED lost
           \/ /\ owner.gen = generation /\ heard = {} /\ AfterAnswer(task, k)
              /\ lost' = IF parts[t] # 0 THEN lost \cup {t} ELSE lost
              /\ UNCHANGED <<failure, lockQueue>>
           \/ /\ owner.gen = generation /\ heard # {} /\ Goes(task, SpeakNext, k)
              /\ running' = None /\ UNCHANGED <<lost, failure, lockQueue>>
    BY <1>3 DEF HandleDone
  <2> HIDE DEF k
  <2>4. EndsTurn(task)
    BY <1>3, <2>3 DEF EndsTurn
  <2>5. ASSUME AfterAnswer(task, k), lost' \subseteq Turns, UNCHANGED <<failure, lockQueue>>
        PROVE  EndsUnspoken(task) \/ EndsForNext(task)
    <3>1. CASE queued # 0 /\ queued = generation
      <4>1. Renews(task, queued)
        BY <2>2, <2>5, <3>1, AnswersNext DEF Is
      <4>2. EndsForNext(task)
        BY <2>4, <2>5, <3>1, <4>1 DEF EndsForNext
      <4>3. QED
        BY <4>2
    <3>2. CASE queued = 0 \/ queued # generation
      <4>1. /\ Is(k, job[task].does, k.gen, k.turn, job[task].reject, todo, job[task].after,
                  k.next)
            /\ k.next = queued /\ k.gen = owner.gen /\ k.turn = owner.turn
        BY <1>1, <1>3, <2>2 DEF Is
      <4>2. Back(task, k.gen, k.turn)
        BY <1>1, <2>2, <2>5, <3>2, <4>1, AnswersBack
      <4>3. Back(task, owner.gen, owner.turn) /\ queued \in {0} \cup (Nat \ {generation})
        BY <2>1, <3>2, <4>1, <4>2
      <4>4. EndsUnspoken(task)
        BY <2>4, <2>5, <4>3 DEF EndsUnspoken
      <4>5. QED
        BY <4>4
    <3>3. QED
      BY <3>1, <3>2
  <2>6. lost \subseteq Turns
    BY DEF TypeOK
  <2>7. CASE /\ owner.gen # generation /\ AfterAnswer(task, k)
             /\ UNCHANGED <<lost, failure, lockQueue>>
    BY <2>5, <2>6, <2>7
  <2>8. CASE /\ Goes(task, "over", NoJob) /\ running' = None /\ failure' = TRUE
             /\ lockQueue' = Without(task) /\ UNCHANGED lost
    <3>1. Over(task)
      BY <2>8, GoesMoves, NoJobFields, WithoutFrees DEF Over
    <3>2. EndsSession(task)
      BY <2>4, <2>8, <3>1 DEF EndsSession
    <3>3. QED
      BY <3>2
  <2>9. CASE /\ AfterAnswer(task, k) /\ lost' = IF parts[t] # 0 THEN lost \cup {t} ELSE lost
             /\ UNCHANGED <<failure, lockQueue>>
    <3>1. lost' \subseteq Turns
      BY <2>1, <2>6, <2>9
    <3>2. QED
      BY <2>5, <2>9, <3>1
  <2>10. CASE /\ owner.gen = generation /\ Goes(task, SpeakNext, k)
              /\ running' = None /\ UNCHANGED <<lost, failure, lockQueue>>
    <3>1. Moves(task, SpeakNext) /\ job'[task] = k
      BY <2>2, <2>10, GoesMoves
    <3>2. SpeakNext \in {"retiring", "settling"}
      BY DEF SpeakNext
    <3>3. /\ Is(job'[task], job[task].does, owner.gen, owner.turn, job[task].reject, Left(task),
                job[task].after, queued)
          /\ job'[task].said = heard
      BY <1>3, <2>2, <3>1 DEF Is
    <3>4. EndsForSpeech(task)
      BY <2>4, <2>10, <3>1, <3>2, <3>3 DEF EndsForSpeech
    <3>5. QED
      BY <3>4
  <2>11. QED
    BY <2>3, <2>7, <2>8, <2>9, <2>10
<1>4. QED
  BY <1>2, <1>3

HandlingKinds(task) ==
    \/ RefusesTool(task) \/ AdmitsTool(task) \/ HearsPart(task) \/ PassesEnd(task)
    \/ EndsUnspoken(task) \/ EndsForNext(task) \/ EndsSession(task) \/ EndsForSpeech(task)

LEMMA HandleKinds ==
    ASSUME TypeOK, PlaceInv, NEW task \in Tasks, Handles(task), NEW j \in Jobs,
           Is(j, job[task].does, job[task].gen, job[task].turn, job[task].reject, Left(task),
              job[task].after, job[task].next),
           Handle(task, Event(task), j)
    PROVE  HandlingKinds(task)
<1> DEFINE ev == Event(task)
<1>1. CASE /\ ev.kind = "tool" /\ HandleTool(task, ev.turn, ev.what, j)
           /\ UNCHANGED <<finished, heard, queued, lost>>
  BY <1>1, HandleToolKinds DEF HandlingKinds
<1>2. CASE /\ ev.kind = "part" /\ HandlePart(task, ev.turn, ev.what, j)
           /\ UNCHANGED <<owner, finished, queued, lost, failure, tool, lockQueue,
                          interruptedFor>>
  BY <1>2, HandlePartKind DEF HandlingKinds
<1>3. CASE /\ ev.kind = "done" /\ HandleDone(task, ev.turn, ev.what, j)
           /\ UNCHANGED <<tool, interruptedFor>>
  BY <1>3, HandleDoneKinds DEF HandlingKinds
<1>4. QED
  BY <1>1, <1>2, <1>3 DEF Handle

LEMMA ConsumeKinds ==
    ASSUME TypeOK, PlaceInv, IdleInv, Consume
    PROVE  Buffers \/ Overflows \/ HandlingKinds("exec")
<1> USE DEF userVars, turnVars, taskVars, toolVars, ownerVars, serverVars, speechVars,
            interruptVars
<1> DEFINE ev == Head(inbox)
<1>1. /\ phase # "closed" /\ pc["exec"] = "idle" /\ running = None /\ inbox # <<>>
      /\ inbox' = Tail(inbox)
  BY DEF Consume, At
<1>2. ev \in Events
  BY <1>1, EventQueues
<1>3. CASE starting /\ owner.turn = None /\ EarlyRoom
  <2>1. /\ early' = Append(early, ev)
        /\ UNCHANGED <<pc, job, running, tool, lockQueue, interruptedFor, failure>>
        /\ UNCHANGED <<generation, userVars, owner, finished, starting, heard, queued,
                       failedClosed, crossed, phase, ordered, reply, turnState, parts, asked,
                       speechVars, startedFor>>
    BY <1>3 DEF Consume
  <2>2. Buffers
    BY <1>1, <1>3, <2>1 DEF Buffers, EarlyRoom
  <2>3. QED
    BY <2>2
<1>4. CASE starting /\ owner.turn = None /\ ~EarlyRoom
  <2> DEFINE requests == Requests(<<ev>>)
  <2>1. /\ failure' = TRUE /\ Rejects("exec", requests, tool, NoJob) /\ UNCHANGED early
        /\ UNCHANGED <<generation, userVars, owner, finished, starting, heard, queued,
                       failedClosed, crossed, phase, ordered, reply, turnState, parts, asked,
                       speechVars, startedFor>>
    BY <1>4 DEF Consume
  <2>2. requests \in Seq(Reqs)
    <3>1. <<ev>> \in Seq(Events)
      BY <1>2
    <3>2. QED
      BY <3>1, RequestsOf
  <2> HIDE DEF requests
  <2>3. /\ NoJob \in Jobs /\ "exec" \in Tasks
        /\ Is(NoJob, "nothing", 0, None, <<>>, <<>>, "idle", 0)
    BY NoJobFields, Names
  <2>4. CASE requests # <<>>
    <3>1. /\ Moves("exec", "rejecting")
          /\ Is(job'["exec"], NoJob.does, NoJob.gen, NoJob.turn, requests, NoJob.todo,
                NoJob.after, NoJob.next)
          /\ tool' = [tool EXCEPT ![Head(requests)] = "rejecting"]
          /\ running' = None /\ UNCHANGED <<lockQueue, interruptedFor>>
      BY <2>1, <2>2, <2>3, <2>4, RejectsMore
    <3>2. /\ Rejecting("exec")
          /\ Is(job'["exec"], "nothing", 0, None, job'["exec"].reject, <<>>, "idle", 0)
      BY <2>3, <2>4, <3>1 DEF Rejecting, Is
    <3>3. Overflows
      BY <1>1, <2>1, <3>1, <3>2 DEF Overflows
    <3>4. QED
      BY <3>3
  <2>5. CASE requests = <<>>
    <3>1. Rejects("exec", <<>>, tool, NoJob) /\ NoJob.after = "idle"
      BY <2>1, <2>3, <2>5 DEF Is
    <3>2. /\ tool' = tool /\ Moves("exec", "idle") /\ running' = None /\ job'["exec"] = NoJob
          /\ lockQueue' = lockQueue /\ UNCHANGED interruptedFor
      BY <2>3, <3>1, RejectsNone
    <3>3. Overflows
      BY <1>1, <2>1, <3>2 DEF Overflows
    <3>4. QED
      BY <3>3
  <2>6. QED
    BY <2>4, <2>5
<1>5. CASE ~(starting /\ owner.turn = None)
  <2>1. Handle("exec", ev, NoJob) /\ UNCHANGED early
    BY <1>5 DEF Consume
  <2>2. "exec" \in Tasks /\ Event("exec") = ev /\ Left("exec") = <<>>
    BY <1>1, Names DEF Event, Left
  <2>3. Handles("exec")
    BY <1>1, <2>1 DEF Handle, Handles
  <2>4. /\ NoJob \in Jobs
        /\ Is(NoJob, job["exec"].does, job["exec"].gen, job["exec"].turn, job["exec"].reject,
              Left("exec"), job["exec"].after, job["exec"].next)
    <3>1. /\ job["exec"].does = "nothing" /\ job["exec"].next = 0 /\ job["exec"].after = "idle"
          /\ job["exec"].reject = <<>>
      BY <1>1, PlaceFacts, Names
    <3>2. job["exec"].gen = 0 /\ job["exec"].turn = None
      BY <1>1, Names DEF IdleInv
    <3>3. QED
      BY <2>2, <3>1, <3>2, NoJobFields
  <2> HIDE DEF ev
  <2>5. QED
    BY <2>1, <2>2, <2>3, <2>4, HandleKinds
<1>6. QED
  BY <1>3, <1>4, <1>5

LEMMA ReplayKinds ==
    ASSUME TypeOK, PlaceInv, LockInv, NEW task \in Tasks, Replay(task)
    PROVE  GivesBack(task) \/ HandlingKinds(task)
<1> USE DEF userVars, turnVars, taskVars, toolVars, ownerVars, serverVars, speechVars,
            interruptVars
<1>1. running = task /\ pc[task] = "replaying"
  BY DEF Replay
<1>2. task \in {"receive", "data", "exec"}
  BY <1>1, PlaceFacts
<1>3. CASE /\ job[task].todo # <<>>
           /\ Handle(task, Head(job[task].todo), [job[task] EXCEPT !.todo = Tail(@)])
           /\ UNCHANGED <<early, inbox>>
  <2> DEFINE j == [job[task] EXCEPT !.todo = Tail(job[task].todo)]
  <2>1. job[task] \in Jobs /\ job[task].todo \in Seq(Events)
    BY JobShape DEF Jobs
  <2>2. Tail(job[task].todo) \in Seq(Events)
    BY <1>3, <2>1
  <2>3. /\ j \in Jobs
        /\ Is(j, job[task].does, job[task].gen, job[task].turn, job[task].reject,
              Tail(job[task].todo), job[task].after, job[task].next)
    BY <2>1, <2>2, TodoJob
  <2>4. Event(task) = Head(job[task].todo) /\ Left(task) = Tail(job[task].todo)
    BY <1>1 DEF Event, Left
  <2>5. Handle(task, Event(task), j)
    BY <1>3, <2>4
  <2>6. Handles(task)
    BY <1>1, <1>2, <1>3, <2>5 DEF Handle, Handles
  <2> HIDE DEF j
  <2>7. QED
    BY <2>3, <2>4, <2>5, <2>6, HandleKinds
<1>4. CASE /\ job[task].todo = <<>> /\ running' = None /\ Leaves(task)
           /\ UNCHANGED <<generation, user, claimed, requested, turnVars, toolVars, phase,
                          serverVars, speechVars, interruptVars>>
  <2>1. Holds(task) /\ Wants(task) = 0
    BY <1>1, WantsFacts DEF LockInv, InLock
  <2>2. GivesBack(task)
    BY <1>1, <1>2, <1>4, <2>1, GivesBackWhen
  <2>3. QED
    BY <2>2
<1>5. QED
  BY <1>3, <1>4 DEF Replay

LEMMA AnswerKinds ==
    ASSUME TypeOK, PlaceInv, NEW task \in Tasks, pc[task] \in {"settling", "appending"},
           AfterAnswer(task, job[task]), lockQueue' = lockQueue, EndsAnswer(task)
    PROVE  AnswerOver(task) \/ AnswerForNext(task)
<1>1. job[task] \in Jobs /\ job[task].after \in {"idle", "replaying"} /\ job[task].next \in Nat
  <2>1. job[task] \in Jobs
    BY JobShape
  <2>2. job[task].after \in {"idle", "replaying"}
    BY PlaceFacts DEF Answering
  <2>3. QED
    BY <2>1, <2>2 DEF Jobs
<1>2. CASE job[task].next # 0 /\ job[task].next = generation
  <2>1. Renews(task, generation)
    BY <1>1, <1>2, AnswersNext
  <2>2. QED
    BY <1>2, <2>1 DEF AnswerForNext
<1>3. CASE job[task].next = 0 \/ job[task].next # generation
  <2>1. Is(job[task], job[task].does, job[task].gen, job[task].turn, job[task].reject,
           IF pc[task] = "replaying" THEN Tail(job[task].todo) ELSE job[task].todo,
           job[task].after, job[task].next)
    BY DEF Is
  <2>2. Back(task, job[task].gen, job[task].turn)
    BY <1>1, <1>3, <2>1, AnswersBack
  <2>3. AnswerOver(task)
    BY <1>1, <1>3, <2>2 DEF AnswerOver
  <2>4. QED
    BY <2>3
<1>4. QED
  BY <1>2, <1>3

LEMMA SpeakKinds ==
    ASSUME TypeOK, PlaceInv, NEW task \in Tasks, Speak(task)
    PROVE  Submits(task) \/ AnswerOver(task) \/ AnswerForNext(task)
<1> USE DEF speechVars
<1>1. pc[task] = "settling" /\ running = None /\ lockQueue' = lockQueue
      /\ UNCHANGED <<generation, userVars, turnVars, lockQueue, toolVars, ownerVars,
                     serverVars, lost, interruptVars>>
  BY DEF Speak, At
<1>2. CASE job[task].gen = generation
  <2>1. /\ render' = job[task].gen /\ running' = running /\ Goes(task, "appending", job[task])
        /\ spoken' = spoken \cup {[turn |-> job[task].turn, gen |-> job[task].gen,
                                   said |-> job[task].said]}
    BY <1>2 DEF Speak
  <2>2. /\ Moves(task, "appending") /\ job'[task] = job[task]
        /\ Alike(job'[task], job[task])
    BY <2>1, SameJob
  <2>3. Submits(task)
    BY <1>1, <1>2, <2>1, <2>2 DEF Submits
  <2>4. QED
    BY <2>3
<1>3. CASE job[task].gen # generation
  <2>1. AfterAnswer(task, job[task]) /\ UNCHANGED <<render, spoken>>
    BY <1>3 DEF Speak
  <2>2. EndsAnswer(task)
    BY <1>1, <2>1 DEF EndsAnswer
  <2>3. QED
    BY <1>1, <2>1, <2>2, AnswerKinds
<1>4. QED
  BY <1>2, <1>3

LEMMA SpokenKinds ==
    ASSUME TypeOK, PlaceInv, NEW task \in Tasks, Spoken(task)
    PROVE  AnswerOver(task) \/ AnswerForNext(task)
<1>1. /\ pc[task] = "appending" /\ running = None /\ lockQueue' = lockQueue
      /\ AfterAnswer(task, job[task]) /\ EndsAnswer(task)
  BY DEF Spoken, At, EndsAnswer
<1>2. QED
  BY <1>1, AnswerKinds

LEMMA RetiredKind ==
    ASSUME TypeOK, NEW task \in Tasks, RetirementSeen(task)
    PROVE  Retired(task)
<1>1. Goes(task, "settling", job[task])
  BY DEF RetirementSeen
<1>2. /\ Moves(task, "settling") /\ job'[task] = job[task] /\ Alike(job'[task], job[task])
  BY <1>1, SameJob
<1>3. QED
  BY <1>2 DEF RetirementSeen, Retired, At

-----------------------------------------------------------------------------
LEMMA StepKinds ==
    ASSUME TypeOK, PlaceInv, LockInv, IdleInv, PhaseInv, StartInv, OwnerInv, [Next]_vars
    PROVE  [Steps]_vars
<1>1. CASE UserStep
  <2>1. {"receive", "data"} \subseteq Tasks
    BY DEF Tasks
  <2>2. QED
    BY <1>1, <2>1, UserKinds DEF Steps
<1>2. ASSUME NEW task \in Tasks, Proceeds(task) PROVE Steps
  <2>1. CASE Enter(task)
    BY <2>1, AsksKind DEF Steps
  <2>2. CASE StartTurn(task)
    BY <2>2, StartTurnKinds DEF Steps
  <2>3. CASE InterruptTurn(task)
    BY <2>3, InterruptTurnKinds DEF Steps
  <2>4. CASE InterruptAccepted(task)
    BY <2>4, AcceptedKind DEF Steps
  <2>5. CASE TerminalSeen(task)
    BY <2>5, TerminalSeenKinds DEF Steps
  <2>6. CASE TurnStarted(task)
    BY <2>6, TurnStartedKinds DEF Steps
  <2>7. CASE RejectionWritten(task)
    BY <2>7, RejectionWrittenKinds DEF Steps
  <2>8. CASE StaleInterrupted(task)
    BY <2>8, StaleKind DEF Steps
  <2>9. CASE Replay(task)
    BY <2>9, ReplayKinds DEF Steps, HandlingKinds
  <2>10. CASE RetirementSeen(task)
    BY <2>10, RetiredKind DEF Steps
  <2>11. CASE Speak(task)
    BY <2>11, SpeakKinds DEF Steps
  <2>12. CASE Spoken(task)
    BY <2>12, SpokenKinds DEF Steps
  <2>13. QED
    BY <1>2, <2>1, <2>2, <2>3, <2>4, <2>5, <2>6, <2>7, <2>8, <2>9, <2>10, <2>11, <2>12
       DEF Proceeds
<1>3. ASSUME NEW task \in Tasks, Raises(task) PROVE Steps
  BY <1>3, RaisesKinds DEF Steps
<1>4. CASE Consume
  BY <1>4, ConsumeKinds, Names DEF Steps, HandlingKinds
<1>5. CASE RenderRetires
  BY <1>5 DEF RenderRetires, RendersOn, Steps
<1>6. ASSUME NEW r \in Reqs, ToolStep(r) PROVE Steps
  BY <1>6, ToolKinds DEF Steps
<1>7. CASE TurnExpires \/ WatchdogInterrupts \/ WatchdogFails
  BY <1>7, WatchdogKinds, Names DEF Steps
<1>8. CASE Stops \/ VoiceEnds
  BY <1>8 DEF Stops, VoiceEnds, MayFail, Steps
<1>9. CASE TearDownStep
  BY <1>9, TearDownKinds DEF Steps
<1>10. CASE ServerStep
  BY <1>10, ServerKinds DEF Steps
<1>11. QED
  BY <1>1, <1>2, <1>3, <1>4, <1>5, <1>6, <1>7, <1>8, <1>9, <1>10 DEF Next

-----------------------------------------------------------------------------
(* The inductive invariant and what follows from it.                       *)

LEMMA TypeParts ==
    TypeOK <=> /\ UserType /\ OwnerType /\ TaskType /\ LockType /\ RunType /\ EventsType
               /\ RequestType /\ PhaseType /\ ServerType /\ SpeechType /\ HistoryType
  BY DEF TypeOK, UserType, OwnerType, TaskType, LockType, RunType, EventsType, RequestType,
         PhaseType, ServerType, SpeechType, HistoryType

(* Nothing has started and nothing has come.                               *)
LEMMA InitIInv == Init => IInv
<1> SUFFICES ASSUME Init PROVE IInv
  OBVIOUS
<1> USE DEF Init
<1>1. /\ \A task \in Tasks : pc[task] = "idle" /\ job[task] = NoJob
      /\ ToSet(lockQueue) = {} /\ ToSet(inbox) = {} /\ ToSet(early) = {}
      /\ ToSet(<<>>) = {}
  BY DEF ToSet
<1>2. NoJob \in Jobs /\ Is(NoJob, "nothing", 0, None, <<>>, <<>>, "idle", 0)
  BY NoJobFields
<1>3. None \notin Turns /\ None \notin Tasks
  BY Names
<1>4. TypeOK
  <2>1. UserType
    BY DEF UserType
  <2>2. OwnerType
    BY DEF OwnerType, Nobody
  <2>3. TaskType
    BY <1>2 DEF TaskType
  <2>4. LockType /\ EventsType
    <3>1. <<>> \in Seq(Tasks) /\ <<>> \in Seq(Events) /\ Len(<<>>) = 0 /\ DOMAIN <<>> = {}
      OBVIOUS
    <3>2. MaxEarly \in Nat
      BY BoundsAssumption
    <3>3. QED
      BY <3>1, <3>2 DEF LockType, EventsType, IsInjective
  <2>5. RunType /\ PhaseType /\ ServerType /\ SpeechType
    BY DEF RunType, PhaseType, ServerType, SpeechType
  <2>6. RequestType /\ HistoryType
    BY DEF RequestType, HistoryType
  <2>7. QED
    BY <2>1, <2>2, <2>3, <2>4, <2>5, <2>6, TypeParts
<1>5. LockInv
  BY <1>1, <1>2, <1>3 DEF LockInv, InLock, Answering
<1>6. PlaceInv /\ IdleInv /\ PhaseInv
  BY <1>1, <1>2, Names DEF PlaceInv, Fits, IdleInv, PhaseInv, Is
<1>7. StartInv
  BY <1>1, <1>2 DEF StartInv
<1>8. EventInv /\ ForgottenInv
  <2>1. \A task \in Tasks : ToSet(job[task].todo) = {}
    BY <1>1, <1>2 DEF Is
  <2>2. QED
    BY <1>1, <2>1 DEF EventInv, Known, ForgottenInv
<1>9. FreshInv
  <2>1. \A t \in Turns : Fresh(t)
    BY <1>1, <1>2, <1>3 DEF Fresh, Is, Nobody
  <2>2. QED
    BY <1>3, <2>1 DEF FreshInv
<1>10. TurnInv /\ ToolInv
  BY <1>1, <1>2 DEF TurnInv, ToolInv, Ran, Is, Nobody
<1>11. OwnerInv /\ AnswerInv /\ SpokenInv
  BY <1>1 DEF OwnerInv, AnswerInv, SpokenInv, Answering, Nobody
<1>12. \A task \in Tasks : Wants(task) = 0
  BY <1>1, <1>2 DEF Wants, Is
<1>13. BoundInv /\ TokenInv
  BY <1>12 DEF BoundInv, TokenInv, Nobody
<1>14. UserInv /\ NewestInv
  BY DEF UserInv, NewestInv
<1>15. QED
  BY <1>4, <1>5, <1>6, <1>7, <1>8, <1>9, <1>10, <1>11, <1>13, <1>14 DEF IInv

(* Every step is one of the kinds, and each kind keeps every part.         *)
LEMMA NextIInv == IInv /\ [Next]_vars => IInv'
<1> SUFFICES ASSUME IInv, [Next]_vars PROVE IInv'
  OBVIOUS
<1> USE DEF IInv
<1>1. [Steps]_vars
  BY StepKinds
<1>2. TypeOK'
  <2>1. UserType' /\ OwnerType' /\ TaskType' /\ LockType'
    BY <1>1, UserTypeStep, OwnerTypeStep, TaskTypeStep, LockTypeStep
  <2>2. RunType' /\ EventsType' /\ RequestType' /\ PhaseType'
    BY <1>1, RunTypeStep, EventsTypeStep, RequestTypeStep, PhaseTypeStep
  <2>3. ServerType' /\ SpeechType' /\ HistoryType'
    BY <1>1, ServerTypeStep, SpeechTypeStep, HistoryTypeStep
  <2>4. QED
    BY <2>1, <2>2, <2>3
       DEF TypeOK, UserType, OwnerType, TaskType, LockType, RunType, EventsType,
           RequestType, PhaseType, ServerType, SpeechType, HistoryType
<1>3. LockInv' /\ PlaceInv' /\ IdleInv' /\ PhaseInv' /\ StartInv'
  BY <1>1, LockStep, PlaceStep, IdleStep, PhaseStep, StartStep
<1>4. EventInv' /\ FreshInv' /\ TurnInv' /\ ToolInv'
  BY <1>1, EventStep, FreshStep, TurnStep, ToolsStep
<1>5. OwnerInv' /\ AnswerInv' /\ SpokenInv'
  BY <1>1, OwnerStep, AnswerStep, SpokenStep
<1>6. BoundInv' /\ TokenInv' /\ UserInv' /\ NewestInv' /\ ForgottenInv'
  BY <1>1, BoundStep, TokenStep, UtteranceStep, NewestStep, ForgottenStep
<1>7. QED
  BY <1>2, <1>3, <1>4, <1>5, <1>6

(* IInv holds in every state: where every task is and what it has at hand, *)
(* who has background_turn_lock, what is known of a turn before its reply, *)
(* and that a generation is queued, with one task, or has its one turn.    *)
THEOREM Invariant == Spec => []IInv
<1>1. Init => IInv
  BY InitIInv
<1>2. IInv /\ [Next]_vars => IInv'
  BY NextIInv
<1>3. QED
  BY <1>1, <1>2, PTL DEF Spec

(* Whatever the order in which user turns, events, watchdog, teardown and  *)
(* the App Server move, every task stays at one of its awaits with a       *)
(* well-formed job, background_turn_lock is asked for by a task once, and  *)
(* the events kept for a turn/start fit the buffer.                        *)
THEOREM TypeCorrect == Spec => []TypeOK
<1>1. IInv => TypeOK
  BY DEF IInv
<1>2. QED
  BY <1>1, Invariant, PTL

(* A turn that a barge-in or a late turn/start interrupted never had a     *)
(* tool handed to the broker, however its requests, the tombstone and the  *)
(* replay of early events fall: an interrupted turn is refused from the    *)
(* step that decides to interrupt it, and one that ran a tool is left to   *)
(* end by itself.                                                          *)
THEOREM InterruptedTurnsRanNoTool == Spec => []InterruptedRunNoTool
<1>1. IInv => InterruptedRunNoTool
  BY DEF IInv, ToolInv, TypeOK, Ran, InterruptedRunNoTool
<1>2. QED
  BY <1>1, Invariant, PTL

(* As long as the session does not fail and no newer generation is asked   *)
(* for, the request of the newest one is queued behind a turn that ran a   *)
(* tool, is with one task between its guard and the turn/start, or a turn  *)
(* was started for it: no wait of that procedure loses it.                 *)
THEOREM NewestRequestStays == Spec => []NewestRequestKept
<1>1. IInv => NewestRequestKept
  <2> SUFFICES ASSUME NewestInv, requested # 0, requested = generation, ~failure
               PROVE  \/ queued = requested
                      \/ \E task \in Tasks :
                            \/ job[task].does = "start" /\ job[task].gen = requested
                            \/ job[task].next = requested
                      \/ \E t \in Turns : startedFor[t] = requested
    BY DEF IInv, NewestRequestKept
  <2>1. CASE \E task \in Tasks : Wants(task) = requested
    <3>1. PICK task \in Tasks : Wants(task) = requested
      BY <2>1
    <3>2. \/ job[task].does = "start" /\ job[task].gen = requested
          \/ job[task].next = requested
      BY <3>1 DEF Wants
    <3>3. QED
      BY <3>2
  <2>2. QED
    BY <2>1 DEF NewestInv
<1>2. QED
  BY <1>1, Invariant, PTL

(* While the session lives, a tool request of the App Server that has no   *)
(* answer, no refusal and no task yet is still in the inbox, in the early  *)
(* events, or with the task that replays or rejects it: a buffer that is   *)
(* emptied hands over every request it held.                               *)
THEOREM RequestsAreKept == Spec => []NoRequestForgotten
<1>1. IInv => NoRequestForgotten
  <2> SUFFICES ASSUME TypeOK, ForgottenInv, ~failure,
                      NEW r \in Reqs, asked[r] # None, tool[r] = "unseen"
               PROVE  r \in ToSet(Requests(inbox)) \cup ToSet(Requests(early))
                              \cup UNION {Held(task) : task \in Tasks}
    BY DEF IInv, NoRequestForgotten
  <2>1. inbox \in Seq(Events) /\ early \in Seq(Events) /\ job \in [Tasks -> Jobs]
    BY DEF TypeOK
  <2>2. /\ ToSet(Requests(inbox)) = ReqsOf(ToSet(inbox))
        /\ ToSet(Requests(early)) = ReqsOf(ToSet(early))
    BY <2>1, RequestsOf
  <2>3. ASSUME NEW task \in Tasks PROVE Held(task) = Awaits(task)
    <3>1. job[task].todo \in Seq(Events)
      BY <2>1 DEF Jobs
    <3>2. QED
      BY <3>1, RequestsOf DEF Held, Awaits
  <2>4. CASE r \in Coming
    BY <2>2, <2>4 DEF Coming, ReqsOf
  <2>5. CASE \E task \in Tasks : r \in Awaits(task)
    BY <2>3, <2>5
  <2>6. QED
    BY <2>4, <2>5 DEF ForgottenInv
<1>2. QED
  BY <1>1, Invariant, PTL

(* What appendSpeech is given is made of the messages of the turn that was *)
(* started for the request it answers, and a request is answered once,     *)
(* however answers, ends of turns and newer requests interleave.           *)
THEOREM AnswersFit == Spec => []AnswersFitRequests
<1>1. IInv => AnswersFitRequests
  <2> SUFFICES ASSUME TypeOK, SpokenInv, TokenInv PROVE AnswersFitRequests
    BY DEF IInv
  <2>1. \A s \in spoken : s.turn \in Turns
    BY DEF TypeOK
  <2>2. ASSUME NEW s1 \in spoken, NEW s2 \in spoken, s1.gen = s2.gen PROVE s1 = s2
    <3>1. /\ startedFor[s1.turn] = s1.gen /\ startedFor[s2.turn] = s2.gen /\ s1.gen # 0
      BY DEF SpokenInv
    <3>2. s1.turn = s2.turn
      BY <2>1, <2>2, <3>1 DEF TokenInv
    <3>3. QED
      BY <3>2 DEF SpokenInv
  <2>3. QED
    BY <2>2 DEF SpokenInv, AnswersFitRequests
<1>2. QED
  BY <1>1, Invariant, PTL
=============================================================================
