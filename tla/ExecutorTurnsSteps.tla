------------------------- MODULE ExecutorTurnsSteps --------------------------
(***************************************************************************)
(* The inductive invariant of ExecutorTurns and the kinds of steps that    *)
(* its proof distinguishes: one for each outcome of an action, saying of   *)
(* the state what the invariant needs.                                     *)
(***************************************************************************)
EXTENDS ExecutorTurns

(* Where a task deals with an answer.                                      *)
Answering == {"retiring", "settling", "appending"}

(* The phases of a procedure that has background_turn_lock.                *)
InLock(task) ==
    \/ pc[task] \in {"tombstoned", "terminal", "starting", "stale", "replaying"}
    \/ pc[task] \in {"rejecting"} \cup Answering /\ job[task].after # "idle"

(* Who asked for the lock is in its queue, who is past the guard is first. *)
LockInv ==
    /\ \A task \in Tasks : task \in ToSet(lockQueue) <=> pc[task] = "locking" \/ InLock(task)
    /\ \A task \in Tasks : InLock(task) => Holds(task)
    /\ \A task \in Tasks : running = task <=> pc[task] = "replaying"

(* What a task has at hand where it is.                                    *)
Fits(task, place, j) ==
    /\ task \in {"watchdog", "shutdown"} =>
          /\ place \in {"idle", "locking", "tombstoned", "terminal", "over"}
          /\ j.does = "nothing" /\ j.after = "idle"
    /\ j.after = "stale" => place \in {"rejecting", "stale"} /\ j.does = "start"
    /\ j.after = "replaying" =>
           place \in {"rejecting", "replaying"} \cup Answering /\ j.does = "start"
    /\ j.after = "over" => place = "rejecting" /\ j.does = "nothing"
    /\ j.after = "idle" /\ j.does = "start" =>
          place \in {"enter", "locking", "tombstoned", "terminal", "starting"}
    /\ j.does = "interrupt" =>
          /\ place \in {"enter", "locking", "tombstoned", "terminal"}
          /\ j.after = "idle" /\ task # "exec"
    /\ j.after = "idle" /\ j.does = "nothing" =>
          \/ task \in {"watchdog", "shutdown"} \/ place \in {"idle", "over"}
          \/ task = "exec" /\ place \in {"rejecting"} \cup Answering
    /\ j.reject # <<>> <=> place = "rejecting"
    /\ j.todo # <<>> => j.after = "replaying"
    /\ j.does = "start" => j.next = 0 /\ j.gen # 0
    /\ j.does = "nothing" /\ j.next # 0 => place \in Answering

(* Every job fits the await its task is at.                                *)
PlaceInv == \A task \in Tasks : Fits(task, pc[task], job[task])

(* An idle task has no job.                                                *)
IdleInv ==
    \A task \in Tasks \ {"shutdown"} :
        pc[task] = "idle" => job[task].gen = 0 /\ job[task].turn = None

(* How far the socket owner is.                                            *)
PhaseInv ==
    /\ phase # "live" => failure
    /\ phase \in {"live", "closing", "answering"} => pc["shutdown"] = "idle"
    /\ phase = "closed" => \A task \in Tasks : pc[task] = "over"
    /\ phase = "live" => job["shutdown"].turn = None

(* A turn/start that is out.                                               *)
StartInv ==
    /\ starting <=> \E task \in Tasks : pc[task] = "starting"
    /\ ~starting => early = <<>>
    /\ reply # None => starting
    /\ \A task \in Tasks :
          /\ job[task].does = "start" /\ (job[task].after # "idle" \/ pc[task] = "starting") =>
                queued = 0
          /\ pc[task] = "starting" => owner.turn = None
          /\ pc[task] \in {"tombstoned", "terminal"} => owner.turn \in {None, job[task].turn}

(* The events that have not been handled yet.                              *)
Known == ToSet(inbox) \cup ToSet(early) \cup UNION {ToSet(job[task].todo) : task \in Tasks}

(* A tool request on its way names the turn that made it.                  *)
EventInv == \A ev \in Known : ev.kind = "tool" => asked[ev.what] = ev.turn

(* A turn of which the session knows nothing.                              *)
Fresh(t) ==
    /\ interruptedFor[t] = {} /\ startedFor[t] = 0
    /\ owner.turn # t /\ t \notin finished
    /\ \A task \in Tasks : job[task].turn # t
    /\ \A r \in Reqs : asked[r] = t => r \notin crossed /\ tool[r] # "admitted"

(* Before its turn/start is answered, nothing is known of a turn.          *)
FreshInv ==
    /\ \A t \in Turns : turnState[t] = "unborn" \/ reply = t => Fresh(t)
    /\ \A t \in Turns : turnState[t] = "unborn" => reply # t /\ \A r \in Reqs : asked[r] # t

(* Home Assistant was asked, or is going to be.                            *)
Ran(r) == r \in crossed \/ tool[r] = "admitted"

(* The active turn and those that started too late.                        *)
TurnInv ==
    /\ \A task \in Tasks : job[task].after = "stale" =>
          job[task].turn # None /\ job[task].turn # owner.turn
    /\ owner.turn # None /\ interruptedFor[owner.turn] # {} => owner.interrupting
    /\ owner.turn # None /\ job["shutdown"].turn = owner.turn => owner.interrupting

(* A turn that ran a tool was not interrupted for something newer.         *)
ToolInv ==
    \A r \in Reqs : Ran(r) =>
        /\ asked[r] # None
        /\ interruptedFor[asked[r]] \cap {"barge", "stale"} = {}
        /\ owner.turn = asked[r] => owner.hadTool
        /\ \A task \in Tasks : job[task].after = "stale" => job[task].turn # asked[r]

(* The active turn and what was heard of it.                               *)
OwnerInv ==
    /\ \A h \in heard : h[1] = owner.turn
    /\ owner.turn # None =>
          startedFor[owner.turn] = owner.gen /\ owner.gen # 0 /\ owner.turn \notin finished

(* A submitted answer is that of a finished turn, submitted once.          *)
SpokenInv ==
    /\ \A s \in spoken :
          /\ startedFor[s.turn] = s.gen /\ s.gen # 0 /\ s.turn \in finished
          /\ \A h \in s.said : h[1] = s.turn
    /\ \A s1, s2 \in spoken : s1.turn = s2.turn => s1 = s2

(* A task at an answer: the answer of a turn that is over, and of no other *)
(* task's.                                                                 *)
AnswerInv ==
    \A task \in Tasks : pc[task] \in Answering =>
        /\ job[task].turn \in finished
        /\ startedFor[job[task].turn] = job[task].gen /\ job[task].gen # 0
        /\ \A h \in job[task].said : h[1] = job[task].turn
        /\ pc[task] # "appending" => \A s \in spoken : s.turn # job[task].turn
        /\ \A other \in Tasks :
              other # task /\ pc[other] \in Answering => job[other].turn # job[task].turn

(* The generation a task is to start a turn for.                           *)
Wants(task) ==
    IF job[task].does = "start" /\ job[task].after = "idle" THEN job[task].gen
    ELSE IF job[task].does = "nothing" THEN job[task].next ELSE 0

(* Nothing is newer than the newest generation.                            *)
BoundInv ==
    /\ queued <= generation /\ requested <= generation /\ owner.gen <= generation
    /\ \A task \in Tasks : Wants(task) <= generation
    /\ \A t \in Turns : startedFor[t] <= generation

(* The request of a generation is in one place: queued, with one task, or  *)
(* a turn was started for it.                                              *)
TokenInv ==
    /\ \A task, other \in Tasks : task # other /\ Wants(task) # 0 => Wants(task) # Wants(other)
    /\ \A task \in Tasks : Wants(task) # 0 =>
          Wants(task) # queued /\ \A t \in Turns : startedFor[t] # Wants(task)
    /\ queued # 0 => \A t \in Turns : startedFor[t] # queued
    /\ \A t, u \in Turns : startedFor[t] = startedFor[u] /\ t # u => startedFor[t] = 0

(* A generation whose request is still to come has none of these.          *)
UserInv ==
    ~user.handled /\ generation # 0 =>
        /\ queued # generation
        /\ \A task \in Tasks : Wants(task) # generation
        /\ \A t \in Turns : startedFor[t] # generation

(* The newest request is queued, with a task, or has its turn.             *)
NewestInv ==
    requested # 0 /\ requested = generation /\ ~failure =>
        \/ queued = requested
        \/ \E task \in Tasks : Wants(task) = requested
        \/ \E t \in Turns : startedFor[t] = requested

(* The parts of TypeOK.                                                    *)
UserType ==
    /\ generation \in Nat /\ requested \in Nat
    /\ user \in [pending : Nat, handled : BOOLEAN]
    /\ userGen \in [UserTurns -> Nat] /\ claimed \subseteq UserTurns

OwnerType ==
    /\ owner \in [turn : Turns \cup {None}, gen : Nat, hadTool : BOOLEAN,
                  interrupting : BOOLEAN]
    /\ finished \subseteq Turns /\ heard \subseteq Turns \X Nat
    /\ starting \in BOOLEAN /\ queued \in Nat

TaskType == pc \in [Tasks -> Waits \cup {"idle", "replaying", "over"}] /\ job \in [Tasks -> Jobs]

LockType == lockQueue \in Seq(Tasks) /\ IsInjective(lockQueue)

RunType == running \in Tasks \cup {None} /\ reply \in Turns \cup {None}

EventsType == early \in Seq(Events) /\ Len(early) <= MaxEarly /\ inbox \in Seq(Events)

RequestType ==
    /\ tool \in [Reqs -> {"unseen", "admitted", "refused", "calling", "claimed",
                          "rejecting", "cancelled", "answered", "dropped"}]
    /\ asked \in [Reqs -> Turns \cup {None}] /\ crossed \subseteq Reqs /\ failedClosed \in BOOLEAN

PhaseType ==
    /\ phase \in {"live", "closing", "answering", "interrupting", "closed"}
    /\ failure \in BOOLEAN /\ ordered \in BOOLEAN

ServerType == turnState \in [Turns -> {"unborn", "running", "over"}] /\ parts \in [Turns -> Nat]

SpeechType ==
    /\ render \in Nat /\ lost \subseteq Turns
    /\ spoken \subseteq [turn : Turns, gen : Nat, said : SUBSET (Turns \X Nat)]

HistoryType ==
    /\ interruptedFor \in [Turns -> SUBSET {"barge", "stale", "watchdog", "shutdown"}]
    /\ startedFor \in [Turns -> Nat]

(* The tool requests that are still to come or that a task has at hand.    *)
ReqsOf(events) == {ev.what : ev \in {e \in events : e.kind = "tool"}}

(* Those that were not consumed, or wait for the reply to turn/start.      *)
Coming == ReqsOf(ToSet(inbox) \cup ToSet(early))

(* Those a task is to replay or to reject.                                 *)
Awaits(task) == ToSet(job[task].reject) \cup ReqsOf(ToSet(job[task].todo))

(* A request that nobody took up is in one of these.                       *)
ForgottenInv ==
    failure \/ \A r \in Reqs :
        asked[r] # None /\ tool[r] = "unseen" =>
            r \in Coming \/ \E task \in Tasks : r \in Awaits(task)

(* The inductive invariant.                                                *)
IInv ==
    /\ TypeOK /\ LockInv /\ PlaceInv /\ IdleInv /\ PhaseInv /\ StartInv
    /\ EventInv /\ FreshInv /\ TurnInv /\ ToolInv
    /\ OwnerInv /\ AnswerInv /\ SpokenInv
    /\ BoundInv /\ TokenInv /\ UserInv /\ NewestInv /\ ForgottenInv

(***************************************************************************)
(* The kinds of steps.  Every step of Next is one of these; they say what  *)
(* it does without the nested alternatives of the actions.                 *)
(***************************************************************************)
Moves(task, there) ==
    /\ pc' = [pc EXCEPT ![task] = there]
    /\ job' = [job EXCEPT ![task] = job'[task]] /\ job'[task] \in Jobs

Is(j, does, gen, turn, reject, todo, after, next) ==
    /\ j.does = does /\ j.gen = gen /\ j.turn = turn /\ j.reject = reject
    /\ j.todo = todo /\ j.after = after /\ j.next = next

(* The same job, but for some of its fields.                               *)
Alike(j, old) == Is(j, old.does, old.gen, old.turn, old.reject, old.todo, old.after, old.next)

(* A task leaves the queue of the lock, or joins it.                       *)
QueueOK == lockQueue' \in Seq(Tasks) /\ IsInjective(lockQueue')

Frees(task) ==
    /\ QueueOK /\ ToSet(lockQueue') = ToSet(lockQueue) \ {task}
    /\ \A other \in Tasks \ {task} : Holds(other) => Holds(other)'

Joins(task) ==
    /\ QueueOK /\ ToSet(lockQueue') = ToSet(lockQueue) \cup {task}
    /\ \A other \in Tasks : Holds(other) => Holds(other)'

Over(task) == Moves(task, "over") /\ job'[task] = NoJob /\ Frees(task)

GiveUp(task) == Moves(task, "idle") /\ job'[task] = NoJob /\ Frees(task)

-----------------------------------------------------------------------------
(* The user's steps.                                                       *)

AsksTurn(task) ==
    /\ task \in {"receive", "data"} /\ pc[task] = "idle" /\ running = None /\ phase = "live"
    /\ \/ generation' = generation + 1
       \/ generation' = generation /\ generation # 0 /\ ~user.handled
    /\ user' \in [pending : Nat, handled : {TRUE}]
    /\ userGen' \in [UserTurns -> Nat]
    /\ requested' = generation'
    /\ Moves(task, "enter")
    /\ Is(job'[task], "start", generation', None, <<>>, <<>>, "idle", 0)
    /\ UNCHANGED <<claimed, turnVars, lockQueue, running, toolVars, ownerVars, serverVars,
                   speechVars, interruptVars>>

AsksEnd(task) ==
    /\ task \in {"receive", "data"} /\ pc[task] = "idle" /\ running = None /\ phase = "live"
    /\ generation' = generation + 1
    /\ user' \in [pending : Nat, handled : BOOLEAN] /\ claimed' \subseteq UserTurns
    /\ Moves(task, "enter")
    /\ Is(job'[task], "interrupt", owner.gen, owner.turn, <<>>, <<>>, "idle", generation')
    /\ UNCHANGED <<userGen, requested, turnVars, lockQueue, running, toolVars, ownerVars,
                   serverVars, speechVars, interruptVars>>

NotesTurn ==
    /\ user' \in [pending : Nat, handled : BOOLEAN] /\ user'.handled \in {user.handled, TRUE}
    /\ userGen' \in [UserTurns -> Nat] /\ claimed' \subseteq UserTurns
    /\ UNCHANGED <<generation, requested, turnVars, taskVars, toolVars, ownerVars, serverVars,
                   speechVars, interruptVars>>

-----------------------------------------------------------------------------
(* With background_turn_lock, or on the way to it.                         *)

Asks(task) ==
    /\ task \in {"receive", "data", "exec"} /\ pc[task] = "enter" /\ running = None
    /\ Moves(task, "locking") /\ Alike(job'[task], job[task])
    /\ Joins(task)
    /\ UNCHANGED <<generation, userVars, turnVars, running, toolVars, ownerVars, serverVars,
                   speechVars, interruptVars>>

(* The lock is given back: the request is stale, done, or waits for a turn *)
(* that has run a tool.                                                    *)
GivesBack(task) ==
    /\ task \in {"receive", "data", "exec"}
    /\ running \in {None, task} /\ (running = task <=> pc[task] = "replaying")
    /\ pc[task] \in {"locking", "terminal", "stale", "replaying"} /\ Holds(task)
    /\ GiveUp(task)
    /\ running' = None
    /\ userGen' \in [UserTurns -> Nat]
    /\ failure' \in BOOLEAN /\ (failure => failure')
    /\ queued' \in {queued, generation}
    /\ queued' # queued => /\ pc[task] = "locking" /\ job[task].does = "start"
                           /\ job[task].gen = generation /\ owner.turn # None
    /\ \/ queued' = generation /\ pc[task] = "locking"
       \/ Wants(task) \in {0} \cup (Nat \ {generation})
    /\ job[task].todo = <<>>
    /\ UNCHANGED <<generation, user, claimed, requested, owner, finished, starting, early, heard,
                   toolVars, phase, serverVars, speechVars, interruptVars>>

OrdersTurn(task) ==
    /\ task \in {"receive", "data", "exec"} /\ running = None
    /\ pc[task] \in {"locking", "terminal"} /\ Holds(task)
    /\ job[task].does = "start" /\ job[task].gen = generation
    /\ owner.turn = None
    /\ Moves(task, "starting") /\ Alike(job'[task], job[task])
    /\ heard' = {} /\ queued' = 0 /\ starting' = TRUE /\ early' = <<>> /\ ordered' = TRUE
    /\ UNCHANGED <<generation, userVars, owner, finished, lockQueue, running, toolVars,
                   ownerVars, reply, turnState, parts, asked, inbox, speechVars, interruptVars>>

TombstonesTurn(task) ==
    /\ task \in {"receive", "data", "exec"} /\ running = None
    /\ pc[task] = "locking" /\ Holds(task)
    /\ job[task].does \in {"start", "interrupt"}
    /\ owner.turn # None /\ ~owner.hadTool
    /\ owner' = [owner EXCEPT !.interrupting = TRUE]
    /\ Interrupted(owner.turn, "barge")
    /\ Moves(task, "tombstoned")
    /\ Is(job'[task], job[task].does, job[task].gen, owner.turn, job[task].reject,
          job[task].todo, job[task].after, job[task].next)
    /\ UNCHANGED <<generation, userVars, finished, starting, early, heard, queued, lockQueue,
                   running, toolVars, ownerVars, serverVars, speechVars, startedFor>>

Accepted(task) ==
    /\ pc[task] = "tombstoned" /\ running = None
    /\ Moves(task, "terminal") /\ Alike(job'[task], job[task])
    /\ UNCHANGED <<generation, userVars, turnVars, lockQueue, running, toolVars, ownerVars,
                   serverVars, speechVars, interruptVars>>

-----------------------------------------------------------------------------
(* A turn that started, and the rejections of early requests.              *)

Starts(task) ==
    /\ pc[task] = "starting" /\ running = None /\ reply # None
    /\ reply' = None /\ starting' = FALSE /\ early' = <<>>
    /\ startedFor' = [startedFor EXCEPT ![reply] = job[task].gen]
    /\ UNCHANGED <<generation, userVars, finished, heard, queued, lockQueue, failedClosed,
                   crossed, ownerVars, ordered, turnState, parts, asked, inbox, speechVars>>

(* The first of the rejections is being written.                           *)
Rejecting(task) ==
    /\ Moves(task, "rejecting") /\ job'[task].reject # <<>>
    /\ tool' = [tool EXCEPT ![Head(job'[task].reject)] = "rejecting"]
    /\ running' = None
    /\ UNCHANGED interruptedFor

LateRejects(task) ==
    /\ Starts(task) /\ job[task].gen # generation
    /\ Rejecting(task)
    /\ Is(job'[task], job[task].does, job[task].gen, reply, job'[task].reject, job[task].todo,
          "stale", job[task].next)
    /\ ToSet(job'[task].reject) = ReqsOf(ToSet(early))
    /\ UNCHANGED owner

LateInterrupts(task) ==
    /\ Starts(task) /\ job[task].gen # generation
    /\ Moves(task, "stale")
    /\ Is(job'[task], job[task].does, job[task].gen, reply, <<>>, job[task].todo, "stale",
          job[task].next)
    /\ ReqsOf(ToSet(early)) = {}
    /\ Interrupted(reply, "stale") /\ running' = None
    /\ UNCHANGED <<owner, tool>>

Owns(task) ==
    /\ Starts(task) /\ job[task].gen = generation
    /\ owner' = [Nobody EXCEPT !.turn = reply, !.gen = generation]
    /\ ToSet(job'[task].todo) \subseteq ToSet(early)
    /\ ReqsOf(ToSet(early)) = ToSet(job'[task].reject) \cup ReqsOf(ToSet(job'[task].todo))
    /\ Is(job'[task], job[task].does, job[task].gen, reply, job'[task].reject,
          job'[task].todo, "replaying", job[task].next)

OwnsRejects(task) == Owns(task) /\ Rejecting(task)

OwnsReplays(task) ==
    /\ Owns(task)
    /\ Moves(task, "replaying") /\ job'[task].reject = <<>>
    /\ running' = task
    /\ UNCHANGED <<tool, interruptedFor>>

Writes(task) ==
    /\ pc[task] = "rejecting" /\ running = None
    /\ UNCHANGED <<generation, userVars, turnVars, failedClosed, crossed, ownerVars, serverVars,
                   speechVars, startedFor>>

Wrote(task) == tool' = [tool EXCEPT ![Head(job[task].reject)] = "answered"]

WritesNext(task) ==
    /\ Writes(task)
    /\ Moves(task, "rejecting") /\ job'[task].reject # <<>>
    /\ Is(job'[task], job[task].does, job[task].gen, job[task].turn, Tail(job[task].reject),
          job[task].todo, job[task].after, job[task].next)
    /\ tool' = [tool EXCEPT ![Head(job[task].reject)] = "answered",
                            ![Head(job'[task].reject)] = "rejecting"]
    /\ running' = None
    /\ UNCHANGED <<lockQueue, interruptedFor>>

WritesLast(task) ==
    /\ Writes(task) /\ Wrote(task) /\ Tail(job[task].reject) = <<>>

WritesOut(task) ==
    /\ WritesLast(task)
    /\ \/ /\ job[task].after = "idle" /\ Moves(task, "idle") /\ UNCHANGED lockQueue
       \/ job[task].after = "over" /\ Over(task)
    /\ job'[task] = NoJob
    /\ running' = None
    /\ UNCHANGED interruptedFor

WritesOn(task) ==
    /\ WritesLast(task) /\ job[task].after \in {"stale", "replaying"}
    /\ Moves(task, job[task].after)
    /\ Is(job'[task], job[task].does, job[task].gen, job[task].turn, <<>>, job[task].todo,
          job[task].after, job[task].next)
    /\ \/ /\ job[task].after = "stale" /\ Interrupted(job[task].turn, "stale")
          /\ running' = None
       \/ /\ job[task].after = "replaying" /\ running' = task
          /\ UNCHANGED interruptedFor
    /\ UNCHANGED lockQueue

-----------------------------------------------------------------------------
(* Events of the executor.                                                 *)

Buffers ==
    /\ running = None /\ pc["exec"] = "idle" /\ phase # "closed" /\ inbox # <<>>
    /\ starting /\ owner.turn = None
    /\ inbox' = Tail(inbox)
    /\ early' = Append(early, Head(inbox)) /\ Len(early) < MaxEarly
    /\ UNCHANGED <<generation, userVars, owner, finished, starting, heard, queued, taskVars,
                   toolVars, ownerVars, ordered, reply, turnState, parts, asked, speechVars,
                   interruptVars>>

Overflows ==
    /\ running = None /\ pc["exec"] = "idle" /\ phase # "closed" /\ inbox # <<>>
    /\ failure' = TRUE
    /\ inbox' = Tail(inbox)
    /\ \/ /\ Rejecting("exec")
          /\ Is(job'["exec"], "nothing", 0, None, job'["exec"].reject, <<>>, "idle", 0)
       \/ /\ Moves("exec", "idle") /\ job'["exec"] = NoJob
          /\ running' = None /\ UNCHANGED <<tool, interruptedFor>>
    /\ UNCHANGED <<generation, userVars, owner, finished, starting, early, heard, queued,
                   lockQueue, failedClosed, crossed, phase, ordered, reply, turnState, parts,
                   asked, speechVars, startedFor>>

(* The event a task handles: executor_events takes the next one, a task    *)
(* that replays has it at hand.                                            *)
Event(task) == IF pc[task] = "replaying" THEN Head(job[task].todo) ELSE Head(inbox)

Left(task) == IF pc[task] = "replaying" THEN Tail(job[task].todo) ELSE <<>>

Handles(task) ==
    /\ \/ /\ task = "exec" /\ pc[task] = "idle" /\ running = None
          /\ inbox # <<>> /\ inbox' = Tail(inbox) /\ phase # "closed"
       \/ /\ task \in {"receive", "data", "exec"}
          /\ pc[task] = "replaying" /\ running = task
          /\ job[task].todo # <<>> /\ UNCHANGED inbox
    /\ UNCHANGED <<generation, userVars, starting, early, failedClosed, crossed, phase, ordered,
                   reply, turnState, parts, asked, render, spoken, startedFor>>

(* It is ready for the next one.                                           *)
Back(task, gen, t) ==
    /\ Moves(task, job[task].after)
    /\ \/ job[task].after = "idle" /\ job'[task] = NoJob /\ running' = None
       \/ /\ job[task].after = "replaying" /\ running' = task
          /\ Is(job'[task], job[task].does, gen, t, job[task].reject,
                IF pc[task] = "replaying" THEN Tail(job[task].todo) ELSE job[task].todo,
                job[task].after, 0)
    /\ UNCHANGED lockQueue

RefusesTool(task) ==
    /\ Handles(task) /\ Event(task).kind = "tool"
    /\ Moves(task, "rejecting") /\ running' = None
    /\ Is(job'[task], job[task].does, job[task].gen, job[task].turn, <<Event(task).what>>,
          Left(task), job[task].after, job[task].next)
    /\ tool' = [tool EXCEPT ![Event(task).what] = "rejecting"]
    /\ UNCHANGED <<owner, finished, heard, queued, lockQueue, failure, lost, interruptedFor>>

AdmitsTool(task) ==
    /\ Handles(task) /\ Event(task).kind = "tool"
    /\ Event(task).turn = owner.turn /\ ~owner.interrupting /\ owner.gen = generation
    /\ \E said \in {"admitted", "refused"} : tool' = [tool EXCEPT ![Event(task).what] = said]
    /\ failure' \in BOOLEAN /\ (failure => failure')
    /\ owner' = [owner EXCEPT !.hadTool = TRUE]
    /\ Back(task, job[task].gen, job[task].turn)
    /\ UNCHANGED <<finished, heard, queued, lost, interruptedFor>>

HearsPart(task) ==
    /\ Handles(task) /\ Event(task).kind = "part"
    /\ \/ UNCHANGED heard
       \/ /\ Event(task).turn = owner.turn
          /\ heard' = heard \cup {<<owner.turn, Event(task).what>>}
    /\ Back(task, job[task].gen, job[task].turn)
    /\ UNCHANGED <<owner, finished, queued, tool, failure, lost, interruptedFor>>

PassesEnd(task) ==
    /\ Handles(task) /\ Event(task).kind = "done" /\ Event(task).turn # owner.turn
    /\ Back(task, job[task].gen, job[task].turn)
    /\ UNCHANGED <<owner, finished, heard, queued, tool, failure, lost, interruptedFor>>

(* The terminal of the active turn.                                        *)
EndsTurn(task) ==
    /\ Handles(task) /\ Event(task).kind = "done" /\ Event(task).turn = owner.turn
    /\ owner' = Nobody /\ finished' = finished \cup {owner.turn}
    /\ heard' = {} /\ queued' = 0
    /\ UNCHANGED <<tool, interruptedFor>>

EndsUnspoken(task) ==
    /\ EndsTurn(task) /\ queued \in {0} \cup (Nat \ {generation})
    /\ Back(task, owner.gen, owner.turn)
    /\ lost' \subseteq Turns
    /\ UNCHANGED failure

Renews(task, gen) ==
    /\ Moves(task, "enter") /\ running' = None
    /\ Is(job'[task], "start", gen, None, <<>>, <<>>, "idle", 0)
    /\ UNCHANGED lockQueue

EndsForNext(task) ==
    /\ EndsTurn(task) /\ queued = generation /\ queued # 0
    /\ Renews(task, queued)
    /\ lost' \subseteq Turns
    /\ UNCHANGED failure

EndsSession(task) ==
    /\ EndsTurn(task)
    /\ Over(task) /\ running' = None
    /\ failure' = TRUE
    /\ UNCHANGED lost

EndsForSpeech(task) ==
    /\ EndsTurn(task) /\ owner.gen = generation
    /\ \E there \in {"retiring", "settling"} : Moves(task, there)
    /\ running' = None
    /\ Is(job'[task], job[task].does, owner.gen, owner.turn, job[task].reject, Left(task),
          job[task].after, queued)
    /\ job'[task].said = heard
    /\ UNCHANGED <<lockQueue, failure, lost>>

-----------------------------------------------------------------------------
(* The speaking of an answer.                                              *)

Retired(task) ==
    /\ pc[task] = "retiring" /\ running = None
    /\ Moves(task, "settling")
    /\ Alike(job'[task], job[task]) /\ job'[task].said = job[task].said
    /\ UNCHANGED <<generation, userVars, turnVars, lockQueue, running, toolVars, ownerVars,
                   serverVars, speechVars, interruptVars>>

Submits(task) ==
    /\ pc[task] = "settling" /\ running = None /\ job[task].gen = generation
    /\ Moves(task, "appending")
    /\ Alike(job'[task], job[task]) /\ job'[task].said = job[task].said
    /\ render' = job[task].gen
    /\ spoken' = spoken \cup {[turn |-> job[task].turn, gen |-> job[task].gen,
                               said |-> job[task].said]}
    /\ UNCHANGED <<generation, userVars, turnVars, lockQueue, running, toolVars, ownerVars,
                   serverVars, lost, interruptVars>>

EndsAnswer(task) ==
    /\ pc[task] \in {"settling", "appending"} /\ running = None
    /\ UNCHANGED <<generation, userVars, turnVars, toolVars, ownerVars, serverVars, speechVars,
                   interruptVars>>

AnswerOver(task) ==
    /\ EndsAnswer(task) /\ job[task].next \in {0} \cup (Nat \ {generation})
    /\ Back(task, job[task].gen, job[task].turn)

AnswerForNext(task) ==
    /\ EndsAnswer(task) /\ job[task].next = generation /\ generation # 0
    /\ Renews(task, generation)

RendersOn ==
    /\ render' = 0
    /\ UNCHANGED <<generation, userVars, turnVars, taskVars, toolVars, ownerVars, serverVars,
                   spoken, lost, interruptVars>>

-----------------------------------------------------------------------------
(* Tool calls, failures and the teardown.                                  *)

CallsTool(r) ==
    /\ running = None /\ tool[r] = "admitted"
    /\ tool' = [tool EXCEPT ![r] = "calling"]
    /\ crossed' = crossed \cup {r}
    /\ UNCHANGED <<generation, userVars, turnVars, taskVars, failedClosed, ownerVars, serverVars,
                   speechVars, interruptVars>>

SettlesTool(r) ==
    /\ tool[r] # "unseen"
    /\ \E how \in {"claimed", "answered", "dropped"} : tool' = [tool EXCEPT ![r] = how]
    /\ failedClosed' \in BOOLEAN /\ failure' \in BOOLEAN /\ (failure => failure')
    /\ UNCHANGED <<generation, userVars, turnVars, taskVars, crossed, phase, serverVars,
                   speechVars, interruptVars>>

FailsStart(task) ==
    /\ pc[task] = "starting" /\ running = None
    /\ starting' = FALSE /\ early' = <<>> /\ reply' = None /\ failure' = TRUE
    /\ \/ /\ Rejecting(task) /\ UNCHANGED lockQueue
          /\ Is(job'[task], "nothing", 0, None, job'[task].reject, <<>>, "over", 0)
       \/ Over(task) /\ running' = None /\ UNCHANGED <<tool, interruptedFor>>
    /\ UNCHANGED <<generation, userVars, owner, finished, heard, queued, failedClosed, crossed,
                   phase, ordered, turnState, parts, asked, inbox, speechVars, startedFor>>

Fails(task) ==
    /\ pc[task] \in Waits \ {"starting"} /\ running = None /\ task # "shutdown"
    /\ Over(task)
    /\ failure' = TRUE /\ render' \in Nat
    /\ tool' = tool \/ \E r \in Reqs : tool' = [tool EXCEPT ![r] = "dropped"]
    /\ UNCHANGED <<generation, userVars, turnVars, running, failedClosed, crossed, phase,
                   serverVars, spoken, lost, interruptVars>>

Expires ==
    /\ pc["watchdog"] = "idle" /\ running = None /\ phase = "live" /\ owner.turn # None
    /\ Moves("watchdog", "locking")
    /\ job'["watchdog"] = [NoJob EXCEPT !.turn = owner.turn, !.gen = owner.gen]
    /\ Joins("watchdog")
    /\ UNCHANGED <<generation, userVars, turnVars, running, toolVars, ownerVars, serverVars,
                   speechVars, interruptVars>>

WatchdogTombstones ==
    /\ pc["watchdog"] = "locking" /\ running = None /\ Holds("watchdog")
    /\ owner.turn = job["watchdog"].turn
    /\ owner' = [owner EXCEPT !.interrupting = TRUE]
    /\ generation' = generation + 1
    /\ Interrupted(owner.turn, "watchdog")
    /\ Moves("watchdog", "tombstoned") /\ job'["watchdog"] = job["watchdog"]
    /\ UNCHANGED <<userVars, finished, starting, early, heard, queued, lockQueue, running,
                   toolVars, ownerVars, serverVars, speechVars, startedFor>>

WatchdogLeaves ==
    /\ pc["watchdog"] = "locking" /\ running = None
    /\ GiveUp("watchdog")
    /\ UNCHANGED <<generation, userVars, turnVars, running, toolVars, ownerVars, serverVars,
                   speechVars, interruptVars>>

MayFail ==
    /\ failure' = TRUE
    /\ UNCHANGED <<generation, userVars, turnVars, taskVars, toolVars, phase, serverVars,
                   speechVars, interruptVars>>

TearsDown ==
    /\ running = None /\ phase = "live" /\ failure
    /\ phase' = "closing" /\ queued' = 0 /\ generation' = generation + 1
    /\ owner' = [owner EXCEPT !.interrupting = @ \/ owner.turn # None]
    /\ job' = [job EXCEPT !["shutdown"] = [NoJob EXCEPT !.turn = owner.turn, !.gen = owner.gen]]
    /\ tool' = [r \in Reqs |-> IF r \in Unclaimed THEN "cancelled" ELSE tool[r]]
    /\ UNCHANGED <<userVars, finished, starting, early, heard, pc, lockQueue, running,
                   failedClosed, crossed, failure, serverVars, speechVars, interruptVars>>

TearsDownAnswers ==
    /\ phase = "closing" /\ phase' = "answering"
    /\ tool' = [r \in Reqs |-> IF tool[r] = "cancelled" THEN "claimed" ELSE tool[r]]
    /\ UNCHANGED <<generation, userVars, turnVars, taskVars, failedClosed, crossed, failure,
                   serverVars, speechVars, interruptVars>>

TearsDownLocks ==
    /\ phase = "answering" /\ running = None /\ phase' = "interrupting"
    /\ Moves("shutdown", "locking") /\ job'["shutdown"] = job["shutdown"]
    /\ Joins("shutdown")
    /\ UNCHANGED <<generation, userVars, turnVars, running, toolVars, failure, serverVars,
                   speechVars, interruptVars>>

ShutdownTombstones ==
    /\ pc["shutdown"] = "locking" /\ running = None /\ Holds("shutdown")
    /\ owner.turn = job["shutdown"].turn /\ owner.turn # None
    /\ Interrupted(owner.turn, "shutdown")
    /\ Moves("shutdown", "tombstoned") /\ job'["shutdown"] = job["shutdown"]
    /\ UNCHANGED <<generation, userVars, turnVars, lockQueue, running, toolVars, ownerVars,
                   serverVars, speechVars, startedFor>>

Ends ==
    /\ running = None /\ pc["shutdown"] \in {"locking", "terminal"} /\ Holds("shutdown")
    /\ phase' = "closed" /\ pc' = [task \in Tasks |-> "over"]
    /\ job' = [task \in Tasks |-> NoJob] /\ lockQueue' = <<>>
    /\ UNCHANGED <<generation, userVars, turnVars, running, toolVars, failure, serverVars,
                   speechVars, interruptVars>>

-----------------------------------------------------------------------------
(* The App Server.                                                         *)

Takes(t) ==
    /\ turnState[t] = "unborn" /\ turnState' = [turnState EXCEPT ![t] = "running"]
    /\ ordered' = FALSE
    /\ \/ reply' = t /\ \E task \in Tasks : pc[task] = "starting"
       \/ reply' = None
    /\ UNCHANGED <<generation, userVars, turnVars, taskVars, toolVars, ownerVars, parts, asked,
                   inbox, speechVars, interruptVars>>

Says(t, ev) ==
    /\ turnState[t] = "running" /\ ev.turn = t /\ ev.kind # "tool"
    /\ turnState' = [turnState EXCEPT ![t] = turnState'[t]]
    /\ turnState'[t] \in {"running", "over"}
    /\ parts' \in [Turns -> Nat]
    /\ inbox' = Append(inbox, ev)
    /\ UNCHANGED <<generation, userVars, turnVars, taskVars, toolVars, ownerVars, ordered, reply,
                   asked, speechVars, interruptVars>>

AsksTool(t, r) ==
    /\ turnState[t] = "running" /\ asked[r] = None
    /\ asked' = [asked EXCEPT ![r] = t]
    /\ inbox' = Append(inbox, [turn |-> t, kind |-> "tool", what |-> r])
    /\ UNCHANGED <<generation, userVars, turnVars, taskVars, toolVars, ownerVars, ordered, reply,
                   turnState, parts, speechVars, interruptVars>>

Steps ==
    \/ \E task \in Tasks :
          \/ AsksTurn(task) \/ AsksEnd(task) \/ Asks(task) \/ GivesBack(task)
          \/ OrdersTurn(task) \/ TombstonesTurn(task) \/ Accepted(task)
          \/ LateRejects(task) \/ LateInterrupts(task) \/ OwnsRejects(task) \/ OwnsReplays(task)
          \/ WritesNext(task) \/ WritesOut(task) \/ WritesOn(task)
          \/ RefusesTool(task) \/ AdmitsTool(task) \/ HearsPart(task) \/ PassesEnd(task)
          \/ EndsUnspoken(task) \/ EndsForNext(task) \/ EndsSession(task) \/ EndsForSpeech(task)
          \/ Retired(task) \/ Submits(task) \/ AnswerOver(task) \/ AnswerForNext(task)
          \/ FailsStart(task) \/ Fails(task)
    \/ NotesTurn \/ Buffers \/ Overflows \/ RendersOn
    \/ \E r \in Reqs : CallsTool(r) \/ SettlesTool(r)
    \/ Expires \/ WatchdogTombstones \/ WatchdogLeaves \/ MayFail
    \/ TearsDown \/ TearsDownAnswers \/ TearsDownLocks \/ ShutdownTombstones \/ Ends
    \/ \E t \in Turns : Takes(t) \/ \E r \in Reqs : AsksTool(t, r)
    \/ \E t \in Turns, ev \in Events : Says(t, ev)

=============================================================================
