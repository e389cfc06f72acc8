---------------------------- MODULE ExecutorTurns ----------------------------
(***************************************************************************)
(* The managed realtime session of bridge/service.py (_run_realtime_socket *)
(* with an executor thread): how a user's requests become turns of the     *)
(* isolated executor, how a newer request interrupts or waits for an older *)
(* one, which tool requests of a turn may cross the Home Assistant broker  *)
(* and which final answers are spoken.                                     *)
(*                                                                         *)
(* Asyncio tasks run to their next await.  A step of a task is one such    *)
(* stretch; where a stretch takes several steps of the model, `running`    *)
(* keeps the other tasks out.  The App Server's executor thread and the    *)
(* speaking of an answer are modelled by what the session sees of them.    *)
(***************************************************************************)
EXTENDS Queues, SequencesExt

CONSTANTS
    Turns,         \* turn ids of the executor thread
    Reqs,          \* request ids of item/tool/call
    UserTurns,     \* turn ids of the provider's user turns
    None,          \* no turn, no task
    Continuation,  \* managed_interrupt_continuation
    MaxEarly,      \* MAX_EARLY_TURN_EVENTS
    MaxRequests,   \* bound of the model: generations the user begins
    MaxParts       \* bound of the model: agent messages of a turn

ASSUME NamesAssumption ==
    /\ None \notin Turns \cup {"receive", "data", "exec", "watchdog", "shutdown"}
    /\ Continuation \in BOOLEAN

ASSUME BoundsAssumption == MaxEarly \in Nat /\ MaxRequests \in Nat /\ MaxParts \in Nat

Tasks == {"receive", "data", "exec", "watchdog", "shutdown"}

VARIABLES
    generation,     \* background_generation
    user,           \* pending_managed_speech_generation, user_transcript_handled
    userGen,        \* managed_user_turn_generations; 0 is absent
    claimed,        \* claimed_managed_turn_ids of user turns
    owner,          \* active_background_turn_{id, generation, had_tool, interrupting}
    finished,       \* turns whose active_background_terminal is done
    starting,       \* background_turn_starting
    early,          \* early_background_events, in order of arrival
    heard,          \* background_agent_messages, as <<turn, part>>
    queued,         \* generation of queued_background_request; 0 is none
    render,         \* backend_render_generation; 0 is a free slot
    pc,             \* what a task awaits
    job,            \* the locals of the procedure a task is in
    lockQueue,      \* background_turn_lock: holder, then waiters
    running,        \* the task in a stretch of several steps
    tool,           \* how far the session got with a tool request
    failedClosed,   \* tool_authority_failed_closed
    phase,          \* the socket owner: live, or how far its teardown got
    failure,        \* a task raised, or the socket is to stop
    ordered,        \* a turn/start the App Server has not taken up
    reply,          \* the turn id in its reply
    turnState,      \* a turn as the App Server knows it
    parts,          \* agent messages a turn has completed
    asked,          \* the turn a tool request belongs to
    inbox,          \* executor events the session has not consumed
    interruptedFor, \* history: why turn/interrupt was sent for a turn
    startedFor,     \* history: the generation a turn was started for
    crossed,        \* history: requests handed to the broker
    requested,      \* history: the generation of the newest request for a turn
    spoken,         \* history: answers submitted with appendSpeech
    lost            \* history: turns whose answer was reported missing

userVars == <<user, userGen, claimed, requested>>
turnVars == <<owner, finished, starting, early, heard, queued>>
taskVars == <<pc, job, lockQueue, running>>
toolVars == <<tool, failedClosed, crossed>>
ownerVars == <<phase, failure>>
serverVars == <<ordered, reply, turnState, parts, asked, inbox>>
speechVars == <<render, spoken, lost>>
interruptVars == <<interruptedFor, startedFor>>
vars == <<generation, userVars, turnVars, taskVars, toolVars, ownerVars,
          serverVars, speechVars, interruptVars>>

Nobody == [turn |-> None, gen |-> 0, hadTool |-> FALSE, interrupting |-> FALSE]

NoJob == [does |-> "nothing", gen |-> 0, turn |-> None, binds |-> {},
          reject |-> <<>>, todo |-> <<>>, after |-> "idle", next |-> 0, said |-> {}]

Statuses == {"completed", "interrupted", "failed"}

(* An executor event: an agent message, a tool request or turn/completed.  *)
Events == [turn : Turns, kind : {"part"}, what : Nat]
          \cup [turn : Turns, kind : {"tool"}, what : Reqs]
          \cup [turn : Turns, kind : {"done"}, what : Statuses]

(* Where a task awaits: its own input; output cleanup before the lock; the *)
(* lock; the reply to turn/interrupt; the terminal event; the reply to     *)
(* turn/start; the write of a rejection; the reply to the interrupt of a   *)
(* turn that started too late; the retirement of the previous render; its  *)
(* quiet tail; the reply to appendSpeech.                                  *)
Waits == {"enter", "locking", "tombstoned", "terminal", "starting", "rejecting",
          "stale", "retiring", "settling", "appending"}

Jobs == [does : {"nothing", "start", "interrupt"}, gen : Nat,
         turn : Turns \cup {None}, binds : SUBSET UserTurns, reject : Seq(Reqs),
         todo : Seq(Events), after : {"idle", "stale", "replaying", "over"},
         next : Nat, said : SUBSET (Turns \X Nat)]

TypeOK ==
    /\ generation \in Nat
    /\ user \in [pending : Nat, handled : BOOLEAN]
    /\ userGen \in [UserTurns -> Nat]
    /\ claimed \subseteq UserTurns
    /\ requested \in Nat
    /\ owner \in [turn : Turns \cup {None}, gen : Nat, hadTool : BOOLEAN,
                  interrupting : BOOLEAN]
    /\ finished \subseteq Turns
    /\ starting \in BOOLEAN
    /\ early \in Seq(Events) /\ Len(early) <= MaxEarly
    /\ heard \subseteq Turns \X Nat
    /\ queued \in Nat
    /\ render \in Nat
    /\ pc \in [Tasks -> Waits \cup {"idle", "replaying", "over"}]
    /\ job \in [Tasks -> Jobs]
    /\ lockQueue \in Seq(Tasks) /\ IsInjective(lockQueue)
    /\ running \in Tasks \cup {None}
    /\ tool \in [Reqs -> {"unseen", "admitted", "refused", "calling", "claimed",
                          "rejecting", "cancelled", "answered", "dropped"}]
    /\ failedClosed \in BOOLEAN
    /\ phase \in {"live", "closing", "answering", "interrupting", "closed"}
    /\ failure \in BOOLEAN
    /\ ordered \in BOOLEAN
    /\ reply \in Turns \cup {None}
    /\ turnState \in [Turns -> {"unborn", "running", "over"}]
    /\ parts \in [Turns -> Nat]
    /\ asked \in [Reqs -> Turns \cup {None}]
    /\ inbox \in Seq(Events)
    /\ interruptedFor \in [Turns -> SUBSET {"barge", "stale", "watchdog", "shutdown"}]
    /\ startedFor \in [Turns -> Nat]
    /\ crossed \subseteq Reqs
    /\ spoken \subseteq [turn : Turns, gen : Nat, said : SUBSET (Turns \X Nat)]
    /\ lost \subseteq Turns

Init ==
    /\ generation = 0
    /\ user = [pending |-> 0, handled |-> FALSE]
    /\ userGen = [u \in UserTurns |-> 0]
    /\ claimed = {}
    /\ requested = 0
    /\ owner = Nobody
    /\ finished = {}
    /\ starting = FALSE
    /\ early = <<>>
    /\ heard = {}
    /\ queued = 0
    /\ render = 0
    /\ pc = [task \in Tasks |-> "idle"]
    /\ job = [task \in Tasks |-> NoJob]
    /\ lockQueue = <<>>
    /\ running = None
    /\ tool = [r \in Reqs |-> "unseen"]
    /\ failedClosed = FALSE
    /\ phase = "live"
    /\ failure = FALSE
    /\ ordered = FALSE
    /\ reply = None
    /\ turnState = [t \in Turns |-> "unborn"]
    /\ parts = [t \in Turns |-> 0]
    /\ asked = [r \in Reqs |-> None]
    /\ inbox = <<>>
    /\ interruptedFor = [t \in Turns |-> {}]
    /\ startedFor = [t \in Turns |-> 0]
    /\ crossed = {}
    /\ spoken = {}
    /\ lost = {}

-----------------------------------------------------------------------------
(* Tasks and the lock.                                                     *)

Ready(task) == phase = "live" /\ running = None /\ pc[task] = "idle"

At(task, where) == running = None /\ pc[task] = where

Goes(task, where, j) ==
    /\ pc' = [pc EXCEPT ![task] = where]
    /\ job' = [job EXCEPT ![task] = j]

Holds(task) == lockQueue # <<>> /\ Head(lockQueue) = task

WithAll(task) == lockQueue

Without(task) == Dropping(lockQueue, {task})

(* A procedure returns to the loop of its task.  A user turn is bound to   *)
(* its generation only now; an interrupt without the continuation contract *)
(* stops the socket.                                                       *)
Returns(task) ==
    LET j == job[task] IN
    /\ userGen' = [u \in UserTurns |-> IF u \in j.binds THEN j.next ELSE userGen[u]]
    /\ failure' = (failure \/ (task = "receive" /\ j.does = "interrupt"
                               /\ ~Continuation))
    /\ Goes(task, "idle", NoJob)

Leaves(task) ==
    /\ lockQueue' = Tail(lockQueue)
    /\ Returns(task)

(* Output cleanup is over; the procedure asks for background_turn_lock.    *)
Enter(task) ==
    /\ At(task, "enter")
    /\ lockQueue' = Append(lockQueue, task)
    /\ Goes(task, "locking", job[task])
    /\ UNCHANGED <<generation, userVars, turnVars, running, toolVars, ownerVars,
                   serverVars, speechVars, interruptVars>>

-----------------------------------------------------------------------------
(* The user.                                                               *)

(* begin_background_generation: everything an older request still wants to *)
(* do is stale from here on.                                               *)
NewGeneration ==
    /\ generation < MaxRequests
    /\ generation' = generation + 1

Starting(gen) == [NoJob EXCEPT !.does = "start", !.gen = gen]

(* Interrupt the owner captured now, if it is still the owner by then.     *)
Interrupting(binds) ==
    [NoJob EXCEPT !.does = "interrupt", !.turn = owner.turn, !.gen = owner.gen,
                  !.binds = binds, !.next = generation + 1]

(* receive(): a text request.                                              *)
UserText ==
    /\ Ready("receive")
    /\ NewGeneration
    /\ user' = [pending |-> 0, handled |-> TRUE]
    /\ requested' = generation + 1
    /\ Goes("receive", "enter", Starting(generation + 1))
    /\ UNCHANGED <<userGen, claimed, turnVars, lockQueue, running, toolVars,
                   ownerVars, serverVars, speechVars, interruptVars>>

(* receive(): an interrupt.                                                *)
UserInterrupt ==
    /\ Ready("receive")
    /\ NewGeneration
    /\ user' = [pending |-> 0, handled |-> TRUE]
    /\ Goes("receive", "enter", Interrupting({}))
    /\ UNCHANGED <<userGen, claimed, requested, turnVars, lockQueue, running, toolVars,
                   ownerVars, serverVars, speechVars, interruptVars>>

(* data_events(): the user begins to speak; a second start is the same     *)
(* utterance.                                                              *)
SpeechStarted ==
    /\ Ready("data")
    /\ user.pending = 0
    /\ NewGeneration
    /\ user' = [pending |-> generation + 1, handled |-> FALSE]
    /\ Goes("data", "enter", Interrupting({}))
    /\ UNCHANGED <<userGen, claimed, requested, turnVars, lockQueue, running, toolVars,
                   ownerVars, serverVars, speechVars, interruptVars>>

(* remember_managed_user_turn: the provider's user turn belongs to the     *)
(* utterance that is pending, or begins a generation of its own.           *)
UserTurnCreated(u) ==
    /\ Ready("data")
    /\ u \notin claimed
    /\ claimed' = claimed \cup {u}
    /\ \/ /\ user.pending # 0 /\ user.pending = generation
          /\ userGen' = [userGen EXCEPT ![u] = generation]
          /\ user' = [user EXCEPT !.pending = 0]
          /\ UNCHANGED <<generation, pc, job>>
       \/ /\ user.pending = 0 \/ user.pending # generation
          /\ NewGeneration
          /\ user' = [user EXCEPT !.handled = FALSE]
          /\ Goes("data", "enter", Interrupting({u}))
          /\ UNCHANGED userGen
    /\ UNCHANGED <<requested, turnVars, lockQueue, running, toolVars, ownerVars, serverVars,
                   speechVars, interruptVars>>

(* complete_managed_user_turn: only the transcript of the current user     *)
(* turn becomes a request, and only once.                                  *)
UserTurnDone(u) ==
    /\ Ready("data")
    /\ userGen[u] # 0
    /\ userGen' = [userGen EXCEPT ![u] = 0]
    /\ \/ /\ userGen[u] # generation \/ user.handled
          /\ UNCHANGED <<user, requested, pc, job>>
       \/ /\ userGen[u] = generation /\ ~user.handled
          /\ user' = [user EXCEPT !.handled = TRUE]
          /\ \/ requested' = generation /\ Goes("data", "enter", Starting(generation))
             \/ UNCHANGED <<requested, pc, job>>
    /\ UNCHANGED <<generation, claimed, turnVars, lockQueue, running, toolVars,
                   ownerVars, serverVars, speechVars, interruptVars>>

-----------------------------------------------------------------------------
(* start_background_turn and interrupt_active_background_turn.             *)

Requests(events) ==
    LET tools == Dropping(events, {ev \in ToSet(events) : ev.kind # "tool"})
    IN  [i \in DOMAIN tools |-> tools[i].what]

Interrupted(t, why) ==
    interruptedFor' = [interruptedFor EXCEPT ![t] = @ \cup {why}]

(* Answer the listed requests as unowned, one write after the other, then  *)
(* go on: to the replay, to the interrupt of a stale turn, back or out.    *)
Rejects(task, requests, known, j) ==
    LET more == requests # <<>> IN
    /\ tool' = IF more THEN [known EXCEPT ![Head(requests)] = "rejecting"] ELSE known
    /\ Goes(task, IF more THEN "rejecting" ELSE j.after,
            IF ~more /\ j.after \in {"idle", "over"} THEN NoJob
            ELSE [j EXCEPT !.reject = requests])
    /\ running' = IF ~more /\ j.after = "replaying" THEN task ELSE None
    /\ lockQueue' = IF ~more /\ j.after = "over" THEN Without(task) ELSE lockQueue
    /\ IF ~more /\ j.after = "stale"
       THEN Interrupted(j.turn, "stale")
       ELSE UNCHANGED interruptedFor

(* turn/start is written: what was heard and queued before is forgotten.   *)
Orders(task) ==
    /\ heard' = {}
    /\ queued' = 0
    /\ starting' = TRUE
    /\ early' = <<>>
    /\ ordered' = TRUE
    /\ Goes(task, "starting", job[task])

InterruptibleAlways == TRUE

(* A turn that has run a tool is left to finish.                           *)
Interruptible == ~owner.hadTool

(* The active turn has run no tool: tombstone it, then ask for its end.    *)
Tombstones(task) ==
    /\ owner' = [owner EXCEPT !.interrupting = TRUE]
    /\ Interrupted(owner.turn, "barge")
    /\ Goes(task, "tombstoned", [job[task] EXCEPT !.turn = owner.turn])

(* The lock is held and the request is for generation job.gen: it is stale *)
(* by now, waits for a turn that has run a tool, interrupts one that has   *)
(* not, or starts.                                                         *)
StartTurn(task) ==
    /\ At(task, "locking") /\ Holds(task)
    /\ job[task].does = "start"
    /\ \/ /\ job[task].gen # generation
          /\ Leaves(task)
          /\ UNCHANGED <<turnVars, interruptedFor, ordered>>
       \/ /\ job[task].gen = generation
          /\ owner.turn # None /\ ~Interruptible
          /\ queued' = generation
          /\ Leaves(task)
          /\ UNCHANGED <<owner, finished, starting, early, heard, interruptedFor,
                         ordered>>
       \/ /\ job[task].gen = generation
          /\ owner.turn # None /\ Interruptible
          /\ Tombstones(task)
          /\ UNCHANGED <<userGen, finished, starting, early, heard, queued,
                         lockQueue, ordered, failure>>
       \/ /\ job[task].gen = generation
          /\ owner.turn = None
          /\ Orders(task)
          /\ UNCHANGED <<userGen, owner, finished, lockQueue, interruptedFor, failure>>
    /\ UNCHANGED <<generation, user, claimed, requested, running, toolVars, phase, reply,
                   turnState, parts, asked, inbox, speechVars, startedFor>>

(* Only the owner captured with the user's action is interrupted.          *)
InterruptTurn(task) ==
    /\ At(task, "locking") /\ Holds(task)
    /\ job[task].does = "interrupt" /\ task \in {"receive", "data"}
    /\ IF /\ owner.turn # None
          /\ owner.turn = job[task].turn /\ owner.gen = job[task].gen
          /\ Interruptible
       THEN Tombstones(task) /\ UNCHANGED <<userGen, lockQueue, failure>>
       ELSE Leaves(task) /\ UNCHANGED <<owner, interruptedFor>>
    /\ UNCHANGED <<generation, user, claimed, requested, finished, starting, early, heard,
                   queued, running, toolVars, phase, serverVars, speechVars,
                   startedFor>>

(* The App Server accepted turn/interrupt; the terminal event may be in.   *)
InterruptAccepted(task) ==
    /\ At(task, "tombstoned")
    /\ Goes(task, "terminal", job[task])
    /\ UNCHANGED <<generation, userVars, turnVars, lockQueue, running, toolVars,
                   ownerVars, serverVars, speechVars, interruptVars>>

(* The interrupted turn is over.                                           *)
TerminalSeen(task) ==
    /\ At(task, "terminal") /\ task \in {"receive", "data", "exec"}
    /\ job[task].turn \in finished
    /\ IF job[task].does = "start" /\ job[task].gen = generation
       THEN Orders(task) /\ UNCHANGED <<userGen, lockQueue, failure>>
       ELSE Leaves(task) /\ UNCHANGED <<heard, queued, starting, early, ordered>>
    /\ UNCHANGED <<generation, user, claimed, requested, owner, finished, running, toolVars,
                   phase, reply, turnState, parts, asked, inbox, speechVars,
                   interruptVars>>

BufferedFor(t) == Dropping(early, {ev \in ToSet(early) : ev.turn # t})
BufferedForNobody(t) == <<>>
BufferedForeign(t) == Dropping(early, {ev \in ToSet(early) : ev.turn = t})

(* turn/start returned.  A turn whose request is stale by now is not owned *)
(* and is interrupted, else it is owned, the early tool requests of other  *)
(* turns are rejected and its own early events are replayed.               *)
TurnStarted(task) ==
    /\ At(task, "starting")
    /\ reply # None
    /\ reply' = None
    /\ starting' = FALSE
    /\ early' = <<>>
    /\ startedFor' = [startedFor EXCEPT ![reply] = job[task].gen]
    /\ \/ /\ job[task].gen # generation
          /\ Rejects(task, Requests(early), tool,
                     [job[task] EXCEPT !.turn = reply, !.after = "stale"])
          /\ UNCHANGED owner
       \/ /\ job[task].gen = generation
          /\ owner' = [Nobody EXCEPT !.turn = reply, !.gen = generation]
          /\ Rejects(task, Requests(BufferedForeign(reply)), tool,
                     [job[task] EXCEPT !.turn = reply, !.after = "replaying",
                                       !.todo = BufferedFor(reply)])
    /\ UNCHANGED <<generation, userVars, finished, heard, queued, failedClosed,
                   crossed, ownerVars, ordered, turnState, parts, asked, inbox,
                   speechVars>>

RejectionWritten(task) ==
    /\ At(task, "rejecting")
    /\ LET requests == job[task].reject
       IN  Rejects(task, Tail(requests),
                   [tool EXCEPT ![Head(requests)] = "answered"], job[task])
    /\ UNCHANGED <<generation, userVars, turnVars, failedClosed, crossed, ownerVars,
                   serverVars, speechVars, startedFor>>

(* The App Server accepted the interrupt of a turn that started too late.  *)
StaleInterrupted(task) ==
    /\ At(task, "stale")
    /\ Leaves(task)
    /\ UNCHANGED <<generation, user, claimed, requested, turnVars, running, toolVars, phase,
                   serverVars, speechVars, interruptVars>>

-----------------------------------------------------------------------------
(* handle_executor_event: one event of the executor, consumed by           *)
(* executor_events or replayed by the task that started the turn.          *)

(* A request of a turn that is not active, is tombstoned or is stale is    *)
(* answered as unowned.                                                    *)
Unowned(t) ==
    \/ t # owner.turn
    \/ owner.interrupting
    \/ owner.gen # generation

(* start_home_assistant_tool_call: a task of its own calls the broker, or  *)
(* answers with a refusal: after the authority failed, and over a limit or *)
(* for a repeated call id; over the session's limit the session fails too. *)
HandleTool(task, t, r, j) ==
    IF Unowned(t)
    THEN /\ Rejects(task, <<r>>, tool, j)
         /\ UNCHANGED <<owner, failure>>
    ELSE /\ \/ /\ ~failedClosed
               /\ tool' = [tool EXCEPT ![r] = "admitted"]
               /\ UNCHANGED failure
            \/ /\ tool' = [tool EXCEPT ![r] = "refused"]
               /\ failure' \in {failure, TRUE}
         /\ owner' = [owner EXCEPT !.hadTool = TRUE]
         /\ Goes(task, j.after, IF j.after = "idle" THEN NoJob ELSE j)
         /\ running' = IF j.after = "replaying" THEN task ELSE None
         /\ UNCHANGED <<lockQueue, interruptedFor>>

HearsAnyTurn(t) == TRUE

(* Messages of the active turn only.                                       *)
Hears(t) == t = owner.turn

HandlePart(task, t, n, j) ==
    /\ heard' = IF Hears(t) THEN heard \cup {<<t, n>>} ELSE heard
    /\ Goes(task, j.after, IF j.after = "idle" THEN NoJob ELSE j)
    /\ running' = IF j.after = "replaying" THEN task ELSE None

AfterAnswerOnly(task, j) ==
    /\ Goes(task, j.after,
            IF j.after = "idle" THEN NoJob ELSE [j EXCEPT !.next = 0, !.said = {}])
    /\ running' = IF j.after = "replaying" THEN task ELSE None

(* What a task does after an answer was dealt with: run the request that   *)
(* waited for the turn, if it is still current, or go back.                *)
AfterAnswer(task, j) ==
    IF j.next # 0 /\ j.next = generation
    THEN Goes(task, "enter", Starting(j.next)) /\ running' = None
    ELSE /\ Goes(task, j.after,
                 IF j.after = "idle" THEN NoJob ELSE [j EXCEPT !.next = 0, !.said = {}])
         /\ running' = IF j.after = "replaying" THEN task ELSE None

(* An answer waits for the previous render to retire.                      *)
SpeakNext == IF render # 0 THEN "retiring" ELSE "settling"

(* complete_background_turn: the owner goes, its terminal is done, and a   *)
(* current and completed turn is spoken.                                   *)
HandleDone(task, t, status, j) ==
    IF t # owner.turn
    THEN /\ AfterAnswer(task, j)
         /\ UNCHANGED <<owner, finished, heard, queued, lost, failure, lockQueue>>
    ELSE LET k == [j EXCEPT !.gen = owner.gen, !.turn = t, !.next = queued, !.said = heard]
         IN  /\ owner' = Nobody
             /\ finished' = finished \cup {t}
             /\ heard' = {}
             /\ queued' = 0
             /\ \/ /\ owner.gen # generation
                   /\ AfterAnswer(task, k)
                   /\ UNCHANGED <<lost, failure, lockQueue>>
                \/ /\ owner.gen = generation /\ status # "completed"
                   /\ Goes(task, "over", NoJob)
                   /\ running' = None
                   /\ failure' = TRUE
                   /\ lockQueue' = Without(task)
                   /\ UNCHANGED lost
                \/ /\ owner.gen = generation /\ status = "completed" /\ heard = {}
                   /\ AfterAnswer(task, k)
                   /\ lost' = IF parts[t] # 0 THEN lost \cup {t} ELSE lost
                   /\ UNCHANGED <<failure, lockQueue>>
                \/ /\ owner.gen = generation /\ status = "completed" /\ heard # {}
                   /\ Goes(task, SpeakNext, k)
                   /\ running' = None
                   /\ UNCHANGED <<lost, failure, lockQueue>>

Handle(task, ev, j) ==
    /\ \/ /\ ev.kind = "tool"
          /\ HandleTool(task, ev.turn, ev.what, j)
          /\ UNCHANGED <<finished, heard, queued, lost>>
       \/ /\ ev.kind = "part"
          /\ HandlePart(task, ev.turn, ev.what, j)
          /\ UNCHANGED <<owner, finished, queued, lost, failure, tool, lockQueue,
                         interruptedFor>>
       \/ /\ ev.kind = "done"
          /\ HandleDone(task, ev.turn, ev.what, j)
          /\ UNCHANGED <<tool, interruptedFor>>
    /\ UNCHANGED <<generation, userVars, starting, failedClosed, crossed, phase,
                   ordered, reply, turnState, parts, asked, render, spoken,
                   startedFor>>

EarlyRoomForOneMore == Len(early) <= MaxEarly

EarlyRoom == Len(early) < MaxEarly

(* executor_events: an event that comes while turn/start is out and no     *)
(* turn is active waits for its reply; one too many fails the session.     *)
Consume ==
    LET ev == Head(inbox) IN
    /\ phase # "closed" /\ At("exec", "idle") /\ inbox # <<>>
    /\ inbox' = Tail(inbox)
    /\ IF starting /\ owner.turn = None
       THEN /\ IF EarlyRoom
               THEN /\ early' = Append(early, ev)
                    /\ UNCHANGED <<pc, job, running, tool, lockQueue, interruptedFor,
                                   failure>>
               ELSE /\ failure' = TRUE
                    /\ Rejects("exec", Requests(<<ev>>), tool, NoJob)
                    /\ UNCHANGED early
            /\ UNCHANGED <<generation, userVars, owner, finished, starting, heard,
                           queued, failedClosed, crossed, phase, ordered, reply,
                           turnState, parts, asked, speechVars, startedFor>>
       ELSE Handle("exec", ev, NoJob) /\ UNCHANGED early

(* start_background_turn replays the early events of its turn without      *)
(* giving way, except where an event makes it wait.                        *)
Replay(task) ==
    /\ running = task /\ pc[task] = "replaying"
    /\ \/ /\ job[task].todo # <<>>
          /\ Handle(task, Head(job[task].todo),
                    [job[task] EXCEPT !.todo = Tail(@)])
          /\ UNCHANGED <<early, inbox>>
       \/ /\ job[task].todo = <<>>
          /\ running' = None
          /\ Leaves(task)
          /\ UNCHANGED <<generation, user, claimed, requested, turnVars, toolVars, phase,
                         serverVars, speechVars, interruptVars>>

-----------------------------------------------------------------------------
(* append_background_speech.                                               *)

(* The provider's terminal of the previous render, seen by data_events,    *)
(* frees the render slot.                                                  *)
RenderRetires ==
    /\ Ready("data")
    /\ render # 0
    /\ render' = 0
    /\ UNCHANGED <<generation, userVars, turnVars, taskVars, toolVars, ownerVars,
                   serverVars, spoken, lost, interruptVars>>

RetirementSeen(task) ==
    /\ At(task, "retiring")
    /\ render = 0
    /\ Goes(task, "settling", job[task])
    /\ UNCHANGED <<generation, userVars, turnVars, lockQueue, running, toolVars,
                   ownerVars, serverVars, speechVars, interruptVars>>

(* The tail is quiet and the output ended: an answer that is still current *)
(* takes the slot and is submitted.                                        *)
Speak(task) ==
    LET j == job[task] IN
    /\ At(task, "settling")
    /\ IF j.gen = generation
       THEN /\ render' = j.gen
            /\ spoken' = spoken \cup {[turn |-> j.turn, gen |-> j.gen, said |-> j.said]}
            /\ Goes(task, "appending", j)
            /\ UNCHANGED running
       ELSE AfterAnswer(task, j) /\ UNCHANGED <<render, spoken>>
    /\ UNCHANGED <<generation, userVars, turnVars, lockQueue, toolVars, ownerVars,
                   serverVars, lost, interruptVars>>

Spoken(task) ==
    /\ At(task, "appending")
    /\ AfterAnswer(task, job[task])
    /\ UNCHANGED <<generation, userVars, turnVars, lockQueue, toolVars, ownerVars,
                   serverVars, speechVars, interruptVars>>

-----------------------------------------------------------------------------
(* The task of one tool request.                                           *)

(* broker.call: from here on Home Assistant may act.                       *)
ToolCalls(r) ==
    /\ running = None
    /\ tool[r] = "admitted"
    /\ tool' = [tool EXCEPT ![r] = "calling"]
    /\ crossed' = crossed \cup {r}
    /\ UNCHANGED <<generation, userVars, turnVars, taskVars, failedClosed, ownerVars,
                   serverVars, speechVars, interruptVars>>

(* The outcome is claimed for the one response before it is written; an    *)
(* unknown outcome closes the authority to the rest of the session.        *)
ToolClaims(r) ==
    /\ running = None
    /\ tool[r] \in {"calling", "refused"}
    /\ tool' = [tool EXCEPT ![r] = "claimed"]
    /\ failedClosed' \in IF tool[r] = "calling" THEN {failedClosed, TRUE}
                         ELSE {failedClosed}
    /\ UNCHANGED <<generation, userVars, turnVars, taskVars, crossed, ownerVars,
                   serverVars, speechVars, interruptVars>>

(* The response is written, or its delivery fails the session.             *)
ToolAnswered(r) ==
    /\ running = None
    /\ tool[r] = "claimed"
    /\ \/ tool' = [tool EXCEPT ![r] = "answered"] /\ UNCHANGED failure
       \/ tool' = [tool EXCEPT ![r] = "dropped"] /\ failure' = TRUE
    /\ UNCHANGED <<generation, userVars, turnVars, taskVars, failedClosed, crossed,
                   phase, serverVars, speechVars, interruptVars>>

-----------------------------------------------------------------------------
(* Failures, the watchdog and the teardown of the socket owner.            *)

(* A wait ends with an exception: a timeout of this wait or of run_control *)
(* around it, an error reply, or, in the teardown, a cancellation.  The    *)
(* lock is left; a start first rejects the early requests it buffered.     *)
BoundedByReply(task) == pc[task] \notin {"locking", "terminal"}

BoundedByRender(task) ==
    /\ pc[task] # "retiring"
    /\ pc[task] = "locking" => task = "receive" \/ (task = "data" /\ job[task].does = "start")

Bounded(task) ==
    \/ pc[task] # "locking"
    \/ task = "receive"
    \/ (task = "data" /\ job[task].does = "start")

MayRaise(task) ==
    IF phase = "live"
    THEN task \in {"receive", "data", "exec"} /\ Bounded(task)
    ELSE \/ task \in {"receive", "data", "watchdog"}
         \/ (task = "exec" /\ pc[task] # "locking")

Raises(task) ==
    /\ running = None /\ phase # "closed"
    /\ pc[task] \in Waits
    /\ MayRaise(task)
    /\ failure' = TRUE
    /\ IF pc[task] = "starting"
       THEN /\ starting' = FALSE
            /\ early' = <<>>
            /\ reply' = None
            /\ Rejects(task, Requests(early), tool, [NoJob EXCEPT !.after = "over"])
       ELSE /\ Goes(task, "over", NoJob)
            /\ lockQueue' = Without(task)
            /\ tool' = IF pc[task] = "rejecting"
                       THEN [tool EXCEPT ![Head(job[task].reject)] = "dropped"] ELSE tool
            /\ UNCHANGED <<starting, early, reply, running, interruptedFor>>
    /\ render' = IF pc[task] = "appending" /\ render = job[task].gen THEN 0 ELSE render
    /\ UNCHANGED <<generation, userVars, owner, finished, heard, queued, failedClosed,
                   crossed, phase, ordered, turnState, parts, asked, inbox, spoken,
                   lost, startedFor>>

(* arm_background_turn_watchdog: the active turn took too long.            *)
TurnExpires ==
    /\ Ready("watchdog")
    /\ owner.turn # None
    /\ lockQueue' = Append(lockQueue, "watchdog")
    /\ Goes("watchdog", "locking", [NoJob EXCEPT !.turn = owner.turn, !.gen = owner.gen])
    /\ UNCHANGED <<generation, userVars, turnVars, running, toolVars, ownerVars,
                   serverVars, speechVars, interruptVars>>

(* With the lock, and if the turn is still the owner, it is tombstoned and *)
(* everything newer is invalidated with it, whether or not it ran a tool.  *)
WatchdogInterrupts ==
    /\ phase = "live"
    /\ At("watchdog", "locking") /\ Holds("watchdog")
    /\ IF owner.turn = job["watchdog"].turn /\ owner.gen = job["watchdog"].gen
       THEN /\ owner' = [owner EXCEPT !.interrupting = TRUE]
            /\ generation' = generation + 1
            /\ Interrupted(owner.turn, "watchdog")
            /\ Goes("watchdog", "tombstoned", job["watchdog"])
            /\ UNCHANGED lockQueue
       ELSE /\ Goes("watchdog", "idle", NoJob)
            /\ lockQueue' = Tail(lockQueue)
            /\ UNCHANGED <<generation, owner, interruptedFor>>
    /\ UNCHANGED <<userVars, finished, starting, early, heard, queued, running,
                   toolVars, ownerVars, serverVars, speechVars, startedFor>>

(* The reply, or its failure, and the terminal, or its timeout: either way *)
(* the session has failed.                                                 *)
WatchdogFails ==
    /\ phase = "live"
    /\ At("watchdog", "terminal")
    /\ Goes("watchdog", "over", NoJob)
    /\ lockQueue' = Without("watchdog")
    /\ failure' = TRUE
    /\ UNCHANGED <<generation, userVars, turnVars, running, toolVars, phase,
                   serverVars, speechVars, interruptVars>>

(* The client stopped, or its socket ended.                                *)
Stops ==
    /\ Ready("receive")
    /\ failure' = TRUE
    /\ UNCHANGED <<generation, userVars, turnVars, taskVars, toolVars, phase,
                   serverVars, speechVars, interruptVars>>

(* events: the voice session was closed, or the rejection of a tool request*)
(* of its thread failed, whatever the other tasks await.                   *)
VoiceEnds ==
    /\ phase = "live" /\ running = None /\ ~failure
    /\ failure' = TRUE
    /\ UNCHANGED <<generation, userVars, turnVars, taskVars, toolVars, phase,
                   serverVars, speechVars, interruptVars>>

(* tombstone_background_for_shutdown, and the cancellations after it: late *)
(* executor work is stale from here on.                                    *)
Unclaimed == {r \in Reqs : tool[r] \in {"admitted", "refused", "calling"}}

TearDown ==
    /\ phase = "live" /\ failure /\ running = None
    /\ phase' = "closing"
    /\ queued' = 0
    /\ owner' = [owner EXCEPT !.interrupting = @ \/ owner.turn # None]
    /\ generation' = generation + 1
    /\ job' = [job EXCEPT !["shutdown"] =
                  [NoJob EXCEPT !.turn = owner.turn, !.gen = owner.gen]]
    /\ tool' = [r \in Reqs |-> IF r \in Unclaimed THEN "cancelled" ELSE tool[r]]
    /\ UNCHANGED <<userVars, finished, starting, early, heard, pc, lockQueue, running,
                   failedClosed, crossed, failure, serverVars, speechVars,
                   interruptVars>>

(* The cancelled tasks have ended and claimed responses are written: the   *)
(* requests whose tasks were cancelled are answered as of unknown outcome. *)
TearDownAnswers ==
    /\ phase = "closing" /\ running = None
    /\ \A task \in {"receive", "data", "watchdog"} : pc[task] \in {"idle", "over"}
    /\ \A r \in Reqs : tool[r] # "claimed"
    /\ phase' = "answering"
    /\ tool' = [r \in Reqs |-> IF tool[r] = "cancelled" THEN "claimed" ELSE tool[r]]
    /\ UNCHANGED <<generation, userVars, turnVars, taskVars, failedClosed, crossed,
                   failure, serverVars, speechVars, interruptVars>>

(* interrupt_background_for_shutdown always takes the lock first.          *)
TearDownLocks ==
    /\ phase = "answering" /\ running = None
    /\ \A r \in Reqs : tool[r] # "claimed"
    /\ phase' = "interrupting"
    /\ lockQueue' = Append(lockQueue, "shutdown")
    /\ Goes("shutdown", "locking", job["shutdown"])
    /\ UNCHANGED <<generation, userVars, turnVars, running, toolVars, failure,
                   serverVars, speechVars, interruptVars>>

(* The executor consumer is cancelled and the socket owner returns.        *)
Closes ==
    /\ phase' = "closed"
    /\ pc' = [task \in Tasks |-> "over"]
    /\ job' = [task \in Tasks |-> NoJob]
    /\ lockQueue' = <<>>

ShutdownInterrupts ==
    /\ At("shutdown", "locking") /\ Holds("shutdown")
    /\ LET t == job["shutdown"].turn IN
       IF t # None /\ owner.turn = t /\ owner.gen = job["shutdown"].gen
       THEN /\ Interrupted(t, "shutdown")
            /\ Goes("shutdown", "tombstoned", job["shutdown"])
            /\ UNCHANGED <<phase, lockQueue>>
       ELSE Closes /\ UNCHANGED interruptedFor
    /\ UNCHANGED <<generation, userVars, turnVars, running, toolVars, failure,
                   serverVars, speechVars, startedFor>>

ShutdownEnds ==
    /\ At("shutdown", "terminal")
    /\ Closes
    /\ UNCHANGED <<generation, userVars, turnVars, running, toolVars, failure,
                   serverVars, speechVars, interruptVars>>

-----------------------------------------------------------------------------
(* The App Server's executor thread.                                       *)

TakesUp(t) ==
    /\ ordered
    /\ turnState[t] = "unborn"
    /\ ordered' = FALSE
    /\ turnState' = [turnState EXCEPT ![t] = "running"]
    /\ reply' = IF \E task \in Tasks : pc[task] = "starting" THEN t ELSE None
    /\ UNCHANGED <<generation, userVars, turnVars, taskVars, toolVars, ownerVars,
                   parts, asked, inbox, speechVars, interruptVars>>

Emits(ev) == inbox' = Append(inbox, ev)

TurnSays(t) ==
    /\ turnState[t] = "running"
    /\ parts[t] < MaxParts
    /\ parts' = [parts EXCEPT ![t] = @ + 1]
    /\ Emits([turn |-> t, kind |-> "part", what |-> parts[t] + 1])
    /\ UNCHANGED <<generation, userVars, turnVars, taskVars, toolVars, ownerVars,
                   ordered, reply, turnState, asked, speechVars, interruptVars>>

TurnAsks(t, r) ==
    /\ turnState[t] = "running"
    /\ asked[r] = None
    /\ asked' = [asked EXCEPT ![r] = t]
    /\ Emits([turn |-> t, kind |-> "tool", what |-> r])
    /\ UNCHANGED <<generation, userVars, turnVars, taskVars, toolVars, ownerVars,
                   ordered, reply, turnState, parts, speechVars, interruptVars>>

(* A turn completes when its requests were answered, is interrupted when   *)
(* it was asked to, and may fail at any time.                              *)
TurnEnds(t, status) ==
    /\ turnState[t] = "running"
    /\ status = "completed" => \A r \in Reqs : asked[r] = t => tool[r] = "answered"
    /\ status = "interrupted" => interruptedFor[t] # {}
    /\ turnState' = [turnState EXCEPT ![t] = "over"]
    /\ Emits([turn |-> t, kind |-> "done", what |-> status])
    /\ UNCHANGED <<generation, userVars, turnVars, taskVars, toolVars, ownerVars,
                   ordered, reply, parts, asked, speechVars, interruptVars>>

-----------------------------------------------------------------------------
UserStep ==
    \/ UserText \/ UserInterrupt \/ SpeechStarted
    \/ \E u \in UserTurns : UserTurnCreated(u) \/ UserTurnDone(u)

Proceeds(task) ==
    \/ Enter(task)
    \/ StartTurn(task) \/ InterruptTurn(task)
    \/ InterruptAccepted(task) \/ TerminalSeen(task)
    \/ TurnStarted(task) \/ RejectionWritten(task) \/ StaleInterrupted(task)
    \/ Replay(task)
    \/ RetirementSeen(task) \/ Speak(task) \/ Spoken(task)

ToolStep(r) == ToolCalls(r) \/ ToolClaims(r) \/ ToolAnswered(r)

TearDownStep ==
    \/ TearDown \/ TearDownAnswers \/ TearDownLocks
    \/ ShutdownInterrupts \/ ShutdownEnds

ServerStep ==
    \E t \in Turns :
        \/ TakesUp(t) \/ TurnSays(t)
        \/ \E r \in Reqs : TurnAsks(t, r)
        \/ \E status \in Statuses : TurnEnds(t, status)

Next ==
    \/ UserStep
    \/ \E task \in Tasks : Proceeds(task) \/ Raises(task)
    \/ Consume
    \/ RenderRetires
    \/ \E r \in Reqs : ToolStep(r)
    \/ TurnExpires \/ WatchdogInterrupts \/ WatchdogFails
    \/ Stops \/ VoiceEnds
    \/ TearDownStep
    \/ ServerStep

Spec == Init /\ [][Next]_vars

(* A wait of a task ends by what it waits for or by its timer, and tasks   *)
(* that can run do.  The App Server is assumed to read its input, never to *)
(* answer or to end a turn.                                                *)
Fairness ==
    /\ \A task \in Tasks : WF_vars(Proceeds(task) \/ Raises(task))
    /\ WF_vars(WatchdogInterrupts) /\ WF_vars(WatchdogFails)
    /\ \A r \in Reqs : WF_vars(ToolAnswered(r))
    /\ WF_vars(TearDownStep)

FairSpec == Spec /\ Fairness

-----------------------------------------------------------------------------
(* Correctness.                                                            *)

(* A turn the user's barge-in interrupted, or that was interrupted because *)
(* it started too late, has run no tool and never will: neither a request  *)
(* that came before the tombstone nor a later one crosses the broker.      *)
InterruptedRunNoTool ==
    \A r \in crossed :
        interruptedFor[asked[r]] \cap {"barge", "stale"} = {}

(* Every answer submitted for speech is that of the turn started for the   *)
(* very request it answers, made of that turn's messages only, and no      *)
(* request is answered twice.                                              *)
AnswersFitRequests ==
    /\ \A s \in spoken : /\ startedFor[s.turn] = s.gen
                         /\ \A h \in s.said : h[1] = s.turn
    /\ \A s1, s2 \in spoken : s1.gen = s2.gen => s1 = s2

(* The newest request is never lost while the session lives: as long as    *)
(* nothing superseded it, a task is about to start its turn, it waits for  *)
(* a turn that has run a tool, or its turn was started.                    *)
NewestRequestKept ==
    requested # 0 /\ requested = generation /\ ~failure =>
        \/ queued = requested
        \/ \E task \in Tasks :
              \/ job[task].does = "start" /\ job[task].gen = requested
              \/ job[task].next = requested
        \/ \E t \in Turns : startedFor[t] = requested

(* A consumed tool request is waiting to be replayed or rejected, has its  *)
(* task, or has its one answer: none is forgotten while the session lives. *)
Held(task) == ToSet(job[task].reject) \cup ToSet(Requests(job[task].todo))

NoRequestForgotten ==
    failure \/ \A r \in Reqs :
        asked[r] # None /\ tool[r] = "unseen" =>
            r \in ToSet(Requests(inbox)) \cup ToSet(Requests(early))
                 \cup UNION {Held(task) : task \in Tasks}

(* No wait of a task is for ever, though a barge-in may wait for a         *)
(* terminal event that is stuck behind an answer which waits for           *)
(* data_events itself; and a session that failed or was stopped closes:    *)
(* its teardown outlives no lock holder and no unanswered interrupt.       *)
WaitsEnd ==
    /\ \A task \in {"receive", "data", "exec"} : []<>(pc[task] \notin Waits)
    /\ []<>(failure => phase = "closed")

(* A completed turn of the current request that said something is not      *)
(* reported as having no final response.                                   *)
NoAnswerLost == failure \/ lost = {}
=============================================================================
