------------------------------ MODULE RenderGate ------------------------------
(***************************************************************************)
(* The audio gate of a managed realtime session of bridge/service.py       *)
(* (_run_realtime_socket with an executor thread): the one render slot an  *)
(* answer is spoken through, the generation whose audio may reach the      *)
(* device, and the epochs (speaking.started, frames, speaking.stopped) the *)
(* device hears.                                                           *)
(*                                                                         *)
(* Media carries no generation and no turn.  Controls and media come over  *)
(* two channels and overtake each other.  The tasks of the session meet at *)
(* output_state_lock, which is held across sends to the device, while the  *)
(* generation moves on without any lock.                                   *)
(***************************************************************************)
EXTENDS Integers, FiniteSets, SequencesExt, Queues

CONSTANTS
    Turns,          \* assistant turns of the provider, ids never reused
    None,           \* no turn
    MaxGeneration,  \* bound of the model: requests and interruptions
    MaxFrames       \* bound of the model: frames not read yet

ASSUME NoneAssumption == None \notin Turns

ASSUME TurnsAssumption == IsFiniteSet(Turns)

ASSUME BoundsAssumption == MaxGeneration \in Nat /\ MaxFrames \in Nat

VARIABLES
    generation,  \* background_generation
    render,      \* backend_render_*: the slot
    quiet,       \* before backend_render_quiet_until
    gate,        \* backend_output_generation; 0 is closed
    armed,       \* output_armed
    timer,       \* output_arm_task: off, asleep, or waiting for the lock
    speaking,    \* output_speaking
    epoch,       \* output_epoch
    lock,        \* output_state_lock: holder, then waiters
    at,          \* what a task awaits
    closing,     \* data_events is in handle_managed_backend_terminal
    chunk,       \* the frame audio() holds, with the gate it was read under
    tailed,      \* expected_epoch of end_output
    answering,   \* the generation of append_background_speech
    over,        \* the session failed
    answered,    \* generations whose answer was handed to the session
    asked,       \* the appendSpeech the provider has to acknowledge
    pending,     \* acknowledged, its turn not begun
    made,        \* the generation a provider turn was made for; 0: its own
    turn,        \* a provider turn: unborn, speaking, over
    air,         \* frames on their way, by their turns
    media,       \* frames the session has received
    controls,    \* data-channel events the session has not handled
    open,        \* the epoch the device is in
    heard        \* history: what was written: turn, generation, epoch

slotVars == <<render, quiet>>
outputVars == <<armed, timer, speaking, epoch>>
taskVars == <<lock, at, closing, chunk, tailed, answering, over>>
providerVars == <<asked, pending, made, turn, air, controls>>
deviceVars == <<open, heard>>
afterVars == <<gate, slotVars, media, asked, closing>>
vars == <<generation, slotVars, gate, outputVars, taskVars, answered, providerVars,
          media, deviceVars>>

Generations == 0..MaxGeneration
Epochs == 0..Cardinality(Turns)
NoChunk == [turn |-> None, gate |-> 0]
Free == [gen |-> 0, acked |-> FALSE, turn |-> None]

(* The tasks that use the lock: receive, data_events, executor_events or   *)
(* whoever speaks an answer, and audio.                                    *)
Tasks == {"receive", "data", "exec", "audio"}

(* Waiting for the lock, by what for; then sends, most with the lock held. *)
Locked == {"ending", "looking", "lateLook", "tailing", "finishing", "arming",
           "delivering"}
Sending == {"telling", "stopping", "starting", "started", "writing"}

TypeOK ==
    /\ generation \in Generations
    /\ render \in [gen : Generations, acked : BOOLEAN, turn : Turns \cup {None}]
    /\ quiet \in BOOLEAN
    /\ gate \in {0, generation}
    /\ armed \in BOOLEAN /\ speaking \in BOOLEAN /\ over \in BOOLEAN
    /\ timer \in {"off", "asleep", "waiting"}
    /\ epoch \in Epochs
    /\ lock \in Seq(Tasks \cup {"timer"}) /\ IsInjective(lock)
    /\ at \in [Tasks -> {"idle", "waiting", "sleeping", "retiring", "quieting",
                         "appending"} \cup Locked \cup Sending]
    /\ closing \in BOOLEAN
    /\ chunk \in [turn : Turns \cup {None}, gate : Generations]
    /\ tailed \in Epochs
    /\ answering \in Generations
    /\ answered \subseteq Generations
    /\ asked \in Generations
    /\ pending \in Generations
    /\ made \in [Turns -> Generations]
    /\ turn \in [Turns -> {"unborn", "speaking", "over"}]
    /\ air \in Seq(Turns) /\ media \in Seq(Turns)
    /\ controls \in Seq([kind : {"ack", "created", "done", "speech"},
                         turn : Turns \cup {None}])
    /\ open \in Epochs
    /\ heard \subseteq [turn : Turns, gen : Generations, epoch : Epochs]

Init ==
    /\ generation = 0
    /\ render = Free /\ quiet = FALSE
    /\ gate = 0
    /\ armed = FALSE /\ timer = "off" /\ speaking = FALSE /\ epoch = 0
    /\ lock = <<>>
    /\ at = [k \in Tasks |-> "idle"]
    /\ closing = FALSE
    /\ chunk = NoChunk /\ tailed = 0 /\ answering = 0 /\ over = FALSE
    /\ answered = {0}
    /\ asked = 0 /\ pending = 0
    /\ made = [t \in Turns |-> 0]
    /\ turn = [t \in Turns |-> "unborn"]
    /\ air = <<>> /\ media = <<>> /\ controls = <<>>
    /\ open = 0 /\ heard = {}

-----------------------------------------------------------------------------
(* Tasks and the lock.                                                     *)

Idle(task) == ~over /\ at[task] = "idle"

Goes(task, where) == at' = [at EXCEPT ![task] = where]

Joins(task, for) == Goes(task, for) /\ lock' = Append(lock, task)

Rejoins(task, for) == Goes(task, for) /\ lock' = Append(Tail(lock), task)

Has(task, for) == ~over /\ at[task] = for /\ lock # <<>> /\ Head(lock) = task

Without(queue, task) == Dropping(queue, {task})

(* drain_audio_nowait.                                                     *)
Drains == media' = <<>>

(* The end of handle_managed_backend_terminal, and                         *)
(* maybe_retire_backend_render: the gate is shut, the slot is free.        *)
Closes ==
    /\ closing' = FALSE
    /\ gate' = 0
    /\ render' = Free
    /\ quiet' = TRUE
    /\ Drains
    /\ UNCHANGED asked

(* The end of append_background_speech: the answer takes the slot.         *)
Submits ==
    /\ IF answering = generation
       THEN render' = [Free EXCEPT !.gen = answering] /\ asked' = answering
       ELSE UNCHANGED <<render, asked>>
    /\ UNCHANGED <<gate, quiet, media, closing>>

(* A task leaves the lock for good and runs on to its next await.          *)
Leaves(task, rest) ==
    /\ lock' = rest
    /\ Goes(task, IF task = "exec" /\ answering = generation THEN "appending" ELSE "idle")
    /\ CASE task = "data" /\ closing -> Closes
         [] task = "exec" -> Submits
         [] OTHER -> UNCHANGED afterVars

(* The arm's timeout is cancelled: it stops where it waits.                *)
Disarms == armed' = FALSE /\ timer' = "off"

Disarmed(queue) == Without(queue, "timer")

-----------------------------------------------------------------------------
(* A new request or an interruption.                                       *)

KeepsGate == UNCHANGED gate

ShutsGate == gate' = 0

(* begin_background_generation: the gate is shut by the same step.         *)
NextGeneration ==
    /\ generation < MaxGeneration
    /\ generation' = generation + 1
    /\ ShutsGate

KeepsOutput(task) == Goes(task, "idle") /\ UNCHANGED lock

(* What is spoken of the old generation is ended at once.                  *)
EndsOutput(task) == Joins(task, "ending")

(* The client sends text or an interrupt.                                  *)
ClientBegins ==
    /\ Idle("receive")
    /\ NextGeneration
    /\ EndsOutput("receive")
    /\ UNCHANGED <<slotVars, outputVars, closing, chunk, tailed, answering, over,
                   answered, providerVars, media, deviceVars>>

-----------------------------------------------------------------------------
(* append_background_speech.                                               *)

(* The answer to the current request is ready; a previous render is in the *)
(* slot or not.                                                            *)
AnswerReady ==
    /\ Idle("exec")
    /\ generation \notin answered
    /\ answered' = answered \cup {generation}
    /\ answering' = generation
    /\ Goes("exec", IF render.gen = 0 THEN "quieting" ELSE "retiring")
    /\ UNCHANGED <<generation, slotVars, gate, outputVars, lock, closing, chunk, tailed,
                   over, providerVars, media, deviceVars>>

SlotFreed ==
    /\ ~over /\ at["exec"] = "retiring" /\ render.gen = 0
    /\ Goes("exec", "quieting")
    /\ UNCHANGED <<generation, slotVars, gate, outputVars, lock, closing, chunk, tailed,
                   answering, over, answered, providerVars, media, deviceVars>>

(* The previous render does not end within its timeout: the session fails. *)
SlotKept ==
    /\ ~over /\ at["exec"] = "retiring"
    /\ over' = TRUE
    /\ UNCHANGED <<generation, slotVars, gate, outputVars, lock, at, closing, chunk,
                   tailed, answering, answered, providerVars, media, deviceVars>>

(* The quiet tail of the last render has passed.                           *)
QuietTail ==
    /\ ~over /\ at["exec"] = "quieting" /\ ~quiet
    /\ Drains
    /\ IF answering = generation
       THEN Joins("exec", "ending")
       ELSE Goes("exec", "idle") /\ UNCHANGED lock
    /\ UNCHANGED <<generation, slotVars, gate, outputVars, closing, chunk, tailed,
                   answering, over, answered, providerVars, deviceVars>>

(* The App Server answers the call, or its failure fails the session.      *)
Submitted ==
    /\ ~over /\ at["exec"] = "appending"
    /\ Goes("exec", "idle")
    /\ over' \in BOOLEAN
    /\ UNCHANGED <<generation, slotVars, gate, outputVars, lock, closing, chunk, tailed,
                   answering, answered, providerVars, media, deviceVars>>

-----------------------------------------------------------------------------
(* data_events.                                                            *)

Handles(kind) ==
    /\ Idle("data") /\ controls # <<>> /\ Head(controls).kind = kind
    /\ controls' = Tail(controls)
    /\ UNCHANGED <<quiet, outputVars, chunk, tailed, answering, over, answered, asked,
                   pending, made, turn, air, media, deviceVars>>

(* The user begins to speak; unless a speech is under way already this is  *)
(* a new generation.                                                       *)
HandleSpeech ==
    /\ Handles("speech")
    /\ NextGeneration \/ UNCHANGED <<generation, gate>>
    /\ Goes("data", "telling")
    /\ UNCHANGED <<render, lock, closing>>

(* Only after the device was told of the speech is the output ended.       *)
SpeechTold ==
    /\ ~over /\ at["data"] = "telling"
    /\ EndsOutput("data")
    /\ UNCHANGED <<generation, slotVars, gate, outputVars, closing, chunk, tailed,
                   answering, over, answered, providerVars, media, deviceVars>>

HandleAck ==
    /\ Handles("ack")
    /\ render' = IF render.gen = 0 THEN render ELSE [render EXCEPT !.acked = TRUE]
    /\ UNCHANGED <<generation, gate, lock, at, closing>>

BindsUnacked == render.gen # 0 /\ render.turn = None

(* mark_backend_render_started: only an acknowledged render takes a turn.  *)
Binds == render.gen # 0 /\ render.acked /\ render.turn = None

(* The gate opens for a render that was not overtaken.                     *)
HandleCreated ==
    /\ Handles("created")
    /\ IF Binds
       THEN /\ render' = [render EXCEPT !.turn = Head(controls).turn]
            /\ IF render.gen = generation
               THEN gate' = generation /\ Joins("data", "arming")
               ELSE EndsOutput("data") /\ UNCHANGED gate
       ELSE UNCHANGED <<render, gate, lock, at>>
    /\ UNCHANGED <<generation, closing>>

(* backend_render_terminal_matches: a terminal of the turn bound.          *)
TerminalMatches(t) == render.gen # 0 /\ render.acked /\ render.turn = t

(* The terminal of the render: the audio gets a tail if it is still let    *)
(* through.                                                                *)
HandleDone ==
    /\ Handles("done")
    /\ IF TerminalMatches(Head(controls).turn)
       THEN Joins("data", IF gate = generation THEN "looking" ELSE "ending") /\ closing' = TRUE
       ELSE UNCHANGED <<lock, at, closing>>
    /\ UNCHANGED <<generation, gate, render>>

-----------------------------------------------------------------------------
(* arm_output and end_output.                                              *)

Arms ==
    /\ Has("data", "arming")
    /\ Leaves("data", Tail(lock))
    /\ IF gate = generation /\ ~speaking /\ ~armed
       THEN armed' = TRUE /\ timer' = "asleep"
       ELSE UNCHANGED <<armed, timer>>
    /\ UNCHANGED <<generation, speaking, epoch, chunk, tailed, answering, over, answered,
                   pending, made, turn, air, controls, deviceVars>>

(* expire_arm: it sleeps, and has nothing to do once the output speaks.    *)
ArmExpires ==
    /\ ~over
    /\ \/ timer = "asleep" /\ timer' = "waiting" /\ lock' = Append(lock, "timer")
          /\ UNCHANGED armed
       \/ /\ lock # <<>> /\ Head(lock) = "timer"
          /\ timer' = "off" /\ lock' = Tail(lock)
          /\ armed' = (armed /\ speaking)
    /\ UNCHANGED <<generation, slotVars, gate, speaking, epoch, at, closing, chunk,
                   tailed, answering, over, answered, providerVars, media, deviceVars>>

(* speaking.stopped is sent with the lock held.                            *)
StopsSpeaking(task) ==
    /\ speaking' = FALSE /\ Disarms
    /\ Goes(task, "stopping") /\ lock' = Disarmed(lock)
    /\ UNCHANGED afterVars

StaysSilent(task) == UNCHANGED speaking /\ Disarms /\ Leaves(task, Disarmed(Tail(lock)))

Ends(task) ==
    /\ Has(task, "ending")
    /\ IF speaking THEN StopsSpeaking(task) ELSE StaysSilent(task)
    /\ UNCHANGED <<generation, epoch, chunk, tailed, answering, over, answered, pending,
                   made, turn, air, controls, deviceVars>>

(* A terminal: what speaks gets a tail; an output that is armed without    *)
(* media yet is looked at again, since the terminal may overtake the media.*)
(* The checks of the tail between two sleeps are left to its last one.     *)
Looks ==
    /\ Has("data", "looking")
    /\ CASE speaking -> Goes("data", "sleeping") /\ lock' = Tail(lock)
         [] ~speaking /\ armed -> Goes("data", "waiting") /\ lock' = Tail(lock)
         [] ~speaking /\ ~armed -> Rejoins("data", "finishing")
    /\ tailed' = IF speaking THEN epoch ELSE 0
    /\ UNCHANGED <<generation, slotVars, gate, outputVars, closing, chunk, answering,
                   over, answered, providerVars, media, deviceVars>>

LooksAgain ==
    /\ Has("data", "lateLook")
    /\ IF speaking
       THEN Goes("data", "sleeping") /\ lock' = Tail(lock)
       ELSE Rejoins("data", "finishing")
    /\ tailed' = IF speaking THEN epoch ELSE 0
    /\ UNCHANGED <<generation, slotVars, gate, outputVars, closing, chunk, answering,
                   over, answered, providerVars, media, deviceVars>>

Wakes ==
    /\ ~over
    /\ \/ at["data"] = "waiting" /\ Joins("data", "lateLook")
       \/ at["data"] = "sleeping" /\ Joins("data", "tailing")
    /\ UNCHANGED <<generation, slotVars, gate, outputVars, closing, chunk, tailed,
                   answering, over, answered, providerVars, media, deviceVars>>

(* The tail is over, unless somebody else ended the epoch.                 *)
Tails ==
    /\ Has("data", "tailing")
    /\ IF speaking /\ epoch = tailed
       THEN Rejoins("data", "finishing") /\ UNCHANGED afterVars
       ELSE Leaves("data", Tail(lock))
    /\ UNCHANGED <<generation, outputVars, chunk, tailed, answering, over, answered,
                   pending, made, turn, air, controls, deviceVars>>

Finishes ==
    /\ Has("data", "finishing")
    /\ IF speaking /\ tailed \in {0, epoch} THEN StopsSpeaking("data") ELSE StaysSilent("data")
    /\ UNCHANGED <<generation, epoch, chunk, tailed, answering, over, answered, pending,
                   made, turn, air, controls, deviceVars>>

Stopped(task) ==
    /\ ~over /\ at[task] = "stopping"
    /\ open' = IF open = epoch THEN 0 ELSE open
    /\ Leaves(task, Without(lock, task))
    /\ UNCHANGED <<generation, outputVars, chunk, tailed, answering, over, answered,
                   pending, made, turn, air, controls, heard>>

(* A send to the device fails or times out: the session ends.              *)
SendFails(task) ==
    /\ ~over /\ at[task] \in Sending
    /\ over' = TRUE
    /\ UNCHANGED <<generation, slotVars, gate, outputVars, lock, at, closing, chunk,
                   tailed, answering, answered, providerVars, media, deviceVars>>

-----------------------------------------------------------------------------
(* audio.                                                                  *)

Authorized(g) == gate = g /\ generation = g

(* A frame read while the gate is shut belongs to nobody.                  *)
Receive ==
    /\ Idle("audio") /\ media # <<>>
    /\ media' = Tail(media)
    /\ IF gate # 0 /\ gate = generation
       THEN /\ chunk' = [turn |-> Head(media), gate |-> gate]
            /\ Joins("audio", "delivering")
       ELSE UNCHANGED <<chunk, lock, at>>
    /\ UNCHANGED <<generation, slotVars, gate, outputVars, closing, tailed, answering,
                   over, answered, providerVars, deviceVars>>

(* audio() lets go of the lock and of its frame.                           *)
GivesUpFrame == Goes("audio", "idle") /\ lock' = Tail(lock) /\ chunk' = NoChunk

(* The frame goes out; if it has a signal and the output is armed, it      *)
(* opens an epoch; otherwise it is dropped.                                *)
Deliver ==
    /\ Has("audio", "delivering")
    /\ \/ /\ Authorized(chunk.gate) /\ speaking
          /\ Goes("audio", "writing")
          /\ UNCHANGED <<lock, outputVars, chunk>>
       \/ /\ Authorized(chunk.gate) /\ ~speaking /\ armed
          /\ speaking' = TRUE
          /\ epoch' = epoch + 1
          /\ Disarms
          /\ Goes("audio", "starting") /\ lock' = Disarmed(lock)
          /\ UNCHANGED chunk
       \/ /\ ~Authorized(chunk.gate) \/ ~speaking
          /\ GivesUpFrame
          /\ UNCHANGED outputVars
    /\ UNCHANGED <<generation, slotVars, gate, closing, tailed, answering, over,
                   answered, providerVars, media, deviceVars>>

(* speaking.started is written.                                            *)
EpochOpens ==
    /\ Has("audio", "starting")
    /\ Goes("audio", "started")
    /\ open' = epoch
    /\ UNCHANGED <<generation, slotVars, gate, outputVars, lock, closing, chunk, tailed,
                   answering, over, answered, providerVars, media, heard>>

(* The frame that opened the epoch may be too old by now.                  *)
EpochOpened ==
    /\ Has("audio", "started")
    /\ \/ Authorized(chunk.gate) /\ Goes("audio", "writing") /\ UNCHANGED <<lock, chunk>>
       \/ GivesUpFrame
    /\ UNCHANGED <<generation, slotVars, gate, outputVars, closing, tailed, answering,
                   over, answered, providerVars, media, deviceVars>>

Unguarded(g) == TRUE

(* The guard of send_audio, evaluated with the socket's own lock.          *)
Guarded(g) == Authorized(g)

Write ==
    /\ Has("audio", "writing")
    /\ GivesUpFrame
    /\ heard' = IF Guarded(chunk.gate)
                THEN heard \cup {[turn |-> chunk.turn, gen |-> generation, epoch |-> open]}
                ELSE heard
    /\ UNCHANGED <<generation, slotVars, gate, outputVars, closing, tailed, answering,
                   over, answered, providerVars, media, open>>

-----------------------------------------------------------------------------
(* The provider and the network, as the session relies on them: one turn   *)
(* speaks at a time, a render is acknowledged before its turn begins and   *)
(* the next turn is its own, events keep their order, and the media of a   *)
(* turn arrives at the latest within the quiet tail of its end.            *)

bridgeVars == <<generation, slotVars, gate, outputVars, taskVars, answered, deviceVars>>

Event(kind, t) == controls' = Append(controls, [kind |-> kind, turn |-> t])

Acknowledges ==
    /\ asked # 0 /\ pending = 0
    /\ asked' = 0 /\ pending' = asked
    /\ Event("ack", None)
    /\ UNCHANGED <<bridgeVars, made, turn, air, media>>

(* A turn for the acknowledged render, or one the provider makes by itself.*)
TurnBegins(t) ==
    /\ turn[t] = "unborn" /\ \A o \in Turns : turn[o] # "speaking"
    /\ turn' = [turn EXCEPT ![t] = "speaking"]
    /\ made' = [made EXCEPT ![t] = pending]
    /\ pending' = 0
    /\ Event("created", t)
    /\ UNCHANGED <<bridgeVars, asked, air, media>>

Speaks(t) ==
    /\ turn[t] = "speaking"
    /\ Len(air) + Len(media) < MaxFrames
    /\ air' = Append(air, t)
    /\ UNCHANGED <<bridgeVars, asked, pending, made, turn, controls, media>>

TurnEnds(t) ==
    /\ turn[t] = "speaking"
    /\ turn' = [turn EXCEPT ![t] = "over"]
    /\ Event("done", t)
    /\ UNCHANGED <<bridgeVars, asked, pending, made, air, media>>

Arrives ==
    /\ air # <<>>
    /\ air' = Tail(air) /\ media' = Append(media, Head(air))
    /\ UNCHANGED <<bridgeVars, asked, pending, made, turn, controls>>

UserSpeaks ==
    /\ generation < MaxGeneration
    /\ \A i \in DOMAIN controls : controls[i].kind # "speech"
    /\ Event("speech", None)
    /\ UNCHANGED <<bridgeVars, asked, pending, made, turn, air, media>>

QuietPasses ==
    /\ quiet
    /\ \A i \in DOMAIN air : turn[air[i]] # "over"
    /\ quiet' = FALSE
    /\ UNCHANGED <<generation, render, gate, outputVars, taskVars, answered,
                   providerVars, media, deviceVars>>

-----------------------------------------------------------------------------
Data ==
    \/ HandleSpeech \/ SpeechTold \/ HandleAck \/ HandleCreated \/ HandleDone
    \/ Arms \/ Looks \/ LooksAgain \/ Wakes \/ Tails \/ Finishes

Exec == SlotFreed \/ SlotKept \/ QuietTail \/ Submitted

Audio == Receive \/ Deliver \/ EpochOpens \/ EpochOpened \/ Write

AnyTask(task) == Ends(task) \/ Stopped(task) \/ SendFails(task)

Provider ==
    /\ ~over
    /\ \/ Acknowledges \/ Arrives \/ UserSpeaks \/ QuietPasses
       \/ \E t \in Turns : TurnBegins(t) \/ TurnEnds(t) \/ Speaks(t)

Next ==
    \/ ClientBegins \/ AnswerReady \/ Data \/ Exec \/ Audio \/ ArmExpires \/ Provider
    \/ \E task \in Tasks : AnyTask(task)

Spec == Init /\ [][Next]_vars

(* The tasks go on: every sleep and every send ends.  Neither the client,  *)
(* nor the executor, nor the provider needs to do anything.                *)
Fairness ==
    /\ WF_vars(Data) /\ WF_vars(Exec) /\ WF_vars(Audio) /\ WF_vars(ArmExpires)
    /\ \A task \in Tasks : WF_vars(AnyTask(task))

FairSpec == Spec /\ Fairness

-----------------------------------------------------------------------------
(* PROPERTIES *)

(* No frame of an overtaken render is played as the answer to a newer      *)
(* request, though a frame says neither (audio 6066-6100, quiet tail       *)
(* 5433-5440, guard 4563-4578).                                            *)
HeardIsCurrent == \A h \in heard : made[h.turn] # 0 => made[h.turn] = h.gen

(* The slot is bound to the turn the provider made for it, not to an       *)
(* answer of its own or one of an earlier render (5219-5247).              *)
BoundToItsTurn == render.turn # None => made[render.turn] = render.gen

(* After a barge-in the device is told to stop (5801, 5838, 6202).         *)
BargeInStops == (open # 0 /\ gate # generation) ~> (open = 0 \/ over)
=============================================================================
