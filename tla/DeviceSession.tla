------------------------------ MODULE DeviceSession ------------------------------
(***************************************************************************)
(* The realtime session of the device (realtime_client/session.py): the    *)
(* microphone thread in submit_audio, the vendor's threads in interrupt    *)
(* and stop, and the network thread in _run, which alone owns the socket,  *)
(* the player and the speaking epoch.  They share the state lock, the      *)
(* lock of the local barge-in, the input queue and a few events.           *)
(*                                                                         *)
(* The bridge is its environment: a native session, which opens and closes *)
(* speaking epochs one after the other and answers an interrupt only when  *)
(* the provider confirmed, or did not.                                     *)
(***************************************************************************)
EXTENDS Integers, Sequences

CONSTANTS
    MaxQueue,       \* input_queue_bytes, in frames
    MaxEpochs,      \* bound of the model: speaking epochs
    MaxInterrupts,  \* bound of the model: calls of interrupt
    MaxWire         \* bound of the model: messages on their way to the device

ASSUME BoundsAssumption ==
    /\ MaxQueue \in Nat /\ MaxEpochs \in Nat /\ MaxInterrupts \in Nat /\ MaxWire \in Nat

VARIABLES
    duplex,         \* config.full_duplex
    state,          \* _state
    mic,            \* submit_audio: the frame it detects with the state lock held
    queue,          \* _audio: the frames admitted, each with the era of its admission
    stopAsked,      \* _stop_requested
    interruptAsked, \* _interrupt_requested
    preserve,       \* _interrupt_preserve_session
    local,          \* _local_output_epoch; 0 is None and _output_active clear
    asked,          \* _local_barge_in_requested_epoch
    count,          \* _local_barge_in_frames
    net,            \* where the network thread is
    output,         \* output_epoch
    last,           \* last_output_epoch
    suppressed,     \* _suppressed_output_epoch
    player,         \* its epoch, frames it has to write, finish_when_drained
    interruptSent,  \* interrupt_sent
    late,           \* interrupt_deadline has passed
    failed,         \* the session ended by an error
    up,             \* what the bridge has not read
    down,           \* what the device has not read
    bridge,         \* the bridge's receive task
    speaking,       \* the bridge's output_speaking
    epoch,          \* the bridge's output_epoch
    interrupts,     \* history: calls of interrupt
    era,            \* history: interruptions and resumptions
    talked,         \* history: epochs during which the user was heard to speak
    silenced,       \* history: epochs cut short
    early,          \* history: the bridge resumed inside an epoch
    broken          \* history: an epoch message the device had no place for

micVars == <<mic, queue>>
requestVars == <<stopAsked, interruptAsked, preserve, interrupts, era>>
bargeVars == <<local, asked, count>>
outputVars == <<output, last, suppressed, player, silenced>>
threadVars == <<net, interruptSent, late, failed, broken>>
bridgeVars == <<bridge, speaking, epoch, early>>
vars == <<duplex, state, micVars, requestVars, bargeVars, outputVars, threadVars,
          up, down, bridgeVars, talked>>

Epochs == 1..MaxEpochs

(* _LOCAL_BARGE_IN_FRAMES.                                                 *)
BargeInFrames == 2

NoPlayer == [epoch |-> 0, pending |-> {}, finishing |-> FALSE]

Active(p) == p.epoch # 0

Running == {"top", "serving", "reading", "beginning", "resuming"}

Message == [kind : {"started", "begin", "frame", "end", "speech", "resumed", "fresh", "stopped"},
            epoch : 0..MaxEpochs]

TypeOK ==
    /\ duplex \in BOOLEAN
    /\ state \in {"NEW", "CONNECTING", "READY", "STOPPING", "STOPPED", "FAILED"}
    /\ mic \in {"idle", "quiet", "speech"}
    /\ queue \in Seq(0..2 * MaxInterrupts) /\ Len(queue) =< MaxQueue
    /\ stopAsked \in BOOLEAN /\ interruptAsked \in BOOLEAN /\ preserve \in BOOLEAN
    /\ local \in {0, last} /\ asked \in {0, local} /\ count \in 0..BargeInFrames - 1
    /\ net \in {"new", "connecting", "handshake", "promoting"} \cup Running
                \cup {"ending", "closing", "done"}
    /\ output \in {0, last} /\ last \in 0..epoch /\ suppressed \in 0..last
    /\ player \in [epoch : 0..last, pending : SUBSET Epochs, finishing : BOOLEAN]
    /\ interruptSent \in BOOLEAN /\ late \in BOOLEAN
    /\ failed \in BOOLEAN /\ broken \in BOOLEAN
    /\ up \in Seq({"start", "interrupt", "stop"})
    /\ down \in Seq(Message) /\ Len(down) =< MaxWire + 1
    /\ bridge \in {"idle", "open", "cancelling", "confirmed", "over"}
    /\ speaking \in BOOLEAN /\ epoch \in 0..MaxEpochs /\ early \in BOOLEAN
    /\ interrupts \in 0..MaxInterrupts /\ era \in 0..2 * MaxInterrupts
    /\ talked \subseteq Epochs /\ silenced \subseteq Epochs

Init ==
    /\ duplex \in BOOLEAN
    /\ state = "NEW" /\ net = "new"
    /\ mic = "idle" /\ queue = <<>>
    /\ stopAsked = FALSE /\ interruptAsked = FALSE /\ preserve = TRUE
    /\ local = 0 /\ asked = 0 /\ count = 0
    /\ output = 0 /\ last = 0 /\ suppressed = 0 /\ player = NoPlayer
    /\ interruptSent = FALSE /\ late = FALSE /\ failed = FALSE
    /\ up = <<>> /\ down = <<>>
    /\ bridge = "idle" /\ speaking = FALSE /\ epoch = 0
    /\ interrupts = 0 /\ era = 0 /\ talked = {} /\ silenced = {}
    /\ early = FALSE /\ broken = FALSE

-----------------------------------------------------------------------------
(* The barge-in record.                                                    *)

(* _set_local_output_epoch.                                                *)
SetsLocal(e) == local' = e /\ asked' = 0 /\ count' = 0

(* _reset_local_barge_in_detection.                                        *)
ResetsDetection == asked' = 0 /\ count' = 0 /\ UNCHANGED local

-----------------------------------------------------------------------------
(* The microphone and the vendor's threads.                                *)

StateLockIsFree == mic = "idle"

HasRoomForOneMore == Len(queue) =< MaxQueue

(* put: the queue is bounded.                                              *)
HasRoom == Len(queue) < MaxQueue

(* submit_audio, with the state lock held until the frame was looked at:   *)
(* a frame is taken while the session is wanted, the output is silent or   *)
(* its echo is cancelled, and there is room.                               *)
Submit(frame) ==
    /\ mic = "idle"
    /\ state \in {"CONNECTING", "READY"}
    /\ duplex \/ local = 0
    /\ HasRoom
    /\ queue' = Append(queue, era)
    /\ mic' = frame
    /\ talked' = IF frame = "speech" /\ local # 0 THEN talked \cup {local} ELSE talked
    /\ UNCHANGED <<duplex, state, requestVars, bargeVars, outputVars, threadVars, up,
                   down, bridgeVars>>

(* _detect_local_barge_in: the second frame of speech in a row asks the    *)
(* network thread to silence the epoch.                                    *)
Detect ==
    /\ mic # "idle"
    /\ mic' = "idle"
    /\ CASE ~duplex \/ asked # 0 -> UNCHANGED <<asked, count>>
         [] duplex /\ asked = 0 /\ (local = 0 \/ mic = "quiet") ->
                count' = 0 /\ UNCHANGED asked
         [] OTHER ->
                IF count + 1 < BargeInFrames
                THEN count' = count + 1 /\ UNCHANGED asked
                ELSE count' = 0 /\ asked' = local
    /\ UNCHANGED <<duplex, state, queue, requestVars, local, outputVars, threadVars, up,
                   down, bridgeVars, talked>>

StaysOpen == UNCHANGED state

(* Nothing is admitted after an interrupt or a stop.                       *)
StopsAdmission == state' = IF state \in {"CONNECTING", "READY"} THEN "STOPPING" ELSE state

(* A later interrupt cannot take back that an earlier one gives up the     *)
(* session.                                                                *)
Remembers(keep) == preserve' = (keep /\ (interruptAsked => preserve))

(* interrupt.                                                              *)
Interrupt(keep) ==
    /\ net # "done" /\ StateLockIsFree
    /\ interrupts < MaxInterrupts
    /\ interrupts' = interrupts + 1 /\ era' = era + 1
    /\ Remembers(keep)
    /\ interruptAsked' = TRUE
    /\ StopsAdmission
    /\ queue' = <<>>
    /\ ResetsDetection
    /\ UNCHANGED <<duplex, mic, stopAsked, outputVars, threadVars, up, down, bridgeVars,
                   talked>>

(* stop.                                                                   *)
Stop ==
    /\ net # "done" /\ StateLockIsFree
    /\ ~stopAsked
    /\ stopAsked' = TRUE
    /\ StopsAdmission
    /\ queue' = <<>>
    /\ ResetsDetection
    /\ UNCHANGED <<duplex, mic, interruptAsked, preserve, interrupts, era, outputVars,
                   threadVars, up, down, bridgeVars, talked>>

(* start.                                                                  *)
Start ==
    /\ state = "NEW" /\ StateLockIsFree
    /\ state' = "CONNECTING" /\ net' = "connecting"
    /\ UNCHANGED <<duplex, micVars, requestVars, bargeVars, outputVars, interruptSent,
                   late, failed, broken, up, down, bridgeVars, talked>>

-----------------------------------------------------------------------------
(* The network thread until the session is ready.                          *)

At(where) == net = where

Goes(where) == net' = where

Sends(what) == up' = Append(up, what)

(* The echo cancellation is in place and the socket is open.               *)
Connect ==
    /\ At("connecting") /\ Goes("handshake")
    /\ Sends("start")
    /\ UNCHANGED <<duplex, state, micVars, requestVars, bargeVars, outputVars,
                   interruptSent, late, failed, broken, down, bridgeVars, talked>>

(* _wait_for_started.                                                      *)
Handshake ==
    /\ At("handshake")
    /\ \/ /\ stopAsked \/ interruptAsked
          /\ Goes("ending") /\ UNCHANGED down
       \/ /\ ~stopAsked /\ ~interruptAsked
          /\ down # <<>> /\ Head(down).kind = "started"
          /\ Goes("promoting") /\ down' = Tail(down)
    /\ UNCHANGED <<duplex, state, micVars, requestVars, bargeVars, outputVars,
                   interruptSent, late, failed, broken, up, bridgeVars, talked>>

(* The session is ready, if it is still wanted.                            *)
Promote ==
    /\ At("promoting") /\ StateLockIsFree
    /\ Goes("top")
    /\ state' = IF state = "CONNECTING" THEN "READY" ELSE state
    /\ UNCHANGED <<duplex, micVars, requestVars, bargeVars, outputVars, interruptSent,
                   late, failed, broken, up, down, bridgeVars, talked>>

-----------------------------------------------------------------------------
(* The loop of the network thread.                                         *)

(* Epochs that are cut short: nothing of them is to be heard any more.     *)
Cuts(epochs) == silenced' = silenced \cup (epochs \ {0})

(* An interrupt is pending: local output ends, the bridge is told once,    *)
(* and its answer has a deadline.                                          *)
AttendInterrupt ==
    /\ At("top") /\ interruptAsked
    /\ SetsLocal(0)
    /\ player' = NoPlayer /\ queue' = <<>>
    /\ suppressed' = IF output # 0 THEN output ELSE suppressed
    /\ output' = 0
    /\ Cuts({output, player.epoch})
    /\ interruptSent' = TRUE
    /\ IF interruptSent
       THEN Goes(IF late THEN "ending" ELSE "reading") /\ UNCHANGED up
       ELSE Goes("reading") /\ Sends("interrupt")
    /\ UNCHANGED <<duplex, state, mic, requestVars, last, late, failed, broken, down,
                   bridgeVars, talked>>

AttendStop ==
    /\ At("top") /\ stopAsked /\ ~interruptAsked
    /\ SetsLocal(0)
    /\ player' = NoPlayer /\ queue' = <<>>
    /\ Cuts({output, player.epoch})
    /\ Sends("stop")
    /\ Goes("ending")
    /\ UNCHANGED <<duplex, state, mic, requestVars, output, last, suppressed,
                   interruptSent, late, failed, broken, down, bridgeVars, talked>>

ForgetsSuppressed(e) == UNCHANGED suppressed

(* Frames of the epoch may still arrive.                                   *)
Suppresses(e) == suppressed' = e

(* _flush_local_barge_in: the request is for the epoch that is heard now,  *)
(* or for the last one, whose tail still is.                               *)
BargesIn ==
    /\ asked # 0 /\ asked = local
    /\ asked = output \/ (output = 0 /\ asked = last /\ Active(player))

AttendBargeIn ==
    /\ At("top") /\ ~interruptAsked /\ ~stopAsked
    /\ Goes("serving")
    /\ IF asked # 0 THEN asked' = 0 /\ count' = 0 ELSE UNCHANGED <<asked, count>>
    /\ IF BargesIn
       THEN /\ local' = 0 /\ output' = 0 /\ player' = NoPlayer
            /\ Suppresses(asked)
            /\ Cuts({asked})
       ELSE UNCHANGED <<local, output, player, suppressed, silenced>>
    /\ UNCHANGED <<duplex, state, micVars, requestVars, last, interruptSent, late,
                   failed, broken, up, down, bridgeVars, talked>>

(* The player writes what it has; once it has nothing left its process may *)
(* be found to have ended (service).                                       *)
Serviced(p) ==
    {p, [p EXCEPT !.pending = {}]}
    \cup (IF Active(p) /\ p.pending = {} THEN {NoPlayer} ELSE {})

(* Then the microphone opens when the last tail was heard, and a frame is  *)
(* sent, when it is due.                                                   *)
Serve ==
    /\ At("serving") /\ Goes("reading")
    /\ player' \in Serviced(player)
    /\ IF output = 0 /\ ~Active(player') THEN SetsLocal(0) ELSE UNCHANGED bargeVars
    /\ queue' \in {queue} \cup {Tail(q) : q \in {queue} \ {<<>>}}
    /\ UNCHANGED <<duplex, state, mic, requestVars, output, last, suppressed, silenced,
                   interruptSent, late, failed, broken, up, down, bridgeVars, talked>>

(* Nothing to read within the tick, or nothing of interest.                *)
ReadNothing ==
    /\ At("reading") /\ Goes("top")
    /\ UNCHANGED <<duplex, state, micVars, requestVars, bargeVars, outputVars,
                   interruptSent, late, failed, broken, up, down, bridgeVars, talked>>

(* The session ends by an error: not a failure when it was asked to end.   *)
Fails == Goes("ending") /\ failed' = (~stopAsked /\ ~interruptAsked)

Survives(where) == Goes(where) /\ UNCHANGED failed

(* A message that does not fit what the device knows of the epochs.        *)
Refuses == broken' = TRUE /\ Fails

Accepts(where) == UNCHANGED broken /\ Survives(where)

Reads(kind) ==
    /\ At("reading")
    /\ down # <<>> /\ Head(down).kind = kind
    /\ down' = Tail(down)
    /\ UNCHANGED <<duplex, state, micVars, requestVars, interruptSent, late, up,
                   bridgeVars, talked>>

Enqueued(p, e) == [p EXCEPT !.pending = @ \cup {e}]

(* Frames of an epoch that was cut short are dropped.                      *)
ReadFrame ==
    /\ Reads("frame")
    /\ CASE output # 0 /\ Active(player) ->
                player' = Enqueued(player, Head(down).epoch) /\ Accepts("top")
         [] output # 0 /\ ~Active(player) -> UNCHANGED <<player, broken>> /\ Fails
         [] output = 0 /\ suppressed # 0 -> UNCHANGED player /\ Accepts("top")
         [] OTHER -> UNCHANGED player /\ Refuses
    /\ UNCHANGED <<bargeVars, output, last, suppressed, silenced>>

(* speaking.started: what is left of the previous epoch is taken back      *)
(* before the player is started anew.                                      *)
ReadBegin ==
    /\ Reads("begin")
    /\ CASE Head(down).epoch =< last ->
                UNCHANGED <<bargeVars, last, suppressed>> /\ Accepts("top")
         [] Head(down).epoch > last /\ output # 0 ->
                UNCHANGED <<bargeVars, last, suppressed>> /\ Refuses
         [] OTHER ->
                SetsLocal(0) /\ suppressed' = 0 /\ last' = Head(down).epoch /\ Accepts("beginning")
    /\ UNCHANGED <<output, player, silenced>>

RestartedWithout(p) == [p EXCEPT !.epoch = last, !.finishing = FALSE]

(* begin: the old process is gone, and what it had not been given.         *)
Restarted(p) == [NoPlayer EXCEPT !.epoch = last]

Begin ==
    /\ At("beginning") /\ Goes("top")
    /\ player' = Restarted(player)
    /\ SetsLocal(last)
    /\ output' = last
    /\ UNCHANGED <<duplex, state, micVars, requestVars, last, suppressed, silenced,
                   interruptSent, late, failed, broken, up, down, bridgeVars, talked>>

(* finish.                                                                 *)
Finished(p) == [p EXCEPT !.finishing = Active(p)]

(* speaking.stopped: the microphone stays closed until the tail was heard. *)
ReadEnd ==
    /\ Reads("end")
    /\ LET e == Head(down).epoch IN
       CASE output = 0 /\ suppressed = e ->
                suppressed' = 0 /\ UNCHANGED <<output, player>> /\ Accepts("top")
         [] output # 0 /\ e = output ->
                /\ output' = 0
                /\ player' \in Serviced(Finished(player))
                /\ UNCHANGED suppressed /\ Accepts("top")
         [] output # e /\ suppressed # e /\ e =< last ->
                UNCHANGED <<output, player, suppressed>> /\ Accepts("top")
         [] OTHER -> UNCHANGED <<output, player, suppressed>> /\ Refuses
    /\ UNCHANGED <<bargeVars, last, silenced>>

(* input_audio_buffer.speech_started: the bridge heard the user before the *)
(* device did.                                                             *)
ReadSpeech ==
    /\ Reads("speech")
    /\ Accepts("top")
    /\ IF duplex /\ (output # 0 \/ Active(player))
       THEN /\ SetsLocal(0)
            /\ player' = NoPlayer /\ output' = 0
            /\ Suppresses(IF output # 0 THEN output ELSE last)
            /\ Cuts({IF output # 0 THEN output ELSE last})
       ELSE UNCHANGED <<bargeVars, player, output, suppressed, silenced>>
    /\ UNCHANGED last

(* stopped: the answer to an interrupt, or the end.                        *)
ReadStopped(kind) ==
    /\ Reads(kind)
    /\ SetsLocal(0)
    /\ player' = NoPlayer /\ output' = 0
    /\ suppressed' = IF kind = "stopped" THEN suppressed ELSE 0
    /\ Cuts({output, player.epoch})
    /\ Accepts(CASE kind = "stopped" -> "ending"
                 [] kind = "fresh" /\ interruptSent -> "ending"
                 [] kind = "resumed" /\ interruptSent -> "resuming"
                 [] OTHER -> "top")
    /\ UNCHANGED last

AlwaysResumes == TRUE

(* Every interrupt since the last resumption wanted to keep the session.   *)
MayResume == preserve

(* The interrupted session goes on, or is stopped.                         *)
Resume ==
    /\ At("resuming") /\ StateLockIsFree
    /\ IF MayResume
       THEN /\ interruptAsked' = FALSE
            /\ state' = IF state = "STOPPING" THEN "READY" ELSE state
            /\ era' = era + 1
            /\ interruptSent' = FALSE /\ late' = FALSE
            /\ suppressed' = 0
            /\ Goes("top") /\ UNCHANGED up
       ELSE /\ Sends("stop") /\ Goes("ending")
            /\ UNCHANGED <<state, interruptAsked, era, interruptSent, late, suppressed>>
    /\ SetsLocal(0)
    /\ UNCHANGED <<duplex, micVars, stopAsked, preserve, interrupts, output, last, player,
                   silenced, failed, broken, down, bridgeVars, talked>>

(* The echo cancellation is not in place, so there is no connection.       *)
Unverified ==
    /\ At("connecting") /\ duplex
    /\ Fails
    /\ UNCHANGED <<duplex, state, micVars, requestVars, bargeVars, outputVars,
                   interruptSent, late, broken, up, down, bridgeVars, talked>>

(* The bridge does not start what the device asked for.                    *)
Incompatible ==
    /\ At("handshake") /\ down # <<>>
    /\ Fails /\ down' = Tail(down)
    /\ UNCHANGED <<duplex, state, micVars, requestVars, bargeVars, outputVars,
                   interruptSent, late, broken, up, bridgeVars, talked>>

(* A deadline of the session or the ping, the socket, the player.          *)
Breaks ==
    /\ net \in {"connecting", "handshake"} \cup Running
    /\ Fails
    /\ UNCHANGED <<duplex, state, micVars, requestVars, bargeVars, outputVars,
                   interruptSent, late, broken, up, down, bridgeVars, talked>>

(* The finally of _run.                                                    *)
CleanUp ==
    /\ At("ending") /\ Goes("closing")
    /\ SetsLocal(0) /\ queue' = <<>> /\ player' = NoPlayer
    /\ UNCHANGED <<duplex, state, mic, requestVars, output, last, suppressed, silenced,
                   interruptSent, late, failed, broken, up, down, bridgeVars, talked>>

Close ==
    /\ At("closing") /\ StateLockIsFree /\ Goes("done")
    /\ state' = IF failed THEN "FAILED" ELSE "STOPPED"
    /\ UNCHANGED <<duplex, micVars, requestVars, bargeVars, outputVars, interruptSent,
                   late, failed, broken, up, down, bridgeVars, talked>>

(* io_timeout_seconds after the interrupt was sent.                        *)
DeadlinePasses ==
    /\ interruptSent /\ ~late /\ net # "done"
    /\ late' = TRUE
    /\ UNCHANGED <<duplex, state, micVars, requestVars, bargeVars, outputVars, net,
                   interruptSent, failed, broken, up, down, bridgeVars, talked>>

-----------------------------------------------------------------------------
(* The bridge.                                                             *)

deviceVars == <<duplex, state, micVars, requestVars, bargeVars, outputVars, threadVars,
                talked>>

Serves == bridge \in {"open", "cancelling", "confirmed"}

Writes(kind, e) ==
    /\ Len(down) < MaxWire
    /\ down' = Append(down, [kind |-> kind, epoch |-> e])
    /\ UNCHANGED deviceVars

Told(what) == up # <<>> /\ Head(up) = what /\ up' = Tail(up)

BridgeStarts ==
    /\ Told("start") /\ bridge' = "open"
    /\ Writes("started", 0)
    /\ UNCHANGED <<speaking, epoch, early>>

(* begin_output_locked.                                                    *)
BridgeBegins ==
    /\ Serves /\ ~speaking /\ epoch < MaxEpochs
    /\ speaking' = TRUE /\ epoch' = epoch + 1
    /\ Writes("begin", epoch')
    /\ UNCHANGED <<up, bridge, early>>

BridgeSpeaks ==
    /\ Serves /\ speaking
    /\ Writes("frame", epoch)
    /\ UNCHANGED <<up, bridgeVars>>

(* end_output, whoever calls it.                                           *)
BridgeEnds ==
    /\ Serves /\ speaking
    /\ speaking' = FALSE
    /\ Writes("end", epoch)
    /\ UNCHANGED <<up, bridge, epoch, early>>

(* The device is told of the user's speech before the epoch is ended.      *)
BridgeHears ==
    /\ Serves
    /\ Writes("speech", 0)
    /\ UNCHANGED <<up, bridgeVars>>

(* An interrupt ends the output before the provider is asked to cancel,    *)
(* and the cancellation ends it again: late events and media of the        *)
(* response may have opened a new epoch.                                   *)
EndsEpoch(next) ==
    /\ bridge' = next
    /\ IF speaking
       THEN speaking' = FALSE /\ Writes("end", epoch)
       ELSE UNCHANGED <<speaking, down, deviceVars>>
    /\ UNCHANGED <<epoch, early>>

BridgeIsInterrupted ==
    /\ bridge = "open" /\ Told("interrupt")
    /\ EndsEpoch("cancelling")

BridgeCancelled ==
    /\ bridge = "cancelling"
    /\ EndsEpoch("confirmed")
    /\ UNCHANGED up

(* The interrupt is answered by another task than the one that ended the   *)
(* epoch.                                                                  *)
BridgeResumes ==
    /\ bridge = "confirmed" /\ bridge' = "open"
    /\ early' = (early \/ speaking)
    /\ Writes("resumed", 0)
    /\ UNCHANGED <<up, speaking, epoch>>

BridgeGivesUp ==
    /\ bridge = "cancelling" /\ bridge' = "over"
    /\ Writes("fresh", 0)
    /\ UNCHANGED <<up, speaking, epoch, early>>

BridgeIsStopped ==
    /\ bridge = "open" /\ Told("stop")
    /\ bridge' = "over"
    /\ UNCHANGED <<deviceVars, down, speaking, epoch, early>>

(* The session of the bridge ends by itself.                               *)
BridgeLeaves ==
    /\ Serves /\ bridge' = "over"
    /\ Writes("stopped", 0)
    /\ UNCHANGED <<up, speaking, epoch, early>>

-----------------------------------------------------------------------------
Startup == Connect \/ Handshake \/ Promote

Attend == AttendInterrupt \/ AttendStop \/ AttendBargeIn

Read ==
    \/ ReadNothing \/ ReadFrame \/ ReadBegin \/ ReadEnd \/ ReadSpeech
    \/ \E kind \in {"resumed", "fresh", "stopped"} : ReadStopped(kind)

Ending == CleanUp \/ Close

Network == Startup \/ Attend \/ Serve \/ Read \/ Begin \/ Resume
           \/ Unverified \/ Incompatible \/ Breaks \/ Ending

Bridge ==
    \/ BridgeStarts \/ BridgeBegins \/ BridgeSpeaks \/ BridgeEnds \/ BridgeHears
    \/ BridgeIsInterrupted \/ BridgeCancelled \/ BridgeResumes \/ BridgeGivesUp
    \/ BridgeIsStopped \/ BridgeLeaves

Next ==
    \/ \E frame \in {"quiet", "speech"} : Submit(frame)
    \/ Detect
    \/ \E keep \in BOOLEAN : Interrupt(keep)
    \/ Stop \/ Start
    \/ Network \/ DeadlinePasses
    \/ Bridge

Spec == Init /\ [][Next]_vars

(* The network thread never blocks for long (every wait of it is bounded), *)
(* submit_audio returns, and time passes.  The bridge owes nothing: in     *)
(* "handshake" the deadline ends the wait.                                 *)
Fairness == WF_vars(Network) /\ WF_vars(Detect) /\ WF_vars(DeadlinePasses)

FairSpec == Spec /\ Fairness

-----------------------------------------------------------------------------
(* PROPERTIES *)

(* The device never meets an epoch message it has no place for, which      *)
(* would end the session, whatever it cut short by itself (934-1022): but  *)
(* for the one case that the bridge opened an epoch after the cancellation *)
(* and before it answered the interrupt.                                   *)
EpochsFit == broken => early

(* An epoch that was cut short stays silent, whatever of it is still on    *)
(* its way; the player never holds what belongs to another epoch; and the  *)
(* user's speech cuts only the epoch it was spoken in (586-657).           *)
SilencedStaysSilent ==
    /\ player.epoch \notin silenced
    /\ player.pending \subseteq {player.epoch}
    /\ asked # 0 => asked = local /\ asked \in talked

(* What waits to be sent was spoken since the last interruption or         *)
(* resumption (561-584, 659-692, 858-871); without echo cancellation no    *)
(* frame is taken while the player is audible, except in the instant       *)
(* between two epochs in which the old player is replaced (965-967), or    *)
(* when the session ends anyway and sends no more.                         *)
MicrophoneIsOurs ==
    [][ /\ \A i \in DOMAIN queue' : queue'[i] = era'
        /\ Len(queue') > Len(queue) =>
               duplex \/ ~Active(player) \/ net \in {"beginning", "ending"} ]_vars

(* A session that was asked to end ends, whatever else was asked meanwhile *)
(* and whatever the bridge does; any interruption is over some time.       *)
SessionEnds ==
    /\ (net # "new" /\ (stopAsked \/ (interruptAsked /\ ~preserve))) ~> net = "done"
    /\ (net # "new" /\ interruptAsked) ~> (~interruptAsked \/ net = "done")
=============================================================================
