----------------------------- MODULE Transcription -----------------------------
(***************************************************************************)
(* One transcription of bridge/service.py, in time: a client that streams  *)
(* an utterance while it is spoken (_transcribe_stream_admitted) or posts  *)
(* it whole (_transcribe_admitted); the attempts that feed it to a         *)
(* realtime session, the first of a stream while the capture still runs    *)
(* (_run_live_transcription_attempt); the paced track that plays it        *)
(* (PcmAudioTrack); and the wait that decides when the text is complete    *)
(* (_wait_for_user_transcript).  What an attempt does with its thread, its *)
(* session and the speech lane is in SpeechRequests.                       *)
(*                                                                         *)
(* Time passes in ticks of one chunk of audio.  What the bridge can do     *)
(* without waiting for anybody it does within the tick.  The windows the   *)
(* text depends on are counted in ticks; every other deadline may pass at  *)
(* any moment of its wait.                                                 *)
(***************************************************************************)
EXTENDS Integers, Sequences, FiniteSets

CONSTANTS
    MaxChunks,    \* longest utterance
    MaxAttempts,  \* TRANSCRIPTION_MAX_ATTEMPTS
    Quiet,        \* TRANSCRIPTION_FRAGMENT_QUIET_SECONDS
    LiveQuiet,    \* live_fragment_quiet_seconds
    MaxStall,     \* chunks the audio of the client may be behind its voice
    MinTail,      \* chunks of silence at the end of an utterance
    MaxLag        \* ticks the provider may be behind with what it has heard

ASSUME TimingAssumption ==
    /\ MaxChunks \in Nat \ {0} /\ MaxAttempts \in Nat \ {0}
    /\ Quiet \in Nat \ {0} /\ LiveQuiet \in 1..Quiet
    /\ MaxStall \in Nat /\ MaxLag \in Nat /\ MinTail \in 1..MaxChunks

VARIABLES
    said,     \* the utterance so far, one entry a chunk
    mic,      \* the client still speaks
    wire,     \* control messages behind the audio
    arrived,  \* chunks the bridge has captured
    phase,    \* of the handler of the request
    capture,  \* the capture task
    watch,    \* the task that watches for a cancel after the end
    reply,    \* what the handler answered
    tries,    \* attempts begun
    stage,    \* of the attempt
    taken,    \* chunks the live attempt took from live_input
    gain,     \* the normalizer: not calibrated, unity gain, or assisted
    tape,     \* fed to the track of the session and not yet played
    due,      \* ticks until feed_started plus the duration of what was fed
    texted,   \* words the provider sent, by source of fragments
    heard,    \* words the provider heard
    lag,      \* ticks since it heard the first of those it has not sent
    provider, \* up; done: has sent a terminal transcript; gone: has closed
    read,     \* words the wait has read: deltas and data_deltas
    still,    \* ticks since last_fragment_at
    drained,  \* ticks since drained_at
    outcome   \* of the attempt

clientVars == <<said, mic, wire>>
streamVars == <<arrived, phase, capture, watch, reply>>
feedVars == <<taken, gain, tape, due>>
waitVars == <<read, still, drained>>
providerVars == <<texted, heard, lag, provider>>
attemptVars == <<tries, stage, outcome, feedVars, waitVars, providerVars>>
vars == <<clientVars, streamVars, attemptVars>>

Sounds == {"word", "pause"}
Words(s) == Cardinality({i \in DOMAIN s : s[i] = "word"})
Least(a, b) == IF a < b THEN a ELSE b
Most(a, b) == IF a > b THEN a ELSE b
None == -1

(* The App Server's deltas and the raw fragments of the data channel, both *)
(* of the same text: either may be ahead, or silent.                       *)
Sources == {"app", "data"}
Nothing == [s \in Sources |-> 0]

(* _assembled_transcript: raw if it is there, unless the deltas go on      *)
(* where it stops.                                                         *)
Assembled(w) == IF w["data"] = 0 THEN w["app"] ELSE Most(w["data"], w["app"])

TypeOK ==
    /\ mic \in BOOLEAN
    /\ said \in Seq(Sounds) /\ Len(said) <= MaxChunks
    /\ wire \in Seq({"end", "break"}) /\ Len(wire) <= 2
    /\ arrived \in 0..Len(said)
    /\ phase \in {"reading", "capturing", "finishing", "closing", "closed"}
    /\ capture \in {"off", "on", "ended", "cancelled", "bad"}
    /\ watch \in {"off", "on", "cancelled", "bad"}
    /\ reply \in {"none", "result", "error"}
    /\ tries \in 0..MaxAttempts
    /\ stage \in {"off", "thread", "handshake", "capture", "audio", "waiting",
                  "closing", "ended"}
    /\ taken \in 0..arrived
    /\ gain \in {"unsure", "unity", "assisted"}
    /\ tape \in Seq(Sounds) /\ Len(tape) <= Len(said)
    /\ due \in -MaxChunks..MaxChunks
    /\ heard \in 0..Words(said) /\ texted \in [Sources -> 0..heard]
    /\ lag \in 0..MaxLag
    /\ read \in [Sources -> 0..Words(said)]
    /\ stage # "closing" => \A s \in Sources : read[s] <= texted[s]
    /\ provider \in {"up", "done", "gone"}
    /\ still \in 0..Quiet /\ drained \in None..LiveQuiet
    /\ outcome \in {"none", "terminal", "quiet", "retry", "fail"}

(* Nobody stops before MinTail chunks of silence.                          *)
Tailed(s) == Len(s) >= MinTail /\ \A i \in Len(s) - MinTail + 1..Len(s) : s[i] = "pause"

FreshAttempt ==
    /\ taken = 0 /\ gain = "unsure" /\ tape = <<>> /\ due = 0
    /\ texted = Nothing /\ heard = 0 /\ lag = 0 /\ provider = "up"
    /\ read = Nothing /\ still = 0 /\ drained = None
    /\ outcome = "none"

(* A body of POST is all there, and its attempts are never live.           *)
Init ==
    /\ watch = "off" /\ reply = "none" /\ wire = <<>>
    /\ FreshAttempt
    /\ \/ /\ phase = "reading" /\ capture = "off" /\ mic = TRUE
          /\ said = <<>> /\ arrived = 0
          /\ tries = 0 /\ stage = "off"
       \/ /\ phase = "finishing" /\ capture = "off" /\ mic = FALSE
          /\ said \in UNION {[1..n -> Sounds] : n \in 1..MaxChunks}
          /\ Tailed(said)
          /\ arrived = Len(said)
          /\ tries = 1 /\ stage = "thread"

-----------------------------------------------------------------------------
(* The client.  The end of an utterance is detected by a pause.            *)

Send(control) == wire' = Append(wire, control)

ClientEnds ==
    /\ mic /\ phase = "capturing"
    /\ said # <<>> => Tailed(said)
    /\ mic' = FALSE
    /\ Send("end")
    /\ UNCHANGED <<said, streamVars, attemptVars>>

(* Instead of the end, or after it: a cancel, a disconnect, which counts   *)
(* as one, or a message that does not belong there.                        *)
ClientBreaks ==
    /\ phase \in {"capturing", "finishing"}
    /\ mic \/ (capture # "off" /\ (wire = <<>> \/ wire = <<"end">>))
    /\ mic' = FALSE
    /\ Send("break")
    /\ UNCHANGED <<said, streamVars, attemptVars>>

-----------------------------------------------------------------------------
(* The handler of a stream and its capture.                                *)

(* The start message is valid: the attempt and the capture begin together. *)
StreamStarts ==
    /\ phase = "reading"
    /\ phase' = "capturing"
    /\ capture' = "on"
    /\ tries' = 1 /\ stage' = "thread"
    /\ UNCHANGED <<clientVars, arrived, watch, reply, outcome, feedVars, waitVars,
                   providerVars>>

(* The start message is malformed or late.                                 *)
StartRefused ==
    /\ phase = "reading"
    /\ phase' = "closed" /\ reply' = "error"
    /\ UNCHANGED <<clientVars, arrived, capture, watch, attemptVars>>

(* Audio goes into the capture and, for the live attempt, into live_input. *)
TakeAudio ==
    /\ capture = "on" /\ arrived < Len(said)
    /\ arrived' = arrived + 1
    /\ UNCHANGED <<clientVars, phase, capture, watch, reply, attemptVars>>

TakeControl ==
    /\ capture = "on" /\ arrived = Len(said) /\ wire # <<>>
    /\ capture' \in IF Head(wire) = "end" THEN {"ended"} ELSE {"cancelled", "bad"}
    /\ wire' = Tail(wire)
    /\ UNCHANGED <<said, mic, arrived, phase, watch, reply, attemptVars>>

(* TRANSCRIPTION_STREAM_CAPTURE_TIMEOUT_SECONDS, or a frame over a limit.  *)
CaptureFails ==
    /\ capture = "on"
    /\ capture' = "bad"
    /\ UNCHANGED <<clientVars, arrived, phase, watch, reply, attemptVars>>

(* The finally of the handler: the tasks that still run are cancelled.     *)
Answer(r) ==
    /\ phase' = "closing"
    /\ reply' = r
    /\ capture' = IF capture = "on" THEN "off" ELSE capture
    /\ watch' = IF watch = "on" THEN "off" ELSE watch

(* The capture is over, whatever became of the attempt meanwhile.  An      *)
(* empty one is an error; any other resolves audio_ready.                  *)
CaptureDone ==
    /\ phase = "capturing" /\ capture # "on"
    /\ IF capture = "ended" /\ arrived > 0
       THEN /\ phase' = "finishing" /\ watch' = "on"
            /\ UNCHANGED <<capture, reply>>
       ELSE Answer(IF capture = "cancelled" THEN "none" ELSE "error")
    /\ UNCHANGED <<clientVars, arrived, attemptVars>>

(* The attempts fail before the capture ends.                              *)
EarlyFailure ==
    /\ phase = "capturing" /\ capture = "on" /\ stage = "ended"
    /\ Answer("error")
    /\ UNCHANGED <<clientVars, arrived, attemptVars>>

WatchReads ==
    /\ watch = "on" /\ wire # <<>>
    /\ watch' \in {"cancelled", "bad"}
    /\ wire' = Tail(wire)
    /\ UNCHANGED <<said, mic, arrived, phase, capture, reply, attemptVars>>

(* A cancel comes before a result that is there as well.                   *)
Watched ==
    /\ phase = "finishing" /\ watch \in {"cancelled", "bad"}
    /\ Answer(IF watch = "cancelled" THEN "none" ELSE "error")
    /\ UNCHANGED <<clientVars, arrived, attemptVars>>

Finished ==
    /\ phase = "finishing" /\ watch \in {"off", "on"} /\ stage = "ended"
    /\ Answer(IF outcome \in {"terminal", "quiet"} THEN "result" ELSE "error")
    /\ UNCHANGED <<clientVars, arrived, attemptVars>>

(* gather: the handler returns when all its tasks have.                    *)
CloseStream ==
    /\ phase = "closing" /\ stage \in {"off", "ended"}
    /\ phase' = "closed"
    /\ UNCHANGED <<clientVars, arrived, capture, watch, reply, attemptVars>>

-----------------------------------------------------------------------------
(* An attempt.  AudioReady is the shared future, resolved by the capture   *)
(* of a stream and from the start for a POST.                              *)

AudioReady == phase = "finishing"
Live == capture # "off" /\ tries = 1

(* Its data is of no use once it ends, but for the text it returns.        *)
EndAttempt(o) ==
    /\ stage' = "closing" /\ outcome' = o
    /\ taken' = 0 /\ gain' = "unsure" /\ tape' = <<>> /\ due' = 0
    /\ texted' = Nothing /\ heard' = 0 /\ lag' = 0 /\ still' = 0 /\ drained' = None
    /\ read' = IF o = "quiet" THEN read ELSE Nothing
    /\ UNCHANGED <<clientVars, streamVars, tries, provider>>

ThreadStarted ==
    /\ stage = "thread"
    /\ stage' = "handshake"
    /\ UNCHANGED <<clientVars, streamVars, tries, outcome, feedVars, waitVars, providerVars>>

(* Not retried after an error, nor after a timeout, which leaves unknown   *)
(* whether there is a thread (_TranscriptionStartTimeout).                 *)
NoThread ==
    /\ stage' = "ended" /\ outcome' = "fail"
    /\ UNCHANGED <<clientVars, streamVars, tries, feedVars, waitVars, providerVars>>
ThreadFails == stage = "thread" /\ NoThread

Connected ==
    /\ stage = "handshake"
    /\ stage' = IF Live THEN "capture" ELSE "audio"
    /\ UNCHANGED <<clientVars, streamVars, tries, outcome, feedVars, waitVars, providerVars>>

(* A timeout of the handshake or of the wait may be tried again.           *)
AttemptTimesOut ==
    /\ stage \in {"handshake", "waiting"}
    /\ EndAttempt("retry")

(* The App Server, the transport or the task that drains its audio fails:  *)
(* noticed in the handshake and in the wait, but not while audio is taken. *)
SessionFails ==
    /\ stage \in {"handshake", "waiting"}
    /\ EndAttempt("fail")

(* A variant in which the handler leaves its attempt to itself.            *)
NotCancelled ==
    /\ stage \notin {"off", "ended"} /\ phase = "finishing"
    /\ stage = "closing" => outcome # "fail"
    /\ IF stage = "thread" THEN NoThread ELSE EndAttempt("fail")

(* The total deadline passes, which runs only while the audio is there; or *)
(* the handler cancels its task.                                           *)
Cancelled ==
    /\ stage \notin {"off", "ended"} /\ phase \in {"finishing", "closing"}
    /\ stage = "closing" => outcome # "fail"
    /\ IF stage = "thread" THEN NoThread ELSE EndAttempt("fail")

(* A variant that counts one attempt too many.                             *)
AttemptEndsLate ==
    /\ stage = "closing"
    /\ IF outcome = "retry" /\ tries <= MaxAttempts
       THEN tries' = tries + 1 /\ stage' = "thread" /\ outcome' = "none"
       ELSE stage' = "ended" /\ UNCHANGED <<tries, outcome>>
    /\ provider' = "up" /\ read' = Nothing
    /\ UNCHANGED <<clientVars, streamVars, feedVars, still, drained, heard, lag, texted>>

(* The session is stopped and the thread deleted; another attempt follows  *)
(* a timeout.                                                              *)
AttemptEnds ==
    /\ stage = "closing"
    /\ IF outcome = "retry" /\ tries < MaxAttempts
       THEN tries' = tries + 1 /\ stage' = "thread" /\ outcome' = "none"
       ELSE stage' = "ended" /\ UNCHANGED <<tries, outcome>>
    /\ provider' = "up" /\ read' = Nothing
    /\ UNCHANGED <<clientVars, streamVars, feedVars, still, drained, heard, lag, texted>>

(* session.feed_audio.                                                     *)
Feed(chunks) ==
    /\ tape' = tape \o chunks
    /\ due' = due + Len(chunks)

(* _StreamingTranscriptionCalibrator: speech among the audio kept makes it *)
(* sure of a gain.  That it hears no word too late, or else none at all,   *)
(* is an assumption on its thresholds.                                     *)
Kept(n) == SubSeq(said, IF n = 1 THEN 1 ELSE n - 1, n)
Calibrates(n) == Words(Kept(n)) > 0 /\ Words(SubSeq(said, 1, n - 2)) = 0

(* The gain for the levels of a clip is one, or lifts it.                  *)
Gains == {"unity", "assisted"}

(* _StreamingTranscriptionNormalizer.feed: once calibrated it feeds what   *)
(* it has kept, which is this chunk and the one before it, and from then   *)
(* on all it gets.                                                         *)
TakeLive ==
    /\ stage = "capture" /\ taken < arrived
    /\ taken' = taken + 1
    /\ \/ /\ gain # "unsure"
          /\ Feed(<<said[taken + 1]>>)
          /\ UNCHANGED gain
       \/ /\ gain = "unsure" /\ Calibrates(taken + 1)
          /\ gain' \in Gains
          /\ Feed(Kept(taken + 1))
       \/ /\ gain = "unsure"
          /\ UNCHANGED <<gain, tape, due>>
    /\ UNCHANGED <<clientVars, streamVars, tries, stage, outcome, waitVars,
                   providerVars>>

(* The None behind the last chunk of live_input.                           *)
LiveEnds ==
    /\ stage = "capture" /\ capture = "ended" /\ taken = arrived
    /\ stage' = "audio"
    /\ UNCHANGED <<clientVars, streamVars, tries, outcome, feedVars, waitVars, providerVars>>

(* _trim_transcription_silence: nothing goes, or the silence before the    *)
(* first sustained speech.                                                 *)
Leading == Cardinality({i \in DOMAIN said : \A j \in 1..i : said[j] = "pause"})
Trims == {0, Least(Leading, Len(said) - 1)}

(* _prepare_transcription_audio.                                           *)
PreparedAudio == {SubSeq(said, trim + 1, Len(said)) : trim \in Trims}

(* audio_ready, for the live attempt: what was fed live is all there is,   *)
(* if the normalizer became active; otherwise all is fed at once.          *)
FeedRest ==
    /\ stage = "audio" /\ AudioReady /\ Live
    /\ stage' = "waiting"
    /\ IF gain # "unsure" THEN UNCHANGED <<tape, due>>
       ELSE \E audio \in PreparedAudio : Feed(audio)
    /\ UNCHANGED <<clientVars, streamVars, tries, outcome, taken, gain,
                   waitVars, providerVars>>

(* Any other attempt.                                                      *)
FeedPrepared ==
    /\ stage = "audio" /\ AudioReady /\ ~Live
    /\ stage' = "waiting"
    /\ \E audio \in PreparedAudio : Feed(audio)
    /\ UNCHANGED <<clientVars, streamVars, tries, outcome, taken, gain,
                   waitVars, providerVars>>

-----------------------------------------------------------------------------
(* _wait_for_user_transcript.                                              *)

(* A delta or a fragment starts the window anew, whatever it adds.         *)
ReadText(source) ==
    /\ stage = "waiting" /\ read[source] < texted[source]
    /\ read' = [read EXCEPT ![source] = texted[source]]
    /\ still' = 0
    /\ UNCHANGED <<clientVars, streamVars, tries, stage, outcome, feedVars, drained,
                   providerVars>>

(* The input drain is noticed when the track is empty.                     *)
SeeDrained ==
    /\ stage = "waiting" /\ drained = None /\ tape = <<>>
    /\ drained' = 0
    /\ UNCHANGED <<clientVars, streamVars, tries, stage, outcome, feedVars, read, still,
                   providerVars>>

(* The short window needs a live feed at unity gain and a drained track.   *)
QuickGuard == LiveQuiet < Quiet /\ gain = "unity" /\ drained # None

(* A variant that forgets when the audio will have been played.            *)
QuietTooSoon ==
    /\ Assembled(read) > 0
    /\ IF QuickGuard
       THEN still >= LiveQuiet /\ drained >= LiveQuiet
       ELSE still >= Quiet

QuietEnough ==
    /\ Assembled(read) > 0
    /\ IF QuickGuard
       THEN still >= LiveQuiet /\ drained >= LiveQuiet
       ELSE still >= Quiet /\ due <= 0

ReturnQuiet ==
    /\ stage = "waiting" /\ read = texted /\ QuietEnough
    /\ EndAttempt("quiet")

(* What ends a text: transcript/done, a handoff item, delegation.created   *)
(* or turn.done, of the user.                                              *)
Terminal == provider = "done"

(* It is taken as it is.                                                   *)
ReturnTerminal ==
    /\ stage = "waiting" /\ Terminal
    /\ EndAttempt("terminal")

-----------------------------------------------------------------------------
(* The provider sends what it heard, at most MaxLag ticks late, unless it  *)
(* closes.  Nothing in the bridge makes it: neither the drain of the input *)
(* nor the quiet of the fragments shows that the last one has come.        *)

InSession == stage \in {"capture", "audio", "waiting"}

Owes == InSession /\ Assembled(texted) < heard /\ provider # "gone"

SendText(source) ==
    /\ InSession /\ texted[source] < heard /\ provider # "gone"
    /\ texted' = [texted EXCEPT ![source] = heard]
    /\ lag' = 0
    /\ UNCHANGED <<clientVars, streamVars, tries, stage, outcome, feedVars, waitVars,
                   heard, provider>>

SendTerminal ==
    /\ InSession /\ provider = "up" /\ texted # Nothing
    /\ provider' \in {"done", "gone"}
    /\ UNCHANGED <<clientVars, streamVars, tries, stage, outcome, feedVars, waitVars,
                   heard, lag, texted>>

-----------------------------------------------------------------------------
(* Time.                                                                   *)

(* Something is still to be done in this tick.                             *)
Behind == Len(said) - arrived
Pending ==
    \/ phase \notin {"closed", "reading"} /\ capture = "on"
       /\ (Behind > MaxStall
           \/ (Behind = 0 /\ wire # <<>>))
    \/ phase = "capturing" /\ (capture # "on" \/ stage = "ended")
    \/ phase = "finishing" /\ stage = "ended"
    \/ Owes /\ lag >= MaxLag
    \/ stage = "capture" /\ (taken < arrived \/ capture = "ended")
    \/ stage = "audio" /\ AudioReady
    \/ stage = "waiting" /\ (read # texted \/ QuietEnough
                             \/ (drained = None /\ tape = <<>>))

(* PcmAudioTrack.recv plays one chunk, or silence.                         *)
Play ==
    IF InSession /\ tape # <<>>
    THEN /\ tape' = Tail(tape)
         /\ heard' = heard + (IF Head(tape) = "word" THEN 1 ELSE 0)
    ELSE UNCHANGED <<tape, heard>>

Tick ==
    /\ ~Pending /\ phase \in {"capturing", "finishing"} /\ stage # "closing"
    /\ \/ /\ mic /\ Len(said) < MaxChunks
          /\ \E sound \in Sounds : said' = Append(said, sound)
       \/ ~mic /\ UNCHANGED said
    /\ Play
    /\ lag' = IF Owes THEN lag + 1 ELSE 0
    /\ due' = IF stage = "waiting" THEN Most(due - 1, 0)
              ELSE IF gain # "unsure" THEN Most(due - 1, -MaxChunks) ELSE due
    /\ still' = IF read # Nothing THEN Least(still + 1, Quiet) ELSE 0
    /\ drained' = IF drained = None THEN None ELSE Least(drained + 1, LiveQuiet)
    /\ UNCHANGED <<mic, wire, streamVars, tries, stage, outcome, taken, gain,
                   read, texted, provider>>

-----------------------------------------------------------------------------
Handler ==
    \/ StreamStarts \/ StartRefused \/ TakeAudio \/ TakeControl \/ CaptureFails
    \/ CaptureDone \/ EarlyFailure \/ WatchReads \/ Watched \/ Finished \/ CloseStream
Attempt ==
    \/ ThreadStarted \/ ThreadFails \/ Connected \/ AttemptEnds \/ TakeLive \/ LiveEnds
    \/ FeedRest \/ FeedPrepared \/ SeeDrained \/ ReturnQuiet \/ ReturnTerminal
    \/ \E source \in Sources : ReadText(source)

Next ==
    \/ ClientEnds \/ ClientBreaks \/ Handler \/ Attempt
    \/ AttemptTimesOut \/ SessionFails \/ Cancelled \/ SendTerminal \/ Tick
    \/ \E source \in Sources : SendText(source)

Spec == Init /\ [][Next]_vars

(* Every wait of the bridge has a deadline: nothing is asked of the client *)
(* or of the provider.                                                     *)
FairSpec == Spec /\ WF_vars(Handler) /\ WF_vars(Attempt)
                 /\ WF_vars(AttemptTimesOut \/ SessionFails \/ Cancelled)

-----------------------------------------------------------------------------
(* Properties.                                                             *)

(* A text that is taken as complete because the fragments have been quiet  *)
(* for long enough has every word of the utterance, once, unless the       *)
(* provider closed before it had sent them.  It rests on two bounds of     *)
(* others, which _wait_for_user_transcript does not watch: the provider is *)
(* less behind (MaxLag) than the silence the utterance ends with (MinTail) *)
(* is long, and no stall of the client (MaxStall) reaches the quiet        *)
(* window.  Without the first the last word comes after the window that    *)
(* its silence filled; without the second a live feed is taken to have     *)
(* been played feed_started plus its duration later, which it has not if   *)
(* the track ran dry meanwhile.                                            *)
TextIsWhole ==
    stage = "closing" /\ outcome = "quiet" /\ provider # "gone" =>
        Assembled(read) = Words(said) /\ ~mic

(* Whatever the client and the provider do, the request is closed in the   *)
(* end, with no task of it running.                                        *)
RequestEnds == []<>(phase = "closed" /\ stage \in {"off", "ended"}
                    /\ capture # "on" /\ watch # "on")
=============================================================================
