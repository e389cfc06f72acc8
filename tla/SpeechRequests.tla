---------------------------- MODULE SpeechRequests ----------------------------
(***************************************************************************)
(* The requests that use the speech lane of bridge/service.py, with the    *)
(* App Server threads and the realtime transports they own: the attempts   *)
(* of a transcription, which may retain its session and offer it           *)
(* (_transcribe_admitted, _transcribe_stream_admitted); a synthesis, on a  *)
(* retained session or on one of its own (_synthesize_admitted); the       *)
(* startup of a realtime session, which its client may abandon             *)
(* (_serve_realtime_session); and the end of the bridge                    *)
(* (BridgeState._close).                                                   *)
(***************************************************************************)
EXTENDS SpeechLane

VARIABLES
    ask,        \* the thread/start a request waits for
    front,      \* the thread of the session a request owns
    exec,       \* the executor thread of a managed realtime session
    attempts,   \* attempts a transcription has begun
    next,       \* what follows the end of an attempt
    quit,       \* transcriptions given up: cancel, disconnect, total deadline
    startup,    \* the startup task of a realtime session
    managed,    \* bridge_managed_realtime
    abandoned,  \* startup_abandoned
    scrub,      \* provider cleanup tasks, by request and by who started them
    bridge      \* how far BridgeState._close is

ownVars == <<ask, front, exec>>
attemptVars == <<attempts, next, quit>>
talkVars == <<startup, managed, abandoned, scrub>>
requestVars == <<ownVars, attemptVars, talkVars, bridge>>
vars == <<laneVars, requestVars>>

Starters == {"handler", "startup"}
StartupPhases == {"off", "exec", "front", "link", "settle", "winding", "ready", "failed"}

(* A startup task that has not ended.                                      *)
Starting(r) == startup[r] \notin {"off", "ready", "failed"}

TypeOK ==
    /\ LaneTypeOK
    /\ pc \in [Requests -> LeasePhases \cup
                 {"reading", "starting", "linking", "using", "kept", "dropping",
                  "stopping", "deleting", "speaking", "closing", "startup",
                  "halting", "serving", "leaving"}]
    /\ ask \in [Requests -> Slot]
    /\ front \in [Requests -> Slot]
    /\ exec \in [Requests -> Slot]
    /\ attempts \in [Requests -> 0..MaxAttempts]
    /\ next \in [Requests -> {"answer", "retry", "cold", "fail"}]
    /\ quit \subseteq Transcribers
    /\ startup \in [Talkers -> StartupPhases]
    /\ managed \subseteq Talkers /\ abandoned \subseteq Talkers
    /\ scrub \in [Talkers -> [Starters -> SUBSET Threads]]
    /\ bridge \in {"up", "cleanups", "startups", "providers", "down"}

Init ==
    /\ LaneInit
    /\ ask = [r \in Requests |-> None]
    /\ front = [r \in Requests |-> None]
    /\ exec = [r \in Requests |-> None]
    /\ attempts = [r \in Requests |-> 0]
    /\ next = [r \in Requests |-> "fail"]
    /\ quit = {}
    /\ startup = [r \in Talkers |-> "off"]
    /\ managed = {} /\ abandoned = {}
    /\ scrub = [r \in Talkers |-> [who \in Starters |-> {}]]
    /\ bridge = "up"

-----------------------------------------------------------------------------
(* Arrival.                                                                *)

(* A transcription asks for the lane at once, before it reads anything.    *)
Call(r) ==
    /\ pc[r] = "idle" /\ bridge = "up" /\ r \in Transcribers
    /\ GoTo(r, "asking")
    /\ UNCHANGED <<leaseVars, offerVars, cleaning, noticeVars, resourceVars, requestVars>>

(* A synthesis and a realtime socket look whether it is owned before they  *)
(* read a body or a start message, without taking it:                      *)
(* require_speech_session_available.                                       *)
Look(r) ==
    /\ pc[r] = "idle" /\ bridge = "up" /\ r \notin Transcribers
    /\ GoTo(r, IF owner = NoOne THEN "reading" ELSE "done")
    /\ UNCHANGED <<leaseVars, offerVars, cleaning, noticeVars, resourceVars, requestVars>>

(* The body of a synthesis is there, or is no JSON object.                 *)
BodyRead(r) ==
    /\ pc[r] = "reading" /\ r \in Synthesizers
    /\ GoTo(r, "asking") \/ GoTo(r, "done")
    /\ UNCHANGED <<leaseVars, offerVars, cleaning, noticeVars, resourceVars, requestVars>>

(* The first message of a realtime socket is a valid start, or the socket  *)
(* is closed: another message, a protocol or tools that will not do, or    *)
(* none in time.                                                           *)
StartRead(r) ==
    /\ pc[r] = "reading" /\ r \in Talkers
    /\ GoTo(r, "asking") \/ GoTo(r, "done")
    /\ UNCHANGED <<leaseVars, offerVars, cleaning, noticeVars, resourceVars, requestVars>>

Lease(r) ==
    /\ \/ LaneBusy(r) \/ LaneQueue(r) \/ LaneRetry(r)
       \/ \E match \in BOOLEAN : Claim(r, match)
       \/ Recheck(r) \/ Sanitize(r) \/ Drained(r)
       \/ HandBack(r) \/ Release(r)
    /\ UNCHANGED requestVars

-----------------------------------------------------------------------------
(* A thread and a session of one's own.                                    *)

(* Threads are numbered in the order they are asked for; MaxThreads is how *)
(* many all the requests can ask for.                                      *)
IsNext(t) == thread[t] = "none" /\ \A u \in Threads : u < t => thread[u] # "none"

AskThread(r) == \E t \in Threads :
    /\ IsNext(t)
    /\ ask' = [ask EXCEPT ![r] = t]
    /\ thread' = [thread EXCEPT ![t] = "asked"]

(* The next attempt of a transcription, or a cold synthesis.               *)
Begin(r) ==
    /\ pc[r] = "granted" /\ held[r] = None
    /\ r \in Transcribers \cup Synthesizers
    /\ AskThread(r)
    /\ attempts' = [attempts EXCEPT ![r] = IF r \in Transcribers THEN @ + 1 ELSE @]
    /\ GoTo(r, "starting")
    /\ UNCHANGED <<leaseVars, offerVars, cleaning, noticeVars, link, again, front,
                   exec, next, quit, talkVars, bridge>>

(* What is wrong with the body of a transcription, or with the start       *)
(* message of a stream, shows only under the lease.                        *)
RefuseAudio(r) ==
    /\ pc[r] = "granted" /\ attempts[r] = 0 /\ r \in Transcribers
    /\ GoTo(r, "returning")
    /\ UNCHANGED <<leaseVars, offerVars, cleaning, noticeVars, resourceVars, requestVars>>

(* So does a text, a format or a sample rate that cannot be synthesized;   *)
(* a session the lease yielded goes back with it.                          *)
RefuseText(r) ==
    /\ pc[r] = "granted" /\ next[r] # "cold" /\ r \in Synthesizers
    /\ GoTo(r, "returning")
    /\ UNCHANGED <<leaseVars, offerVars, cleaning, noticeVars, resourceVars, requestVars>>

Started(r) ==
    LET t == ask[r] IN
    /\ pc[r] = "starting"
    /\ thread' = [thread EXCEPT ![t] = "live"]
    /\ link' = [link EXCEPT ![t] = "opening"]
    /\ ask' = [ask EXCEPT ![r] = None]
    /\ front' = [front EXCEPT ![r] = t]
    /\ GoTo(r, "linking")
    /\ UNCHANGED <<leaseVars, offerVars, cleaning, noticeVars, again, exec,
                   attemptVars, talkVars, bridge>>

(* A synthesis makes its session, and before that the transport of it,     *)
(* between the thread/start and the try that deletes the thread: when that *)
(* raises, nobody has the id of a live thread any more.  A transcription   *)
(* makes its session inside its try.                                       *)
NoSession(r) ==
    /\ pc[r] = "starting" /\ r \in Synthesizers
    /\ thread' = [thread EXCEPT ![ask[r]] = "stray"]
    /\ ask' = [ask EXCEPT ![r] = None]
    /\ GoTo(r, "returning")
    /\ UNCHANGED <<leaseVars, offerVars, cleaning, noticeVars, link, again, front,
                   exec, attemptVars, talkVars, bridge>>

(* No thread came back.  After an error there is none; after a timeout     *)
(* there may be one whose id nobody knows, and the start is not retried.   *)
StartFails(r) ==
    /\ pc[r] = "starting"
    /\ \E state \in {"deleted", "orphan"} : thread' = [thread EXCEPT ![ask[r]] = state]
    /\ ask' = [ask EXCEPT ![r] = None]
    /\ GoTo(r, "returning")
    /\ UNCHANGED <<leaseVars, offerVars, cleaning, noticeVars, link, again, front,
                   exec, attemptVars, talkVars, bridge>>

(* A thread came back without the restrictions asked for                   *)
(* (_validate_started_thread): start_thread deletes it and raises.         *)
StartRejected(r) ==
    /\ pc[r] = "starting"
    /\ Delete({ask[r]})
    /\ ask' = [ask EXCEPT ![r] = None]
    /\ front' = [front EXCEPT ![r] = ask[r]]
    /\ next' = [next EXCEPT ![r] = "fail"]
    /\ GoTo(r, "deleting")
    /\ UNCHANGED <<leaseVars, offerVars, cleaning, noticeVars, link, exec, attempts,
                   quit, talkVars, bridge>>

Linked(r) ==
    /\ pc[r] = "linking"
    /\ link' = [link EXCEPT ![front[r]] = "open"]
    /\ GoTo(r, "using")
    /\ UNCHANGED <<leaseVars, offerVars, cleaning, noticeVars, thread, again, requestVars>>

(* The finally of an attempt: session.stop, whatever ended it.             *)
Wind(r, then) ==
    /\ next' = [next EXCEPT ![r] = then]
    /\ link' = [link EXCEPT ![front[r]] = "closing"]
    /\ GoTo(r, "stopping")
    /\ UNCHANGED <<leaseVars, offerVars, cleaning, noticeVars, thread, again, ownVars,
                   attempts, quit, talkVars, bridge>>

(* The end of the use of a session: an answer; a timeout, after which a    *)
(* transcription may try again; or a failure.                              *)
UseEnds(r) ==
    /\ r \in Transcribers \cup Synthesizers
    /\ \/ /\ pc[r] = "using"
          /\ Wind(r, "answer")
       \/ /\ pc[r] \in {"linking", "using"}
          /\ Wind(r, "fail") \/ (r \in Transcribers /\ Wind(r, "retry"))

(* A transcript, and a session quiet enough to be retained: it and its     *)
(* thread pass from the attempt to its outcome.                            *)
Retain(r) ==
    /\ pc[r] = "using" /\ r \in Transcribers /\ HandoffEnabled
    /\ GoTo(r, "kept")
    /\ UNCHANGED <<leaseVars, offerVars, cleaning, noticeVars, resourceVars, requestVars>>

Stopped(r) ==
    /\ pc[r] = "stopping"
    /\ link' = [link EXCEPT ![front[r]] = "closed"]
    /\ Delete({front[r]})
    /\ GoTo(r, "deleting")
    /\ UNCHANGED <<leaseVars, offerVars, cleaning, noticeVars, requestVars>>

(* A variant that counts one attempt too many.                             *)
DisposedLate(r) ==
    /\ pc[r] = "deleting"
    /\ front' = [front EXCEPT ![r] = None]
    /\ GoTo(r, IF next[r] = "retry" /\ attempts[r] <= MaxAttempts THEN "granted"
               ELSE "returning")
    /\ UNCHANGED <<leaseVars, offerVars, cleaning, noticeVars, resourceVars, ask, exec,
                   attemptVars, talkVars, bridge>>

(* The answer to thread/delete, or the end of the wait for it.             *)
Disposed(r) ==
    /\ pc[r] = "deleting"
    /\ front' = [front EXCEPT ![r] = None]
    /\ GoTo(r, IF next[r] = "retry" /\ attempts[r] < MaxAttempts THEN "granted"
               ELSE "returning")
    /\ UNCHANGED <<leaseVars, offerVars, cleaning, noticeVars, resourceVars, ask, exec,
                   attemptVars, talkVars, bridge>>

(* A cancel or a disconnect of the stream, or the total deadline, ends the *)
(* transcription wherever it is, once; a cleanup it meets is cut short.    *)
GiveUp(r) ==
    LET t == front[r] IN
    /\ r \in Transcribers \ quit
    /\ quit' = quit \cup {r}
    /\ next' = [next EXCEPT ![r] = "fail"]
    /\ \/ /\ pc[r] = "granted"
          /\ GoTo(r, "returning")
          /\ UNCHANGED <<thread, link, again, ask, front, cleaning>>
       \/ /\ pc[r] = "starting"
          /\ thread' = [thread EXCEPT ![ask[r]] = "orphan"]
          /\ ask' = [ask EXCEPT ![r] = None]
          /\ GoTo(r, "returning")
          /\ UNCHANGED <<link, again, front, cleaning>>
       \/ /\ pc[r] \in {"linking", "using"}
          /\ link' = [link EXCEPT ![t] = "closing"]
          /\ GoTo(r, "stopping")
          /\ UNCHANGED <<thread, again, ask, front, cleaning>>
       \/ /\ pc[r] = "stopping"
          /\ link' = [link EXCEPT ![t] = "cut"]
          /\ Delete({t})
          /\ GoTo(r, "deleting")
          /\ UNCHANGED <<ask, front, cleaning>>
       \/ /\ pc[r] = "deleting"
          /\ front' = [front EXCEPT ![r] = None]
          /\ GoTo(r, "returning")
          /\ UNCHANGED <<thread, link, again, ask, cleaning>>
       \/ /\ pc[r] = "kept"
          /\ TrackCleanup(t)
          /\ GoTo(r, "dropping")
          /\ UNCHANGED <<thread, link, again, ask, front>>
    /\ UNCHANGED <<leaseVars, offerVars, noticeVars, exec, attempts, talkVars, bridge>>

Dropped(r) ==
    /\ pc[r] = "dropping" /\ front[r] \notin cleaning
    /\ front' = [front EXCEPT ![r] = None]
    /\ GoTo(r, "returning")
    /\ UNCHANGED <<leaseVars, offerVars, cleaning, noticeVars, resourceVars, ask, exec,
                   attemptVars, talkVars, bridge>>

(* A variant that keeps the thread it has offered.                         *)
PublishAndKeep(r) ==
    /\ pc[r] = "kept"
    /\ offer' = front[r]
    /\ dog' = [dog EXCEPT ![front[r]] = "watching"]
    /\ GoTo(r, "stopping")
    /\ UNCHANGED <<leaseVars, expired, cleaning, noticeVars, resourceVars, ownVars,
                   attemptVars, talkVars, bridge>>

(* offer_speech_session.  There is no other offer to replace: the lease    *)
(* took it (ThreadsAreOwned fails otherwise).                              *)
Publish(r) ==
    /\ pc[r] = "kept"
    /\ offer' = front[r]
    /\ dog' = [dog EXCEPT ![front[r]] = "watching"]
    /\ front' = [front EXCEPT ![r] = None]
    /\ GoTo(r, "returning")
    /\ UNCHANGED <<leaseVars, expired, cleaning, noticeVars, resourceVars, ask, exec,
                   attemptVars, talkVars, bridge>>

-----------------------------------------------------------------------------
(* Synthesis on a retained session.                                        *)

(* Fails before any audio: closed, then a session of its own.              *)
CloseHeld(r, then) ==
    /\ TrackCleanup(held[r])
    /\ next' = [next EXCEPT ![r] = then]
    /\ GoTo(r, "closing")

(* A last look at the boundary, and append_speech.                         *)
Speak(r) ==
    LET t == held[r] IN
    /\ pc[r] = "granted" /\ t # None
    /\ IF t \in unread
       THEN CloseHeld(r, "cold") /\ unread' = unread \ {t}
       ELSE GoTo(r, "speaking") /\ UNCHANGED <<next, cleaning, unread>>
    /\ UNCHANGED <<leaseVars, offerVars, invalid, stirred, resourceVars, ownVars,
                   attempts, quit, talkVars, bridge>>

(* The audio is collected; or the append, the look after it or the wait    *)
(* for audio fails, with audio out already ("fail") or without.            *)
Spoken(r) ==
    /\ pc[r] = "speaking"
    /\ \E then \in {"answer", "fail", "cold"} : CloseHeld(r, then)
    /\ UNCHANGED <<leaseVars, offerVars, noticeVars, resourceVars, ownVars, attempts,
                   quit, talkVars, bridge>>

HeldClosed(r) ==
    /\ pc[r] = "closing" /\ held[r] \notin cleaning
    /\ held' = [held EXCEPT ![r] = None]
    /\ GoTo(r, IF next[r] = "cold" THEN "granted" ELSE "returning")
    /\ UNCHANGED <<owner, parting, waitFor, offerVars, cleaning, noticeVars,
                   resourceVars, requestVars>>

-----------------------------------------------------------------------------
(* A realtime session: start_provider runs in a task of its own, and the   *)
(* handler waits for it or for the client, whichever comes first.          *)

StartTalk(r) ==
    /\ pc[r] = "granted" /\ r \in Talkers
    /\ \E two \in BOOLEAN :
          /\ managed' = IF two THEN managed \cup {r} ELSE managed
          /\ startup' = [startup EXCEPT ![r] = IF two THEN "exec" ELSE "front"]
    /\ AskThread(r)
    /\ GoTo(r, "startup")
    /\ UNCHANGED <<leaseVars, offerVars, cleaning, noticeVars, link, again, front,
                   exec, attemptVars, abandoned, scrub, bridge>>

(* start_provider_cleanup: what the request owns passes to a cleanup task  *)
(* in one step.                                                            *)
Owned(r) == {front[r], exec[r]} \ {None}
TakeOver(r, who, own) ==
    /\ scrub' = [scrub EXCEPT ![r][who] = @ \cup own]
    /\ front' = [front EXCEPT ![r] = None]
    /\ exec' = [exec EXCEPT ![r] = None]

(* The end of start_provider: close_provider when nobody wants it.         *)
EndStartup(r, result, own) ==
    IF r \in abandoned /\ own # {}
    THEN /\ TakeOver(r, "startup", own)
         /\ startup' = [startup EXCEPT ![r] = "winding"]
    ELSE /\ startup' = [startup EXCEPT ![r] = IF r \in abandoned THEN "failed" ELSE result]
         /\ UNCHANGED <<scrub, front, exec>>

ExecStarted(r) ==
    /\ startup[r] = "exec"
    /\ exec' = [exec EXCEPT ![r] = ask[r]]
    /\ \E u \in Threads :
          /\ IsNext(u)
          /\ thread' = [thread EXCEPT ![ask[r]] = "live", ![u] = "asked"]
          /\ ask' = [ask EXCEPT ![r] = u]
    /\ startup' = [startup EXCEPT ![r] = "front"]
    /\ UNCHANGED <<pc, leaseVars, offerVars, cleaning, noticeVars, link, again, front,
                   attemptVars, managed, abandoned, scrub, bridge>>

(* With its thread the session is made, unless the client has gone.        *)
FrontStarted(r) ==
    LET t == ask[r] IN
    /\ startup[r] = "front"
    /\ thread' = [thread EXCEPT ![t] = "live"]
    /\ ask' = [ask EXCEPT ![r] = None]
    /\ IF r \in abandoned
       THEN EndStartup(r, "failed", Owned(r) \cup {t}) /\ UNCHANGED link
       ELSE /\ front' = [front EXCEPT ![r] = t]
            /\ link' = [link EXCEPT ![t] = "opening"]
            /\ startup' = [startup EXCEPT ![r] = "link"]
            /\ UNCHANGED <<scrub, exec>>
    /\ UNCHANGED <<pc, leaseVars, offerVars, cleaning, noticeVars, again, attemptVars,
                   managed, abandoned, bridge>>

TalkLinked(r) ==
    /\ startup[r] = "link" /\ r \notin abandoned
    /\ link' = [link EXCEPT ![front[r]] = "open"]
    /\ startup' = [startup EXCEPT ![r] = IF r \in managed THEN "settle" ELSE "ready"]
    /\ UNCHANGED <<pc, leaseVars, offerVars, cleaning, noticeVars, thread, again,
                   ownVars, attemptVars, managed, abandoned, scrub, bridge>>

(* _settle_managed_realtime_startup.                                       *)
Settled(r) ==
    /\ startup[r] = "settle" /\ r \notin abandoned
    /\ startup' = [startup EXCEPT ![r] = "ready"]
    /\ UNCHANGED <<laneVars, ownVars, attemptVars, managed, abandoned, scrub, bridge>>

(* A thread/start, the handshake or the settling fails.                    *)
StartupFails(r) ==
    /\ startup[r] \in {"exec", "front", "link", "settle"}
    /\ EndStartup(r, "failed", Owned(r))
    /\ IF ask[r] = None THEN UNCHANGED <<thread, ask>>
       ELSE /\ \E state \in {"deleted", "orphan"} :
                  thread' = [thread EXCEPT ![ask[r]] = state]
            /\ ask' = [ask EXCEPT ![r] = None]
    /\ UNCHANGED <<pc, leaseVars, offerVars, cleaning, noticeVars, link, again,
                   attemptVars, managed, abandoned, bridge>>

WindingEnds(r) ==
    /\ startup[r] = "winding" /\ scrub[r]["startup"] = {}
    /\ startup' = [startup EXCEPT ![r] = "failed"]
    /\ UNCHANGED <<laneVars, ownVars, attemptVars, managed, abandoned, scrub, bridge>>

(* close_provider of the handler.                                          *)
LeaveTalk(r, own) == TakeOver(r, "handler", own) /\ GoTo(r, "leaving")

(* The client speaks too early or is gone.  A startup that still waits for *)
(* the id of its thread is left to itself, any other one is cancelled and  *)
(* waited for.  A cancellation of the handler takes the same way.          *)
Interrupt(r) ==
    /\ pc[r] = "startup"
    /\ abandoned' = abandoned \cup {r}
    /\ IF front[r] = None /\ Starting(r)
       THEN LeaveTalk(r, Owned(r))
       ELSE GoTo(r, "halting") /\ UNCHANGED <<scrub, front, exec>>
    /\ UNCHANGED <<leaseVars, offerVars, cleaning, noticeVars, resourceVars, ask,
                   attemptVars, startup, managed, bridge>>

(* The cancellation reaches the startup.                                   *)
HaltStartup(r) ==
    /\ pc[r] = "halting" /\ startup[r] \in {"link", "settle"}
    /\ EndStartup(r, "failed", Owned(r))
    /\ UNCHANGED <<laneVars, ask, attemptVars, managed, abandoned, bridge>>

Halted(r) ==
    /\ pc[r] = "halting" /\ ~Starting(r)
    /\ LeaveTalk(r, Owned(r))
    /\ UNCHANGED <<leaseVars, offerVars, cleaning, noticeVars, resourceVars, ask,
                   attemptVars, startup, managed, abandoned, bridge>>

StartupEnds(r) ==
    /\ pc[r] = "startup"
    /\ \/ /\ startup[r] = "ready"
          /\ GoTo(r, "serving") /\ UNCHANGED <<scrub, front, exec>>
       \/ /\ startup[r] = "failed"
          /\ LeaveTalk(r, Owned(r))
    /\ UNCHANGED <<leaseVars, offerVars, cleaning, noticeVars, resourceVars, ask,
                   attemptVars, startup, managed, abandoned, bridge>>

(* _run_realtime_socket returns or fails.                                  *)
TalkEnds(r) ==
    /\ pc[r] = "serving"
    /\ LeaveTalk(r, Owned(r))
    /\ UNCHANGED <<leaseVars, offerVars, cleaning, noticeVars, resourceVars, ask,
                   attemptVars, startup, managed, abandoned, bridge>>

(* cleanup_owned_provider: the transport, then both threads.               *)
Scrub(r, who) ==
    LET up == {t \in scrub[r][who] : link[t] \in {"opening", "open"}} IN
    /\ scrub[r][who] # {}
    /\ IF up # {}
       THEN /\ link' = [t \in Threads |-> IF t \in up THEN "closed" ELSE link[t]]
            /\ UNCHANGED <<scrub, thread, again>>
       ELSE /\ Delete(scrub[r][who])
            /\ scrub' = [scrub EXCEPT ![r][who] = {}]
            /\ UNCHANGED link
    /\ UNCHANGED <<pc, leaseVars, offerVars, cleaning, noticeVars, ownVars,
                   attemptVars, startup, managed, abandoned, bridge>>

Left(r) ==
    /\ pc[r] = "leaving" /\ scrub[r]["handler"] = {}
    /\ GoTo(r, "returning")
    /\ UNCHANGED <<leaseVars, offerVars, cleaning, noticeVars, resourceVars, requestVars>>

-----------------------------------------------------------------------------
(* BridgeState._close, once the requests have ended: the offer, then every *)
(* cleanup, then the startups left to themselves, then what they started,  *)
(* then the App Server.                                                    *)

Scrubbed(r) == \A who \in Starters : scrub[r][who] = {}

CloseBridge ==
    /\ bridge = "up" /\ \A r \in Requests : pc[r] \in {"idle", "done"}
    /\ IF offer = None THEN UNCHANGED <<offer, cleaning, dog>>
       ELSE offer' = None /\ TrackCleanup(offer) /\ CancelDog(offer)
    /\ bridge' = "cleanups"
    /\ UNCHANGED <<pc, leaseVars, expired, noticeVars, resourceVars, ownVars,
                   attemptVars, talkVars>>

(* A variant that does not wait for the startups.                          *)
CloseOnEarly ==
    /\ \/ bridge = "cleanups" /\ cleaning = {} /\ bridge' = "providers"
       \/ /\ bridge = "providers" /\ \A r \in Talkers : Scrubbed(r)
          /\ bridge' = "down"
    /\ UNCHANGED <<laneVars, ownVars, attemptVars, talkVars>>

CloseOn ==
    /\ \/ bridge = "cleanups" /\ cleaning = {} /\ bridge' = "startups"
       \/ /\ bridge = "startups" /\ \A r \in Talkers : ~Starting(r)
          /\ bridge' = "providers"
       \/ /\ bridge = "providers" /\ \A r \in Talkers : Scrubbed(r)
          /\ bridge' = "down"
    /\ UNCHANGED <<laneVars, ownVars, attemptVars, talkVars>>

-----------------------------------------------------------------------------
Retained(t) ==
    /\ \/ CloseRetained(t) \/ Expire(t) \/ DogFinds(t) \/ DogBites(t)
       \/ DogStops(t) \/ DogStopsLate(t)
    /\ UNCHANGED requestVars

Transcribe(r) ==
    \/ Begin(r) \/ Started(r) \/ StartFails(r) \/ StartRejected(r) \/ NoSession(r)
    \/ Linked(r) \/ UseEnds(r) \/ Stopped(r) \/ Disposed(r) \/ Dropped(r) \/ Publish(r)
Synthesize(r) == Speak(r) \/ Spoken(r) \/ HeldClosed(r)
Talk(r) ==
    \/ StartTalk(r) \/ ExecStarted(r) \/ FrontStarted(r) \/ TalkLinked(r)
    \/ Settled(r) \/ StartupFails(r) \/ WindingEnds(r) \/ HaltStartup(r)
    \/ Halted(r) \/ StartupEnds(r) \/ TalkEnds(r) \/ Left(r)

Next ==
    \/ \E r \in Requests :
          \/ Call(r) \/ Look(r) \/ BodyRead(r) \/ StartRead(r) \/ Lease(r)
          \/ LaneTimesOut(r) /\ UNCHANGED requestVars
          \/ RefuseAudio(r) \/ RefuseText(r) \/ Retain(r) \/ GiveUp(r)
          \/ Transcribe(r) \/ Synthesize(r)
    \/ \E r \in Talkers : Talk(r) \/ Interrupt(r)
    \/ \E r \in Talkers, who \in Starters : Scrub(r, who)
    \/ \E t \in Threads : Retained(t) \/ (Stir(t) /\ UNCHANGED requestVars)
    \/ ReleaseOffer /\ UNCHANGED requestVars
    \/ CloseBridge \/ CloseOn

Spec == Init /\ [][Next]_vars

(* What the tasks of the bridge do by themselves: each goes on when the    *)
(* task it waits for lets it, or when its deadline is over (the start      *)
(* message, the attempts of a transcription, the stop of a session and the *)
(* disposal of a thread, the settling of a startup, an offer).  Nobody has *)
(* to give up, to interrupt, to release an offer or to close the bridge.   *)
Fairness ==
    /\ \A r \in Requests : WF_vars(StartRead(r)) /\ WF_vars(Lease(r))
    /\ \A r \in Transcribers : WF_vars(attempts[r] > 0 /\ Transcribe(r))
    /\ \A r \in Synthesizers :
          WF_vars(Begin(r) \/ Speak(r) \/ HeldClosed(r) \/ Stopped(r) \/ Disposed(r))
    /\ \A r \in Talkers :
          WF_vars(StartTalk(r) \/ Settled(r) \/ WindingEnds(r) \/ HaltStartup(r)
                  \/ Halted(r) \/ StartupEnds(r) \/ Left(r))
    /\ \A r \in Talkers, who \in Starters : WF_vars(Scrub(r, who))
    /\ \A t \in Threads : WF_vars(Retained(t))
    /\ WF_vars(CloseOn)

(* An assumption: the App Server reads its input (ReadingSpec of           *)
(* AppServerRpc).  In these calls the write has no deadline, only the wait *)
(* for the answer has.                                                     *)
ReadingServer ==
    /\ \A r \in Synthesizers : WF_vars(Started(r) \/ StartFails(r) \/ StartRejected(r)
                                        \/ NoSession(r) \/ Linked(r))
    /\ \A r \in Talkers : WF_vars(ExecStarted(r) \/ FrontStarted(r) \/ TalkLinked(r)
                                   \/ StartupFails(r))

(* An assumption, for nothing limits these waits, and the lane is held in  *)
(* them: a client sends the whole body of its transcription, reads the     *)
(* audio of its synthesis (_collect_speech_audio awaits each write of the  *)
(* stream) or goes away, and leaves its realtime session in the end.       *)
ClientsGoOn ==
    /\ \A r \in Transcribers : WF_vars(Begin(r))
    /\ \A r \in Synthesizers : WF_vars(UseEnds(r) \/ Spoken(r))
    /\ \A r \in Talkers : WF_vars(TalkEnds(r))

FairSpec == Spec /\ Fairness /\ ReadingServer /\ ClientsGoOn

-----------------------------------------------------------------------------
(* Properties.                                                             *)

Up(t) == link[t] \in {"opening", "open", "closing"}

(* There is one realtime speech channel: never two transports that are     *)
(* being set up, in use or being closed, whatever hands them over (lease,  *)
(* offer, watchdog, cleanup task, a startup left to itself).               *)
LaneIsExclusive == \A t, u \in Threads : Up(t) /\ Up(u) => t = u

Keepers(t) ==
    Cardinality({r \in Requests : t \in Owned(r)})
    + Cardinality({b \in Talkers \X Starters : t \in scrub[b[1]][b[2]]})
    + (IF t = offer THEN 1 ELSE 0)
    + (IF \E r \in Requests : held[r] = t /\ pc[r] # "idle" THEN 1 ELSE 0)

(* A thread the bridge knows has an owner that will delete it, and one     *)
(* only; its deletion is asked for once; and no transport outlives it.     *)
(* The exception is the thread of a synthesis whose session could not be   *)
(* made (NoSession): nobody has it, and it never has a transport.          *)
ThreadsAreOwned ==
    /\ again = {}
    /\ \A t \in Threads :
          /\ thread[t] = "live" => Keepers(t) = 1 \/ (Keepers(t) = 0 /\ t \in cleaning)
          /\ Up(t) => thread[t] = "live"

(* The boundary of a handoff is quiet: no speech is appended to a session  *)
(* on which the assistant has been active since it was retained, whoever   *)
(* noticed it (watchdog, claim, sanitizing, the last look before the       *)
(* append).  The exception is a watchdog cancelled with its result in hand *)
(* (DogStopsLate).                                                         *)
QuietBoundary ==
    \A r \in Requests : pc[r] = "speaking" /\ dog[held[r]] # "late" =>
        held[r] \notin stirred

(* The bridge closes the App Server only after every thread it knows, and  *)
(* every one that a startup left to itself may still be given, was         *)
(* deleted.  The exception is a thread that NoSession left behind.         *)
ClosedAfterCleanups ==
    bridge = "down" =>
        \A t \in Threads : thread[t] \in {"none", "deleted", "orphan", "stray"}

(* Whoever owns the lane gives it back, and every thread that has an owner *)
(* is deleted, an offer nobody takes included: with all requests over, the *)
(* lane is at rest.  This needs ReadingServer and ClientsGoOn.             *)
LaneComesToRest ==
    []<>(owner = NoOne /\ \A t \in Threads : thread[t] # "live")
=============================================================================
