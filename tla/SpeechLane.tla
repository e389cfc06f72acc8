------------------------------ MODULE SpeechLane ------------------------------
(***************************************************************************)
(* The speech lane of bridge/service.py: the lease on the one realtime     *)
(* speech channel, the offer of a session that a transcription retained    *)
(* for the synthesis that follows it, the watchdog of that offer and the   *)
(* tasks that close retained sessions (BridgeState.speech_session_lease    *)
(* and its neighbours).  SpeechRequests adds the requests that use it.     *)
(*                                                                         *)
(* The sections under _speech_state_lock never await, so the lock is free  *)
(* whenever it is asked for and a section is one step with the code before *)
(* it, back to the last await.                                             *)
(***************************************************************************)
EXTENDS Integers, FiniteSets

CONSTANTS
    Transcribers,   \* POST /v1/transcribe and GET /v1/transcribe/stream
    Synthesizers,   \* POST /v1/synthesize and /v1/synthesize/stream
    Talkers,        \* GET /v1/realtime
    NoOne,          \* no request
    MaxAttempts,    \* TRANSCRIPTION_MAX_ATTEMPTS
    HandoffEnabled  \* SPEECH_SESSION_HANDOFF_ENABLED, and a v3 client that asks

Requests == Transcribers \cup Synthesizers \cup Talkers

ASSUME RequestsAssumption ==
    /\ IsFiniteSet(Requests) /\ NoOne \notin Requests
    /\ Transcribers \cap Synthesizers = {}
    /\ Transcribers \cap Talkers = {}
    /\ Synthesizers \cap Talkers = {}

ASSUME SettingsAssumption ==
    /\ MaxAttempts \in Nat \ {0}
    /\ HandoffEnabled \in BOOLEAN

(* App Server threads, in the order they are asked for: a transcription    *)
(* asks for one in each attempt, a synthesis for one, a managed realtime   *)
(* session for two.                                                        *)
MaxThreads == MaxAttempts * Cardinality(Transcribers)
              + Cardinality(Synthesizers) + 2 * Cardinality(Talkers)
Threads == 1..MaxThreads
None == 0
Slot == Threads \cup {None}

VARIABLES
    pc,        \* what a request awaits
    owner,     \* _speech_owner
    offer,     \* _speech_session_offer: the thread of the session offered
    held,      \* the retained session a lease yields
    parting,   \* the offer a lease has taken out
    waitFor,   \* the cleanups a lease waits for
    cleaning,  \* _speech_cleanup_tasks, by the thread of the session
    dog,       \* the watchdog of an offer
    expired,   \* sessions whose offer is past expires_at
    invalid,   \* sessions with _RetainedSpeechSession.invalidated
    unread,    \* sessions with assistant activity nobody has received
    stirred,   \* history: sessions with assistant activity while retained
    thread,    \* a thread: none, asked, live, deleted, orphan, or stray
    link,      \* the WebRTC transport of a thread's RealtimeSession
    again      \* history: threads whose deletion was asked for twice

offerVars == <<offer, dog, expired>>
noticeVars == <<invalid, unread, stirred>>
resourceVars == <<thread, link, again>>
leaseVars == <<owner, held, parting, waitFor>>
laneVars == <<pc, leaseVars, offerVars, cleaning, noticeVars, resourceVars>>

LeasePhases == {"idle", "asking", "queued", "calming", "sanitizing", "draining",
                "granted", "returning", "handingBack", "done"}

LaneTypeOK ==
    /\ owner \in Requests \cup {NoOne}
    /\ offer \in Slot
    /\ held \in [Requests -> Slot]
    /\ parting \in [Requests -> Slot]
    /\ waitFor \in [Requests -> SUBSET Threads]
    /\ cleaning \subseteq Threads
    /\ dog \in [Threads -> {"none", "watching", "leaving", "cancelled",
                            "cancelledLate", "done", "late"}]
    /\ expired \subseteq Threads /\ invalid \subseteq Threads
    /\ unread \subseteq Threads /\ stirred \subseteq Threads
    /\ thread \in [Threads -> {"none", "asked", "live", "deleted", "orphan", "stray"}]
    /\ link \in [Threads -> {"none", "opening", "open", "closing", "closed", "cut"}]
    /\ again \subseteq Threads

LaneInit ==
    /\ pc = [r \in Requests |-> "idle"]
    /\ owner = NoOne /\ offer = None
    /\ held = [r \in Requests |-> None]
    /\ parting = [r \in Requests |-> None]
    /\ waitFor = [r \in Requests |-> {}]
    /\ cleaning = {}
    /\ dog = [t \in Threads |-> "none"]
    /\ expired = {} /\ invalid = {} /\ unread = {} /\ stirred = {}
    /\ thread = [t \in Threads |-> "none"]
    /\ link = [t \in Threads |-> "none"]
    /\ again = {}

GoTo(r, phase) == pc' = [pc EXCEPT ![r] = phase]

(* _track_speech_cleanup: start_close runs the close of a session once.    *)
Closed(t) == link[t] \in {"closed", "cut"} /\ thread[t] = "deleted"
TrackCleanup(t) == cleaning' = IF Closed(t) THEN cleaning ELSE cleaning \cup {t}

(* _dispose_thread: the request to delete reaches the App Server even when *)
(* nobody waits for its answer any more.                                   *)
Delete(ts) ==
    /\ thread' = [t \in Threads |-> IF t \in ts THEN "deleted" ELSE thread[t]]
    /\ again' = again \cup {t \in ts : thread[t] = "deleted"}

-----------------------------------------------------------------------------
(* speech_session_lease.                                                   *)

(* Somebody else owns the lane: 409.                                       *)
LaneBusy(r) ==
    /\ pc[r] = "asking" /\ owner # NoOne
    /\ GoTo(r, "done")
    /\ UNCHANGED <<leaseVars, offerVars, cleaning, noticeVars, resourceVars>>

(* Sessions are still being closed: wait for those there are now.          *)
LaneQueue(r) ==
    /\ pc[r] = "asking" /\ owner = NoOne /\ cleaning # {}
    /\ waitFor' = [waitFor EXCEPT ![r] = cleaning]
    /\ GoTo(r, "queued")
    /\ UNCHANGED <<owner, held, parting, offerVars, cleaning, noticeVars, resourceVars>>

LaneRetry(r) ==
    /\ pc[r] = "queued" /\ waitFor[r] \cap cleaning = {}
    /\ waitFor' = [waitFor EXCEPT ![r] = {}]
    /\ GoTo(r, "asking")
    /\ UNCHANGED <<owner, held, parting, offerVars, cleaning, noticeVars, resourceVars>>

(* SPEECH_SESSION_CLEANUP_ADMISSION_TIMEOUT_SECONDS: 409.                  *)
LaneTimesOut(r) ==
    /\ pc[r] = "queued"
    /\ waitFor' = [waitFor EXCEPT ![r] = {}]
    /\ GoTo(r, "done")
    /\ UNCHANGED <<owner, held, parting, offerVars, cleaning, noticeVars, resourceVars>>

(* Cancelling the watchdog, which has an error in hand or has not.         *)
CancelDog(t) ==
    dog' = [dog EXCEPT ![t] = CASE @ = "watching" -> "cancelled"
                                [] @ = "leaving" -> "cancelledLate"
                                [] OTHER -> @]

(* A variant that does not wait for the sessions being closed.             *)
ClaimAtOnce(r, match) ==
    /\ pc[r] = "asking" /\ owner = NoOne
    /\ match => r \in Synthesizers /\ offer # None
    /\ owner' = r
    /\ offer' = None
    /\ parting' = [parting EXCEPT ![r] = offer]
    /\ IF offer = None
       THEN /\ GoTo(r, "granted")
            /\ UNCHANGED <<held, cleaning, dog>>
       ELSE /\ GoTo(r, "calming")
            /\ CancelDog(offer)
            /\ IF match /\ offer \notin expired \cup invalid
               THEN held' = [held EXCEPT ![r] = offer] /\ UNCHANGED cleaning
               ELSE TrackCleanup(offer) /\ UNCHANGED held
    /\ UNCHANGED <<waitFor, expired, noticeVars, resourceVars>>

(* The lane is free: the request owns it, and takes the offer out, to use  *)
(* it (match: its token, voice and language are the offer's and it has no  *)
(* instructions) or to have it closed; either way the watchdog goes first. *)
Claim(r, match) ==
    /\ pc[r] = "asking" /\ owner = NoOne /\ cleaning = {}
    /\ match => r \in Synthesizers /\ offer # None
    /\ owner' = r
    /\ offer' = None
    /\ parting' = [parting EXCEPT ![r] = offer]
    /\ IF offer = None
       THEN /\ GoTo(r, "granted")
            /\ UNCHANGED <<held, cleaning, dog>>
       ELSE /\ GoTo(r, "calming")
            /\ CancelDog(offer)
            /\ IF match /\ offer \notin expired \cup invalid
               THEN held' = [held EXCEPT ![r] = offer] /\ UNCHANGED cleaning
               ELSE TrackCleanup(offer) /\ UNCHANGED held
    /\ UNCHANGED <<waitFor, expired, noticeVars, resourceVars>>

(* The watchdog is gone: the offer may have expired or been invalidated    *)
(* meanwhile.                                                              *)
Recheck(r) ==
    LET t == parting[r] IN
    /\ pc[r] = "calming" /\ dog[t] \in {"done", "late"}
    /\ IF held[r] # None /\ t \notin expired \cup invalid
       THEN GoTo(r, "sanitizing") /\ UNCHANGED <<held, cleaning>>
       ELSE /\ held' = [held EXCEPT ![r] = None]
            /\ TrackCleanup(t)
            /\ GoTo(r, "draining")
    /\ UNCHANGED <<owner, parting, waitFor, offerVars, noticeVars, resourceVars>>

(* _sanitize_speech_handoff_session: what came since is in the queues of   *)
(* the session and shows at the last of its cycles at the latest.          *)
Sanitize(r) ==
    LET t == held[r] IN
    /\ pc[r] = "sanitizing"
    /\ IF t \in unread
       THEN /\ invalid' = invalid \cup {t}
            /\ unread' = unread \ {t}
            /\ held' = [held EXCEPT ![r] = None]
            /\ TrackCleanup(t)
            /\ GoTo(r, "draining")
       ELSE GoTo(r, "granted") /\ UNCHANGED <<invalid, unread, held, cleaning>>
    /\ UNCHANGED <<owner, parting, waitFor, offerVars, stirred, resourceVars>>

Drained(r) ==
    /\ pc[r] = "draining" /\ parting[r] \notin cleaning
    /\ parting' = [parting EXCEPT ![r] = None]
    /\ GoTo(r, "granted")
    /\ UNCHANGED <<owner, held, waitFor, offerVars, cleaning, noticeVars, resourceVars>>

(* The end of the lease: a session it still holds is closed, then the lane *)
(* is free.                                                                *)
HandBack(r) ==
    /\ pc[r] = "returning"
    /\ IF held[r] # None THEN TrackCleanup(held[r]) ELSE UNCHANGED cleaning
    /\ GoTo(r, "handingBack")
    /\ UNCHANGED <<leaseVars, offerVars, noticeVars, resourceVars>>

Release(r) ==
    /\ pc[r] = "handingBack" /\ held[r] \notin cleaning
    /\ owner' = IF owner = r THEN NoOne ELSE owner
    /\ held' = [held EXCEPT ![r] = None]
    /\ GoTo(r, "done")
    /\ UNCHANGED <<parting, waitFor, offerVars, cleaning, noticeVars, resourceVars>>

-----------------------------------------------------------------------------
(* The offer and its watchdog.                                             *)

(* _RetainedSpeechSession._close: the session is stopped, then its thread  *)
(* deleted; the done callback takes the task out of the set.               *)
CloseRetained(t) ==
    /\ t \in cleaning
    /\ IF link[t] = "open"
       THEN link' = [link EXCEPT ![t] = "closed"] /\ UNCHANGED <<cleaning, thread, again>>
       ELSE Delete({t}) /\ cleaning' = cleaning \ {t} /\ UNCHANGED link
    /\ UNCHANGED <<pc, leaseVars, offerVars, noticeVars>>

Expire(t) ==
    /\ offer = t /\ t \notin expired
    /\ expired' = expired \cup {t}
    /\ UNCHANGED <<pc, leaseVars, offer, dog, cleaning, noticeVars, resourceVars>>

(* _wait_for_speech_handoff_invalidation: the watchdog has received        *)
(* something, or its time is up, and retires its other receivers, which is *)
(* an await: only then does it say what it found.                          *)
DogFinds(t) ==
    /\ dog[t] = "watching" /\ t \in unread \cup expired
    /\ unread' = unread \ {t}
    /\ dog' = [dog EXCEPT ![t] = "leaving"]
    /\ UNCHANGED <<pc, leaseVars, offer, expired, cleaning, invalid, stirred, resourceVars>>

(* A variant that withdraws the offer and closes nothing.                  *)
DogOnlyBarks(t) ==
    /\ dog[t] = "leaving"
    /\ dog' = [dog EXCEPT ![t] = "done"]
    /\ invalid' = invalid \cup {t}
    /\ offer' = IF offer = t THEN None ELSE offer
    /\ UNCHANGED <<pc, leaseVars, cleaning, expired, unread, stirred, resourceVars>>

(* _watch_speech_session_offer, _invalidate_speech_session_offer: closed   *)
(* unless somebody else has taken it.                                      *)
DogBites(t) ==
    /\ dog[t] = "leaving"
    /\ dog' = [dog EXCEPT ![t] = "done"]
    /\ invalid' = invalid \cup {t}
    /\ IF offer = t
       THEN offer' = None /\ TrackCleanup(t)
       ELSE UNCHANGED <<offer, cleaning>>
    /\ UNCHANGED <<pc, leaseVars, expired, unread, stirred, resourceVars>>

(* A variant in which what the watchdog has received is lost with it.      *)
DogForgets(t) ==
    /\ dog[t] = "cancelled"
    /\ dog' = [dog EXCEPT ![t] = "done"]
    /\ unread' \in {unread, unread \ {t}}
    /\ UNCHANGED <<pc, leaseVars, offer, expired, cleaning, invalid, stirred,
                   resourceVars>>

(* Cancelled while it waited: what a receiver has already taken out of its *)
(* queue still invalidates the session, what is queued stays there.        *)
DogStops(t) ==
    /\ dog[t] = "cancelled"
    /\ dog' = [dog EXCEPT ![t] = "done"]
    /\ \/ UNCHANGED <<unread, invalid>>
       \/ /\ t \in unread
          /\ unread' = unread \ {t}
          /\ invalid' = invalid \cup {t}
    /\ UNCHANGED <<pc, leaseVars, offer, expired, cleaning, stirred, resourceVars>>

(* Cancelled in the finally of the wait: the cancellation takes the place  *)
(* of the error it was about to raise.                                     *)
DogStopsLate(t) ==
    /\ dog[t] = "cancelledLate"
    /\ dog' = [dog EXCEPT ![t] = "late"]
    /\ UNCHANGED <<pc, leaseVars, offer, expired, cleaning, noticeVars, resourceVars>>

(* release_speech_session_offer: a token that matches, or any after expiry.*)
(* Waiting for the cleanup changes nothing.                                *)
ReleaseOffer ==
    /\ offer # None
    /\ offer' = None
    /\ TrackCleanup(offer)
    /\ CancelDog(offer)
    /\ UNCHANGED <<pc, leaseVars, expired, noticeVars, resourceVars>>

(* The provider speaks, or says it will, on a session that is only kept.   *)
Stir(t) ==
    /\ t = offer \/ \E r \in Requests :
           held[r] = t /\ pc[r] \in {"calming", "sanitizing", "granted"}
    /\ link[t] = "open" /\ t \notin stirred
    /\ unread' = unread \cup {t}
    /\ stirred' = stirred \cup {t}
    /\ UNCHANGED <<pc, leaseVars, offerVars, cleaning, invalid, resourceVars>>
=============================================================================
