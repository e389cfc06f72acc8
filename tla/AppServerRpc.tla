----------------------------- MODULE AppServerRpc -----------------------------
(***************************************************************************)
(* The bridge's JSON-RPC client of the Codex App Server                    *)
(* (bridge/app_server.py): its own calls, the requests the App Server      *)
(* sends it, the fallback timer that answers a tool request nobody         *)
(* answered, and the one write lock on the App Server's stdin they share.  *)
(*                                                                         *)
(* The App Server never uses a request id twice, and the bridge starts one *)
(* process.  A writer is a task that writes one message: a call, or, for a *)
(* request, the session that ran the tool, the timer, or the stdout        *)
(* reader, which answers what no session may answer.                       *)
(***************************************************************************)
EXTENDS Integers, FiniteSets, SequencesExt, Queues

CONSTANTS
    Calls,       \* client request ids: itertools.count
    Reqs,        \* ids of the App Server's requests
    MaxRetired   \* MAX_RETIRED_SERVER_RESPONSE_IDS

ASSUME RetiredAssumption == MaxRetired \in Nat

Responders == [role : {"session", "timer", "reader"}, req : Reqs]
Callers == [role : {"caller"}, req : Calls]
Writers == Responders \cup Callers

VARIABLES
    process,     \* the App Server: running, dying (stdout ended) or exited;
                 \* before it is spawned, as if exited
    start,       \* how far start() is
    closing,     \* how far close() is, or the _stop_process of a failed start()
    pc,          \* what a writer awaits
    state,       \* open: in _server_response_states; retired: in
                 \* _retired_server_response_ids; forgotten: in neither
    retired,     \* _retired_server_response_ids, oldest first
    stateLock,   \* lock of a _ServerResponseState: holder, then waiters
    writeLock,   \* _write_lock: holder, then waiters
    stateless,   \* responders that write with no _ServerResponseState
    future,      \* _pending: whether a call's future is set
    stdin,       \* history: the writers whose message is in the pipe
    committed    \* history: the responders whose write completed

vars == <<process, start, closing, pc, state, retired, stateLock, writeLock, stateless, future,
          stdin, committed>>

Writer(role, q) == [role |-> role, req |-> q]

Timer(q) == Writer("timer", q)

Writing == {"queued", "draining"}

TypeOK ==
    /\ process \in {"running", "dying", "exited"}
    /\ start \in {"no", "calling", "done", "failing", "failed"}
    /\ closing \in {"no", "flushing", "stopping", "closed"}
    /\ pc \in [Writers -> {"idle", "sleeping", "locking", "queued", "draining",
                           "waiting", "over"}]
    /\ state \in [Reqs -> {"unseen", "open", "retired", "forgotten"}]
    /\ retired \in Seq(Reqs) /\ Len(retired) <= MaxRetired
    /\ stateLock \in [Reqs -> Seq(Responders)]
    /\ writeLock \in Seq(Writers)
    /\ stateless \subseteq Responders
    /\ future \in [Calls -> {"absent", "unset", "result", "exited"}]
    /\ stdin \subseteq Writers
    /\ committed \in [Reqs -> SUBSET Responders]

Init ==
    /\ process = "exited" /\ start = "no" /\ closing = "no"
    /\ pc = [w \in Writers |-> "idle"]
    /\ state = [q \in Reqs |-> "unseen"]
    /\ retired = <<>>
    /\ stateLock = [q \in Reqs |-> <<>>]
    /\ writeLock = <<>>
    /\ stateless = {}
    /\ future = [c \in Calls |-> "absent"]
    /\ stdin = {}
    /\ committed = [q \in Reqs |-> {}]

-----------------------------------------------------------------------------
(* _write: an exited process raises at once.  Otherwise the lock is        *)
(* awaited; its holder writes and awaits the drain.  A pipe that is being  *)
(* closed or is broken takes no more bytes.                                *)

TakesBytes == process # "exited" /\ closing = "no"
Piped(w) == IF TakesBytes THEN stdin \cup {w} ELSE stdin

Without(queue, w) == Dropping(queue, {w})

StartsWrite(w) ==
    /\ process # "exited"
    /\ writeLock' = Append(writeLock, w)
    /\ IF writeLock = <<>>
       THEN pc' = [pc EXCEPT ![w] = "draining"] /\ stdin' = Piped(w)
       ELSE pc' = [pc EXCEPT ![w] = "queued"] /\ UNCHANGED stdin

(* The lock came: an exited process takes no more bytes, its drain raises. *)
GetsWriteLock(w) ==
    /\ pc[w] = "queued"
    /\ Head(writeLock) = w
    /\ pc' = [pc EXCEPT ![w] = "draining"]
    /\ stdin' = Piped(w)
    /\ UNCHANGED <<process, start, closing, state, retired, stateLock, writeLock, stateless, future,
                   committed>>

KeepsTheLock(w) == writeLock' = IF pc[w] = "draining" THEN writeLock
                                ELSE Without(writeLock, w)

(* Returning, raising or being cancelled, a writer leaves the lock.        *)
LeavesWrite(w) == writeLock' = Without(writeLock, w)

(* The drain ends once the App Server has read enough of the pipe.         *)
Drained(w) == pc[w] = "draining" /\ process # "exited"

(* A pipe broken or closed makes the drain raise.                          *)
PipeBroke(w) == pc[w] = "draining" /\ (process # "running" \/ closing = "stopping")

-----------------------------------------------------------------------------
(* call().                                                                 *)

Caller(c) == Writer("caller", c)

(* The stdout reader writes the answers nobody else may give, and reads    *)
(* nothing while it does.                                                  *)
ReaderBusy == \E q \in Reqs : pc[Writer("reader", q)] \in {"locking"} \cup Writing

(* The future is registered before the write.                              *)
CallBegins(c) ==
    /\ start = "done" /\ pc[Caller(c)] = "idle"
    /\ future' = [future EXCEPT ![c] = "unset"]
    /\ StartsWrite(Caller(c))
    /\ UNCHANGED <<process, start, closing, state, retired, stateLock, stateless, committed>>

(* Only now does the call's timeout begin to run.                          *)
CallWritten(c) ==
    /\ Drained(Caller(c))
    /\ pc' = [pc EXCEPT ![Caller(c)] = "waiting"]
    /\ LeavesWrite(Caller(c))
    /\ UNCHANGED <<process, start, closing, state, retired, stateLock, stateless, future, stdin,
                   committed>>

(* _route_message of a response: a late one finds no future.               *)
Reply(c) ==
    /\ process = "running" /\ ~ReaderBusy
    /\ Caller(c) \in stdin
    /\ future[c] = "unset"
    /\ future' = [future EXCEPT ![c] = "result"]
    /\ UNCHANGED <<process, start, closing, pc, state, retired, stateLock, writeLock, stateless, stdin,
                   committed>>

EndsCall(c) ==
    /\ pc' = [pc EXCEPT ![Caller(c)] = "over"]
    /\ future' = [future EXCEPT ![c] = "absent"]
    /\ LeavesWrite(Caller(c))
    /\ UNCHANGED <<process, start, closing, state, retired, stateLock, stateless, stdin, committed>>

CallReturns(c) ==
    /\ pc[Caller(c)] = "waiting"
    /\ future[c] # "unset"
    /\ EndsCall(c)

CallTimesOut(c) ==
    /\ pc[Caller(c)] = "waiting"
    /\ future[c] = "unset"
    /\ EndsCall(c)

CallFails(c) ==
    /\ PipeBroke(Caller(c))
    /\ EndsCall(c)

(* A caller that has a deadline of its own ends the call at any await.     *)
CallCancelled(c) ==
    /\ pc[Caller(c)] \in {"waiting"} \cup Writing
    /\ EndsCall(c)

-----------------------------------------------------------------------------
(* The App Server's requests.                                              *)

WithTimer(q) == [pc EXCEPT ![Timer(q)] = "sleeping"]

(* item/tool/call that some subscriber takes: the session that owns it may *)
(* answer, and the fallback timer starts.                                  *)
ToolRequested(q) ==
    /\ start = "done" /\ process = "running" /\ ~ReaderBusy
    /\ state[q] = "unseen"
    /\ state' = [state EXCEPT ![q] = "open"]
    /\ pc' = WithTimer(q)
    /\ UNCHANGED <<process, start, closing, retired, stateLock, writeLock, stateless, future, stdin,
                   committed>>

(* No subscriber takes it: the reader answers, through the state's lock.   *)
ToolUndeliverable(q) ==
    /\ process = "running" /\ ~ReaderBusy
    /\ state[q] = "unseen"
    /\ state' = [state EXCEPT ![q] = "open"]
    /\ pc' = [pc EXCEPT ![Writer("reader", q)] = "locking",
                        ![Writer("session", q)] = "over"]
    /\ stateLock' = [stateLock EXCEPT ![q] = <<Writer("reader", q)>>]
    /\ UNCHANGED <<process, start, closing, retired, writeLock, stateless, future, stdin, committed>>

(* An approval or another closed method: the reader declines it, and no    *)
(* state is kept.                                                          *)
RequestDeclined(q) ==
    LET w == Writer("reader", q) IN
    /\ process = "running" /\ ~ReaderBusy
    /\ state[q] = "unseen"
    /\ state' = [state EXCEPT ![q] = "forgotten"]
    /\ stateless' = stateless \cup {w}
    /\ StartsWrite(w)
    /\ UNCHANGED <<process, start, closing, retired, stateLock, future, committed>>

(* _respond by id: an open state's lock comes first, a retired id has been *)
(* answered, an id in neither table is written without more ado.           *)
SessionResponds(q) ==
    LET w == Writer("session", q) IN
    /\ pc[w] = "idle"
    /\ pc[Timer(q)] # "idle"
    /\ \/ /\ state[q] = "open"
          /\ pc' = [pc EXCEPT ![w] = "locking"]
          /\ stateLock' = [stateLock EXCEPT ![q] = Append(@, w)]
          /\ UNCHANGED <<writeLock, stateless, stdin>>
       \/ /\ state[q] = "retired"
          /\ pc' = [pc EXCEPT ![w] = "over"]
          /\ UNCHANGED <<stateLock, writeLock, stateless, stdin>>
       \/ /\ state[q] = "forgotten"
          /\ stateless' = stateless \cup {w}
          /\ StartsWrite(w)
          /\ UNCHANGED stateLock
    /\ UNCHANGED <<process, start, closing, state, retired, future, committed>>

(* _expire_server_request: the timer has slept for tool_timeout.           *)
TimerFires(q) ==
    /\ pc[Timer(q)] = "sleeping"
    /\ pc' = [pc EXCEPT ![Timer(q)] = "locking"]
    /\ stateLock' = [stateLock EXCEPT ![q] = Append(@, Timer(q))]
    /\ UNCHANGED <<process, start, closing, state, retired, writeLock, stateless, future, stdin,
                   committed>>

StillOpenAlways(q) == TRUE

StillOpen(q) == state[q] = "open"

HoldsState(w) == pc[w] = "locking" /\ Head(stateLock[w.req]) = w

(* With the state's lock an unanswered request is written to.              *)
EntersState(w) ==
    /\ HoldsState(w)
    /\ StillOpen(w.req)
    /\ StartsWrite(w)
    /\ UNCHANGED <<process, start, closing, state, retired, stateLock, stateless, future, committed>>

(* One that was answered meanwhile is left alone; an exited process raises.*)
TurnsBack(w) ==
    /\ HoldsState(w)
    /\ ~StillOpen(w.req) \/ process = "exited"
    /\ pc' = [pc EXCEPT ![w] = "over"]
    /\ stateLock' = [stateLock EXCEPT ![w.req] = Tail(@)]
    /\ UNCHANGED <<process, start, closing, state, retired, writeLock, stateless, future, stdin,
                   committed>>

RetireUnbounded(q) ==
    /\ retired' = Append(retired, q)
    /\ state' = [state EXCEPT ![q] = "retired"]

(* _retire_server_response_id: the oldest id is forgotten over the limit.  *)
Retire(q) ==
    LET ids == Append(retired, q)
        kept == IF Len(ids) > MaxRetired THEN Tail(ids) ELSE ids
    IN  /\ retired' = kept
        /\ state' = [p \in Reqs |-> IF p \in ToSet(ids) \ ToSet(kept) THEN "forgotten"
                                    ELSE IF p = q THEN "retired" ELSE state[p]]

(* The drain ended: the answer is committed, the id retired and the timer, *)
(* wherever it waits, cancelled.                                           *)
Commits(w) ==
    LET q == w.req IN
    /\ Drained(w) /\ w \notin stateless
    /\ LeavesWrite(w)
    /\ Retire(q)
    /\ committed' = [committed EXCEPT ![q] = @ \cup {w}]
    /\ stateLock' = [stateLock EXCEPT ![q] = Without(Tail(@), Timer(q))]
    /\ pc' = IF pc[Timer(q)] = "idle" THEN [pc EXCEPT ![w] = "over"]
             ELSE [pc EXCEPT ![w] = "over", ![Timer(q)] = "over"]
    /\ UNCHANGED <<process, start, closing, stateless, future, stdin>>

(* The same without a state to commit.                                     *)
StatelessWritten(w) ==
    /\ Drained(w) /\ w \in stateless
    /\ pc' = [pc EXCEPT ![w] = "over"]
    /\ LeavesWrite(w)
    /\ UNCHANGED <<process, start, closing, state, retired, stateLock, stateless, future, stdin,
                   committed>>

StopsTheTimerToo(w) == [pc EXCEPT ![w] = "over", ![Timer(w.req)] = "over"]

StopsOnly(w) == [pc EXCEPT ![w] = "over"]

(* A responder's write raised, or its session's own deadline or end        *)
(* cancelled it.  Its bytes may be in the pipe; the state stays open and   *)
(* the timer stays responsible.                                            *)
GivesUp(w) ==
    /\ \/ PipeBroke(w)
       \/ w.role = "session" /\ pc[w] \in {"locking"} \cup Writing
    /\ pc' = StopsOnly(w)
    /\ LeavesWrite(w)
    /\ stateLock' = [stateLock EXCEPT ![w.req] = Without(@, w)]
    /\ UNCHANGED <<process, start, closing, state, retired, stateless, future, stdin, committed>>

-----------------------------------------------------------------------------
(* start(), which the bridge awaits before it serves anybody: what its own *)
(* calls come to is any outcome.                                           *)

Spawns ==
    /\ start = "no"
    /\ start' = "calling" /\ process' = "running"
    /\ UNCHANGED <<closing, pc, state, retired, stateLock, writeLock, stateless, future,
                   stdin, committed>>

Initialized ==
    /\ start = "calling" /\ process # "exited"
    /\ start' = "done"
    /\ UNCHANGED <<process, closing, pc, state, retired, stateLock, writeLock, stateless,
                   future, stdin, committed>>

(* An error, a timeout, or a configuration that injects an MCP server.     *)
StartFails ==
    /\ start = "calling"
    /\ start' = "failing" /\ closing' = "flushing"
    /\ UNCHANGED <<process, pc, state, retired, stateLock, writeLock, stateless, future,
                   stdin, committed>>

StartRaises ==
    /\ start = "failing" /\ closing = "stopping" /\ process = "exited"
    /\ start' = "failed" /\ closing' = "no"
    /\ UNCHANGED <<process, pc, state, retired, stateLock, writeLock, stateless, future,
                   stdin, committed>>

-----------------------------------------------------------------------------
(* The App Server's end.                                                   *)

(* Its stdout ends, or the reader fails on a line of it.                   *)
StdoutEnds ==
    /\ process = "running"
    /\ process' = "dying"
    /\ UNCHANGED <<start, closing, pc, state, retired, stateLock, writeLock, stateless, future,
                   stdin, committed>>

FailsPending == [c \in Calls |-> IF future[c] = "unset" THEN "exited" ELSE future[c]]

(* _read_stdout's finally: the process was waited for, every pending call  *)
(* fails.                                                                  *)
Exits ==
    /\ process = "dying" /\ ~ReaderBusy
    /\ process' = "exited"
    /\ future' = FailsPending
    /\ UNCHANGED <<start, closing, pc, state, retired, stateLock, writeLock, stateless, stdin,
                   committed>>

(* close(), after start(), whose lock it shares: stdin is closed, which    *)
(* lasts until what is in its buffer has been read or cannot be any more.  *)
(* Without a process there is nothing to stop.                             *)
CloseBegins ==
    /\ start \in {"done", "failed"} /\ closing = "no"
    /\ closing' = IF start = "failed" THEN "stopping" ELSE "flushing"
    /\ UNCHANGED <<process, start, pc, state, retired, stateLock, writeLock, stateless, future,
                   stdin, committed>>

StdinClosed ==
    /\ closing = "flushing"
    /\ closing' = "stopping"
    /\ UNCHANGED <<process, start, pc, state, retired, stateLock, writeLock, stateless, future,
                   stdin, committed>>

(* _stop_process: an App Server that still runs is terminated, or killed.  *)
Terminate == closing = "stopping" /\ StdoutEnds

(* It was waited for, as was the reader: every timer is cancelled wherever *)
(* it waits, and the tables are cleared.                                   *)
CloseEnds ==
    LET timers == {Timer(q) : q \in Reqs} IN
    /\ start # "failing" /\ closing = "stopping" /\ process = "exited"
    /\ closing' = "closed"
    /\ future' = FailsPending
    /\ pc' = [w \in Writers |-> IF w \in timers /\ pc[w] # "idle" THEN "over" ELSE pc[w]]
    /\ writeLock' = Dropping(writeLock, timers)
    /\ stateLock' = [q \in Reqs |-> Without(stateLock[q], Timer(q))]
    /\ state' = [q \in Reqs |-> IF state[q] = "unseen" THEN "unseen" ELSE "forgotten"]
    /\ retired' = <<>>
    /\ UNCHANGED <<process, start, stateless, stdin, committed>>

-----------------------------------------------------------------------------
Ready(w) == GetsWriteLock(w) \/ (w \in Responders /\ (EntersState(w) \/ TurnsBack(w)))

Reads(w) == \/ \E c \in Calls : w = Caller(c) /\ CallWritten(c)
            \/ w \in Responders /\ (Commits(w) \/ StatelessWritten(w))

Next ==
    \/ \E c \in Calls :
          \/ CallBegins(c) \/ CallWritten(c) \/ Reply(c) \/ CallReturns(c)
          \/ CallTimesOut(c) \/ CallFails(c) \/ CallCancelled(c)
    \/ \E q \in Reqs :
          \/ ToolRequested(q) \/ ToolUndeliverable(q) \/ RequestDeclined(q)
          \/ SessionResponds(q) \/ TimerFires(q)
    \/ \E w \in Writers : GetsWriteLock(w)
    \/ \E w \in Responders :
          \/ EntersState(w) \/ TurnsBack(w) \/ Commits(w) \/ StatelessWritten(w)
          \/ GivesUp(w)
    \/ Spawns \/ Initialized \/ StartFails \/ StartRaises
    \/ StdoutEnds \/ Exits
    \/ CloseBegins \/ StdinClosed \/ CloseEnds

Spec == Init /\ [][Next]_vars

(* The bridge's own tasks and timers run, a broken pipe is noticed and a   *)
(* process that closed its stdout ends.                                    *)
Fairness ==
    /\ \A w \in Writers : WF_vars(Ready(w))
    /\ \A c \in Calls : WF_vars(CallReturns(c) \/ CallTimesOut(c) \/ CallFails(c))
    /\ \A q \in Reqs : WF_vars(TimerFires(q))
    /\ \A w \in Responders : WF_vars(PipeBroke(w) /\ GivesUp(w))
    /\ WF_vars(StartFails \/ Initialized) /\ WF_vars(StartRaises)
    /\ WF_vars(Exits) /\ WF_vars(Terminate) /\ WF_vars(CloseEnds)
    /\ WF_vars(process # "running" /\ StdinClosed)

FairSpec == Spec /\ Fairness

(* In addition the App Server goes on reading its stdin.                   *)
ReadingSpec ==
    FairSpec /\ WF_vars(StdinClosed) /\ \A w \in Writers : WF_vars(Reads(w))

-----------------------------------------------------------------------------
(* PROPERTIES *)

(* A write whose drain was interrupted may be followed by another answer   *)
(* to the same request, but once one write completed no more bytes for     *)
(* that request enter the pipe, whoever else was waiting to write: the     *)
(* session and the fallback timer race for it.  Only an id that fell out   *)
(* of the bounded table can be answered again (_respond 287-317).          *)
AnswerIsLast ==
    [][\A w \in Responders :
          w \in stdin' \ stdin /\ committed[w.req] # {} => state[w.req] = "forgotten"]_vars

(* Every tool request is answered, unless the App Server ends, provided    *)
(* the App Server reads its stdin (_expire_server_request 456-486); every  *)
(* call ends: with its response, at its timeout, or, when the App Server   *)
(* exits, with an error (call 215-240, _fail_pending 498-501); and so does *)
(* the _stop_process of close() and of a start() that failed, which waits  *)
(* for the App Server without a deadline (503-512).                        *)
AllSettles ==
    /\ \A q \in Reqs : []<>(state[q] # "open" \/ process # "running")
    /\ \A c \in Calls : []<>(pc[Caller(c)] \in {"idle", "over"})
    /\ []<>(closing \in {"no", "closed"})
=============================================================================
