------------------------------ MODULE ToolBroker ------------------------------
(***************************************************************************)
(* The bridge's tool broker (bridge/tool_broker.py), the socket handler    *)
(* that drives it (bridge/service.py, _home_assistant_tools) and the Home  *)
(* Assistant end of the socket (custom_components/codex_voice/             *)
(* realtime_tools.py).  A realtime session asks the broker to run one Home *)
(* Assistant tool; the broker correlates the answer, gives up at its       *)
(* deadline, and remembers what it gave up on so that a late answer does   *)
(* not cost the authority its connection.                                  *)
(*                                                                         *)
(* A socket registers at most once, and every registration draws a fresh   *)
(* generation, so a generation is named by its socket; _websocket and      *)
(* _snapshot are set and cleared together and are one variable.            *)
(***************************************************************************)
EXTENDS Integers, SequencesExt

CONSTANTS
    Sockets,       \* authority connections, each opened at most once
    Calls,         \* call ids: secrets.token_urlsafe, never drawn twice
    None,          \* no authority is registered
    MaxPending,    \* MAX_PENDING_TOOL_CALLS
    MaxRetired,    \* MAX_RETIRED_TOOL_CALLS
    HaMaxPending,  \* _MAX_PENDING_TOOL_CALLS of the component
    HaMaxCalls,    \* _MAX_CALLS_PER_GENERATION of the component
    MaxPings       \* bound of the model: pings an authority sends

ASSUME SocketsAssumption ==
    /\ Sockets \cap Calls = {}
    /\ None \notin Sockets
    /\ IsFiniteSet(Calls)

ASSUME LimitsAssumption ==
    /\ MaxPending \in Nat \ {0}
    /\ MaxRetired \in Nat \ {0}
    /\ HaMaxPending \in Nat \ {0}
    /\ HaMaxCalls \in Nat \ {0}
    /\ MaxPings \in Nat

VARIABLES
    authority,   \* _websocket and _snapshot.generation
    closed,      \* sockets whose websocket.closed holds on the bridge
    handler,     \* what the bridge's handler coroutine of a socket is doing
    pings,       \* pings handled so far
    sendQueue,   \* _send_lock: its holder, then its waiters, in order
    written,     \* the holder has written its frame and awaits the drain
    gen,         \* the generation a call was made for
    status,      \* where a call() is, or how it ended
    future,      \* the correlation future of a call
    interrupt,   \* a cancellation delivered to the call's task, not yet seen
    pending,     \* _pending
    retired,     \* _retired, oldest first
    toHA,        \* frames on their way to Home Assistant, per socket
    replies,     \* calls whose tool_result is on its way to the bridge
    haState,     \* the component's end of a socket
    running,     \* pending_calls of the component, per socket
    seen,        \* seen_call_ids of the component, per socket
    effect,      \* what Home Assistant did about a call
    onWire,      \* history: calls whose tool_call frame was written
    evicted,     \* history: calls dropped from _retired for space
    rejected,    \* history: sockets whose tool_result the broker refused
    overrun      \* history: sockets the component closed over a limit

bridgeVars == <<authority, closed, handler, pings>>
sendVars == <<sendQueue, written, onWire>>
callVars == <<gen, status, future, interrupt>>
tableVars == <<pending, retired, evicted>>
haVars == <<haState, running, seen, effect, overrun>>
vars == <<bridgeVars, sendVars, callVars, tableVars, haVars,
          toHA, replies, rejected>>

Senders == Sockets \cup Calls
Answers == {"succeeded", "failed"}
Abandoned == {"timed_out", "cancelled", "transport_failed"}
Active == {"sending", "waiting"}

(* The broker's tables stay within their limits.                           *)
TypeOK ==
    /\ authority \in Sockets \cup {None}
    /\ closed \subseteq Sockets
    /\ handler \in [Sockets -> {"idle", "registering", "serving", "ponging",
                                "leaving", "done"}]
    /\ pings \in Nat
    /\ sendQueue \in Seq(Senders)
    /\ written \in BOOLEAN
    /\ gen \in [Calls -> Sockets \cup {None}]
    /\ status \in [Calls -> {"idle"} \cup Active \cup Answers \cup Abandoned]
    /\ future \in [Calls -> {"unset", "error"} \cup Answers]
    /\ interrupt \in [Calls -> {"none", "deadline", "cancel"}]
    /\ pending \subseteq Calls /\ Cardinality(pending) <= MaxPending
    /\ retired \in Seq(Calls) /\ Len(retired) <= MaxRetired
    /\ toHA \in [Sockets -> Seq(Senders)]
    /\ replies \subseteq Calls
    /\ haState \in [Sockets -> {"idle", "connecting", "registered", "gone"}]
    /\ running \in [Sockets -> SUBSET Calls]
    /\ seen \in [Sockets -> SUBSET Calls]
    /\ effect \in [Calls -> {"none", "begun"} \cup Answers]
    /\ onWire \subseteq Calls
    /\ evicted \subseteq Calls
    /\ rejected \subseteq Sockets
    /\ overrun \subseteq Sockets

Init ==
    /\ authority = None
    /\ closed = {}
    /\ handler = [s \in Sockets |-> "idle"]
    /\ pings = 0
    /\ sendQueue = <<>>
    /\ written = FALSE
    /\ gen = [c \in Calls |-> None]
    /\ status = [c \in Calls |-> "idle"]
    /\ future = [c \in Calls |-> "unset"]
    /\ interrupt = [c \in Calls |-> "none"]
    /\ pending = {}
    /\ retired = <<>>
    /\ toHA = [s \in Sockets |-> <<>>]
    /\ replies = {}
    /\ haState = [s \in Sockets |-> "idle"]
    /\ running = [s \in Sockets |-> {}]
    /\ seen = [s \in Sockets |-> {}]
    /\ effect = [c \in Calls |-> "none"]
    /\ onWire = {}
    /\ evicted = {}
    /\ rejected = {}
    /\ overrun = {}

-----------------------------------------------------------------------------
(* _send_json: one asyncio.Lock, first come first served, around the write *)
(* and its drain.  A sender that finds the lock free writes in the same    *)
(* step.  A frame is named by its sender: a socket's own frame is its      *)
(* `registered` event, a call's its tool_call.  A pong says nothing to the *)
(* component and is not put on the wire, but holds the lock like the rest. *)

Target(who) == IF who \in Sockets THEN who ELSE gen[who]

(* The wire after a frame is written; nobody reads what a gone peer gets.  *)
Put(frame, s) ==
    IF haState[s] = "gone" THEN toHA
    ELSE [toHA EXCEPT ![s] = Append(@, frame)]

Enqueue(who) ==
    /\ sendQueue' = Append(sendQueue, who)
    /\ written' = (sendQueue = <<>> \/ written)

Release ==
    /\ sendQueue' = Tail(sendQueue)
    /\ written' = FALSE
    /\ UNCHANGED onWire

Holds(who) == sendQueue # <<>> /\ Head(sendQueue) = who

-----------------------------------------------------------------------------
(* The authority's socket.                                                 *)

HaConnect(s) ==
    /\ haState[s] = "idle"
    /\ haState' = [haState EXCEPT ![s] = "connecting"]
    /\ UNCHANGED <<bridgeVars, sendVars, callVars, tableVars, running, seen,
                   effect, overrun, toHA, replies, rejected>>

(* websocket.closed becomes true on the bridge: a CLOSE frame, a reset or  *)
(* a missed heartbeat.  What is on its way to the component stays there.   *)
SocketClosed(s) ==
    /\ haState[s] # "idle"
    /\ s \notin closed
    /\ closed' = closed \cup {s}
    /\ UNCHANGED <<authority, handler, pings, sendVars, callVars, tableVars,
                   haVars, toHA, replies, rejected>>

(* Every call still in the table is failed; the table starts over.         *)
FailPending ==
    /\ future' = [c \in Calls |->
                    IF c \in pending /\ future[c] = "unset"
                    THEN "error" ELSE future[c]]
    /\ pending' = {}
    /\ retired' = <<>>

FreeUnchecked == TRUE

(* A closed socket does not keep the authority from its successor.         *)
Free == authority = None \/ authority \in closed

(* register: a closed predecessor that has not unregistered is replaced.   *)
Register(s) ==
    /\ handler[s] = "idle"
    /\ haState[s] # "idle"
    /\ s \notin closed
    /\ Free
    /\ IF authority # None
       THEN FailPending
       ELSE UNCHANGED <<future, pending, retired>>
    /\ authority' = s
    /\ handler' = [handler EXCEPT ![s] = "registering"]
    /\ Enqueue(s)
    /\ toHA' = IF sendQueue = <<>> THEN Put(s, s) ELSE toHA
    /\ UNCHANGED <<closed, pings, gen, status, interrupt, onWire, evicted, haVars,
                   replies, rejected>>

(* register refuses while the current authority's socket is open.          *)
RegisterBusy(s) ==
    /\ handler[s] = "idle"
    /\ haState[s] # "idle"
    /\ s \notin closed
    /\ ~Free
    /\ handler' = [handler EXCEPT ![s] = "leaving"]
    /\ UNCHANGED <<authority, closed, pings, sendVars, callVars, tableVars,
                   haVars, toHA, replies, rejected>>

(* The handler reads the close, before its first message or later.         *)
SeesClose(s) ==
    /\ handler[s] \in {"idle", "serving"}
    /\ s \in closed
    /\ handler' = [handler EXCEPT ![s] = "leaving"]
    /\ UNCHANGED <<authority, closed, pings, sendVars, callVars, tableVars,
                   haVars, toHA, replies, rejected>>

(* A frame the protocol does not allow ends the connection.                *)
BadMessage(s) ==
    /\ handler[s] = "serving"
    /\ s \notin closed
    /\ handler' = [handler EXCEPT ![s] = "leaving"]
    /\ UNCHANGED <<authority, closed, pings, sendVars, callVars, tableVars,
                   haVars, toHA, replies, rejected>>

(* unregister: only the current authority's own socket detaches it.        *)
Detach(s) ==
    IF authority = s
    THEN authority' = None /\ FailPending
    ELSE UNCHANGED <<authority, future, pending, retired>>

(* The handler's finally: unregister, then close the socket.  Results not  *)
(* read by now are never read.                                             *)
Unregister(s) ==
    /\ handler[s] = "leaving"
    /\ handler' = [handler EXCEPT ![s] = "done"]
    /\ closed' = closed \cup {s}
    /\ Detach(s)
    /\ replies' = {c \in replies : gen[c] # s}
    /\ UNCHANGED <<pings, sendVars, gen, status, interrupt, evicted, haVars,
                   toHA, rejected>>

HandlePing(s) ==
    /\ handler[s] = "serving"
    /\ s \notin closed
    /\ authority = s
    /\ pings < MaxPings
    /\ pings' = pings + 1
    /\ handler' = [handler EXCEPT ![s] = "ponging"]
    /\ Enqueue(s)
    /\ UNCHANGED <<authority, closed, onWire, callVars, tableVars, haVars, toHA,
                   replies, rejected>>

ResolveAnyone(c) == \E d \in pending : future' = [future EXCEPT ![d] = effect[c]]

Resolve(c) == future' = [future EXCEPT ![c] = effect[c]]

(* handle_message of a tool_result.  A result for a call that is pending   *)
(* completes it, one for a call given up on is dropped, and any other is a *)
(* protocol error that ends the connection.                                *)
HandleResult(s, c) ==
    /\ handler[s] = "serving"
    /\ s \notin closed
    /\ c \in replies
    /\ gen[c] = s
    /\ replies' = replies \ {c}
    /\ pending' = pending \ {c}
    /\ \/ /\ authority = s
          /\ c \in pending
          /\ future[c] = "unset"
          /\ Resolve(c)
          /\ UNCHANGED <<handler, retired, rejected>>
       \/ /\ authority = s
          /\ c \notin pending
          /\ \E i \in DOMAIN retired :
                /\ retired[i] = c
                /\ retired' = RemoveAt(retired, i)
          /\ UNCHANGED <<handler, future, rejected>>
       \/ /\ \/ authority # s
             \/ c \in pending /\ future[c] # "unset"
             \/ c \notin pending /\ c \notin ToSet(retired)
          /\ handler' = [handler EXCEPT ![s] = "leaving"]
          /\ rejected' = rejected \cup {s}
          /\ UNCHANGED <<future, retired>>
    /\ UNCHANGED <<authority, closed, pings, sendVars, gen, status, interrupt,
                   evicted, haVars, toHA>>

-----------------------------------------------------------------------------
(* call(): a session bound to generation s asks for one tool.              *)

HasRoomForOneMore == Cardinality(pending) <= MaxPending

HasRoom == Cardinality(pending) < MaxPending

CallStart(c, s) ==
    /\ status[c] = "idle"
    /\ authority = s
    /\ s \notin closed
    /\ HasRoom
    /\ gen' = [gen EXCEPT ![c] = s]
    /\ status' = [status EXCEPT ![c] = "sending"]
    /\ pending' = pending \cup {c}
    /\ Enqueue(c)
    /\ IF sendQueue = <<>>
       THEN toHA' = Put(c, s) /\ onWire' = onWire \cup {c}
       ELSE UNCHANGED <<toHA, onWire>>
    /\ UNCHANGED <<bridgeVars, future, interrupt, retired, evicted, haVars,
                   replies, rejected>>

RetiresAnyGeneration(c) == TRUE

(* Only a call of the current generation can still be answered.            *)
Retires(c) == authority = gen[c]

RetireUnbounded(c) ==
    retired' = Append(retired, c) /\ UNCHANGED evicted

RetireNothing(c) == UNCHANGED <<retired, evicted>>

(* Remember the id of a call given up on, at the cost of the oldest one.   *)
Retire(c) ==
    LET r == Append(retired, c)
    IN  IF Len(r) > MaxRetired
        THEN retired' = Tail(r) /\ evicted' = evicted \cup {Head(r)}
        ELSE retired' = r /\ UNCHANGED evicted

(* The finally block of call(): forget the call, and remember its id if it *)
(* did not complete.  The call's locals go.                                *)
Settle(c, end) ==
    /\ status' = [status EXCEPT ![c] = end]
    /\ future' = [future EXCEPT ![c] = "unset"]
    /\ interrupt' = [interrupt EXCEPT ![c] = "none"]
    /\ pending' = pending \ {c}
    /\ IF end \in Abandoned /\ Retires(c)
       THEN Retire(c)
       ELSE UNCHANGED <<retired, evicted>>

(* The shielded future completed before the task was interrupted.          *)
CallReturn(c) ==
    /\ status[c] = "waiting"
    /\ interrupt[c] = "none"
    /\ future[c] # "unset"
    /\ Settle(c, IF future[c] = "error" THEN "transport_failed" ELSE future[c])
    /\ UNCHANGED <<bridgeVars, sendVars, gen, haVars, toHA, replies, rejected>>

DeadlineAfterSend(c) == status[c] = "waiting"

(* The deadline covers the send as well as the wait.                       *)
UnderDeadline(c) == status[c] \in Active

StayQueued(c) == UNCHANGED sendQueue

(* A cancelled waiter leaves the lock's queue at once, its holder does not. *)
LeaveQueue(c) ==
    IF c \notin ToSet(sendQueue) \/ (Holds(c) /\ written)
    THEN UNCHANGED sendQueue
    ELSE \E i \in DOMAIN sendQueue :
            /\ sendQueue[i] = c
            /\ sendQueue' = RemoveAt(sendQueue, i)

(* The deadline expires, or the realtime session cancels the caller, whose *)
(* cancellation outweighs the deadline's.  The future is shielded.         *)
Interrupt(c, why) ==
    /\ UnderDeadline(c)
    /\ interrupt[c] # "cancel" /\ interrupt[c] # why
    /\ interrupt' = [interrupt EXCEPT ![c] = why]
    /\ LeaveQueue(c)
    /\ UNCHANGED <<bridgeVars, written, onWire, gen, status, future, tableVars,
                   haVars, toHA, replies, rejected>>

(* The interrupted task resumes: a result that came meanwhile is not used. *)
CallUnwind(c) ==
    /\ status[c] \in Active
    /\ interrupt[c] # "none"
    /\ Settle(c, IF interrupt[c] = "cancel" THEN "cancelled" ELSE "timed_out")
    /\ IF Holds(c) THEN Release ELSE UNCHANGED sendVars
    /\ UNCHANGED <<bridgeVars, gen, haVars, toHA, replies, rejected>>

-----------------------------------------------------------------------------
(* The send lock changes hands.                                            *)

(* The next waiter gets the lock and writes its frame.                     *)
TakeLock(who) ==
    /\ Holds(who)
    /\ ~written
    /\ Target(who) \notin closed
    /\ written' = TRUE
    /\ IF who \in Sockets /\ handler[who] = "ponging"
       THEN UNCHANGED toHA
       ELSE toHA' = Put(who, Target(who))
    /\ onWire' = onWire \cup ({who} \cap Calls)
    /\ UNCHANGED <<bridgeVars, sendQueue, callVars, tableVars, haVars, replies,
                   rejected>>

(* The drain ends: a call goes on to wait, a handler to read messages.     *)
Drained(who) ==
    /\ Holds(who)
    /\ written
    /\ who \in Calls => interrupt[who] = "none"
    /\ Release
    /\ IF who \in Calls
       THEN status' = [status EXCEPT ![who] = "waiting"] /\ UNCHANGED handler
       ELSE handler' = [handler EXCEPT ![who] = "serving"] /\ UNCHANGED status
    /\ UNCHANGED <<authority, closed, pings, gen, future, interrupt, tableVars,
                   haVars, toHA, replies, rejected>>

(* Writing to or draining a closed socket raises.                          *)
SendFails(who) ==
    /\ Holds(who)
    /\ Target(who) \in closed
    /\ who \in Calls => interrupt[who] = "none"
    /\ Release
    /\ IF who \in Calls
       THEN Settle(who, "transport_failed") /\ UNCHANGED handler
       ELSE /\ handler' = [handler EXCEPT ![who] = "leaving"]
            /\ UNCHANGED <<status, future, interrupt, tableVars>>
    /\ UNCHANGED <<authority, closed, pings, gen, haVars, toHA, replies,
                   rejected>>

-----------------------------------------------------------------------------
(* The component's end: _async_serve_connection and its tool tasks.        *)

(* The connection ends for the component: its tool tasks are cancelled, and *)
(* nobody reads what is still on the wire.                                 *)
HaEnds(s) ==
    /\ haState' = [haState EXCEPT ![s] = "gone"]
    /\ running' = [running EXCEPT ![s] = {}]
    /\ seen' = [seen EXCEPT ![s] = {}]
    /\ toHA' = [toHA EXCEPT ![s] = <<>>]

HaGone(s) ==
    /\ haState[s] \in {"connecting", "registered"}
    /\ HaEnds(s)
    /\ UNCHANGED <<bridgeVars, sendVars, callVars, tableVars, effect, overrun,
                   replies, rejected>>

HaRegistered(s) ==
    /\ haState[s] = "connecting"
    /\ toHA[s] # <<>> /\ Head(toHA[s]) = s
    /\ toHA' = [toHA EXCEPT ![s] = Tail(@)]
    /\ haState' = [haState EXCEPT ![s] = "registered"]
    /\ UNCHANGED <<bridgeVars, sendVars, callVars, tableVars, running, seen,
                   effect, overrun, replies, rejected>>

(* A tool_call within the component's limits starts its task.              *)
HaToolCall(s, c) ==
    /\ haState[s] = "registered"
    /\ toHA[s] # <<>> /\ Head(toHA[s]) = c
    /\ Cardinality(running[s]) < HaMaxPending
    /\ Cardinality(seen[s]) < HaMaxCalls
    /\ toHA' = [toHA EXCEPT ![s] = Tail(@)]
    /\ IF gen[c] = s /\ c \notin seen[s]
       THEN /\ seen' = [seen EXCEPT ![s] = @ \cup {c}]
            /\ running' = [running EXCEPT ![s] = @ \cup {c}]
            /\ effect' = [effect EXCEPT ![c] = "begun"]
       ELSE UNCHANGED <<seen, running, effect>>
    /\ UNCHANGED <<bridgeVars, sendVars, callVars, tableVars, haState, overrun,
                   replies, rejected>>

(* A tool_call before `registered`, or over a limit, ends the connection.  *)
HaRefuses(s, c) ==
    /\ haState[s] \in {"connecting", "registered"}
    /\ toHA[s] # <<>> /\ Head(toHA[s]) = c
    /\ \/ haState[s] = "connecting"
       \/ Cardinality(running[s]) >= HaMaxPending
       \/ Cardinality(seen[s]) >= HaMaxCalls
    /\ HaEnds(s)
    /\ overrun' = overrun \cup {s}
    /\ UNCHANGED <<bridgeVars, sendVars, callVars, tableVars, effect, replies,
                   rejected>>

(* The tool returned, failed or timed out: one tool_result is written.     *)
HaAnswer(s, c, answer) ==
    /\ c \in running[s]
    /\ effect[c] = "begun"
    /\ effect' = [effect EXCEPT ![c] = answer]
    /\ replies' = replies \cup {c}
    /\ UNCHANGED <<bridgeVars, sendVars, callVars, tableVars, haState, running,
                   seen, overrun, toHA, rejected>>

(* The answer has drained and the task's done callback runs.               *)
HaTaskDone(s, c) ==
    /\ c \in running[s]
    /\ effect[c] \in Answers
    /\ running' = [running EXCEPT ![s] = @ \ {c}]
    /\ UNCHANGED <<bridgeVars, sendVars, callVars, tableVars, haState, seen,
                   effect, overrun, toHA, replies, rejected>>

-----------------------------------------------------------------------------
AuthorityStep(s) ==
    \/ HaConnect(s) \/ SocketClosed(s)
    \/ Register(s) \/ RegisterBusy(s) \/ SeesClose(s) \/ BadMessage(s)
    \/ Unregister(s)
    \/ HandlePing(s)
    \/ HaGone(s) \/ HaRegistered(s)

CallStep(c) == CallReturn(c) \/ CallUnwind(c)

Correlate(s, c) ==
    \/ CallStart(c, s)
    \/ HandleResult(s, c)
    \/ HaToolCall(s, c)
    \/ HaRefuses(s, c)
    \/ \E answer \in Answers : HaAnswer(s, c, answer)
    \/ HaTaskDone(s, c)

SendStep(who) == TakeLock(who) \/ Drained(who) \/ SendFails(who)

Next ==
    \/ \E s \in Sockets : AuthorityStep(s)
    \/ \E c \in Calls :
          \/ CallStep(c)
          \/ \E why \in {"deadline", "cancel"} : Interrupt(c, why)
    \/ \E s \in Sockets, c \in Calls : Correlate(s, c)
    \/ \E who \in Senders : SendStep(who)

Spec == Init /\ [][Next]_vars

(* The bridge's own obligations: asyncio fires a timer that is due and     *)
(* resumes a task that can run, and the handler of a closed socket sees    *)
(* the close.  Nothing is assumed of Home Assistant, of the network or of  *)
(* a drain on an open socket.                                              *)
Fairness ==
    /\ \A c \in Calls :
          /\ WF_vars(Interrupt(c, "deadline"))
          /\ WF_vars(CallStep(c))
    /\ \A s \in Sockets : WF_vars(SeesClose(s)) /\ WF_vars(Unregister(s))
    /\ \A who \in Senders : WF_vars(SendFails(who))

FairSpec == Spec /\ Fairness

-----------------------------------------------------------------------------
(* Correctness.                                                            *)

(* What call() reports as Home Assistant's answer is what Home Assistant   *)
(* answered: call() returning and handle_message never mix up calls or     *)
(* invent an outcome, whatever deadline, disconnect or late result races.  *)
ToldTheTruth ==
    \A c \in Calls : status[c] \in Answers => effect[c] = status[c]

(* The correlation tables of the broker speak of the current generation    *)
(* only, and no call is in both: unregister, a replacing register and the  *)
(* finally block of a call of an earlier generation leave nothing behind.  *)
TablesAreCurrent ==
    /\ \A c \in pending \cup ToSet(retired) : gen[c] = authority
    /\ pending \cap ToSet(retired) = {}

(* An authority that answers each call once is never disconnected for an   *)
(* answer, unless more calls of its generation were given up on than       *)
(* _retired holds: the shielded future and the retired ids are for this.   *)
GivenUp(s) == {c \in Calls : gen[c] = s /\ status[c] \in Abandoned}

HonestAuthorityIsKept ==
    \A s \in rejected : Cardinality(GivenUp(s)) > MaxRetired

(* At most one socket serves as the tool authority: any other handler has  *)
(* left its message loop or finds its socket closed.                       *)
OneAuthority ==
    \A s \in Sockets :
        handler[s] \in {"registering", "serving", "ponging"} /\ s \notin closed
            => s = authority

(* The authority is detached only because its own socket closed or its own *)
(* handler ended; the finally block of a handler that was refused as busy  *)
(* or was replaced leaves the authority alone.                             *)
DetachedByItself ==
    [][\A s \in Sockets :
          authority = s /\ authority' # s => s \in closed \/ handler[s] = "leaving"]_vars

(* The component ends a registered connection over its pending limit only  *)
(* when it still runs a call the bridge no longer waits for: calls the     *)
(* bridge itself holds open never exceed what the component accepts.       *)
LiveCallsNeverOverrun ==
    [][\A s \in Sockets :
          /\ s \notin overrun /\ s \in overrun'
          /\ Cardinality(seen[s]) < HaMaxCalls
          => \E c \in running[s] : c \notin pending]_vars

(* Every call() ends, by the broker's own deadline if by nothing else: not *)
(* even a send lock held by a backpressured socket can hold it forever.    *)
CallsSettle ==
    \A c \in Calls : status[c] \in Active ~> status[c] \notin Active

-----------------------------------------------------------------------------
(* The inductive invariant.                                                *)

(* A call has a generation from its start on; its locals are reset when it *)
(* ends.                                                                   *)
CallsInv ==
    \A c \in Calls :
        /\ status[c] = "idle" <=> gen[c] = None
        /\ status[c] \notin Active => interrupt[c] = "none"
        /\ status[c] = "idle" => c \notin onWire

(* Why the tables are current: a pending call is active, a retired one was *)
(* given up on, and both belong to the authority.                          *)
TablesInv ==
    /\ \A c \in pending : status[c] \in Active /\ gen[c] = authority
    /\ \A c \in ToSet(retired) : status[c] \in Abandoned /\ gen[c] = authority

(* Why an answer is never overwritten: what the component acted on it has  *)
(* seen, and it acts on nothing twice; a peer that is gone acts no more.   *)
ActedInv ==
    \A c \in Calls : effect[c] # "none" =>
        /\ gen[c] \in Sockets
        /\ haState[gen[c]] = "gone" \/ c \in seen[gen[c]]

(* The answer on its way, in the future and told is the component's.       *)
AnswersInv ==
    /\ \A c \in replies : effect[c] \in Answers
    /\ \A c \in Calls : future[c] \in Answers => effect[c] = future[c]

(* The send lock: nobody queues twice, a queued handler is in its send, a  *)
(* queued call is sending, and only the holder may be interrupted there.   *)
QueueInv ==
    /\ \A i, j \in DOMAIN sendQueue : sendQueue[i] = sendQueue[j] => i = j
    /\ \A i \in DOMAIN sendQueue :
        /\ sendQueue[i] \in Sockets =>
               handler[sendQueue[i]] \in {"registering", "ponging"}
        /\ sendQueue[i] \in Calls =>
               /\ status[sendQueue[i]] = "sending"
               /\ (i = 1 /\ written) \/ (interrupt[sendQueue[i]] = "none"
                                         /\ sendQueue[i] \notin onWire)

(* What is on the wire was written.                                        *)
WireInv ==
    \A s \in Sockets : \A i \in DOMAIN toHA[s] :
        toHA[s][i] \in Calls => toHA[s][i] \in onWire

IInv ==
    /\ TypeOK
    /\ CallsInv
    /\ TablesInv
    /\ ActedInv
    /\ AnswersInv
    /\ ToldTheTruth
    /\ QueueInv
    /\ WireInv
    /\ OneAuthority

-----------------------------------------------------------------------------
(* The broker, its sockets and the component together are a RemoteCall: a  *)
(* call leaves the bridge at most once and never after its caller was      *)
(* interrupted, is acted on at most once, and is answered truthfully or    *)
(* reported as of unknown outcome.                                         *)
Told(c) ==
    CASE status[c] = "idle" -> "nothing"
      [] status[c] \in Active /\ interrupt[c] = "none" -> "waiting"
      [] status[c] \in Answers -> status[c]
      [] OTHER -> "unknown"

Remote == INSTANCE RemoteCall WITH
    told <- [c \in Calls |-> Told(c)],
    sent <- onWire,
    acted <- effect

RemoteSpec == Remote!Spec
=============================================================================
