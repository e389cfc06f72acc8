----------------------------- MODULE Conversations -----------------------------
(***************************************************************************)
(* The conversations of bridge/service.py: the bounded cache of App Server *)
(* threads (BridgeState.conversation_thread, retire_conversation,          *)
(* _prune_conversations), and the conversation sockets that take threads   *)
(* from it, run one turn at a time on them and give them up               *)
(* (_conversation, _run_conversation_socket).                              *)
(*                                                                         *)
(* The cache is guarded by one lock; the state of a thread's turns is not: *)
(* sockets that share a thread read and write it between their awaits.     *)
(* A turn is one run_turn task.  Its exchange with the App Server is one   *)
(* wait here and the subject of ConversationTurn.                          *)
(***************************************************************************)
EXTENDS Integers, FiniteSets, SequencesExt, Queues

CONSTANTS
    Sockets,           \* conversation sockets
    Convs,             \* conversation ids
    Threads,           \* thread ids, in no order
    Turns,             \* run_turn tasks
    Tools,             \* tool fingerprints
    None,              \* no conversation id, no thread, no owner
    MaxConversations   \* largest MAX_CONVERSATIONS

ASSUME NoneAssumption == None \notin Sockets \cup Convs \cup Threads \cup Turns

ASSUME MaxAssumption == MaxConversations \in Nat \ {0}

VARIABLES
    limit,      \* MAX_CONVERSATIONS, chosen once: a run covers small ones
    cache,      \* _conversations in order of use: [conv, thread]
    lock,       \* _conversation_lock: holder, then waiters
    old,        \* threads not used for CONVERSATION_TTL
    tools,      \* tools_fingerprint of a thread
    retired,    \* turn_state.retired
    pending,    \* turn_state.pending_owner
    owner,      \* turn_state.owner
    turnLock,   \* turn_state.turn_lock: holder, then waiters
    main,       \* what a socket's handler awaits
    start,      \* the start message of a socket: [conv, tools]
    uses,       \* the thread of a socket
    expired,    \* what _prune_conversations still has to delete
    had,        \* had_pending_turn
    dispatch,   \* what a socket's event dispatcher awaits
    run,        \* what a run_turn task awaits
    of,         \* the socket of a run_turn task
    exited,     \* the App Server has exited
    created,    \* history: threads the App Server created
    deletes     \* history: thread/delete requests per thread

cacheVars == <<limit, cache, lock, old, tools, expired>>
stateVars == <<retired, pending, owner, turnLock>>
socketVars == <<main, start, uses, had, dispatch>>
turnVars == <<run, of>>
serverVars == <<exited, created, deletes>>
vars == <<cacheVars, stateVars, socketVars, turnVars, serverVars>>

Task(kind, id) == [kind |-> kind, id |-> id]
Main(s) == Task("main", s)
Dispatcher(s) == Task("dispatch", s)
Tasks == [kind : {"main", "dispatch"}, id : Sockets] \cup [kind : {"run"}, id : Turns]

TypeOK ==
    /\ limit \in 1..MaxConversations
    /\ cache \in Seq([conv : Convs, thread : Threads]) /\ Len(cache) <= limit
    /\ lock \in Seq(Tasks)
    /\ old \subseteq Threads
    /\ tools \in [Threads -> Tools \cup {None}]
    /\ retired \subseteq Threads
    /\ pending \in [Threads -> Sockets \cup {None}]
    /\ owner \in [Threads -> Sockets \cup {None}]
    /\ turnLock \in [Threads -> Seq(Turns)]
    /\ main \in [Sockets -> {"new", "locking", "pruning", "replacing", "starting",
                             "announcing", "serving", "stopping", "gathering",
                             "retiring", "disposing", "deleting", "closed"}]
    /\ start \in [Sockets -> [conv : Convs \cup {None}, tools : Tools \cup {None}]]
    /\ uses \in [Sockets -> Threads \cup {None}]
    /\ expired \in [Sockets -> Seq(Convs)]
    /\ had \subseteq Sockets
    /\ dispatch \in [Sockets -> {"off", "serving", "retiring", "disposing", "over"}]
    /\ run \in [Turns -> {"unborn", "scheduled", "locking", "turn", "retiring",
                          "disposing", "sending", "over"}]
    /\ of \in [Turns -> Sockets \cup {None}]
    /\ exited \in BOOLEAN
    /\ created \subseteq Threads
    /\ deletes \in [Threads -> 0..2]

Init ==
    /\ limit \in 1..MaxConversations
    /\ cache = <<>> /\ lock = <<>> /\ old = {}
    /\ tools = [th \in Threads |-> None]
    /\ retired = {}
    /\ pending = [th \in Threads |-> None]
    /\ owner = [th \in Threads |-> None]
    /\ turnLock = [th \in Threads |-> <<>>]
    /\ main = [s \in Sockets |-> "new"]
    /\ start = [s \in Sockets |-> [conv |-> None, tools |-> None]]
    /\ uses = [s \in Sockets |-> None]
    /\ expired = [s \in Sockets |-> <<>>]
    /\ had = {}
    /\ dispatch = [s \in Sockets |-> "off"]
    /\ run = [t \in Turns |-> "unborn"]
    /\ of = [t \in Turns |-> None]
    /\ exited = FALSE /\ created = {}
    /\ deletes = [th \in Threads |-> 0]

-----------------------------------------------------------------------------
(* The cache.                                                              *)

Cached == {cache[i].conv : i \in DOMAIN cache}

ThreadOf(conv) == CHOOSE th \in Threads : [conv |-> conv, thread |-> th] \in ToSet(cache)

Keeps(entries, conv) == entries

Without(entries, conv) == Dropping(entries, [conv : {conv}, thread : Threads])

Busy(th) == pending[th] # None \/ owner[th] # None \/ turnLock[th] # <<>>

RoomForOneMore == Len(cache) <= limit

Room == Len(cache) < limit

Deletes(th) == deletes' = [deletes EXCEPT ![th] = @ + 1]

Queued(task) == lock' = Append(lock, task)

Holds(task) == lock # <<>> /\ Head(lock) = task

Releases == lock' = Tail(lock)

StaysInLock(task) == UNCHANGED lock

LeavesLock(task) == lock' = Dropping(lock, {task})

(* The expired conversations: the old idle ones, then, while there is no   *)
(* room, the least recently used idle ones.                                *)
Expired ==
    LET convs == [i \in DOMAIN cache |-> cache[i].conv]
        idle == Dropping(convs, {c \in Cached : Busy(ThreadOf(c))})
        aged == Dropping(idle, {c \in Cached : ThreadOf(c) \notin old})
        rest == Dropping(idle, {c \in Cached : ThreadOf(c) \in old})
        over == Len(cache) - Len(aged) - limit + 1
    IN  aged \o SubSeq(rest, 1, IF over < Len(rest) THEN over ELSE Len(rest))

(* The start message: a conversation takes the lock, a message without an  *)
(* id starts a thread of its own.                                          *)
Opens(s, conv, fingerprint) ==
    /\ main[s] = "new"
    /\ start' = [start EXCEPT ![s] = [conv |-> conv, tools |-> fingerprint]]
    /\ IF conv = None
       THEN main' = [main EXCEPT ![s] = "starting"] /\ UNCHANGED lock
       ELSE main' = [main EXCEPT ![s] = "locking"] /\ Queued(Main(s))
    /\ UNCHANGED <<cache, old, limit, tools, expired, stateVars, uses, had, dispatch,
                   turnVars, serverVars>>

RefusedInTheLock(s) ==
    /\ main' = [main EXCEPT ![s] = "closed"]
    /\ UNCHANGED lock

(* conversation_thread raises: the handler reports it and closes.          *)
Refused(s) ==
    /\ main' = [main EXCEPT ![s] = "closed"]
    /\ Releases

(* A conversation leaves the cache; its thread is retired and deleted.     *)
Evicts(conv) ==
    /\ cache' = Without(cache, conv)
    /\ retired' = retired \cup {ThreadOf(conv)}
    /\ Deletes(ThreadOf(conv))

(* The lookup, when there is nothing left to prune.                        *)
LooksUp(s) ==
    LET conv == start[s].conv
        th == ThreadOf(conv)
    IN
    \/ /\ conv \in Cached /\ th \notin retired /\ tools[th] = start[s].tools
       /\ cache' = Append(Without(cache, conv), [conv |-> conv, thread |-> th])
       /\ old' = old \ {th}
       /\ uses' = [uses EXCEPT ![s] = th]
       /\ main' = [main EXCEPT ![s] = "announcing"]
       /\ Releases
       /\ UNCHANGED <<retired, deletes>>
    \/ /\ conv \in Cached /\ (th \in retired \/ tools[th] # start[s].tools)
       /\ IF Busy(th)
          THEN Refused(s) /\ UNCHANGED <<cache, retired, deletes>>
          ELSE /\ Evicts(conv)
               /\ main' = [main EXCEPT ![s] = "replacing"]
               /\ UNCHANGED lock
       /\ UNCHANGED <<old, uses>>
    \/ /\ conv \notin Cached
       /\ IF ~Room
          THEN Refused(s)
          ELSE main' = [main EXCEPT ![s] = "starting"] /\ UNCHANGED lock
       /\ UNCHANGED <<cache, old, retired, uses, deletes>>

(* The next deletion of a prune, or the lookup.                            *)
Proceeds(s, todo) ==
    IF todo # <<>>
    THEN /\ Evicts(Head(todo))
         /\ expired' = [expired EXCEPT ![s] = Tail(todo)]
         /\ main' = [main EXCEPT ![s] = "pruning"]
         /\ UNCHANGED <<lock, old, uses>>
    ELSE /\ expired' = [expired EXCEPT ![s] = <<>>]
         /\ LooksUp(s)

GetsCache(s) ==
    /\ main[s] = "locking" /\ Holds(Main(s))
    /\ Proceeds(s, Expired)
    /\ UNCHANGED <<limit, tools, pending, owner, turnLock, start, had, dispatch, turnVars,
                   exited, created>>

(* A deletion ended, within THREAD_DISPOSAL_TOTAL_TIMEOUT_SECONDS.         *)
Pruned(s) ==
    /\ main[s] = "pruning"
    /\ Proceeds(s, expired[s])
    /\ UNCHANGED <<limit, tools, pending, owner, turnLock, start, had, dispatch, turnVars,
                   exited, created>>

Replaced(s) ==
    /\ main[s] = "replacing"
    /\ IF ~Room
       THEN Refused(s)
       ELSE main' = [main EXCEPT ![s] = "starting"] /\ UNCHANGED lock
    /\ UNCHANGED <<cache, old, limit, tools, expired, stateVars, start, uses, had, dispatch,
                   turnVars, serverVars>>

(* The reply to thread/start: the new thread is cached for its id.         *)
ThreadStarts(s, th) ==
    LET conv == start[s].conv IN
    /\ main[s] = "starting"
    /\ ~exited /\ th \notin created
    /\ created' = created \cup {th}
    /\ tools' = [tools EXCEPT ![th] = start[s].tools]
    /\ uses' = [uses EXCEPT ![s] = th]
    /\ main' = [main EXCEPT ![s] = "announcing"]
    /\ IF conv = None
       THEN UNCHANGED <<cache, lock>>
       ELSE cache' = Append(cache, [conv |-> conv, thread |-> th]) /\ Releases
    /\ UNCHANGED <<limit, old, expired, stateVars, start, had, dispatch, turnVars,
                   exited, deletes>>

(* thread/start fails or times out.                                        *)
ThreadFails(s) ==
    /\ main[s] = "starting"
    /\ main' = [main EXCEPT ![s] = "closed"]
    /\ IF start[s].conv = None THEN UNCHANGED lock ELSE Releases
    /\ UNCHANGED <<cache, old, limit, tools, expired, stateVars, start, uses, had, dispatch,
                   turnVars, serverVars>>

(* An hour passes without a use.  Only a prune asks for it, so it need not *)
(* have passed before one begins.                                          *)
Ages(th) ==
    /\ \E i \in DOMAIN cache : cache[i].thread = th
    /\ \E s \in Sockets : main[s] = "locking" /\ Holds(Main(s))
    /\ th \notin old
    /\ old' = old \cup {th}
    /\ UNCHANGED <<cache, lock, limit, tools, expired, stateVars, socketVars, turnVars,
                   serverVars>>

-----------------------------------------------------------------------------
(* The socket.                                                             *)

Persistent(s) == start[s].conv # None

Announced(s) ==
    /\ main[s] = "announcing"
    /\ main' = [main EXCEPT ![s] = "serving"]
    /\ dispatch' = [dispatch EXCEPT ![s] = "serving"]
    /\ UNCHANGED <<cacheVars, stateVars, start, uses, had, turnVars, serverVars>>

(* The client is gone before it was told: the handler just ends.           *)
AnnounceFails(s) ==
    /\ main[s] = "announcing"
    /\ main' = [main EXCEPT ![s] = "closed"]
    /\ UNCHANGED <<cacheVars, stateVars, start, uses, had, dispatch, turnVars,
                   serverVars>>

MaySchedule(th) == th \notin retired /\ pending[th] = None

(* schedule_turn: a message on a retired or busy thread is refused.        *)
Schedules(s, t) ==
    /\ main[s] = "serving"
    /\ run[t] = "unborn"
    /\ MaySchedule(uses[s])
    /\ pending' = [pending EXCEPT ![uses[s]] = s]
    /\ run' = [run EXCEPT ![t] = "scheduled"]
    /\ of' = [of EXCEPT ![t] = s]
    /\ UNCHANGED <<cacheVars, retired, owner, turnLock, socketVars, serverVars>>

-----------------------------------------------------------------------------
(* run_turn.                                                               *)

Alive(t) == run[t] \notin {"unborn", "over"} /\ main[of[t]] # "gathering"

On(t) == uses[of[t]]

GivesUpPending(t) ==
    pending' = [pending EXCEPT ![On(t)] = IF @ = of[t] THEN None ELSE @]

UsableAnyway(th) == TRUE

Usable(th) == th \notin retired

(* retire_conversation: the mark comes first; the cache is looked at with  *)
(* its lock, and only for a thread that has a conversation id.             *)
Retires(th, task, s) ==
    /\ retired' = retired \cup {th}
    /\ IF Persistent(s) THEN Queued(task) ELSE UNCHANGED lock

AfterMark(s, there, otherwise) == IF Persistent(s) THEN there ELSE otherwise

LeavesTurnLock(t) ==
    turnLock' = [turnLock EXCEPT ![On(t)] = Dropping(@, {t})]

(* The task has the turn lock: it was free, or it was handed on.           *)
AtLock(t) == \/ run[t] = "scheduled" /\ turnLock[On(t)] = <<>>
             \/ run[t] = "locking" /\ Head(turnLock[On(t)]) = t

(* The lock is not free.                                                   *)
WaitsForTurn(t) ==
    /\ Alive(t) /\ run[t] = "scheduled" /\ turnLock[On(t)] # <<>>
    /\ run' = [run EXCEPT ![t] = "locking"]
    /\ turnLock' = [turnLock EXCEPT ![On(t)] = Append(@, t)]
    /\ UNCHANGED <<cacheVars, retired, pending, owner, socketVars, of, serverVars>>

(* With the turn lock: turn/start is sent.                                 *)
TakesTurn(t) ==
    /\ Alive(t) /\ AtLock(t)
    /\ Usable(On(t))
    /\ turnLock' = IF run[t] = "locking" THEN turnLock
                   ELSE [turnLock EXCEPT ![On(t)] = Append(@, t)]
    /\ owner' = [owner EXCEPT ![On(t)] = of[t]]
    /\ run' = [run EXCEPT ![t] = "turn"]
    /\ UNCHANGED <<cacheVars, retired, pending, socketVars, of, serverVars>>

(* The thread was retired while the task waited.                           *)
FindsRetired(t) ==
    /\ Alive(t) /\ AtLock(t)
    /\ ~Usable(On(t))
    /\ LeavesTurnLock(t)
    /\ Retires(On(t), Task("run", t), of[t])
    /\ run' = [run EXCEPT ![t] = AfterMark(of[t], "retiring", "sending")]
    /\ UNCHANGED <<cache, old, limit, tools, expired, pending, owner, socketVars, of, serverVars>>

FreesTurn(t) ==
    /\ owner' = [owner EXCEPT ![On(t)] = IF @ = of[t] THEN None ELSE @]
    /\ LeavesTurnLock(t)

(* The turn completed: the thread is free before `done` is sent.           *)
Completes(t) ==
    /\ Alive(t) /\ run[t] = "turn" /\ ~exited
    /\ FreesTurn(t)
    /\ GivesUpPending(t)
    /\ run' = [run EXCEPT ![t] = "sending"]
    /\ UNCHANGED <<cacheVars, retired, socketVars, of, serverVars>>

(* turn/start failed, the turn failed or it took too long.                 *)
TurnFails(t) ==
    /\ Alive(t) /\ run[t] = "turn"
    /\ FreesTurn(t)
    /\ Retires(On(t), Task("run", t), of[t])
    /\ run' = [run EXCEPT ![t] = AfterMark(of[t], "retiring", "sending")]
    /\ UNCHANGED <<cache, old, limit, tools, expired, pending, socketVars, of, serverVars>>

(* `done` or the error is sent; the task ends.                             *)
Sent(t) ==
    /\ Alive(t) /\ run[t] = "sending"
    /\ GivesUpPending(t)
    /\ run' = [run EXCEPT ![t] = "over"]
    /\ UNCHANGED <<cacheVars, retired, owner, turnLock, socketVars, of, serverVars>>

-----------------------------------------------------------------------------
(* retire_conversation with the lock of the cache: the entry goes only if  *)
(* it still is the one of this thread.                                     *)

IsEntryOf(conv, th) == conv \in Cached /\ ThreadOf(conv) = th

(* Whether the entry went; its thread is deleted at once.                  *)
Drops(s) ==
    LET conv == start[s].conv IN
    /\ IF IsEntryOf(conv, uses[s])
       THEN cache' = Without(cache, conv) /\ Deletes(ThreadOf(conv))
       ELSE UNCHANGED <<cache, deletes>>
    /\ Releases

AfterDrop(s, dropped, done) == IF IsEntryOf(start[s].conv, uses[s]) THEN dropped ELSE done

RunDrops(t) ==
    /\ Alive(t) /\ run[t] = "retiring" /\ Holds(Task("run", t))
    /\ Drops(of[t])
    /\ run' = [run EXCEPT ![t] = AfterDrop(of[t], "disposing", "sending")]
    /\ UNCHANGED <<old, limit, tools, expired, stateVars, socketVars, of, exited, created>>

RunDisposed(t) ==
    /\ Alive(t) /\ run[t] = "disposing"
    /\ run' = [run EXCEPT ![t] = "sending"]
    /\ UNCHANGED <<cacheVars, stateVars, socketVars, of, serverVars>>

(* The dispatcher retires the thread when the App Server exits, or when an *)
(* error of the thread comes while the socket owns its turn, and fails.    *)
DispatchRetires(s) ==
    /\ main[s] \in {"serving", "stopping"} /\ dispatch[s] = "serving"
    /\ exited \/ owner[uses[s]] = s
    /\ Retires(uses[s], Dispatcher(s), s)
    /\ dispatch' = [dispatch EXCEPT ![s] = AfterMark(s, "retiring", "over")]
    /\ UNCHANGED <<cache, old, limit, tools, expired, pending, owner, turnLock, main, start,
                   uses, had, turnVars, serverVars>>

DispatchDrops(s) ==
    /\ dispatch[s] = "retiring" /\ Holds(Dispatcher(s)) /\ main[s] # "gathering"
    /\ Drops(s)
    /\ dispatch' = [dispatch EXCEPT ![s] = AfterDrop(s, "disposing", "over")]
    /\ UNCHANGED <<old, limit, tools, expired, stateVars, main, start, uses, had, turnVars,
                   exited, created>>

DispatchDisposed(s) ==
    /\ dispatch[s] = "disposing" /\ main[s] # "gathering"
    /\ dispatch' = [dispatch EXCEPT ![s] = "over"]
    /\ UNCHANGED <<cacheVars, stateVars, main, start, uses, had, turnVars, serverVars>>

-----------------------------------------------------------------------------
(* The end of a socket.                                                    *)

RunsOf(s) == {t \in Turns : of[t] = s /\ run[t] # "over"}

(* The client closed or stopped, or a task of the socket failed.  A turn   *)
(* in progress retires the thread; a known turn is interrupted.            *)
Stops(s) ==
    /\ main[s] = "serving"
    /\ had' = IF pending[uses[s]] = s THEN had \cup {s} ELSE had
    /\ retired' = IF pending[uses[s]] = s THEN retired \cup {uses[s]} ELSE retired
    /\ \/ \E t \in RunsOf(s) : run[t] = "turn" /\ main' = [main EXCEPT ![s] = "stopping"]
       \/ main' = [main EXCEPT ![s] = "gathering"]
    /\ UNCHANGED <<cacheVars, pending, owner, turnLock, start, uses, dispatch, turnVars,
                   serverVars>>

(* turn/interrupt ended, one way or the other.                             *)
Interrupted(s) ==
    /\ main[s] = "stopping"
    /\ main' = [main EXCEPT ![s] = "gathering"]
    /\ UNCHANGED <<cacheVars, stateVars, start, uses, had, dispatch, turnVars, serverVars>>

(* A task is cancelled where it awaits and runs its finally blocks; one    *)
(* that has not begun never runs any.                                      *)
RunCancelled(t) ==
    /\ run[t] \notin {"unborn", "over"} /\ main[of[t]] = "gathering"
    /\ run' = [run EXCEPT ![t] = "over"]
    /\ LeavesLock(Task("run", t))
    /\ LeavesTurnLock(t)
    /\ owner' = IF run[t] = "turn" /\ owner[On(t)] = of[t]
                THEN [owner EXCEPT ![On(t)] = None] ELSE owner
    /\ IF run[t] = "scheduled" THEN UNCHANGED pending ELSE GivesUpPending(t)
    /\ UNCHANGED <<cache, old, limit, tools, expired, retired, socketVars, of, serverVars>>

DispatchCancelled(s) ==
    /\ main[s] = "gathering" /\ dispatch[s] # "over"
    /\ dispatch' = [dispatch EXCEPT ![s] = "over"]
    /\ LeavesLock(Dispatcher(s))
    /\ UNCHANGED <<cache, old, limit, tools, expired, stateVars, main, start, uses, had,
                   turnVars, serverVars>>

KeepsPending(s) == UNCHANGED pending

ClearsPending(s) ==
    pending' = [pending EXCEPT ![uses[s]] = IF @ = s THEN None ELSE @]

(* Nothing is left to retire: the thread of a one-shot socket is deleted.  *)
Leaves(s) ==
    /\ ClearsPending(s)
    /\ IF Persistent(s)
       THEN main' = [main EXCEPT ![s] = "closed"] /\ UNCHANGED deletes
       ELSE main' = [main EXCEPT ![s] = "deleting"] /\ Deletes(uses[s])

Gathered(s) ==
    /\ main[s] = "gathering"
    /\ RunsOf(s) = {} /\ dispatch[s] = "over"
    /\ IF s \in had /\ Persistent(s)
       THEN /\ Queued(Main(s))
            /\ main' = [main EXCEPT ![s] = "retiring"]
            /\ UNCHANGED <<pending, deletes>>
       ELSE Leaves(s) /\ UNCHANGED lock
    /\ UNCHANGED <<cache, old, limit, tools, expired, retired, owner, turnLock, start, uses,
                   had, dispatch, turnVars, exited, created>>

MainDrops(s) ==
    /\ main[s] = "retiring" /\ Holds(Main(s))
    /\ Drops(s)
    /\ IF IsEntryOf(start[s].conv, uses[s])
       THEN main' = [main EXCEPT ![s] = "disposing"] /\ UNCHANGED pending
       ELSE main' = [main EXCEPT ![s] = "closed"] /\ ClearsPending(s)
    /\ UNCHANGED <<old, limit, tools, expired, retired, owner, turnLock, start, uses, had,
                   dispatch, turnVars, exited, created>>

MainDisposed(s) ==
    /\ main[s] \in {"disposing", "deleting"}
    /\ main' = [main EXCEPT ![s] = "closed"]
    /\ ClearsPending(s)
    /\ UNCHANGED <<cacheVars, retired, owner, turnLock, start, uses, had, dispatch,
                   turnVars, serverVars>>

AppServerExits ==
    /\ ~exited
    /\ exited' = TRUE
    /\ UNCHANGED <<cacheVars, stateVars, socketVars, turnVars, created, deletes>>

-----------------------------------------------------------------------------
MainStep(s) ==
    \/ GetsCache(s) \/ Pruned(s) \/ Replaced(s) \/ Announced(s) \/ AnnounceFails(s)
    \/ (\E th \in Threads : ThreadStarts(s, th)) \/ ThreadFails(s)
    \/ Interrupted(s) \/ Gathered(s) \/ MainDrops(s) \/ MainDisposed(s)

DispatchStep(s) ==
    DispatchRetires(s) \/ DispatchDrops(s) \/ DispatchDisposed(s) \/ DispatchCancelled(s)

RunStep(t) ==
    \/ WaitsForTurn(t) \/ TakesTurn(t) \/ FindsRetired(t) \/ Completes(t) \/ TurnFails(t)
    \/ Sent(t) \/ RunDrops(t) \/ RunDisposed(t) \/ RunCancelled(t)

Next ==
    \/ \E s \in Sockets :
          \/ \E conv \in Convs \cup {None}, f \in Tools : Opens(s, conv, f)
          \/ \E t \in Turns : Schedules(s, t)
          \/ Stops(s)
          \/ MainStep(s)
          \/ DispatchStep(s)
    \/ \E t \in Turns : RunStep(t)
    \/ \E th \in Threads : Ages(th)
    \/ AppServerExits

Spec == Init /\ [][Next]_vars

-----------------------------------------------------------------------------
(* PROPERTIES *)

(* No turn is started on a thread whose deletion was requested: whoever    *)
(* deletes a thread has marked it, and the task that gets the turn lock    *)
(* looks at the mark (run_turn 3749-3753, retire_conversation 1166-1185).  *)
NoTurnOnDeletedThread ==
    [][\A t \in Turns : run[t] # "turn" /\ run'[t] = "turn" => deletes[On(t)] = 0]_vars

(* A thread is deleted once, though a run, a dispatcher, a teardown, a     *)
(* prune and a tool change may all want to (retire_conversation 1176-1185).*)
DeletedOnce == \A th \in Threads : deletes[th] <= 1

(* No closed socket leaves a thread marked as busy, which would refuse     *)
(* every later turn on it and keep it in the cache for ever (3862, 3881,   *)
(* 4012: three places clear the mark because a task may not have begun).   *)
NobodyKeepsAThreadBusy ==
    \A th \in Threads : pending[th] # None => main[pending[th]] # "closed"

(* Nobody waits for ever: as long as a socket opens or ends, some task of  *)
(* the bridge can go on, whoever holds the lock of the cache or of a turn  *)
(* across his App Server calls, and whoever was cancelled in its queue.    *)
(* (Every such call ends by its timeout, every send at the latest with its *)
(* socket, and each of these tasks has finitely many steps.)               *)
CanGoOn ==
    \/ \E s \in Sockets :
          MainStep(s) \/ DispatchDrops(s) \/ DispatchDisposed(s) \/ DispatchCancelled(s)
    \/ \E t \in Turns : RunStep(t)

NobodyIsStuck ==
    (\E s \in Sockets : main[s] \notin {"new", "serving", "closed"}) => ENABLED CanGoOn

(* A thread is not deleted under the turn another socket runs on it: that  *)
(* is what _turn_state_busy is asked for (1240-1263, 7195).                *)
NotDeletedInUse ==
    \A t \in Turns : run[t] = "turn" /\ deletes[On(t)] > 0 /\ ~exited =>
        main[of[t]] # "serving" \/ dispatch[of[t]] # "serving"

=============================================================================
