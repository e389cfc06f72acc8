-------------------------- MODULE ConversationsProofs --------------------------
(***************************************************************************)
(* Proofs about Conversations for any sets of sockets, conversations,      *)
(* threads and turns and any bound of the cache.                           *)
(***************************************************************************)
EXTENDS Conversations, QueueProofs

(***************************************************************************)
(* The inductive invariant, in parts.                                      *)
(***************************************************************************)

Entries == ToSet(cache)

CacheEntry == [conv : Convs, thread : Threads]

Entry(conv, th) == [conv |-> conv, thread |-> th]

(* The lock of the cache is held across the deletions of a prune, and till *)
(* the new thread of a conversation has its entry.                         *)
LockInv == \A s \in Sockets :
    main[s] \in {"pruning", "replacing"} \/ (main[s] = "starting" /\ Persistent(s)) =>
        lock # <<>> /\ Head(lock) = Main(s)

(* A socket has a thread from the lookup on; what retires it has marked it *)
(* before.                                                                 *)
SocketInv == \A s \in Sockets :
    /\ main[s] \in {"locking", "pruning", "replacing", "retiring", "disposing"} =>
          Persistent(s)
    /\ main[s] = "deleting" => ~Persistent(s)
    /\ main[s] \in {"new", "locking", "pruning", "replacing", "starting"} => uses[s] = None
    /\ main[s] \in {"announcing", "serving", "stopping", "gathering", "retiring",
                    "disposing", "deleting"} => uses[s] # None
    /\ dispatch[s] \in {"serving", "retiring", "disposing"} =>
          main[s] \in {"serving", "stopping", "gathering"}
    /\ dispatch[s] = "retiring" => Persistent(s) /\ uses[s] \in retired
    /\ s \in had => uses[s] \in retired
    /\ main[s] = "retiring" => s \in had

(* So has the socket of a run_turn task, which outlives all its tasks.     *)
RunInv == \A t \in Turns : run[t] \notin {"unborn", "over"} =>
    /\ of[t] \in Sockets /\ main[of[t]] \in {"serving", "stopping", "gathering"}
    /\ run[t] = "retiring" => Persistent(of[t]) /\ On(t) \in retired

(* Nobody knows a thread before it is created.                             *)
FreshInv == \A th \in Threads \ created :
    /\ deletes[th] = 0
    /\ \A s \in Sockets : uses[s] # th
    /\ \A e \in Entries : e.thread # th

(* A conversation has one entry, a thread is that of one conversation, and *)
(* a thread whose deletion was asked for has left the cache.               *)
CacheInv ==
    /\ IsInjective(cache)
    /\ \A e, f \in Entries : e.conv = f.conv \/ e.thread = f.thread => e = f
    /\ \A e \in Entries : deletes[e.thread] = 0

(* The thread of a one-shot socket is its own, and deleted when it ends.   *)
OwnInv == \A s \in Sockets : ~Persistent(s) /\ uses[s] # None =>
    /\ \A e \in Entries : e.thread # uses[s]
    /\ \A r \in Sockets \ {s} : uses[r] # uses[s]
    /\ deletes[uses[s]] = 0 \/ main[s] \in {"deleting", "closed"}

(* What a prune has still to delete is in the cache; what is being started *)
(* is not, and will have room.                                             *)
PruneInv == \A s \in Sockets :
    /\ main[s] = "pruning" =>
          /\ IsInjective(expired[s])
          /\ \A conv \in ToSet(expired[s]) : \E e \in Entries : e.conv = conv
    /\ main[s] = "replacing" \/ (main[s] = "starting" /\ Persistent(s)) =>
          \A e \in Entries : e.conv # start[s].conv
    /\ main[s] = "starting" /\ Persistent(s) => Room

(* A deleted thread has been marked, or was that of a one-shot socket.     *)
DeletedInv == \A th \in Threads : deletes[th] > 0 =>
    \/ th \in retired
    \/ \E s \in Sockets :
          ~Persistent(s) /\ uses[s] = th /\ main[s] \in {"deleting", "closed"}

(* A thread is marked as busy for a socket that uses it and has not ended. *)
PendingInv == \A th \in Threads : pending[th] # None =>
    /\ uses[pending[th]] = th
    /\ main[pending[th]] \in {"serving", "stopping", "gathering", "retiring", "disposing"}

IInv == /\ TypeOK /\ LockInv /\ SocketInv /\ RunInv /\ FreshInv /\ CacheInv /\ OwnInv
        /\ PruneInv /\ DeletedInv /\ PendingInv

-----------------------------------------------------------------------------
(* What a prune and the lookup do, entry by entry.                         *)

(* An entry leaves the cache, and the deletion of its thread is asked for. *)
EntryLeaves(conv, th) ==
    /\ Entry(conv, th) \in Entries
    /\ cache' \in Seq(CacheEntry)
    /\ Len(cache') < Len(cache) /\ IsInjective(cache')
    /\ Entries' = Entries \ {Entry(conv, th)}
    /\ deletes[th] = 0 /\ deletes' = [deletes EXCEPT ![th] = 1]

(* The handler of a conversation has the lock.                             *)
HasLock(s) ==
    /\ main[s] \in {"locking", "pruning"}
    /\ Persistent(s) /\ start[s].conv \in Convs
    /\ lock # <<>> /\ Head(lock) = Main(s)
    /\ UNCHANGED <<limit, tools, pending, owner, turnLock, start, had, dispatch, turnVars,
                   exited, created>>

PrunesOne(s) ==
    /\ HasLock(s)
    /\ \E conv \in Convs, th \in Threads, rest \in Seq(Convs) :
          /\ EntryLeaves(conv, th) /\ retired' = retired \cup {th}
          /\ IsInjective(rest)
          /\ \A c \in ToSet(rest) : \E e \in Entries' : e.conv = c
          /\ expired' = [expired EXCEPT ![s] = rest]
    /\ main' = [main EXCEPT ![s] = "pruning"]
    /\ UNCHANGED <<lock, old, uses>>

FindsThread(s) ==
    /\ HasLock(s)
    /\ \E th \in Threads :
          /\ Entry(start[s].conv, th) \in Entries /\ th \notin retired
          /\ uses' = [uses EXCEPT ![s] = th]
          /\ old' = old \ {th}
    /\ cache' \in Seq(CacheEntry)
    /\ Len(cache') <= Len(cache) /\ IsInjective(cache') /\ Entries' = Entries
    /\ expired' = [expired EXCEPT ![s] = <<>>]
    /\ main' = [main EXCEPT ![s] = "announcing"]
    /\ lock' = Tail(lock)
    /\ UNCHANGED <<retired, deletes>>

ReplacesThread(s) ==
    /\ HasLock(s)
    /\ \E th \in Threads : EntryLeaves(start[s].conv, th) /\ retired' = retired \cup {th}
    /\ expired' = [expired EXCEPT ![s] = <<>>]
    /\ main' = [main EXCEPT ![s] = "replacing"]
    /\ UNCHANGED <<lock, old, uses>>

IsRefused(s) ==
    /\ HasLock(s)
    /\ expired' = [expired EXCEPT ![s] = <<>>]
    /\ main' = [main EXCEPT ![s] = "closed"]
    /\ lock' = Tail(lock)
    /\ UNCHANGED <<cache, old, retired, uses, deletes>>

FindsRoom(s) ==
    /\ HasLock(s)
    /\ Room /\ \A e \in Entries : e.conv # start[s].conv
    /\ expired' = [expired EXCEPT ![s] = <<>>]
    /\ main' = [main EXCEPT ![s] = "starting"]
    /\ UNCHANGED <<lock, cache, old, retired, uses, deletes>>

(* thread/start replied: the thread of a one-shot socket, and that of a    *)
(* conversation.                                                           *)
Created(s, th) ==
    /\ main[s] = "starting" /\ th \notin created
    /\ created' = created \cup {th}
    /\ tools' = [tools EXCEPT ![th] = start[s].tools]
    /\ uses' = [uses EXCEPT ![s] = th]
    /\ main' = [main EXCEPT ![s] = "announcing"]
    /\ UNCHANGED <<limit, old, expired, stateVars, start, had, dispatch, turnVars, exited,
                   deletes>>

StartsOwn(s, th) ==
    /\ Created(s, th)
    /\ ~Persistent(s)
    /\ UNCHANGED <<cache, lock>>

StartsCached(s, th) ==
    /\ Created(s, th)
    /\ Persistent(s) /\ start[s].conv \in Convs
    /\ cache' \in Seq(CacheEntry) /\ Len(cache') <= limit /\ IsInjective(cache')
    /\ Entries' = Entries \cup {Entry(start[s].conv, th)}
    /\ \A e \in Entries : e.conv # start[s].conv
    /\ lock # <<>> /\ Head(lock) = Main(s) /\ lock' = Tail(lock)

(* retire_conversation with the lock: the entry of the marked thread goes, *)
(* if it is there.                                                         *)
EntryDropped(s) ==
    /\ s \in Sockets /\ Persistent(s)
    /\ uses[s] \in Threads /\ uses[s] \in retired
    /\ \/ EntryLeaves(start[s].conv, uses[s])
       \/ UNCHANGED <<cache, deletes>>
    /\ lock # <<>> /\ lock' = Tail(lock)
    /\ UNCHANGED <<old, limit, tools, expired, retired, owner, turnLock, start, uses, had,
                   exited, created>>

RunDropsEntry(t) ==
    /\ EntryDropped(of[t])
    /\ Alive(t) /\ run[t] = "retiring" /\ Head(lock) = Task("run", t)
    /\ \E next \in {"disposing", "sending"} : run' = [run EXCEPT ![t] = next]
    /\ UNCHANGED <<pending, main, dispatch, of>>

DispatchDropsEntry(s) ==
    /\ EntryDropped(s)
    /\ dispatch[s] = "retiring" /\ Head(lock) = Dispatcher(s)
    /\ \E next \in {"disposing", "over"} : dispatch' = [dispatch EXCEPT ![s] = next]
    /\ UNCHANGED <<pending, main, turnVars>>

MainDropsEntry(s) ==
    /\ EntryDropped(s)
    /\ main[s] = "retiring" /\ Head(lock) = Main(s)
    /\ \/ main' = [main EXCEPT ![s] = "disposing"] /\ UNCHANGED pending
       \/ main' = [main EXCEPT ![s] = "closed"] /\ ClearsPending(s)
    /\ UNCHANGED <<dispatch, turnVars>>

-----------------------------------------------------------------------------
(* Facts about the helpers.                                                *)

(* Who may wait for the lock of the cache, and that they are told apart.   *)
LEMMA TaskTypes ==
    /\ \A s \in Sockets : Main(s) \in Tasks /\ Dispatcher(s) \in Tasks
    /\ \A t \in Turns : Task("run", t) \in Tasks
    /\ \A s, r \in Sockets : Main(s) = Main(r) => s = r
    /\ \A s, r \in Sockets : Main(s) # Dispatcher(r)
    /\ \A s \in Sockets, t \in Turns : Main(s) # Task("run", t)
  BY DEF Main, Dispatcher, Task, Tasks

(* A task that is cancelled leaves the lock to who has it.                 *)
LEMMA LockLeft ==
    ASSUME TypeOK, NEW task, LeavesLock(task)
    PROVE  /\ lock' \in Seq(Tasks)
           /\ lock # <<>> /\ Head(lock) # task => lock' # <<>> /\ Head(lock') = Head(lock)
<1>1. lock \in Seq(Tasks) /\ lock' = Dropping(lock, {task})
  BY DEF TypeOK, LeavesLock
<1>2. Head(lock) # task => Head(lock) \notin {task}
  OBVIOUS
<1>3. /\ Dropping(lock, {task}) \in Seq(Tasks)
      /\ lock # <<>> /\ Head(lock) \notin {task} =>
            Dropping(lock, {task}) # <<>> /\ Head(Dropping(lock, {task})) = Head(lock)
  <2>1. lock \in Seq(Tasks)
    BY <1>1
  <2>2. QED
    BY <2>1, DroppingKeeps
<1>4. QED
  BY <1>1, <1>2, <1>3

(* Who joins the queue of the lock is behind its holder.                   *)
LEMMA LockJoined ==
    ASSUME TypeOK, NEW task \in Tasks, Queued(task)
    PROVE  /\ lock' \in Seq(Tasks)
           /\ lock # <<>> => lock' # <<>> /\ Head(lock') = Head(lock)
<1>1. lock \in Seq(Tasks)
  BY DEF TypeOK
<1>2. QED
  BY <1>1, AppendSet DEF Queued

(* A cancelled turn leaves the queue of its thread's turn lock.            *)
LEMMA TurnLockLeft ==
    ASSUME TypeOK, NEW t \in Turns, LeavesTurnLock(t)
    PROVE  turnLock' \in [Threads -> Seq(Turns)]
<1>1. \A th \in Threads : Dropping(turnLock[th], {t}) \in Seq(Turns)
  BY DroppingKeeps DEF TypeOK
<1>2. QED
  BY <1>1 DEF TypeOK, LeavesTurnLock

(* What is cached, by its entries.                                         *)
LEMMA CachedEntries ==
    ASSUME TypeOK
    PROVE  /\ Entries \subseteq CacheEntry
           /\ Cached = {e.conv : e \in Entries} /\ Cached \subseteq Convs
           /\ \A e \in Entries : e.conv \in Convs /\ e.thread \in Threads
           /\ cache \in Seq(CacheEntry) /\ DOMAIN cache = 1..Len(cache)
           /\ Len(cache) \in Nat /\ \A i \in 1..Len(cache) : cache[i] \in Entries
<1>1. /\ cache \in Seq(CacheEntry) /\ Len(cache) \in Nat
      /\ DOMAIN cache = 1..Len(cache)
      /\ \A i \in 1..Len(cache) : cache[i] \in CacheEntry
  <2>1. cache \in Seq(CacheEntry)
    BY DEF TypeOK, CacheEntry
  <2>2. QED
    BY <2>1, SeqFacts
<1>2. Entries \subseteq CacheEntry
  BY <1>1 DEF Entries, ToSet
<1>3. \A i \in 1..Len(cache) : cache[i] \in Entries
  BY <1>1 DEF Entries, ToSet
<1>4. Cached = {e.conv : e \in Entries}
  <2>1. \A i \in DOMAIN cache : cache[i].conv \in {e.conv : e \in Entries}
    BY <1>1, <1>3
  <2>2. ASSUME NEW e \in Entries PROVE e.conv \in Cached
    <3>1. PICK i \in DOMAIN cache : e = cache[i]
      BY <2>2 DEF Entries, ToSet
    <3>2. QED
      BY <3>1 DEF Cached
  <2>3. QED
    BY <2>1, <2>2 DEF Cached
<1>5. \A e \in Entries : e.conv \in Convs /\ e.thread \in Threads
  BY <1>2 DEF CacheEntry
<1>6. QED
  BY <1>1, <1>2, <1>3, <1>4, <1>5

(* The thread of a cached conversation.                                    *)
LEMMA CachedThread ==
    ASSUME TypeOK, NEW conv \in Cached
    PROVE  /\ conv \in Convs /\ ThreadOf(conv) \in Threads
           /\ Entry(conv, ThreadOf(conv)) \in Entries
<1>1. PICK e \in Entries : e.conv = conv
  BY CachedEntries
<1>2. e \in [conv : Convs, thread : Threads]
  BY CachedEntries DEF CacheEntry
<1>3. e = [conv |-> conv, thread |-> e.thread] /\ e.thread \in Threads
  BY <1>1, <1>2
<1>4. \E th \in Threads : [conv |-> conv, thread |-> th] \in ToSet(cache)
  BY <1>1, <1>3 DEF Entries
<1>5. ThreadOf(conv) \in Threads /\ [conv |-> conv, thread |-> ThreadOf(conv)] \in ToSet(cache)
  BY <1>4 DEF ThreadOf
<1>6. QED
  BY <1>1, <1>2, <1>5 DEF Entry, Entries

(* A conversation without its entry: the others keep theirs.               *)
LEMMA WithoutEntry ==
    ASSUME TypeOK, CacheInv, NEW conv \in Cached
    PROVE  /\ Without(cache, conv) \in Seq(CacheEntry)
           /\ Len(Without(cache, conv)) < Len(cache)
           /\ IsInjective(Without(cache, conv))
           /\ ToSet(Without(cache, conv)) = Entries \ {Entry(conv, ThreadOf(conv))}
<1> DEFINE gone == [conv : {conv}, thread : Threads]
           entry == Entry(conv, ThreadOf(conv))
<1>1. /\ conv \in Convs /\ entry \in Entries /\ entry.conv = conv
      /\ entry \in gone
  BY CachedThread DEF Entry
<1>2. \A e \in gone : e.conv = conv
  OBVIOUS
<1>3. \A e \in Entries : e \in gone => e = entry
  BY <1>1, <1>2 DEF CacheInv
<1> HIDE DEF gone, entry
<1>4. ToSet(cache) \ gone = ToSet(cache) \ {entry} /\ ToSet(cache) \cap gone # {}
  BY <1>1, <1>3 DEF Entries
<1>5. Without(cache, conv) = Dropping(cache, gone)
  BY DEF Without, gone
<1>6. cache \in Seq(CacheEntry) /\ IsInjective(cache)
  BY CachedEntries DEF CacheInv
<1>7. /\ Dropping(cache, gone) \in Seq(CacheEntry)
      /\ ToSet(Dropping(cache, gone)) = ToSet(cache) \ gone
      /\ IsInjective(Dropping(cache, gone))
      /\ Len(Dropping(cache, gone)) < Len(cache)
  BY <1>4, <1>6, DroppingKeeps
<1>8. QED
  BY <1>4, <1>5, <1>7 DEF Entries, entry

(* Evicting a conversation, for a prune or a change of its tools.          *)
LEMMA EvictsEntry ==
    ASSUME TypeOK, CacheInv, NEW conv \in Cached, Evicts(conv)
    PROVE  /\ EntryLeaves(conv, ThreadOf(conv)) /\ ThreadOf(conv) \in Threads
           /\ retired' = retired \cup {ThreadOf(conv)}
<1>1. ThreadOf(conv) \in Threads /\ Entry(conv, ThreadOf(conv)) \in Entries
  BY CachedThread
<1>2. deletes[ThreadOf(conv)] = 0
  BY <1>1 DEF CacheInv, Entry
<1>3. cache' = Without(cache, conv) /\ deletes' = [deletes EXCEPT ![ThreadOf(conv)] = 1]
  BY <1>1, <1>2 DEF Evicts, Deletes, TypeOK
<1>4. QED
  BY <1>1, <1>2, <1>3, WithoutEntry DEF EntryLeaves, Evicts, Entries

(* retire_conversation drops the entry of the thread it retires, or none.  *)
LEMMA DropsEntry ==
    ASSUME TypeOK, CacheInv, NEW s \in Sockets, Drops(s)
    PROVE  /\ \/ uses[s] \in Threads /\ EntryLeaves(start[s].conv, uses[s])
              \/ UNCHANGED <<cache, deletes>>
           /\ lock' = Tail(lock)
<1> DEFINE conv == start[s].conv
<1>1. CASE IsEntryOf(conv, uses[s])
  <2>1. conv \in Cached /\ ThreadOf(conv) = uses[s]
    BY <1>1 DEF IsEntryOf
  <2>2. uses[s] \in Threads /\ Entry(conv, uses[s]) \in Entries
    BY <2>1, CachedThread
  <2>3. deletes[uses[s]] = 0
    BY <2>2 DEF CacheInv, Entry
  <2>4. cache' = Without(cache, conv) /\ deletes' = [deletes EXCEPT ![uses[s]] = 1]
    BY <1>1, <2>1, <2>2, <2>3 DEF Drops, Deletes, TypeOK
  <2>5. EntryLeaves(conv, uses[s])
    BY <2>1, <2>2, <2>3, <2>4, WithoutEntry DEF EntryLeaves, Entries
  <2>6. QED
    BY <2>2, <2>5 DEF Drops, Releases
<1>2. CASE ~IsEntryOf(conv, uses[s])
  BY <1>2 DEF Drops, Releases
<1>3. QED
  BY <1>1, <1>2

(* What a prune chooses is in the cache, each once.                        *)
LEMMA ExpiredFit ==
    ASSUME TypeOK, CacheInv
    PROVE  /\ Expired \in Seq(Convs) /\ IsInjective(Expired)
           /\ ToSet(Expired) \subseteq {c \in Cached : ~Busy(ThreadOf(c))}
<1> DEFINE busy == {c \in Cached : Busy(ThreadOf(c))}
           fresh == {c \in Cached : ThreadOf(c) \notin old}
           stale == {c \in Cached : ThreadOf(c) \in old}
           convs == [i \in DOMAIN cache |-> cache[i].conv]
           idle == Dropping(convs, busy)
           aged == Dropping(idle, fresh)
           rest == Dropping(idle, stale)
           over == Len(cache) - Len(aged) - limit + 1
           some == IF over < Len(rest) THEN over ELSE Len(rest)
<1>1. Expired = aged \o SubSeq(rest, 1, some)
  BY DEF Expired
<1>2. /\ convs \in Seq(Convs) /\ DOMAIN convs = DOMAIN cache
      /\ ToSet(convs) = Cached /\ IsInjective(convs)
  <2>1. \A i \in 1..Len(cache) : cache[i].conv \in Convs /\ cache[i] \in Entries
    BY CachedEntries
  <2>2. convs \in Seq(Convs)
    BY <2>1, CachedEntries
  <2>3. ToSet(convs) = Cached
    BY CachedEntries DEF ToSet, Cached
  <2>4. \A i, j \in DOMAIN cache : cache[i] = cache[j] => i = j
    BY DEF CacheInv, IsInjective
  <2>5. \A i, j \in 1..Len(cache) : cache[i].conv = cache[j].conv => cache[i] = cache[j]
    BY <2>1 DEF CacheInv
  <2>6. \A i, j \in DOMAIN cache : convs[i] = convs[j] => i = j
    BY <2>4, <2>5, CachedEntries
  <2>7. IsInjective(convs)
    BY <2>6 DEF IsInjective
  <2>8. QED
    BY <2>2, <2>3, <2>7
<1>3. /\ busy \subseteq Cached /\ fresh \cap stale = {} /\ fresh \cup stale = Cached
      /\ Cached \ busy = {c \in Cached : ~Busy(ThreadOf(c))}
  OBVIOUS
<1> HIDE DEF busy, fresh, stale, convs
<1>4. idle \in Seq(Convs) /\ IsInjective(idle) /\ ToSet(idle) = Cached \ busy
  BY <1>2, DroppingKeeps
<1> HIDE DEF idle
<1>5. aged \in Seq(Convs) /\ IsInjective(aged) /\ ToSet(aged) = ToSet(idle) \ fresh
  BY <1>4, DroppingKeeps
<1>6. rest \in Seq(Convs) /\ IsInjective(rest) /\ ToSet(rest) = ToSet(idle) \ stale
  BY <1>4, DroppingKeeps
<1> HIDE DEF aged, rest
<1>7. some \in Int /\ some <= Len(rest)
  <2>1. Len(rest) \in Nat /\ Len(aged) \in Nat /\ Len(cache) \in Nat /\ limit \in Nat
    BY <1>5, <1>6, MaxAssumption DEF TypeOK
  <2>2. QED
    BY <2>1
<1> HIDE DEF some
<1> DEFINE more == SubSeq(rest, 1, some)
<1>8. more \in Seq(Convs) /\ IsInjective(more) /\ ToSet(more) \subseteq ToSet(rest)
  BY <1>6, <1>7, FirstOf
<1> HIDE DEF more
<1>9. ToSet(aged) \cap ToSet(more) = {} /\ ToSet(aged) \cup ToSet(more) \subseteq Cached \ busy
  BY <1>3, <1>4, <1>5, <1>6, <1>8
<1>10. aged \o more \in Seq(Convs) /\ IsInjective(aged \o more)
       /\ ToSet(aged \o more) = ToSet(aged) \cup ToSet(more)
  BY <1>5, <1>8, <1>9, ConcatSet
<1>11. Expired = aged \o more
  BY <1>1 DEF more
<1>12. QED
  BY <1>3, <1>9, <1>10, <1>11

(* The next step of who has the lock is one of the five above.             *)
LEMMA ProceedsSteps ==
    ASSUME TypeOK, CacheInv, NEW s \in Sockets, HasLock(s),
           NEW todo \in Seq(Convs), IsInjective(todo), ToSet(todo) \subseteq Cached,
           Proceeds(s, todo)
    PROVE  PrunesOne(s) \/ FindsThread(s) \/ ReplacesThread(s) \/ IsRefused(s) \/ FindsRoom(s)
<1> DEFINE conv == start[s].conv
           th == ThreadOf(conv)
<1>1. CASE todo # <<>>
  <2> DEFINE first == Head(todo)
             left == Tail(todo)
  <2>1. left \in Seq(Convs) /\ first \in Convs /\ ToSet(todo) = ToSet(left) \cup {first}
    BY <1>1, TailSet
  <2>2. IsInjective(left) /\ first \notin ToSet(left)
    BY <1>1, TailOnce
  <2>3. first \in Cached /\ Evicts(first)
    BY <1>1, <2>1 DEF Proceeds
  <2>4. /\ EntryLeaves(first, ThreadOf(first)) /\ ThreadOf(first) \in Threads
        /\ retired' = retired \cup {ThreadOf(first)}
    BY <2>3, EvictsEntry
  <2>5. /\ expired' = [expired EXCEPT ![s] = left]
        /\ main' = [main EXCEPT ![s] = "pruning"] /\ UNCHANGED <<lock, old, uses>>
    BY <1>1 DEF Proceeds
  <2> HIDE DEF first, left
  <2>6. ASSUME NEW c \in ToSet(left) PROVE \E e \in Entries' : e.conv = c
    <3>1. PICK e \in Entries : e.conv = c
      BY <2>1, CachedEntries
    <3>2. e # Entry(first, ThreadOf(first))
      BY <2>2, <3>1 DEF Entry
    <3>3. e \in Entries'
      BY <2>4, <3>1, <3>2 DEF EntryLeaves
    <3>4. QED
      BY <3>1, <3>3
  <2>7. PrunesOne(s)
    BY <2>1, <2>2, <2>4, <2>5, <2>6 DEF PrunesOne
  <2>8. QED
    BY <2>7
<1>2. CASE todo = <<>>
  <2>1. expired' = [expired EXCEPT ![s] = <<>>] /\ LooksUp(s)
    BY <1>2 DEF Proceeds
  <2>2. CASE conv \in Cached /\ th \notin retired /\ tools[th] = start[s].tools
    <3>1. /\ cache' = Append(Without(cache, conv), Entry(conv, th))
          /\ old' = old \ {th} /\ uses' = [uses EXCEPT ![s] = th]
          /\ main' = [main EXCEPT ![s] = "announcing"]
          /\ lock' = Tail(lock) /\ UNCHANGED <<retired, deletes>>
      BY <2>1, <2>2 DEF LooksUp, Releases, Entry
    <3>2. th \in Threads /\ Entry(conv, th) \in Entries
      BY <2>2, CachedThread
    <3> DEFINE others == Without(cache, conv)
    <3>3. /\ others \in Seq(CacheEntry) /\ Len(others) < Len(cache)
          /\ IsInjective(others) /\ ToSet(others) = Entries \ {Entry(conv, th)}
      BY <2>2, WithoutEntry
    <3> HIDE DEF others
    <3>4. Entry(conv, th) \in CacheEntry
      BY <3>2, CachedEntries
    <3>5. /\ cache' \in Seq(CacheEntry)
          /\ ToSet(cache') = ToSet(others) \cup {Entry(conv, th)}
      <4>1. /\ Append(others, Entry(conv, th)) \in Seq(CacheEntry)
            /\ ToSet(Append(others, Entry(conv, th))) = ToSet(others) \cup {Entry(conv, th)}
        BY <3>3, <3>4, AppendSet
      <4>2. QED
        BY <3>1, <4>1, Zenon DEF others
    <3>6. IsInjective(cache')
      <4>1. Entry(conv, th) \notin ToSet(others)
        BY <3>3
      <4>2. IsInjective(Append(others, Entry(conv, th)))
        BY <3>3, <3>4, <4>1, JoinsOnce
      <4>3. QED
        BY <3>1, <4>2 DEF others
    <3>7. Len(cache') <= Len(cache)
      <4>1. Len(cache') = Len(others) + 1
        BY <3>1, <3>3, <3>4 DEF others
      <4>2. QED
        BY <3>3, <4>1, CachedEntries
    <3>8. Entries' = Entries
      BY <3>2, <3>3, <3>5 DEF Entries
    <3>9. FindsThread(s)
      BY <2>1, <2>2, <3>1, <3>2, <3>5, <3>6, <3>7, <3>8 DEF FindsThread
    <3>10. QED
      BY <3>9
  <2>3. CASE conv \in Cached /\ (th \in retired \/ tools[th] # start[s].tools)
    <3>1. CASE Busy(th)
      BY <2>1, <2>3, <3>1 DEF LooksUp, Refused, Releases, IsRefused
    <3>2. CASE ~Busy(th)
      <4>1. /\ Evicts(conv) /\ main' = [main EXCEPT ![s] = "replacing"]
            /\ UNCHANGED <<lock, old, uses>>
        BY <2>1, <2>3, <3>2 DEF LooksUp
      <4>2. /\ EntryLeaves(conv, th) /\ th \in Threads /\ retired' = retired \cup {th}
        BY <2>3, <4>1, EvictsEntry
      <4>3. QED
        BY <2>1, <4>1, <4>2 DEF ReplacesThread
    <3>3. QED
      BY <3>1, <3>2
  <2>4. CASE conv \notin Cached
    <3>1. \A e \in Entries : e.conv # conv
      BY <2>4, CachedEntries
    <3>2. CASE Room
      BY <2>1, <2>4, <3>1, <3>2 DEF LooksUp, FindsRoom
    <3>3. CASE ~Room
      BY <2>1, <2>4, <3>3 DEF LooksUp, Refused, Releases, IsRefused
    <3>4. QED
      BY <3>2, <3>3
  <2>5. QED
    BY <2>2, <2>3, <2>4
<1>3. QED
  BY <1>1, <1>2

(* So is every step of GetsCache and Pruned.                               *)
LEMMA PruneSteps ==
    ASSUME TypeOK, LockInv, SocketInv, CacheInv, PruneInv, NEW s \in Sockets,
           GetsCache(s) \/ Pruned(s)
    PROVE  PrunesOne(s) \/ FindsThread(s) \/ ReplacesThread(s) \/ IsRefused(s) \/ FindsRoom(s)
<1>1. start[s].conv \in Convs \cup {None}
  BY DEF TypeOK
<1>2. CASE GetsCache(s)
  <2>1. HasLock(s) /\ Proceeds(s, Expired)
    BY <1>1, <1>2 DEF GetsCache, Holds, HasLock, SocketInv, Persistent
  <2>2. QED
    BY <2>1, ExpiredFit, ProceedsSteps
<1>3. CASE Pruned(s)
  <2>1. HasLock(s) /\ Proceeds(s, expired[s]) /\ main[s] = "pruning"
    BY <1>1, <1>3 DEF Pruned, HasLock, LockInv, SocketInv, Persistent
  <2>2. expired[s] \in Seq(Convs) /\ IsInjective(expired[s])
    BY <2>1 DEF TypeOK, PruneInv
  <2>3. ToSet(expired[s]) \subseteq Cached
    BY <2>1, CachedEntries DEF PruneInv
  <2>4. QED
    BY <2>1, <2>2, <2>3, ProceedsSteps
<1>4. QED
  BY <1>2, <1>3

(* The reply to thread/start, entry by entry.                              *)
LEMMA StartSteps ==
    ASSUME TypeOK, LockInv, PruneInv, NEW s \in Sockets, NEW th \in Threads, CacheInv,
           ThreadStarts(s, th)
    PROVE  StartsOwn(s, th) \/ StartsCached(s, th)
<1> DEFINE conv == start[s].conv
<1>1. Created(s, th)
  BY DEF ThreadStarts, Created
<1>2. CASE conv = None
  BY <1>1, <1>2 DEF ThreadStarts, StartsOwn, Persistent
<1>3. CASE conv # None
  <2>1. conv \in Convs /\ Persistent(s)
    BY <1>3 DEF TypeOK, Persistent
  <2>2. /\ lock # <<>> /\ Head(lock) = Main(s) /\ Room
        /\ \A e \in Entries : e.conv # conv
    BY <1>1, <2>1 DEF Created, LockInv, PruneInv
  <2>3. cache' = Append(cache, Entry(conv, th)) /\ lock' = Tail(lock)
    BY <1>3 DEF ThreadStarts, Releases, Entry
  <2>4. /\ cache \in Seq(CacheEntry) /\ Len(cache) \in Nat /\ IsInjective(cache)
        /\ Entry(conv, th) \in CacheEntry
    BY <2>1, CachedEntries DEF CacheInv, Entry, CacheEntry
  <2>5. Entry(conv, th) \notin ToSet(cache)
    BY <2>2 DEF Entries, Entry
  <2>6. /\ Append(cache, Entry(conv, th)) \in Seq(CacheEntry)
        /\ ToSet(Append(cache, Entry(conv, th))) = ToSet(cache) \cup {Entry(conv, th)}
    BY <2>4, AppendSet
  <2>7. IsInjective(Append(cache, Entry(conv, th)))
    BY <2>4, <2>5, JoinsOnce
  <2>8. Len(Append(cache, Entry(conv, th))) = Len(cache) + 1
    BY <2>4
  <2>9. Len(cache') <= limit
    BY <2>2, <2>3, <2>4, <2>8 DEF Room, TypeOK
  <2>10. /\ cache' \in Seq(CacheEntry) /\ IsInjective(cache')
         /\ Entries' = Entries \cup {Entry(conv, th)}
    BY <2>3, <2>6, <2>7 DEF Entries
  <2>11. QED
    BY <1>1, <2>1, <2>2, <2>3, <2>9, <2>10 DEF StartsCached
<1>4. QED
  BY <1>2, <1>3

(* The three who drop the entry of a thread they retired.                  *)
LEMMA RunDropsSteps ==
    ASSUME TypeOK, RunInv, CacheInv, NEW t \in Turns, RunDrops(t)
    PROVE  RunDropsEntry(t)
<1> DEFINE s == of[t]
<1>1. /\ s \in Sockets /\ Persistent(s) /\ uses[s] \in retired /\ Drops(s)
  BY DEF RunDrops, Alive, RunInv, On
<1>2. uses[s] \in Threads
  BY <1>1 DEF TypeOK
<1>3. /\ EntryLeaves(start[s].conv, uses[s]) \/ UNCHANGED <<cache, deletes>>
      /\ lock' = Tail(lock)
  BY <1>1, DropsEntry
<1>4. EntryDropped(s)
  BY <1>1, <1>2, <1>3 DEF EntryDropped, RunDrops, Holds, stateVars, socketVars
<1>5. \E next \in {"disposing", "sending"} : run' = [run EXCEPT ![t] = next]
  BY DEF RunDrops, AfterDrop
<1>6. QED
  BY <1>4, <1>5 DEF RunDropsEntry, RunDrops, Holds, stateVars, socketVars

LEMMA DispatchDropsSteps ==
    ASSUME TypeOK, SocketInv, CacheInv, NEW s \in Sockets, DispatchDrops(s)
    PROVE  DispatchDropsEntry(s)
<1>1. /\ Persistent(s) /\ uses[s] \in retired /\ Drops(s)
  BY DEF DispatchDrops, SocketInv
<1>2. uses[s] \in Threads
  BY <1>1 DEF TypeOK
<1>3. /\ EntryLeaves(start[s].conv, uses[s]) \/ UNCHANGED <<cache, deletes>>
      /\ lock' = Tail(lock)
  BY <1>1, DropsEntry
<1>4. EntryDropped(s)
  BY <1>1, <1>2, <1>3 DEF EntryDropped, DispatchDrops, Holds, stateVars
<1>5. \E next \in {"disposing", "over"} : dispatch' = [dispatch EXCEPT ![s] = next]
  BY DEF DispatchDrops, AfterDrop
<1>6. QED
  BY <1>4, <1>5 DEF DispatchDropsEntry, DispatchDrops, Holds, stateVars

LEMMA MainDropsSteps ==
    ASSUME TypeOK, SocketInv, CacheInv, NEW s \in Sockets, MainDrops(s)
    PROVE  MainDropsEntry(s)
<1>1. /\ Persistent(s) /\ uses[s] \in retired /\ Drops(s)
  BY DEF MainDrops, SocketInv
<1>2. uses[s] \in Threads
  BY <1>1 DEF TypeOK
<1>3. /\ EntryLeaves(start[s].conv, uses[s]) \/ UNCHANGED <<cache, deletes>>
      /\ lock' = Tail(lock)
  BY <1>1, DropsEntry
<1>4. EntryDropped(s)
  BY <1>1, <1>2, <1>3 DEF EntryDropped, MainDrops, Holds
<1>5. \/ main' = [main EXCEPT ![s] = "disposing"] /\ UNCHANGED pending
      \/ main' = [main EXCEPT ![s] = "closed"] /\ ClearsPending(s)
  BY DEF MainDrops
<1>6. QED
  BY <1>4, <1>5 DEF MainDropsEntry, MainDrops, Holds

(* The types.                                                              *)
LEMMA TypeStep ==
    SocketInv /\ RunInv /\ LockInv /\ CacheInv /\ PruneInv /\ OwnInv /\ TypeOK /\ [Next]_vars
       => TypeOK'
<1> SUFFICES ASSUME SocketInv, RunInv, LockInv, CacheInv, PruneInv, OwnInv, TypeOK,
                    [Next]_vars
             PROVE  TypeOK'
  OBVIOUS
<1>1. ASSUME NEW s \in Sockets, NEW conv \in Convs \cup {None}, NEW f \in Tools, Opens(s, conv, f)
      PROVE  TypeOK'
  BY <1>1, TaskTypes, LockJoined DEF Opens, TypeOK, stateVars, turnVars, serverVars
<1>2. ASSUME NEW s \in Sockets, NEW t \in Turns, Schedules(s, t) PROVE TypeOK'
  BY <1>2 DEF Schedules, TypeOK, cacheVars, stateVars, socketVars, turnVars, serverVars
<1>3. ASSUME NEW s \in Sockets, NEW th \in Threads, StartsOwn(s, th) PROVE TypeOK'
  BY <1>3 DEF StartsOwn, Created, TypeOK, cacheVars, stateVars, socketVars, turnVars, serverVars
<1>4. ASSUME NEW s \in Sockets, NEW th \in Threads, StartsCached(s, th) PROVE TypeOK'
  BY <1>4 DEF StartsCached, Created, TypeOK, stateVars, turnVars, CacheEntry
<1>5. ASSUME NEW s \in Sockets, PrunesOne(s) PROVE TypeOK'
  BY <1>5 DEF PrunesOne, HasLock, TypeOK, turnVars, EntryLeaves, CacheEntry
<1>6. ASSUME NEW s \in Sockets, FindsThread(s) PROVE TypeOK'
  BY <1>6 DEF FindsThread, HasLock, TypeOK, turnVars, CacheEntry
<1>7. ASSUME NEW s \in Sockets, ReplacesThread(s) PROVE TypeOK'
  BY <1>7 DEF ReplacesThread, HasLock, TypeOK, turnVars, EntryLeaves, CacheEntry, Persistent
<1>8. ASSUME NEW s \in Sockets, IsRefused(s) PROVE TypeOK'
  BY <1>8 DEF IsRefused, HasLock, TypeOK, cacheVars, stateVars, socketVars, turnVars, serverVars
<1>9. ASSUME NEW s \in Sockets, FindsRoom(s) PROVE TypeOK'
  BY <1>9 DEF FindsRoom, HasLock, TypeOK, cacheVars, stateVars, socketVars, turnVars, serverVars
<1>10. ASSUME NEW s \in Sockets, Replaced(s) PROVE TypeOK'
  <2>1. lock \in Seq(Tasks) /\ lock # <<>>
    BY <1>10 DEF Replaced, LockInv, TypeOK
  <2>2. Tail(lock) \in Seq(Tasks)
    BY <2>1, TailSet
  <2>3. lock' \in Seq(Tasks)
    BY <1>10, <2>1, <2>2 DEF Replaced, Refused, Releases
  <2>4. main' = [main EXCEPT ![s] = "closed"] \/ main' = [main EXCEPT ![s] = "starting"]
    BY <1>10 DEF Replaced, Refused
  <2>5. QED
    BY <1>10, <2>3, <2>4 DEF Replaced, stateVars, turnVars, serverVars, TypeOK
<1>11. ASSUME NEW s \in Sockets, Announced(s) PROVE TypeOK'
  BY <1>11 DEF Announced, TypeOK, cacheVars, stateVars, socketVars, turnVars, serverVars
<1>12. ASSUME NEW s \in Sockets, AnnounceFails(s) PROVE TypeOK'
  BY <1>12 DEF AnnounceFails, TypeOK, cacheVars, stateVars, socketVars, turnVars, serverVars
<1>13. ASSUME NEW s \in Sockets, ThreadFails(s) PROVE TypeOK'
  <2>1. lock' \in Seq(Tasks)
    <3>1. start[s].conv # None => lock \in Seq(Tasks) /\ lock # <<>>
      BY <1>13 DEF ThreadFails, LockInv, Persistent, TypeOK
    <3>2. CASE start[s].conv = None
      BY <1>13, <3>2 DEF ThreadFails, TypeOK
    <3>3. CASE start[s].conv # None
      BY <1>13, <3>1, <3>3, TailSet DEF ThreadFails, Releases
    <3>4. QED
      BY <3>2, <3>3
  <2>2. QED
    BY <1>13, <2>1 DEF ThreadFails, stateVars, turnVars, serverVars, TypeOK
<1>14. ASSUME NEW s \in Sockets, Stops(s) PROVE TypeOK'
  <2>1. uses[s] \in Threads
    BY <1>14 DEF Stops, SocketInv, TypeOK
  <2>2. had' \subseteq Sockets /\ retired' \subseteq Threads
    BY <1>14, <2>1 DEF Stops, TypeOK
  <2>3. main' = [main EXCEPT ![s] = "stopping"] \/ main' = [main EXCEPT ![s] = "gathering"]
    BY <1>14 DEF Stops
  <2>4. QED
    BY <1>14, <2>2, <2>3 DEF Stops, cacheVars, turnVars, serverVars, TypeOK
<1>15. ASSUME NEW s \in Sockets, Interrupted(s) PROVE TypeOK'
  BY <1>15 DEF Interrupted, TypeOK, cacheVars, stateVars, socketVars, turnVars, serverVars
<1>16. ASSUME NEW s \in Sockets, Gathered(s) PROVE TypeOK'
  <2>1. lock' \in Seq(Tasks)
    BY <1>16, TaskTypes, LockJoined DEF Gathered, TypeOK
  <2>2. CASE s \in had /\ Persistent(s)
    BY <1>16, <2>1, <2>2 DEF Gathered, turnVars, TypeOK
  <2>3. CASE ~(s \in had /\ Persistent(s))
    <3>1. deletes' \in [Threads -> 0..2]
      <4>1. deletes \in [Threads -> 0..2] /\ uses[s] \in Threads
        BY <1>16 DEF Gathered, SocketInv, TypeOK
      <4>2. ~Persistent(s) => deletes[uses[s]] = 0
        BY <1>16, <4>1, NoneAssumption DEF Gathered, OwnInv
      <4>3. \/ UNCHANGED deletes
            \/ ~Persistent(s) /\ deletes' = [deletes EXCEPT ![uses[s]] = deletes[uses[s]] + 1]
        BY <1>16, <2>3 DEF Gathered, Leaves, Deletes
      <4>4. QED
        BY <4>1, <4>2, <4>3
    <3>2. pending' \in [Threads -> Sockets \cup {None}]
      <4>1. pending \in [Threads -> Sockets \cup {None}]
        BY DEF TypeOK
      <4>2. pending' = [pending EXCEPT ![uses[s]] =
                          IF pending[uses[s]] = s THEN None ELSE pending[uses[s]]]
        BY <1>16, <2>3 DEF Gathered, Leaves, ClearsPending
      <4>3. QED
        BY <4>1, <4>2
    <3>3. main'[s] \in {"closed", "deleting"} /\ main' = [main EXCEPT ![s] = main'[s]]
      BY <1>16, <2>3 DEF Gathered, Leaves, TypeOK
    <3>4. QED
      BY <1>16, <2>1, <2>3, <3>1, <3>2, <3>3 DEF Gathered, turnVars, TypeOK
  <2>4. QED
    BY <2>2, <2>3
<1>17. ASSUME NEW s \in Sockets, MainDropsEntry(s) PROVE TypeOK'
  <2>1. EntryDropped(s)
    BY <1>17 DEF MainDropsEntry
  <2>2. lock' \in Seq(Tasks)
    <3>1. lock \in Seq(Tasks)
      BY DEF TypeOK
    <3>2. QED
      BY <2>1, <3>1, TailSet DEF EntryDropped
  <2>3. cache' \in Seq([conv : Convs, thread : Threads]) /\ Len(cache') <= limit
    <3>1. CASE UNCHANGED cache
      BY <3>1 DEF TypeOK
    <3>2. CASE EntryLeaves(start[s].conv, uses[s])
      <4>1. /\ cache' \in Seq(CacheEntry) /\ Len(cache') < Len(cache) /\ Len(cache') \in Nat
        BY <3>2, SeqFacts DEF EntryLeaves
      <4>2. Len(cache) \in Nat /\ Len(cache) <= limit /\ limit \in Nat
        BY CachedEntries, MaxAssumption DEF TypeOK
      <4>3. QED
        BY <4>1, <4>2 DEF CacheEntry
    <3>3. QED
      BY <2>1, <3>1, <3>2 DEF EntryDropped
  <2>4. deletes' \in [Threads -> 0..2]
    <3>1. deletes \in [Threads -> 0..2]
      BY DEF TypeOK
    <3>2. UNCHANGED deletes \/ deletes' = [deletes EXCEPT ![uses[s]] = 1]
      BY <2>1 DEF EntryDropped, EntryLeaves
    <3>3. QED
      BY <3>1, <3>2
  <2>5. QED
    BY <1>17, <2>1, <2>2, <2>3, <2>4
       DEF MainDropsEntry, EntryDropped, ClearsPending, turnVars, TypeOK
<1>18. ASSUME NEW s \in Sockets, MainDisposed(s) PROVE TypeOK'
  BY <1>18
     DEF MainDisposed, ClearsPending, TypeOK, cacheVars, stateVars, socketVars, turnVars,
         serverVars
<1>19. ASSUME NEW s \in Sockets, DispatchRetires(s) PROVE TypeOK'
  BY <1>19, TaskTypes, LockJoined
     DEF DispatchRetires, Retires, AfterMark, TypeOK, turnVars, serverVars, SocketInv
<1>20. ASSUME NEW s \in Sockets, DispatchDropsEntry(s) PROVE TypeOK'
  <2>1. EntryDropped(s)
    BY <1>20 DEF DispatchDropsEntry
  <2>2. lock' \in Seq(Tasks)
    <3>1. lock \in Seq(Tasks)
      BY DEF TypeOK
    <3>2. QED
      BY <2>1, <3>1, TailSet DEF EntryDropped
  <2>3. cache' \in Seq([conv : Convs, thread : Threads]) /\ Len(cache') <= limit
    <3>1. CASE UNCHANGED cache
      BY <3>1 DEF TypeOK
    <3>2. CASE EntryLeaves(start[s].conv, uses[s])
      <4>1. /\ cache' \in Seq(CacheEntry) /\ Len(cache') < Len(cache) /\ Len(cache') \in Nat
        BY <3>2, SeqFacts DEF EntryLeaves
      <4>2. Len(cache) \in Nat /\ Len(cache) <= limit /\ limit \in Nat
        BY CachedEntries, MaxAssumption DEF TypeOK
      <4>3. QED
        BY <4>1, <4>2 DEF CacheEntry
    <3>3. QED
      BY <2>1, <3>1, <3>2 DEF EntryDropped
  <2>4. deletes' \in [Threads -> 0..2]
    <3>1. deletes \in [Threads -> 0..2]
      BY DEF TypeOK
    <3>2. UNCHANGED deletes \/ deletes' = [deletes EXCEPT ![uses[s]] = 1]
      BY <2>1 DEF EntryDropped, EntryLeaves
    <3>3. QED
      BY <3>1, <3>2
  <2>5. QED
    BY <1>20, <2>1, <2>2, <2>3, <2>4 DEF DispatchDropsEntry, EntryDropped, turnVars, TypeOK
<1>21. ASSUME NEW s \in Sockets, DispatchDisposed(s) PROVE TypeOK'
  BY <1>21 DEF DispatchDisposed, TypeOK, cacheVars, stateVars, socketVars, turnVars, serverVars
<1>22. ASSUME NEW s \in Sockets, DispatchCancelled(s) PROVE TypeOK'
  BY <1>22, LockLeft DEF DispatchCancelled, TypeOK, stateVars, turnVars, serverVars
<1>23. ASSUME NEW t \in Turns, WaitsForTurn(t) PROVE TypeOK'
  <2>1. \A th \in Threads : Append(turnLock[th], t) \in Seq(Turns)
    BY DEF TypeOK
  <2>2. turnLock' \in [Threads -> Seq(Turns)]
    BY <1>23, <2>1 DEF WaitsForTurn, TypeOK
  <2>3. QED
    BY <1>23, <2>2 DEF WaitsForTurn, cacheVars, socketVars, serverVars, TypeOK
<1>24. ASSUME NEW t \in Turns, TakesTurn(t) PROVE TypeOK'
  BY <1>24 DEF TakesTurn, On, Alive, TypeOK, cacheVars, socketVars, serverVars, SocketInv, RunInv
<1>25. ASSUME NEW t \in Turns, FindsRetired(t) PROVE TypeOK'
  BY <1>25, TaskTypes, LockJoined, TurnLockLeft
     DEF FindsRetired, Retires, AfterMark, Usable, TypeOK, socketVars, serverVars
<1>26. ASSUME NEW t \in Turns, Completes(t) PROVE TypeOK'
  BY <1>26, TurnLockLeft
     DEF Completes, GivesUpPending, FreesTurn, TypeOK, cacheVars, socketVars, serverVars
<1>27. ASSUME NEW t \in Turns, TurnFails(t) PROVE TypeOK'
  <2>1. of[t] \in Sockets /\ On(t) \in Threads
    BY <1>27 DEF TurnFails, Alive, RunInv, SocketInv, On, TypeOK
  <2>2. lock' \in Seq(Tasks)
    <3>1. CASE Persistent(of[t])
      BY <1>27, <3>1, TaskTypes, LockJoined DEF TurnFails, Retires
    <3>2. CASE ~Persistent(of[t])
      BY <1>27, <3>2 DEF TurnFails, Retires, TypeOK
    <3>3. QED
      BY <3>1, <3>2
  <2>3. turnLock' \in [Threads -> Seq(Turns)]
    BY <1>27, TurnLockLeft DEF TurnFails, FreesTurn
  <2>4. /\ owner' \in [Threads -> Sockets \cup {None}]
        /\ retired' \subseteq Threads
        /\ run' \in [Turns -> {"unborn", "scheduled", "locking", "turn", "retiring",
                              "disposing", "sending", "over"}]
    BY <1>27, <2>1 DEF TurnFails, FreesTurn, Retires, AfterMark, TypeOK
  <2>5. QED
    BY <1>27, <2>2, <2>3, <2>4 DEF TurnFails, socketVars, serverVars, TypeOK
<1>28. ASSUME NEW t \in Turns, Sent(t) PROVE TypeOK'
  BY <1>28
     DEF Sent, GivesUpPending, TypeOK, cacheVars, stateVars, socketVars, turnVars, serverVars
<1>29. ASSUME NEW t \in Turns, RunDropsEntry(t) PROVE TypeOK'
  <2>1. EntryDropped(of[t])
    BY <1>29 DEF RunDropsEntry
  <2>2. lock' \in Seq(Tasks)
    <3>1. lock \in Seq(Tasks)
      BY DEF TypeOK
    <3>2. QED
      BY <2>1, <3>1, TailSet DEF EntryDropped
  <2>3. cache' \in Seq([conv : Convs, thread : Threads]) /\ Len(cache') <= limit
    <3>1. CASE UNCHANGED cache
      BY <3>1 DEF TypeOK
    <3>2. CASE EntryLeaves(start[of[t]].conv, uses[of[t]])
      <4>1. /\ cache' \in Seq(CacheEntry) /\ Len(cache') < Len(cache) /\ Len(cache') \in Nat
        BY <3>2, SeqFacts DEF EntryLeaves
      <4>2. Len(cache) \in Nat /\ Len(cache) <= limit /\ limit \in Nat
        BY CachedEntries, MaxAssumption DEF TypeOK
      <4>3. QED
        BY <4>1, <4>2 DEF CacheEntry
    <3>3. QED
      BY <2>1, <3>1, <3>2 DEF EntryDropped
  <2>4. deletes' \in [Threads -> 0..2]
    <3>1. deletes \in [Threads -> 0..2]
      BY DEF TypeOK
    <3>2. UNCHANGED deletes \/ deletes' = [deletes EXCEPT ![uses[of[t]]] = 1]
      BY <2>1 DEF EntryDropped, EntryLeaves
    <3>3. QED
      BY <3>1, <3>2
  <2>5. QED
    BY <1>29, <2>1, <2>2, <2>3, <2>4 DEF RunDropsEntry, EntryDropped, TypeOK
<1>30. ASSUME NEW t \in Turns, RunDisposed(t) PROVE TypeOK'
  BY <1>30 DEF RunDisposed, TypeOK, cacheVars, stateVars, socketVars, turnVars, serverVars
<1>31. ASSUME NEW t \in Turns, RunCancelled(t) PROVE TypeOK'
  <2>1. lock' \in Seq(Tasks) /\ turnLock' \in [Threads -> Seq(Turns)]
    BY <1>31, LockLeft, TurnLockLeft DEF RunCancelled
  <2>2. owner' \in [Threads -> Sockets \cup {None}]
    <3>1. owner \in [Threads -> Sockets \cup {None}]
      BY DEF TypeOK
    <3>2. owner' = owner \/ owner' = [owner EXCEPT ![On(t)] = None]
      BY <1>31 DEF RunCancelled
    <3>3. QED
      BY <3>1, <3>2
  <2>3. pending' \in [Threads -> Sockets \cup {None}]
    <3>1. pending \in [Threads -> Sockets \cup {None}]
      BY DEF TypeOK
    <3>2. \/ pending' = pending
          \/ pending' = [pending EXCEPT ![On(t)] =
                             IF pending[On(t)] = of[t] THEN None ELSE pending[On(t)]]
      BY <1>31 DEF RunCancelled, GivesUpPending
    <3>3. QED
      BY <3>1, <3>2
  <2>4. run' = [run EXCEPT ![t] = "over"] /\ UNCHANGED <<limit, cache, old, tools, expired>>
    BY <1>31 DEF RunCancelled
  <2>5. UNCHANGED <<retired, socketVars, of, serverVars>>
    BY <1>31 DEF RunCancelled
  <2>6. QED
    BY <2>1, <2>2, <2>3, <2>4, <2>5 DEF socketVars, serverVars, TypeOK
<1>32. ASSUME NEW th \in Threads, Ages(th) PROVE TypeOK'
  BY <1>32 DEF Ages, TypeOK, cacheVars, stateVars, socketVars, turnVars, serverVars
<1>33. ASSUME AppServerExits PROVE TypeOK'
  BY <1>33 DEF AppServerExits, TypeOK, cacheVars, stateVars, socketVars, turnVars, serverVars
<1>34. CASE UNCHANGED vars
  BY <1>34 DEF vars, cacheVars, stateVars, socketVars, turnVars, serverVars, TypeOK
<1> QED
  BY <1>1, <1>2, <1>3, <1>4, <1>5, <1>6, <1>7, <1>8, <1>9, <1>10, <1>11, <1>12, <1>13, <1>14,
     <1>15, <1>16, <1>17, <1>18, <1>19, <1>20, <1>21, <1>22, <1>23, <1>24, <1>25, <1>26,
     <1>27, <1>28, <1>29, <1>30, <1>31, <1>32, <1>33, <1>34, PruneSteps, StartSteps,
     RunDropsSteps, DispatchDropsSteps, MainDropsSteps
     DEF Next, MainStep, DispatchStep, RunStep

(* The lock of the cache is held where it must be.                         *)
LEMMA LockStep ==
    TypeOK /\ SocketInv /\ RunInv /\ CacheInv /\ PruneInv /\ LockInv /\ [Next]_vars =>
       LockInv'
<1> SUFFICES ASSUME TypeOK, SocketInv, RunInv, CacheInv, PruneInv, LockInv, [Next]_vars
             PROVE  LockInv'
  OBVIOUS
<1>1. ASSUME NEW s \in Sockets, NEW t \in Turns, Schedules(s, t)
      PROVE  LockInv'
  <2>1. UNCHANGED <<main, start, lock>>
    BY <1>1 DEF Schedules, cacheVars, stateVars, socketVars, turnVars, serverVars
  <2>2. QED
    BY <2>1 DEF LockInv, Persistent
<1>2. ASSUME NEW s \in Sockets, DispatchDisposed(s)
      PROVE  LockInv'
  <2>1. UNCHANGED <<main, start, lock>>
    BY <1>2 DEF DispatchDisposed, cacheVars, stateVars, socketVars, turnVars, serverVars
  <2>2. QED
    BY <2>1 DEF LockInv, Persistent
<1>3. ASSUME NEW t \in Turns, WaitsForTurn(t) \/ TakesTurn(t) \/ Completes(t) \/ Sent(t) \/
                RunDisposed(t)
      PROVE  LockInv'
  <2>1. UNCHANGED <<main, start, lock>>
    BY <1>3
       DEF WaitsForTurn, TakesTurn, Completes, Sent, RunDisposed, cacheVars, stateVars,
           socketVars, turnVars, serverVars
  <2>2. QED
    BY <2>1 DEF LockInv, Persistent
<1>4. ASSUME NEW th \in Threads, Ages(th)
      PROVE  LockInv'
  <2>1. UNCHANGED <<main, start, lock>>
    BY <1>4 DEF Ages, cacheVars, stateVars, socketVars, turnVars, serverVars
  <2>2. QED
    BY <2>1 DEF LockInv, Persistent
<1>5. ASSUME AppServerExits
      PROVE  LockInv'
  <2>1. UNCHANGED <<main, start, lock>>
    BY <1>5 DEF AppServerExits, cacheVars, stateVars, socketVars, turnVars, serverVars
  <2>2. QED
    BY <2>1 DEF LockInv, Persistent
<1>6. ASSUME NEW s \in Sockets, NEW conv \in Convs \cup {None}, NEW f \in Tools, Opens(s, conv, f)
      PROVE  LockInv'
  BY <1>6, TaskTypes, LockJoined DEF Opens, Persistent, LockInv, TypeOK, stateVars
<1>7. ASSUME NEW s \in Sockets, NEW th \in Threads, StartsOwn(s, th) PROVE LockInv'
  BY <1>7 DEF StartsOwn, Created, LockInv, Persistent
<1>8. ASSUME NEW s \in Sockets, NEW th \in Threads, StartsCached(s, th) PROVE LockInv'
  BY <1>8, TaskTypes DEF StartsCached, Created, LockInv, Persistent, TypeOK
<1>9. ASSUME NEW s \in Sockets, PrunesOne(s) PROVE LockInv'
  BY <1>9 DEF PrunesOne, HasLock, LockInv, Persistent
<1>10. ASSUME NEW s \in Sockets, FindsThread(s) PROVE LockInv'
  BY <1>10, TaskTypes DEF FindsThread, HasLock, LockInv, Persistent, TypeOK
<1>11. ASSUME NEW s \in Sockets, ReplacesThread(s) PROVE LockInv'
  BY <1>11 DEF ReplacesThread, HasLock, LockInv, Persistent
<1>12. ASSUME NEW s \in Sockets, IsRefused(s) PROVE LockInv'
  BY <1>12, TaskTypes DEF IsRefused, HasLock, LockInv, Persistent, TypeOK
<1>13. ASSUME NEW s \in Sockets, FindsRoom(s) PROVE LockInv'
  BY <1>13 DEF FindsRoom, HasLock, LockInv, Persistent
<1>14. ASSUME NEW s \in Sockets, Replaced(s) PROVE LockInv'
  BY <1>14, TaskTypes DEF Replaced, Refused, LockInv, Persistent, TypeOK, stateVars
<1>15. ASSUME NEW s \in Sockets, Announced(s) PROVE LockInv'
  BY <1>15 DEF Announced, LockInv, Persistent, cacheVars
<1>16. ASSUME NEW s \in Sockets, AnnounceFails(s) PROVE LockInv'
  BY <1>16 DEF AnnounceFails, LockInv, Persistent, cacheVars
<1>17. ASSUME NEW s \in Sockets, ThreadFails(s) PROVE LockInv'
  BY <1>17, TaskTypes DEF ThreadFails, Persistent, LockInv, TypeOK, stateVars
<1>18. ASSUME NEW s \in Sockets, Stops(s) PROVE LockInv'
  BY <1>18 DEF Stops, LockInv, Persistent, TypeOK, cacheVars
<1>19. ASSUME NEW s \in Sockets, Interrupted(s) PROVE LockInv'
  BY <1>19 DEF Interrupted, LockInv, Persistent, cacheVars
<1>20. ASSUME NEW s \in Sockets, Gathered(s) PROVE LockInv'
  BY <1>20, TaskTypes, LockJoined DEF Gathered, Leaves, Persistent, LockInv, TypeOK, turnVars
<1>21. ASSUME NEW s \in Sockets, MainDropsEntry(s) PROVE LockInv'
  BY <1>21, TaskTypes DEF MainDropsEntry, EntryDropped, LockInv, Persistent, TypeOK, turnVars
<1>22. ASSUME NEW s \in Sockets, MainDisposed(s) PROVE LockInv'
  BY <1>22 DEF MainDisposed, LockInv, Persistent, cacheVars
<1>23. ASSUME NEW s \in Sockets, DispatchRetires(s) PROVE LockInv'
  BY <1>23, TaskTypes, LockJoined DEF DispatchRetires, Retires, Persistent, LockInv
<1>24. ASSUME NEW s \in Sockets, DispatchDropsEntry(s) PROVE LockInv'
  BY <1>24, TaskTypes DEF DispatchDropsEntry, EntryDropped, LockInv, Persistent, turnVars
<1>25. ASSUME NEW s \in Sockets, DispatchCancelled(s) PROVE LockInv'
  BY <1>25, TaskTypes, LockLeft, LockJoined
     DEF DispatchCancelled, LockInv, Persistent, stateVars, turnVars, serverVars, SocketInv,
         RunInv, CacheInv
<1>26. ASSUME NEW t \in Turns, FindsRetired(t) PROVE LockInv'
  BY <1>26, TaskTypes, LockJoined DEF FindsRetired, Retires, Persistent, LockInv, socketVars
<1>27. ASSUME NEW t \in Turns, TurnFails(t) PROVE LockInv'
  BY <1>27, TaskTypes, LockJoined DEF TurnFails, Retires, Persistent, LockInv, socketVars
<1>28. ASSUME NEW t \in Turns, RunDropsEntry(t) PROVE LockInv'
  BY <1>28, TaskTypes DEF RunDropsEntry, EntryDropped, LockInv, Persistent
<1>29. ASSUME NEW t \in Turns, RunCancelled(t) PROVE LockInv'
  <2>1. lock # <<>> /\ Head(lock) # Task("run", t) => lock' # <<>> /\ Head(lock') = Head(lock)
    BY <1>29, LockLeft DEF RunCancelled
  <2>2. UNCHANGED <<main, start>>
    BY <1>29 DEF RunCancelled, socketVars
  <2>3. QED
    BY <2>1, <2>2, TaskTypes DEF LockInv, Persistent
<1>30. CASE UNCHANGED vars
  BY <1>30
     DEF vars, cacheVars, stateVars, socketVars, turnVars, serverVars, LockInv, Persistent
<1> QED
  BY <1>1, <1>2, <1>3, <1>4, <1>5, <1>6, <1>7, <1>8, <1>9, <1>10, <1>11, <1>12, <1>13, <1>14,
     <1>15, <1>16, <1>17, <1>18, <1>19, <1>20, <1>21, <1>22, <1>23, <1>24, <1>25, <1>26,
     <1>27, <1>28, <1>29, <1>30, PruneSteps, StartSteps, RunDropsSteps, DispatchDropsSteps,
     MainDropsSteps
     DEF Next, MainStep, DispatchStep, RunStep

(* What a socket has, and what has been marked.                            *)
LEMMA SocketStep ==
    TypeOK /\ RunInv /\ LockInv /\ CacheInv /\ PruneInv /\ OwnInv /\ SocketInv /\ [Next]_vars
       => SocketInv'
<1> SUFFICES ASSUME TypeOK, RunInv, LockInv, CacheInv, PruneInv, OwnInv, SocketInv,
                    [Next]_vars
             PROVE  SocketInv'
  OBVIOUS
<1>1. ASSUME NEW s \in Sockets, NEW t \in Turns, Schedules(s, t)
      PROVE  SocketInv'
  <2>1. UNCHANGED <<main, start, uses, dispatch, retired, had>>
    BY <1>1 DEF Schedules, cacheVars, stateVars, socketVars, turnVars, serverVars
  <2>2. QED
    BY <2>1 DEF SocketInv, Persistent
<1>2. ASSUME NEW t \in Turns, WaitsForTurn(t) \/ TakesTurn(t) \/ Completes(t) \/ Sent(t) \/
                RunDropsEntry(t) \/ RunDisposed(t) \/ RunCancelled(t)
      PROVE  SocketInv'
  <2>1. UNCHANGED <<main, start, uses, dispatch, retired, had>>
    BY <1>2
       DEF WaitsForTurn, TakesTurn, Completes, Sent, RunDropsEntry, RunDisposed, RunCancelled,
           EntryDropped, cacheVars, stateVars, socketVars, turnVars, serverVars
  <2>2. QED
    BY <2>1 DEF SocketInv, Persistent
<1>3. ASSUME NEW th \in Threads, Ages(th)
      PROVE  SocketInv'
  <2>1. UNCHANGED <<main, start, uses, dispatch, retired, had>>
    BY <1>3 DEF Ages, cacheVars, stateVars, socketVars, turnVars, serverVars
  <2>2. QED
    BY <2>1 DEF SocketInv, Persistent
<1>4. ASSUME AppServerExits
      PROVE  SocketInv'
  <2>1. UNCHANGED <<main, start, uses, dispatch, retired, had>>
    BY <1>4 DEF AppServerExits, cacheVars, stateVars, socketVars, turnVars, serverVars
  <2>2. QED
    BY <2>1 DEF SocketInv, Persistent
<1>5. ASSUME NEW s \in Sockets, NEW conv \in Convs \cup {None}, NEW f \in Tools, Opens(s, conv, f)
      PROVE  SocketInv'
  BY <1>5 DEF Opens, Persistent, SocketInv, TypeOK, stateVars
<1>6. ASSUME NEW s \in Sockets, NEW th \in Threads, StartsOwn(s, th) PROVE SocketInv'
  <2>1. /\ main[s] = "starting" /\ main' = [main EXCEPT ![s] = "announcing"]
        /\ uses' = [uses EXCEPT ![s] = th] /\ UNCHANGED <<start, dispatch, retired, had>>
    BY <1>6 DEF StartsOwn, Created, stateVars
  <2>2. s \notin had
    BY <2>1, NoneAssumption DEF SocketInv, TypeOK
  <2>3. QED
    BY <2>1, <2>2, NoneAssumption DEF SocketInv, TypeOK, Persistent
<1>7. ASSUME NEW s \in Sockets, NEW th \in Threads, StartsCached(s, th) PROVE SocketInv'
  <2>1. /\ main[s] = "starting" /\ main' = [main EXCEPT ![s] = "announcing"]
        /\ uses' = [uses EXCEPT ![s] = th] /\ UNCHANGED <<start, dispatch, retired, had>>
    BY <1>7 DEF StartsCached, Created, stateVars
  <2>2. s \notin had
    BY <2>1, NoneAssumption DEF SocketInv, TypeOK
  <2>3. QED
    BY <2>1, <2>2, NoneAssumption DEF SocketInv, TypeOK, Persistent
<1>8. ASSUME NEW s \in Sockets, PrunesOne(s) PROVE SocketInv'
  BY <1>8 DEF PrunesOne, HasLock, SocketInv, Persistent
<1>9. ASSUME NEW s \in Sockets, FindsThread(s) PROVE SocketInv'
  <2>1. PICK th \in Threads : uses' = [uses EXCEPT ![s] = th]
    BY <1>9 DEF FindsThread
  <2>2. /\ main[s] \in {"locking", "pruning"} /\ main' = [main EXCEPT ![s] = "announcing"]
        /\ UNCHANGED <<start, dispatch, retired, had>>
    BY <1>9 DEF FindsThread, HasLock
  <2>3. s \notin had
    BY <2>2, NoneAssumption DEF SocketInv, TypeOK
  <2>4. QED
    BY <2>1, <2>2, <2>3, NoneAssumption DEF SocketInv, TypeOK, Persistent
<1>10. ASSUME NEW s \in Sockets, ReplacesThread(s) PROVE SocketInv'
  BY <1>10 DEF ReplacesThread, HasLock, SocketInv, Persistent
<1>11. ASSUME NEW s \in Sockets, IsRefused(s) PROVE SocketInv'
  BY <1>11 DEF IsRefused, HasLock, SocketInv, Persistent
<1>12. ASSUME NEW s \in Sockets, FindsRoom(s) PROVE SocketInv'
  BY <1>12 DEF FindsRoom, HasLock, SocketInv, Persistent
<1>13. ASSUME NEW s \in Sockets, Replaced(s) PROVE SocketInv'
  BY <1>13 DEF Replaced, Refused, SocketInv, Persistent, TypeOK, stateVars
<1>14. ASSUME NEW s \in Sockets, Announced(s) PROVE SocketInv'
  BY <1>14 DEF Announced, SocketInv, Persistent, TypeOK, stateVars
<1>15. ASSUME NEW s \in Sockets, AnnounceFails(s) PROVE SocketInv'
  BY <1>15 DEF AnnounceFails, SocketInv, Persistent, stateVars
<1>16. ASSUME NEW s \in Sockets, ThreadFails(s) PROVE SocketInv'
  BY <1>16 DEF ThreadFails, Persistent, SocketInv, stateVars
<1>17. ASSUME NEW s \in Sockets, Stops(s) PROVE SocketInv'
  BY <1>17 DEF Stops, SocketInv, Persistent, TypeOK
<1>18. ASSUME NEW s \in Sockets, Interrupted(s) PROVE SocketInv'
  BY <1>18 DEF Interrupted, SocketInv, Persistent, stateVars
<1>19. ASSUME NEW s \in Sockets, Gathered(s) PROVE SocketInv'
  BY <1>19 DEF Gathered, Leaves, Persistent, SocketInv, TypeOK, serverVars
<1>20. ASSUME NEW s \in Sockets, MainDropsEntry(s) PROVE SocketInv'
  BY <1>20 DEF MainDropsEntry, EntryDropped, SocketInv, Persistent, TypeOK, serverVars
<1>21. ASSUME NEW s \in Sockets, MainDisposed(s) PROVE SocketInv'
  BY <1>21 DEF MainDisposed, SocketInv, Persistent
<1>22. ASSUME NEW s \in Sockets, DispatchRetires(s) PROVE SocketInv'
  BY <1>22 DEF DispatchRetires, Retires, AfterMark, Persistent, SocketInv
<1>23. ASSUME NEW s \in Sockets, DispatchDropsEntry(s) PROVE SocketInv'
  BY <1>23 DEF DispatchDropsEntry, EntryDropped, SocketInv, Persistent
<1>24. ASSUME NEW s \in Sockets, DispatchDisposed(s) PROVE SocketInv'
  BY <1>24 DEF DispatchDisposed, SocketInv, Persistent, stateVars
<1>25. ASSUME NEW s \in Sockets, DispatchCancelled(s) PROVE SocketInv'
  BY <1>25 DEF DispatchCancelled, SocketInv, Persistent, stateVars
<1>26. ASSUME NEW t \in Turns, FindsRetired(t) PROVE SocketInv'
  BY <1>26 DEF FindsRetired, Retires, Persistent, SocketInv, socketVars
<1>27. ASSUME NEW t \in Turns, TurnFails(t) PROVE SocketInv'
  BY <1>27 DEF TurnFails, Retires, Persistent, SocketInv, socketVars
<1>28. CASE UNCHANGED vars
  BY <1>28
     DEF vars, cacheVars, stateVars, socketVars, turnVars, serverVars, SocketInv, Persistent
<1> QED
  BY <1>1, <1>2, <1>3, <1>4, <1>5, <1>6, <1>7, <1>8, <1>9, <1>10, <1>11, <1>12, <1>13, <1>14,
     <1>15, <1>16, <1>17, <1>18, <1>19, <1>20, <1>21, <1>22, <1>23, <1>24, <1>25, <1>26,
     <1>27, <1>28, PruneSteps, StartSteps, RunDropsSteps, DispatchDropsSteps, MainDropsSteps
     DEF Next, MainStep, DispatchStep, RunStep

(* What the socket of a run_turn task has.                                 *)
LEMMA TurnStep ==
    TypeOK /\ SocketInv /\ LockInv /\ CacheInv /\ PruneInv /\ RunInv /\ [Next]_vars => RunInv'
<1> SUFFICES ASSUME TypeOK, SocketInv, LockInv, CacheInv, PruneInv, RunInv, [Next]_vars
             PROVE  RunInv'
  OBVIOUS
<1>1. ASSUME NEW s \in Sockets, DispatchDropsEntry(s) \/ DispatchDisposed(s) \/
                DispatchCancelled(s)
      PROVE  RunInv'
  <2>1. UNCHANGED <<run, of, main, uses, start, retired>>
    BY <1>1
       DEF DispatchDropsEntry, DispatchDisposed, DispatchCancelled, EntryDropped, cacheVars,
           stateVars, socketVars, turnVars, serverVars
  <2>2. QED
    BY <2>1 DEF RunInv, On, Persistent
<1>2. ASSUME NEW th \in Threads, Ages(th)
      PROVE  RunInv'
  <2>1. UNCHANGED <<run, of, main, uses, start, retired>>
    BY <1>2 DEF Ages, cacheVars, stateVars, socketVars, turnVars, serverVars
  <2>2. QED
    BY <2>1 DEF RunInv, On, Persistent
<1>3. ASSUME AppServerExits
      PROVE  RunInv'
  <2>1. UNCHANGED <<run, of, main, uses, start, retired>>
    BY <1>3 DEF AppServerExits, cacheVars, stateVars, socketVars, turnVars, serverVars
  <2>2. QED
    BY <2>1 DEF RunInv, On, Persistent
<1>4. ASSUME NEW s \in Sockets, NEW conv \in Convs \cup {None}, NEW f \in Tools, Opens(s, conv, f)
      PROVE  RunInv'
  BY <1>4 DEF Opens, Persistent, RunInv, On, TypeOK, stateVars, turnVars
<1>5. ASSUME NEW s \in Sockets, NEW t \in Turns, Schedules(s, t) PROVE RunInv'
  BY <1>5 DEF Schedules, RunInv, On, Persistent, TypeOK, socketVars, RunsOf
<1>6. ASSUME NEW s \in Sockets, NEW th \in Threads, StartsOwn(s, th) PROVE RunInv'
  BY <1>6 DEF StartsOwn, Created, RunInv, On, Persistent, stateVars, turnVars, RunsOf
<1>7. ASSUME NEW s \in Sockets, NEW th \in Threads, StartsCached(s, th) PROVE RunInv'
  BY <1>7 DEF StartsCached, Created, RunInv, On, Persistent, stateVars, turnVars, RunsOf
<1>8. ASSUME NEW s \in Sockets, PrunesOne(s) PROVE RunInv'
  BY <1>8 DEF PrunesOne, HasLock, RunInv, On, Persistent, turnVars, RunsOf
<1>9. ASSUME NEW s \in Sockets, FindsThread(s) PROVE RunInv'
  BY <1>9 DEF FindsThread, HasLock, RunInv, On, Persistent, turnVars, RunsOf
<1>10. ASSUME NEW s \in Sockets, ReplacesThread(s) PROVE RunInv'
  BY <1>10 DEF ReplacesThread, HasLock, RunInv, On, Persistent, turnVars, RunsOf
<1>11. ASSUME NEW s \in Sockets, IsRefused(s) PROVE RunInv'
  BY <1>11 DEF IsRefused, HasLock, RunInv, On, Persistent, turnVars, RunsOf
<1>12. ASSUME NEW s \in Sockets, FindsRoom(s) PROVE RunInv'
  BY <1>12 DEF FindsRoom, HasLock, RunInv, On, Persistent, turnVars, RunsOf
<1>13. ASSUME NEW s \in Sockets, Replaced(s) PROVE RunInv'
  BY <1>13 DEF Replaced, Refused, RunInv, On, Persistent, TypeOK, stateVars, turnVars, RunsOf
<1>14. ASSUME NEW s \in Sockets, Announced(s) PROVE RunInv'
  BY <1>14 DEF Announced, RunInv, On, Persistent, stateVars, turnVars, RunsOf
<1>15. ASSUME NEW s \in Sockets, AnnounceFails(s) PROVE RunInv'
  BY <1>15 DEF AnnounceFails, RunInv, On, Persistent, stateVars, turnVars, RunsOf
<1>16. ASSUME NEW s \in Sockets, ThreadFails(s) PROVE RunInv'
  BY <1>16 DEF ThreadFails, Persistent, RunInv, On, stateVars, turnVars
<1>17. ASSUME NEW s \in Sockets, Stops(s) PROVE RunInv'
  BY <1>17 DEF Stops, RunInv, On, Persistent, TypeOK, turnVars
<1>18. ASSUME NEW s \in Sockets, Interrupted(s) PROVE RunInv'
  BY <1>18 DEF Interrupted, RunInv, On, Persistent, stateVars, turnVars, RunsOf
<1>19. ASSUME NEW s \in Sockets, Gathered(s) PROVE RunInv'
  BY <1>19
     DEF Gathered, Leaves, Persistent, RunsOf, RunInv, On, TypeOK, cacheVars, stateVars,
         socketVars, turnVars, serverVars
<1>20. ASSUME NEW s \in Sockets, MainDropsEntry(s) PROVE RunInv'
  BY <1>20 DEF MainDropsEntry, EntryDropped, RunInv, On, Persistent, TypeOK, turnVars, RunsOf
<1>21. ASSUME NEW s \in Sockets, MainDisposed(s) PROVE RunInv'
  BY <1>21 DEF MainDisposed, RunInv, On, Persistent, turnVars, RunsOf
<1>22. ASSUME NEW s \in Sockets, DispatchRetires(s) PROVE RunInv'
  BY <1>22 DEF DispatchRetires, Retires, Persistent, RunInv, On, turnVars
<1>23. ASSUME NEW t \in Turns, WaitsForTurn(t) PROVE RunInv'
  BY <1>23 DEF WaitsForTurn, On, RunInv, Persistent, socketVars, RunsOf
<1>24. ASSUME NEW t \in Turns, TakesTurn(t) PROVE RunInv'
  BY <1>24 DEF TakesTurn, AtLock, On, RunInv, Persistent, TypeOK, socketVars, RunsOf
<1>25. ASSUME NEW t \in Turns, FindsRetired(t) PROVE RunInv'
  BY <1>25 DEF FindsRetired, Retires, AfterMark, Persistent, On, Alive, RunInv, socketVars
<1>26. ASSUME NEW t \in Turns, Completes(t) PROVE RunInv'
  BY <1>26 DEF Completes, On, RunInv, Persistent, socketVars, RunsOf
<1>27. ASSUME NEW t \in Turns, TurnFails(t) PROVE RunInv'
  BY <1>27 DEF TurnFails, Retires, AfterMark, Persistent, On, RunInv, socketVars
<1>28. ASSUME NEW t \in Turns, Sent(t) PROVE RunInv'
  BY <1>28 DEF Sent, On, RunInv, Persistent, socketVars, RunsOf
<1>29. ASSUME NEW t \in Turns, RunDropsEntry(t) PROVE RunInv'
  BY <1>29 DEF RunDropsEntry, EntryDropped, On, RunInv, Persistent, RunsOf
<1>30. ASSUME NEW t \in Turns, RunDisposed(t) PROVE RunInv'
  BY <1>30 DEF RunDisposed, On, RunInv, Persistent, stateVars, socketVars, RunsOf
<1>31. ASSUME NEW t \in Turns, RunCancelled(t) PROVE RunInv'
  BY <1>31 DEF RunCancelled, On, RunInv, Persistent, socketVars, RunsOf
<1>32. CASE UNCHANGED vars
  BY <1>32
     DEF vars, cacheVars, stateVars, socketVars, turnVars, serverVars, RunInv, On, Persistent
<1> QED
  BY <1>1, <1>2, <1>3, <1>4, <1>5, <1>6, <1>7, <1>8, <1>9, <1>10, <1>11, <1>12, <1>13, <1>14,
     <1>15, <1>16, <1>17, <1>18, <1>19, <1>20, <1>21, <1>22, <1>23, <1>24, <1>25, <1>26,
     <1>27, <1>28, <1>29, <1>30, <1>31, <1>32, PruneSteps, StartSteps, RunDropsSteps,
     DispatchDropsSteps, MainDropsSteps
     DEF Next, MainStep, DispatchStep, RunStep

(* Nobody knows a thread before it is created.                             *)
LEMMA FreshStep ==
    TypeOK /\ SocketInv /\ RunInv /\ LockInv /\ CacheInv /\ PruneInv /\ FreshInv /\
       [Next]_vars => FreshInv'
<1> SUFFICES ASSUME TypeOK, SocketInv, RunInv, LockInv, CacheInv, PruneInv, FreshInv,
                    [Next]_vars
             PROVE  FreshInv'
  OBVIOUS
<1>1. ASSUME NEW s \in Sockets, NEW conv \in Convs \cup {None}, NEW f \in Tools, Opens(s,
                conv, f)
      PROVE  FreshInv'
  <2>1. UNCHANGED <<created, deletes, uses, cache>>
    BY <1>1 DEF Opens, cacheVars, stateVars, socketVars, turnVars, serverVars
  <2>2. QED
    BY <2>1 DEF FreshInv, Entries
<1>2. ASSUME NEW s \in Sockets, NEW t \in Turns, Schedules(s, t)
      PROVE  FreshInv'
  <2>1. UNCHANGED <<created, deletes, uses, cache>>
    BY <1>2 DEF Schedules, cacheVars, stateVars, socketVars, turnVars, serverVars
  <2>2. QED
    BY <2>1 DEF FreshInv, Entries
<1>3. ASSUME NEW s \in Sockets, IsRefused(s) \/ FindsRoom(s) \/ Replaced(s) \/ Announced(s) \/
                AnnounceFails(s) \/ ThreadFails(s) \/ Stops(s) \/ Interrupted(s) \/
                MainDisposed(s) \/ DispatchRetires(s) \/ DispatchDisposed(s) \/
                DispatchCancelled(s)
      PROVE  FreshInv'
  <2>1. UNCHANGED <<created, deletes, uses, cache>>
    BY <1>3
       DEF IsRefused, FindsRoom, Replaced, Announced, AnnounceFails, ThreadFails, Stops,
           Interrupted, MainDisposed, DispatchRetires, DispatchDisposed, DispatchCancelled,
           HasLock, cacheVars, stateVars, socketVars, turnVars, serverVars
  <2>2. QED
    BY <2>1 DEF FreshInv, Entries
<1>4. ASSUME NEW t \in Turns, WaitsForTurn(t) \/ TakesTurn(t) \/ FindsRetired(t) \/
                Completes(t) \/ TurnFails(t) \/ Sent(t) \/ RunDisposed(t) \/ RunCancelled(t)
      PROVE  FreshInv'
  <2>1. UNCHANGED <<created, deletes, uses, cache>>
    BY <1>4
       DEF WaitsForTurn, TakesTurn, FindsRetired, Completes, TurnFails, Sent, RunDisposed,
           RunCancelled, cacheVars, stateVars, socketVars, turnVars, serverVars
  <2>2. QED
    BY <2>1 DEF FreshInv, Entries
<1>5. ASSUME NEW th \in Threads, Ages(th)
      PROVE  FreshInv'
  <2>1. UNCHANGED <<created, deletes, uses, cache>>
    BY <1>5 DEF Ages, cacheVars, stateVars, socketVars, turnVars, serverVars
  <2>2. QED
    BY <2>1 DEF FreshInv, Entries
<1>6. ASSUME AppServerExits
      PROVE  FreshInv'
  <2>1. UNCHANGED <<created, deletes, uses, cache>>
    BY <1>6 DEF AppServerExits, cacheVars, stateVars, socketVars, turnVars, serverVars
  <2>2. QED
    BY <2>1 DEF FreshInv, Entries
<1>7. ASSUME NEW s \in Sockets, NEW th \in Threads, StartsOwn(s, th) PROVE FreshInv'
  BY <1>7 DEF StartsOwn, Created, FreshInv, Entries
<1>8. ASSUME NEW s \in Sockets, NEW th \in Threads, StartsCached(s, th) PROVE FreshInv'
  BY <1>8 DEF StartsCached, Created, FreshInv, Entry
<1>9. ASSUME NEW s \in Sockets, PrunesOne(s) PROVE FreshInv'
  BY <1>9 DEF PrunesOne, HasLock, FreshInv, EntryLeaves, Entry
<1>10. ASSUME NEW s \in Sockets, FindsThread(s) PROVE FreshInv'
  BY <1>10 DEF FindsThread, HasLock, FreshInv, Entry
<1>11. ASSUME NEW s \in Sockets, ReplacesThread(s) PROVE FreshInv'
  BY <1>11 DEF ReplacesThread, HasLock, FreshInv, EntryLeaves, Entry
<1>12. ASSUME NEW s \in Sockets, Gathered(s) PROVE FreshInv'
  BY <1>12 DEF Gathered, Leaves, Deletes, FreshInv, Entries, TypeOK, serverVars
<1>13. ASSUME NEW s \in Sockets, MainDropsEntry(s) PROVE FreshInv'
  BY <1>13 DEF MainDropsEntry, EntryDropped, FreshInv, Entries, TypeOK, EntryLeaves
<1>14. ASSUME NEW s \in Sockets, DispatchDropsEntry(s) PROVE FreshInv'
  BY <1>14 DEF DispatchDropsEntry, EntryDropped, FreshInv, Entries, TypeOK, EntryLeaves
<1>15. ASSUME NEW t \in Turns, RunDropsEntry(t) PROVE FreshInv'
  BY <1>15 DEF RunDropsEntry, EntryDropped, FreshInv, Entries, TypeOK, EntryLeaves
<1>16. CASE UNCHANGED vars
  BY <1>16 DEF vars, cacheVars, stateVars, socketVars, turnVars, serverVars, FreshInv, Entries
<1> QED
  BY <1>1, <1>2, <1>3, <1>4, <1>5, <1>6, <1>7, <1>8, <1>9, <1>10, <1>11, <1>12, <1>13, <1>14,
     <1>15, <1>16, PruneSteps, StartSteps, RunDropsSteps, DispatchDropsSteps, MainDropsSteps
     DEF Next, MainStep, DispatchStep, RunStep

(* What the entries of the cache are.                                      *)
LEMMA CacheStep ==
    TypeOK /\ SocketInv /\ RunInv /\ LockInv /\ PruneInv /\ FreshInv /\ OwnInv /\ CacheInv /\
       [Next]_vars => CacheInv'
<1> SUFFICES ASSUME TypeOK, SocketInv, RunInv, LockInv, PruneInv, FreshInv, OwnInv, CacheInv,
                    [Next]_vars
             PROVE  CacheInv'
  OBVIOUS
<1>1. ASSUME NEW s \in Sockets, NEW conv \in Convs \cup {None}, NEW f \in Tools, Opens(s,
                conv, f)
      PROVE  CacheInv'
  <2>1. UNCHANGED <<cache, deletes>>
    BY <1>1 DEF Opens, cacheVars, stateVars, socketVars, turnVars, serverVars
  <2>2. QED
    BY <2>1 DEF CacheInv, Entries
<1>2. ASSUME NEW s \in Sockets, NEW t \in Turns, Schedules(s, t)
      PROVE  CacheInv'
  <2>1. UNCHANGED <<cache, deletes>>
    BY <1>2 DEF Schedules, cacheVars, stateVars, socketVars, turnVars, serverVars
  <2>2. QED
    BY <2>1 DEF CacheInv, Entries
<1>3. ASSUME NEW s \in Sockets, NEW th \in Threads, StartsOwn(s, th)
      PROVE  CacheInv'
  <2>1. UNCHANGED <<cache, deletes>>
    BY <1>3 DEF StartsOwn, Created, cacheVars, stateVars, socketVars, turnVars, serverVars
  <2>2. QED
    BY <2>1 DEF CacheInv, Entries
<1>4. ASSUME NEW s \in Sockets, IsRefused(s) \/ FindsRoom(s) \/ Replaced(s) \/ Announced(s) \/
                AnnounceFails(s) \/ ThreadFails(s) \/ Stops(s) \/ Interrupted(s) \/
                MainDisposed(s) \/ DispatchRetires(s) \/ DispatchDisposed(s) \/
                DispatchCancelled(s)
      PROVE  CacheInv'
  <2>1. UNCHANGED <<cache, deletes>>
    BY <1>4
       DEF IsRefused, FindsRoom, Replaced, Announced, AnnounceFails, ThreadFails, Stops,
           Interrupted, MainDisposed, DispatchRetires, DispatchDisposed, DispatchCancelled,
           HasLock, cacheVars, stateVars, socketVars, turnVars, serverVars
  <2>2. QED
    BY <2>1 DEF CacheInv, Entries
<1>5. ASSUME NEW t \in Turns, WaitsForTurn(t) \/ TakesTurn(t) \/ FindsRetired(t) \/
                Completes(t) \/ TurnFails(t) \/ Sent(t) \/ RunDisposed(t) \/ RunCancelled(t)
      PROVE  CacheInv'
  <2>1. UNCHANGED <<cache, deletes>>
    BY <1>5
       DEF WaitsForTurn, TakesTurn, FindsRetired, Completes, TurnFails, Sent, RunDisposed,
           RunCancelled, cacheVars, stateVars, socketVars, turnVars, serverVars
  <2>2. QED
    BY <2>1 DEF CacheInv, Entries
<1>6. ASSUME NEW th \in Threads, Ages(th)
      PROVE  CacheInv'
  <2>1. UNCHANGED <<cache, deletes>>
    BY <1>6 DEF Ages, cacheVars, stateVars, socketVars, turnVars, serverVars
  <2>2. QED
    BY <2>1 DEF CacheInv, Entries
<1>7. ASSUME AppServerExits
      PROVE  CacheInv'
  <2>1. UNCHANGED <<cache, deletes>>
    BY <1>7 DEF AppServerExits, cacheVars, stateVars, socketVars, turnVars, serverVars
  <2>2. QED
    BY <2>1 DEF CacheInv, Entries
<1>8. ASSUME NEW s \in Sockets, NEW th \in Threads, StartsCached(s, th) PROVE CacheInv'
  BY <1>8 DEF StartsCached, Created, CacheInv, FreshInv, Entry
<1>9. ASSUME NEW s \in Sockets, PrunesOne(s) PROVE CacheInv'
  BY <1>9 DEF PrunesOne, CacheInv, EntryLeaves, Entry
<1>10. ASSUME NEW s \in Sockets, FindsThread(s) PROVE CacheInv'
  BY <1>10 DEF FindsThread, CacheInv
<1>11. ASSUME NEW s \in Sockets, ReplacesThread(s) PROVE CacheInv'
  BY <1>11 DEF ReplacesThread, CacheInv, EntryLeaves, Entry
<1>12. ASSUME NEW s \in Sockets, Gathered(s) PROVE CacheInv'
  BY <1>12, CachedEntries
     DEF Gathered, Leaves, Deletes, CacheInv, Entries, TypeOK, SocketInv, OwnInv, EntryLeaves,
         Entry
<1>13. ASSUME NEW s \in Sockets, MainDropsEntry(s) PROVE CacheInv'
  BY SMTT(30), <1>13, CachedEntries
     DEF MainDropsEntry, EntryDropped, ClearsPending, CacheInv, Entries, TypeOK, FreshInv,
         EntryLeaves, Entry, Persistent
<1>14. ASSUME NEW s \in Sockets, DispatchDropsEntry(s) PROVE CacheInv'
  BY SMTT(30), <1>14, CachedEntries
     DEF DispatchDropsEntry, EntryDropped, CacheInv, Entries, TypeOK, EntryLeaves, Entry
<1>15. ASSUME NEW t \in Turns, RunDropsEntry(t) PROVE CacheInv'
  BY SMTT(30), <1>15, CachedEntries
     DEF RunDropsEntry, EntryDropped, CacheInv, Entries, TypeOK, EntryLeaves, Entry
<1>16. CASE UNCHANGED vars
  BY <1>16 DEF vars, cacheVars, stateVars, socketVars, turnVars, serverVars, CacheInv, Entries
<1> QED
  BY <1>1, <1>2, <1>3, <1>4, <1>5, <1>6, <1>7, <1>8, <1>9, <1>10, <1>11, <1>12, <1>13, <1>14,
     <1>15, <1>16, PruneSteps, StartSteps, RunDropsSteps, DispatchDropsSteps, MainDropsSteps
     DEF Next, MainStep, DispatchStep, RunStep

(* The thread of a one-shot socket is its own.                             *)
LEMMA OwnStep ==
    TypeOK /\ SocketInv /\ RunInv /\ LockInv /\ CacheInv /\ PruneInv /\ FreshInv /\ OwnInv /\
       [Next]_vars => OwnInv'
<1> SUFFICES ASSUME TypeOK, SocketInv, RunInv, LockInv, CacheInv, PruneInv, FreshInv, OwnInv,
                    [Next]_vars
             PROVE  OwnInv'
  OBVIOUS
<1>1. ASSUME NEW s \in Sockets, NEW t \in Turns, Schedules(s, t)
      PROVE  OwnInv'
  <2>1. UNCHANGED <<start, uses, cache, deletes, main>>
    BY <1>1 DEF Schedules, cacheVars, stateVars, socketVars, turnVars, serverVars
  <2>2. QED
    BY <2>1 DEF OwnInv, Persistent, Entries
<1>2. ASSUME NEW s \in Sockets, DispatchRetires(s) \/ DispatchDisposed(s) \/
                DispatchCancelled(s)
      PROVE  OwnInv'
  <2>1. UNCHANGED <<start, uses, cache, deletes, main>>
    BY <1>2
       DEF DispatchRetires, DispatchDisposed, DispatchCancelled, cacheVars, stateVars,
           socketVars, turnVars, serverVars
  <2>2. QED
    BY <2>1 DEF OwnInv, Persistent, Entries
<1>3. ASSUME NEW t \in Turns, WaitsForTurn(t) \/ TakesTurn(t) \/ FindsRetired(t) \/
                Completes(t) \/ TurnFails(t) \/ Sent(t) \/ RunDisposed(t) \/ RunCancelled(t)
      PROVE  OwnInv'
  <2>1. UNCHANGED <<start, uses, cache, deletes, main>>
    BY <1>3
       DEF WaitsForTurn, TakesTurn, FindsRetired, Completes, TurnFails, Sent, RunDisposed,
           RunCancelled, cacheVars, stateVars, socketVars, turnVars, serverVars
  <2>2. QED
    BY <2>1 DEF OwnInv, Persistent, Entries
<1>4. ASSUME NEW th \in Threads, Ages(th)
      PROVE  OwnInv'
  <2>1. UNCHANGED <<start, uses, cache, deletes, main>>
    BY <1>4 DEF Ages, cacheVars, stateVars, socketVars, turnVars, serverVars
  <2>2. QED
    BY <2>1 DEF OwnInv, Persistent, Entries
<1>5. ASSUME AppServerExits
      PROVE  OwnInv'
  <2>1. UNCHANGED <<start, uses, cache, deletes, main>>
    BY <1>5 DEF AppServerExits, cacheVars, stateVars, socketVars, turnVars, serverVars
  <2>2. QED
    BY <2>1 DEF OwnInv, Persistent, Entries
<1>6. ASSUME NEW s \in Sockets, NEW conv \in Convs \cup {None}, NEW f \in Tools, Opens(s, conv, f)
      PROVE  OwnInv'
  BY <1>6 DEF Opens, Persistent, OwnInv, Entries, TypeOK, serverVars, SocketInv
<1>7. ASSUME NEW s \in Sockets, NEW th \in Threads, StartsOwn(s, th) PROVE OwnInv'
  BY <1>7 DEF StartsOwn, Created, OwnInv, Persistent, Entries, FreshInv
<1>8. ASSUME NEW s \in Sockets, NEW th \in Threads, StartsCached(s, th) PROVE OwnInv'
  BY <1>8 DEF StartsCached, Created, OwnInv, Persistent, FreshInv, Entry
<1>9. ASSUME NEW s \in Sockets, PrunesOne(s) PROVE OwnInv'
  BY <1>9 DEF PrunesOne, HasLock, OwnInv, Persistent, EntryLeaves, Entry
<1>10. ASSUME NEW s \in Sockets, FindsThread(s) PROVE OwnInv'
  BY <1>10 DEF FindsThread, HasLock, OwnInv, Persistent, Entry
<1>11. ASSUME NEW s \in Sockets, ReplacesThread(s) PROVE OwnInv'
  BY <1>11 DEF ReplacesThread, HasLock, OwnInv, Persistent, EntryLeaves, Entry
<1>12. ASSUME NEW s \in Sockets, IsRefused(s) PROVE OwnInv'
  BY <1>12 DEF IsRefused, HasLock, OwnInv, Persistent, Entries
<1>13. ASSUME NEW s \in Sockets, FindsRoom(s) PROVE OwnInv'
  BY <1>13 DEF FindsRoom, HasLock, OwnInv, Persistent, Entries
<1>14. ASSUME NEW s \in Sockets, Replaced(s) PROVE OwnInv'
  BY <1>14 DEF Replaced, Refused, OwnInv, Persistent, Entries, TypeOK, serverVars
<1>15. ASSUME NEW s \in Sockets, Announced(s) PROVE OwnInv'
  BY <1>15 DEF Announced, OwnInv, Persistent, Entries, cacheVars, serverVars
<1>16. ASSUME NEW s \in Sockets, AnnounceFails(s) PROVE OwnInv'
  BY <1>16 DEF AnnounceFails, OwnInv, Persistent, Entries, cacheVars, serverVars
<1>17. ASSUME NEW s \in Sockets, ThreadFails(s) PROVE OwnInv'
  BY <1>17 DEF ThreadFails, Persistent, OwnInv, Entries, serverVars
<1>18. ASSUME NEW s \in Sockets, Stops(s) PROVE OwnInv'
  BY <1>18 DEF Stops, OwnInv, Persistent, Entries, TypeOK, cacheVars, serverVars
<1>19. ASSUME NEW s \in Sockets, Interrupted(s) PROVE OwnInv'
  BY <1>19 DEF Interrupted, OwnInv, Persistent, Entries, cacheVars, serverVars
<1>20. ASSUME NEW s \in Sockets, Gathered(s) PROVE OwnInv'
  <2>1. main[s] = "gathering" /\ UNCHANGED <<start, uses, cache>>
    BY <1>20 DEF Gathered
  <2>2. Entries' = Entries /\ \A r \in Sockets : Persistent(r)' = Persistent(r)
    BY <2>1 DEF Entries, Persistent
  <2>3. CASE Persistent(s)
    <3>1. UNCHANGED deletes /\ \A r \in Sockets \ {s} : main'[r] = main[r]
      BY <1>20, <2>3 DEF Gathered, Leaves, TypeOK
    <3>2. QED
      BY <2>1, <2>2, <2>3, <3>1 DEF OwnInv
  <2>4. CASE ~Persistent(s)
    <3>1. /\ main' = [main EXCEPT ![s] = "deleting"]
          /\ deletes' = [deletes EXCEPT ![uses[s]] = deletes[uses[s]] + 1]
      BY <1>20, <2>4 DEF Gathered, Leaves, Deletes
    <3>2. uses[s] # None
      BY <2>1 DEF SocketInv
    <3>3. \A r \in Sockets \ {s} : uses[r] # uses[s]
      BY <2>4, <3>2 DEF OwnInv
    <3>4. \A r \in Sockets \ {s} : uses[r] # None => deletes'[uses[r]] = deletes[uses[r]]
      BY <3>1, <3>3 DEF TypeOK
    <3>5. QED
      BY <2>1, <2>2, <3>1, <3>4 DEF OwnInv, TypeOK
  <2>5. QED
    BY <2>3, <2>4
<1>21. ASSUME NEW s \in Sockets, MainDropsEntry(s) PROVE OwnInv'
  <2>1. /\ Persistent(s) /\ UNCHANGED <<start, uses>>
        /\ \A r \in Sockets \ {s} : main'[r] = main[r]
    BY <1>21 DEF MainDropsEntry, EntryDropped, TypeOK
  <2>2. \A r \in Sockets : Persistent(r)' = Persistent(r)
    BY <2>1 DEF Persistent
  <2>3. CASE UNCHANGED <<cache, deletes>>
    BY <2>1, <2>2, <2>3 DEF OwnInv, Entries
  <2>4. CASE EntryLeaves(start[s].conv, uses[s])
    <3>1. /\ Entries' \subseteq Entries
          /\ deletes' = [deletes EXCEPT ![uses[s]] = 1]
          /\ \E e \in Entries : e.thread = uses[s]
      BY <2>4 DEF EntryLeaves, Entry
    <3>2. \A r \in Sockets : ~Persistent(r) /\ uses[r] # None => uses[r] # uses[s]
      BY <2>1, <3>1 DEF OwnInv
    <3>3. \A r \in Sockets :
             ~Persistent(r) /\ uses[r] # None => deletes'[uses[r]] = deletes[uses[r]]
      BY <3>1, <3>2 DEF TypeOK
    <3>4. QED
      BY <2>1, <2>2, <3>1, <3>3 DEF OwnInv
  <2>5. QED
    BY <1>21, <2>3, <2>4 DEF MainDropsEntry, EntryDropped
<1>22. ASSUME NEW s \in Sockets, MainDisposed(s) PROVE OwnInv'
  BY <1>22 DEF MainDisposed, OwnInv, Persistent, Entries, cacheVars, serverVars
<1>23. ASSUME NEW s \in Sockets, DispatchDropsEntry(s) PROVE OwnInv'
  BY <1>23 DEF DispatchDropsEntry, EntryDropped, OwnInv, Persistent, Entries, TypeOK, EntryLeaves
<1>24. ASSUME NEW t \in Turns, RunDropsEntry(t) PROVE OwnInv'
  BY <1>24 DEF RunDropsEntry, EntryDropped, OwnInv, Persistent, Entries, TypeOK, EntryLeaves
<1>25. CASE UNCHANGED vars
  BY <1>25
     DEF vars, cacheVars, stateVars, socketVars, turnVars, serverVars, OwnInv, Persistent,
         Entries
<1> QED
  BY <1>1, <1>2, <1>3, <1>4, <1>5, <1>6, <1>7, <1>8, <1>9, <1>10, <1>11, <1>12, <1>13, <1>14,
     <1>15, <1>16, <1>17, <1>18, <1>19, <1>20, <1>21, <1>22, <1>23, <1>24, <1>25, PruneSteps,
     StartSteps, RunDropsSteps, DispatchDropsSteps, MainDropsSteps
     DEF Next, MainStep, DispatchStep, RunStep

(* What a prune has to delete, and what is being started.                  *)
LEMMA PruneStep ==
    TypeOK /\ SocketInv /\ RunInv /\ LockInv /\ CacheInv /\ PruneInv /\ [Next]_vars =>
       PruneInv'
<1> SUFFICES ASSUME TypeOK, SocketInv, RunInv, LockInv, CacheInv, PruneInv, [Next]_vars
             PROVE  PruneInv'
  OBVIOUS
<1>1. ASSUME NEW s \in Sockets, NEW t \in Turns, Schedules(s, t)
      PROVE  PruneInv'
  <2>1. UNCHANGED <<main, start, expired, cache, limit>>
    BY <1>1 DEF Schedules, cacheVars, stateVars, socketVars, turnVars, serverVars
  <2>2. QED
    BY <2>1 DEF PruneInv, Persistent, Room, Entries
<1>2. ASSUME NEW s \in Sockets, DispatchRetires(s) \/ DispatchDisposed(s) \/
                DispatchCancelled(s)
      PROVE  PruneInv'
  <2>1. UNCHANGED <<main, start, expired, cache, limit>>
    BY <1>2
       DEF DispatchRetires, DispatchDisposed, DispatchCancelled, cacheVars, stateVars,
           socketVars, turnVars, serverVars
  <2>2. QED
    BY <2>1 DEF PruneInv, Persistent, Room, Entries
<1>3. ASSUME NEW t \in Turns, WaitsForTurn(t) \/ TakesTurn(t) \/ FindsRetired(t) \/
                Completes(t) \/ TurnFails(t) \/ Sent(t) \/ RunDisposed(t) \/ RunCancelled(t)
      PROVE  PruneInv'
  <2>1. UNCHANGED <<main, start, expired, cache, limit>>
    BY <1>3
       DEF WaitsForTurn, TakesTurn, FindsRetired, Completes, TurnFails, Sent, RunDisposed,
           RunCancelled, cacheVars, stateVars, socketVars, turnVars, serverVars
  <2>2. QED
    BY <2>1 DEF PruneInv, Persistent, Room, Entries
<1>4. ASSUME NEW th \in Threads, Ages(th)
      PROVE  PruneInv'
  <2>1. UNCHANGED <<main, start, expired, cache, limit>>
    BY <1>4 DEF Ages, cacheVars, stateVars, socketVars, turnVars, serverVars
  <2>2. QED
    BY <2>1 DEF PruneInv, Persistent, Room, Entries
<1>5. ASSUME AppServerExits
      PROVE  PruneInv'
  <2>1. UNCHANGED <<main, start, expired, cache, limit>>
    BY <1>5 DEF AppServerExits, cacheVars, stateVars, socketVars, turnVars, serverVars
  <2>2. QED
    BY <2>1 DEF PruneInv, Persistent, Room, Entries
<1>6. ASSUME NEW s \in Sockets, NEW conv \in Convs \cup {None}, NEW f \in Tools, Opens(s, conv, f)
      PROVE  PruneInv'
  BY <1>6 DEF Opens, Persistent, PruneInv, Room, Entries, TypeOK
<1>7. ASSUME NEW s \in Sockets, NEW th \in Threads, StartsOwn(s, th) PROVE PruneInv'
  BY <1>7 DEF StartsOwn, Created, PruneInv, Persistent, Room, Entries
<1>8. ASSUME NEW s \in Sockets, NEW th \in Threads, StartsCached(s, th) PROVE PruneInv'
  BY <1>8, TaskTypes DEF StartsCached, Created, PruneInv, Persistent, TypeOK, LockInv
<1>9. ASSUME NEW s \in Sockets, PrunesOne(s) PROVE PruneInv'
  BY <1>9, TaskTypes DEF PrunesOne, HasLock, PruneInv, Persistent, TypeOK, LockInv
<1>10. ASSUME NEW s \in Sockets, FindsThread(s) PROVE PruneInv'
  BY <1>10 DEF FindsThread, HasLock, PruneInv, Persistent, Room, TypeOK, serverVars
<1>11. ASSUME NEW s \in Sockets, ReplacesThread(s) PROVE PruneInv'
  BY <1>11, TaskTypes
     DEF ReplacesThread, HasLock, PruneInv, Persistent, Room, Entries, TypeOK, turnVars,
         SocketInv, RunInv, LockInv, CacheInv, EntryLeaves, Entry
<1>12. ASSUME NEW s \in Sockets, IsRefused(s) PROVE PruneInv'
  BY <1>12 DEF IsRefused, HasLock, PruneInv, Persistent, Room, Entries, TypeOK, serverVars
<1>13. ASSUME NEW s \in Sockets, FindsRoom(s) PROVE PruneInv'
  BY <1>13 DEF FindsRoom, HasLock, PruneInv, Persistent, Room, Entries, TypeOK, serverVars
<1>14. ASSUME NEW s \in Sockets, Replaced(s) PROVE PruneInv'
  BY <1>14 DEF Replaced, Refused, PruneInv, Persistent, Room, Entries, TypeOK
<1>15. ASSUME NEW s \in Sockets, Announced(s) PROVE PruneInv'
  BY <1>15 DEF Announced, PruneInv, Persistent, Room, Entries, cacheVars
<1>16. ASSUME NEW s \in Sockets, AnnounceFails(s) PROVE PruneInv'
  BY <1>16 DEF AnnounceFails, PruneInv, Persistent, Room, Entries, cacheVars
<1>17. ASSUME NEW s \in Sockets, ThreadFails(s) PROVE PruneInv'
  BY <1>17 DEF ThreadFails, Persistent, PruneInv, Room, Entries
<1>18. ASSUME NEW s \in Sockets, Stops(s) PROVE PruneInv'
  BY <1>18 DEF Stops, PruneInv, Persistent, Room, Entries, TypeOK, cacheVars
<1>19. ASSUME NEW s \in Sockets, Interrupted(s) PROVE PruneInv'
  BY <1>19 DEF Interrupted, PruneInv, Persistent, Room, Entries, cacheVars
<1>20. ASSUME NEW s \in Sockets, Gathered(s) PROVE PruneInv'
  BY <1>20 DEF Gathered, Leaves, Persistent, PruneInv, Room, Entries, TypeOK, serverVars
<1>21. ASSUME NEW s \in Sockets, MainDropsEntry(s) PROVE PruneInv'
  BY <1>21, TaskTypes
     DEF MainDropsEntry, EntryDropped, PruneInv, Persistent, Room, TypeOK, LockInv,
         EntryLeaves
<1>22. ASSUME NEW s \in Sockets, MainDisposed(s) PROVE PruneInv'
  BY <1>22 DEF MainDisposed, PruneInv, Persistent, Room, Entries, cacheVars
<1>23. ASSUME NEW s \in Sockets, DispatchDropsEntry(s) PROVE PruneInv'
  BY <1>23, TaskTypes DEF DispatchDropsEntry, EntryDropped, PruneInv, Persistent, LockInv
<1>24. ASSUME NEW t \in Turns, RunDropsEntry(t) PROVE PruneInv'
  BY <1>24, TaskTypes DEF RunDropsEntry, EntryDropped, PruneInv, Persistent, LockInv
<1>25. CASE UNCHANGED vars
  BY <1>25
     DEF vars, cacheVars, stateVars, socketVars, turnVars, serverVars, PruneInv, Persistent,
         Room, Entries
<1> QED
  BY <1>1, <1>2, <1>3, <1>4, <1>5, <1>6, <1>7, <1>8, <1>9, <1>10, <1>11, <1>12, <1>13, <1>14,
     <1>15, <1>16, <1>17, <1>18, <1>19, <1>20, <1>21, <1>22, <1>23, <1>24, <1>25, PruneSteps,
     StartSteps, RunDropsSteps, DispatchDropsSteps, MainDropsSteps
     DEF Next, MainStep, DispatchStep, RunStep

(* A deleted thread is marked, or that of a one-shot socket.               *)
LEMMA DeletedStep ==
    TypeOK /\ SocketInv /\ RunInv /\ LockInv /\ CacheInv /\ PruneInv /\ OwnInv /\ DeletedInv
       /\ [Next]_vars => DeletedInv'
<1> SUFFICES ASSUME TypeOK, SocketInv, RunInv, LockInv, CacheInv, PruneInv, OwnInv,
                    DeletedInv, [Next]_vars
             PROVE  DeletedInv'
  OBVIOUS
<1>1. ASSUME NEW s \in Sockets, NEW t \in Turns, Schedules(s, t)
      PROVE  DeletedInv'
  <2>1. UNCHANGED <<deletes, retired, uses, main, start>>
    BY <1>1 DEF Schedules, cacheVars, stateVars, socketVars, turnVars, serverVars
  <2>2. QED
    BY <2>1 DEF DeletedInv, Persistent
<1>2. ASSUME NEW s \in Sockets, DispatchDisposed(s) \/ DispatchCancelled(s)
      PROVE  DeletedInv'
  <2>1. UNCHANGED <<deletes, retired, uses, main, start>>
    BY <1>2
       DEF DispatchDisposed, DispatchCancelled, cacheVars, stateVars, socketVars, turnVars,
           serverVars
  <2>2. QED
    BY <2>1 DEF DeletedInv, Persistent
<1>3. ASSUME NEW t \in Turns, WaitsForTurn(t) \/ TakesTurn(t) \/ Completes(t) \/ Sent(t) \/
                RunDisposed(t) \/ RunCancelled(t)
      PROVE  DeletedInv'
  <2>1. UNCHANGED <<deletes, retired, uses, main, start>>
    BY <1>3
       DEF WaitsForTurn, TakesTurn, Completes, Sent, RunDisposed, RunCancelled, cacheVars,
           stateVars, socketVars, turnVars, serverVars
  <2>2. QED
    BY <2>1 DEF DeletedInv, Persistent
<1>4. ASSUME NEW th \in Threads, Ages(th)
      PROVE  DeletedInv'
  <2>1. UNCHANGED <<deletes, retired, uses, main, start>>
    BY <1>4 DEF Ages, cacheVars, stateVars, socketVars, turnVars, serverVars
  <2>2. QED
    BY <2>1 DEF DeletedInv, Persistent
<1>5. ASSUME AppServerExits
      PROVE  DeletedInv'
  <2>1. UNCHANGED <<deletes, retired, uses, main, start>>
    BY <1>5 DEF AppServerExits, cacheVars, stateVars, socketVars, turnVars, serverVars
  <2>2. QED
    BY <2>1 DEF DeletedInv, Persistent
<1>6. ASSUME NEW s \in Sockets, NEW conv \in Convs \cup {None}, NEW f \in Tools, Opens(s, conv, f)
      PROVE  DeletedInv'
  <2>1. UNCHANGED <<uses, deletes, retired>> /\ main[s] = "new"
    BY <1>6 DEF Opens, stateVars, serverVars
  <2>2. \A r \in Sockets : r # s => main'[r] = main[r] /\ start'[r] = start[r]
    BY <1>6 DEF Opens, TypeOK
  <2>3. QED
    BY <2>1, <2>2 DEF DeletedInv, Persistent
<1>7. ASSUME NEW s \in Sockets, NEW th \in Threads, StartsOwn(s, th) PROVE DeletedInv'
  BY <1>7 DEF StartsOwn, Created, DeletedInv, Persistent, stateVars, serverVars
<1>8. ASSUME NEW s \in Sockets, NEW th \in Threads, StartsCached(s, th) PROVE DeletedInv'
  BY <1>8 DEF StartsCached, Created, DeletedInv, Persistent, stateVars, serverVars
<1>9. ASSUME NEW s \in Sockets, PrunesOne(s) PROVE DeletedInv'
  BY <1>9 DEF PrunesOne, HasLock, DeletedInv, Persistent, EntryLeaves
<1>10. ASSUME NEW s \in Sockets, FindsThread(s) PROVE DeletedInv'
  BY <1>10 DEF FindsThread, HasLock, DeletedInv, Persistent
<1>11. ASSUME NEW s \in Sockets, ReplacesThread(s) PROVE DeletedInv'
  BY <1>11 DEF ReplacesThread, HasLock, DeletedInv, Persistent, EntryLeaves
<1>12. ASSUME NEW s \in Sockets, IsRefused(s) PROVE DeletedInv'
  BY <1>12 DEF IsRefused, HasLock, DeletedInv, Persistent
<1>13. ASSUME NEW s \in Sockets, FindsRoom(s) PROVE DeletedInv'
  BY <1>13 DEF FindsRoom, HasLock, DeletedInv, Persistent
<1>14. ASSUME NEW s \in Sockets, Replaced(s) PROVE DeletedInv'
  BY <1>14
     DEF Replaced, Refused, Releases, DeletedInv, Persistent, TypeOK, cacheVars, stateVars,
         socketVars, turnVars, serverVars
<1>15. ASSUME NEW s \in Sockets, Announced(s) PROVE DeletedInv'
  BY <1>15 DEF Announced, DeletedInv, Persistent, stateVars, serverVars
<1>16. ASSUME NEW s \in Sockets, AnnounceFails(s) PROVE DeletedInv'
  BY <1>16 DEF AnnounceFails, DeletedInv, Persistent, stateVars, serverVars
<1>17. ASSUME NEW s \in Sockets, ThreadFails(s) PROVE DeletedInv'
  BY <1>17 DEF ThreadFails, Persistent, DeletedInv, stateVars, serverVars
<1>18. ASSUME NEW s \in Sockets, Stops(s) PROVE DeletedInv'
  <2>1. UNCHANGED <<start, uses, deletes>> /\ retired \subseteq retired' /\ main[s] = "serving"
    BY <1>18 DEF Stops, cacheVars, serverVars
  <2>2. \A r \in Sockets : r # s => main'[r] = main[r]
    BY <1>18 DEF Stops, TypeOK
  <2>3. QED
    BY <2>1, <2>2 DEF DeletedInv, Persistent
<1>19. ASSUME NEW s \in Sockets, Interrupted(s) PROVE DeletedInv'
  BY <1>19 DEF Interrupted, DeletedInv, Persistent, stateVars, serverVars
<1>20. ASSUME NEW s \in Sockets, Gathered(s) PROVE DeletedInv'
  <2>1. main[s] = "gathering" /\ UNCHANGED <<start, uses, retired>>
    BY <1>20 DEF Gathered
  <2>2. \A r \in Sockets : r # s => main'[r] = main[r]
    BY <1>20 DEF Gathered, Leaves, TypeOK
  <2>3. \A th \in Threads :
           \/ deletes'[th] = deletes[th]
           \/ th = uses[s] /\ ~Persistent(s) /\ main'[s] = "deleting"
    BY <1>20 DEF Gathered, Leaves, Deletes, TypeOK
  <2>4. QED
    BY <2>1, <2>2, <2>3 DEF DeletedInv, Persistent
<1>21. ASSUME NEW s \in Sockets, MainDropsEntry(s) PROVE DeletedInv'
  <2>1. /\ uses[s] \in retired /\ UNCHANGED <<start, uses, retired>>
        /\ \A th \in Threads : deletes'[th] = deletes[th] \/ th = uses[s]
    BY <1>21 DEF MainDropsEntry, EntryDropped, EntryLeaves, TypeOK
  <2>2. \A r \in Sockets : ~Persistent(r) => main'[r] = main[r]
    BY <1>21 DEF MainDropsEntry, EntryDropped, TypeOK
  <2>3. QED
    BY <2>1, <2>2 DEF DeletedInv, Persistent
<1>22. ASSUME NEW s \in Sockets, MainDisposed(s) PROVE DeletedInv'
  BY <1>22 DEF MainDisposed, DeletedInv, Persistent, serverVars
<1>23. ASSUME NEW s \in Sockets, DispatchRetires(s) PROVE DeletedInv'
  BY <1>23 DEF DispatchRetires, Retires, Persistent, DeletedInv, serverVars
<1>24. ASSUME NEW s \in Sockets, DispatchDropsEntry(s) PROVE DeletedInv'
  <2>1. /\ uses[s] \in retired /\ UNCHANGED <<start, uses, retired>>
        /\ \A th \in Threads : deletes'[th] = deletes[th] \/ th = uses[s]
    BY <1>24 DEF DispatchDropsEntry, EntryDropped, EntryLeaves, TypeOK
  <2>2. \A r \in Sockets : ~Persistent(r) => main'[r] = main[r]
    BY <1>24 DEF DispatchDropsEntry, EntryDropped, TypeOK
  <2>3. QED
    BY <2>1, <2>2 DEF DeletedInv, Persistent
<1>25. ASSUME NEW t \in Turns, FindsRetired(t) PROVE DeletedInv'
  BY <1>25
     DEF FindsRetired, Retires, Persistent, DeletedInv, cacheVars, stateVars, socketVars,
         turnVars, serverVars
<1>26. ASSUME NEW t \in Turns, TurnFails(t) PROVE DeletedInv'
  BY <1>26
     DEF TurnFails, Retires, Persistent, DeletedInv, cacheVars, stateVars, socketVars,
         turnVars, serverVars
<1>27. ASSUME NEW t \in Turns, RunDropsEntry(t) PROVE DeletedInv'
  <2>1. /\ uses[of[t]] \in retired /\ UNCHANGED <<start, uses, retired>>
        /\ \A th \in Threads : deletes'[th] = deletes[th] \/ th = uses[of[t]]
    BY <1>27 DEF RunDropsEntry, EntryDropped, EntryLeaves, TypeOK
  <2>2. \A r \in Sockets : ~Persistent(r) => main'[r] = main[r]
    BY <1>27 DEF RunDropsEntry, EntryDropped, TypeOK
  <2>3. QED
    BY <2>1, <2>2 DEF DeletedInv, Persistent
<1>28. CASE UNCHANGED vars
  BY <1>28
     DEF vars, cacheVars, stateVars, socketVars, turnVars, serverVars, DeletedInv, Persistent
<1> QED
  BY <1>1, <1>2, <1>3, <1>4, <1>5, <1>6, <1>7, <1>8, <1>9, <1>10, <1>11, <1>12, <1>13, <1>14,
     <1>15, <1>16, <1>17, <1>18, <1>19, <1>20, <1>21, <1>22, <1>23, <1>24, <1>25, <1>26,
     <1>27, <1>28, PruneSteps, StartSteps, RunDropsSteps, DispatchDropsSteps, MainDropsSteps
     DEF Next, MainStep, DispatchStep, RunStep

(* Who a thread is busy for.                                               *)
LEMMA PendingStep ==
    TypeOK /\ SocketInv /\ RunInv /\ LockInv /\ CacheInv /\ PruneInv /\ PendingInv /\
       [Next]_vars => PendingInv'
<1> SUFFICES ASSUME TypeOK, SocketInv, RunInv, LockInv, CacheInv, PruneInv, PendingInv,
                    [Next]_vars
             PROVE  PendingInv'
  OBVIOUS
<1>1. ASSUME NEW s \in Sockets, DispatchRetires(s) \/ DispatchDropsEntry(s) \/
                DispatchDisposed(s) \/ DispatchCancelled(s)
      PROVE  PendingInv'
  <2>1. UNCHANGED <<pending, uses, main>>
    BY <1>1
       DEF DispatchRetires, DispatchDropsEntry, DispatchDisposed, DispatchCancelled,
           EntryDropped, cacheVars, stateVars, socketVars, turnVars, serverVars
  <2>2. QED
    BY <2>1 DEF PendingInv
<1>2. ASSUME NEW t \in Turns, WaitsForTurn(t) \/ TakesTurn(t) \/ FindsRetired(t) \/
                TurnFails(t) \/ RunDropsEntry(t) \/ RunDisposed(t)
      PROVE  PendingInv'
  <2>1. UNCHANGED <<pending, uses, main>>
    BY <1>2
       DEF WaitsForTurn, TakesTurn, FindsRetired, TurnFails, RunDropsEntry, RunDisposed,
           EntryDropped, cacheVars, stateVars, socketVars, turnVars, serverVars
  <2>2. QED
    BY <2>1 DEF PendingInv
<1>3. ASSUME NEW th \in Threads, Ages(th)
      PROVE  PendingInv'
  <2>1. UNCHANGED <<pending, uses, main>>
    BY <1>3 DEF Ages, cacheVars, stateVars, socketVars, turnVars, serverVars
  <2>2. QED
    BY <2>1 DEF PendingInv
<1>4. ASSUME AppServerExits
      PROVE  PendingInv'
  <2>1. UNCHANGED <<pending, uses, main>>
    BY <1>4 DEF AppServerExits, cacheVars, stateVars, socketVars, turnVars, serverVars
  <2>2. QED
    BY <2>1 DEF PendingInv
<1>5. ASSUME NEW s \in Sockets, NEW conv \in Convs \cup {None}, NEW f \in Tools, Opens(s, conv, f)
      PROVE  PendingInv'
  <2>0. \A th \in Threads : pending[th] \in Sockets \cup {None}
    BY DEF TypeOK
  <2>1. UNCHANGED <<pending, uses>> /\ main[s] = "new"
    BY <1>5 DEF Opens, stateVars
  <2>2. \A r \in Sockets : r # s => main'[r] = main[r]
    BY <1>5 DEF Opens, TypeOK
  <2>3. QED
    BY <2>0, <2>1, <2>2 DEF PendingInv
<1>6. ASSUME NEW s \in Sockets, NEW t \in Turns, Schedules(s, t) PROVE PendingInv'
  BY <1>6 DEF Schedules, PendingInv, TypeOK, socketVars
<1>7. ASSUME NEW s \in Sockets, NEW th \in Threads, StartsOwn(s, th) PROVE PendingInv'
  BY <1>7
     DEF StartsOwn, Created, PendingInv, cacheVars, stateVars, socketVars, turnVars,
         serverVars
<1>8. ASSUME NEW s \in Sockets, NEW th \in Threads, StartsCached(s, th) PROVE PendingInv'
  BY <1>8
     DEF StartsCached, Created, PendingInv, cacheVars, stateVars, socketVars, turnVars,
         serverVars
<1>9. ASSUME NEW s \in Sockets, PrunesOne(s) PROVE PendingInv'
  BY <1>9 DEF PrunesOne, HasLock, PendingInv
<1>10. ASSUME NEW s \in Sockets, FindsThread(s) PROVE PendingInv'
  BY <1>10 DEF FindsThread, HasLock, PendingInv
<1>11. ASSUME NEW s \in Sockets, ReplacesThread(s) PROVE PendingInv'
  BY <1>11 DEF ReplacesThread, HasLock, PendingInv
<1>12. ASSUME NEW s \in Sockets, IsRefused(s) PROVE PendingInv'
  BY <1>12 DEF IsRefused, HasLock, PendingInv
<1>13. ASSUME NEW s \in Sockets, FindsRoom(s) PROVE PendingInv'
  BY <1>13 DEF FindsRoom, HasLock, PendingInv
<1>14. ASSUME NEW s \in Sockets, Replaced(s) PROVE PendingInv'
  <2>0. \A th \in Threads : pending[th] \in Sockets \cup {None}
    BY DEF TypeOK
  <2>1. UNCHANGED <<pending, uses>> /\ main[s] = "replacing"
    BY <1>14 DEF Replaced, stateVars
  <2>2. \A r \in Sockets : r # s => main'[r] = main[r]
    BY <1>14 DEF Replaced, Refused, TypeOK
  <2>3. QED
    BY <2>0, <2>1, <2>2 DEF PendingInv
<1>15. ASSUME NEW s \in Sockets, Announced(s) PROVE PendingInv'
  BY <1>15 DEF Announced, PendingInv, TypeOK, stateVars, serverVars
<1>16. ASSUME NEW s \in Sockets, AnnounceFails(s) PROVE PendingInv'
  BY <1>16 DEF AnnounceFails, PendingInv, TypeOK, stateVars, serverVars
<1>17. ASSUME NEW s \in Sockets, ThreadFails(s) PROVE PendingInv'
  BY <1>17 DEF ThreadFails, PendingInv, stateVars, serverVars
<1>18. ASSUME NEW s \in Sockets, Stops(s) PROVE PendingInv'
  <2>0. \A th \in Threads : pending[th] \in Sockets \cup {None}
    BY DEF TypeOK
  <2>1. UNCHANGED <<pending, uses>> /\ main'[s] \in {"stopping", "gathering"}
    BY <1>18 DEF Stops, TypeOK
  <2>2. \A r \in Sockets : r # s => main'[r] = main[r]
    BY <1>18 DEF Stops, TypeOK
  <2>3. QED
    BY <2>0, <2>1, <2>2 DEF PendingInv
<1>19. ASSUME NEW s \in Sockets, Interrupted(s) PROVE PendingInv'
  BY <1>19 DEF Interrupted, PendingInv, stateVars
<1>20. ASSUME NEW s \in Sockets, Gathered(s) PROVE PendingInv'
  <2>0. \A th \in Threads : pending[th] \in Sockets \cup {None}
    BY DEF TypeOK
  <2>1. main[s] = "gathering" /\ UNCHANGED uses
    BY <1>20 DEF Gathered
  <2>2. \A r \in Sockets : r # s => main'[r] = main[r]
    BY <1>20 DEF Gathered, Leaves, TypeOK
  <2>3. CASE s \in had /\ Persistent(s)
    <3>1. UNCHANGED pending /\ main'[s] = "retiring"
      BY <1>20, <2>3 DEF Gathered, TypeOK
    <3>2. QED
      BY <2>0, <2>1, <2>2, <3>1 DEF PendingInv
  <2>4. CASE ~(s \in had /\ Persistent(s))
    <3>1. ClearsPending(s)
      BY <1>20, <2>4 DEF Gathered, Leaves
    <3>2. \A th \in Threads :
             pending'[th] = IF th = uses[s] /\ pending[th] = s THEN None ELSE pending[th]
      BY <3>1 DEF ClearsPending, TypeOK
    <3>3. QED
      BY <2>0, <2>1, <2>2, <3>2 DEF PendingInv
  <2>5. QED
    BY <2>3, <2>4
<1>21. ASSUME NEW s \in Sockets, MainDropsEntry(s) PROVE PendingInv'
  <2>0. \A th \in Threads : pending[th] \in Sockets \cup {None}
    BY DEF TypeOK
  <2>1. main[s] = "retiring" /\ UNCHANGED uses
    BY <1>21 DEF MainDropsEntry, EntryDropped
  <2>2. \A r \in Sockets : r # s => main'[r] = main[r]
    BY <1>21 DEF MainDropsEntry, TypeOK
  <2>3. CASE UNCHANGED pending /\ main' = [main EXCEPT ![s] = "disposing"]
    <3>1. main'[s] = "disposing"
      BY <2>3 DEF TypeOK
    <3>2. QED
      BY <2>0, <2>1, <2>2, <2>3, <3>1 DEF PendingInv
  <2>4. CASE ClearsPending(s)
    <3>1. \A th \in Threads :
             pending'[th] = IF th = uses[s] /\ pending[th] = s THEN None ELSE pending[th]
      BY <2>4 DEF ClearsPending, TypeOK
    <3>2. QED
      BY <2>0, <2>1, <2>2, <3>1 DEF PendingInv
  <2>5. QED
    BY <1>21, <2>3, <2>4 DEF MainDropsEntry
<1>22. ASSUME NEW s \in Sockets, MainDisposed(s) PROVE PendingInv'
  BY <1>22 DEF MainDisposed, ClearsPending, PendingInv, TypeOK
<1>23. ASSUME NEW t \in Turns, Completes(t) PROVE PendingInv'
  BY <1>23
     DEF Completes, GivesUpPending, PendingInv, cacheVars, stateVars, socketVars, turnVars,
         serverVars
<1>24. ASSUME NEW t \in Turns, Sent(t) PROVE PendingInv'
  BY <1>24
     DEF Sent, GivesUpPending, PendingInv, cacheVars, stateVars, socketVars, turnVars,
         serverVars
<1>25. ASSUME NEW t \in Turns, RunCancelled(t) PROVE PendingInv'
  BY <1>25
     DEF RunCancelled, GivesUpPending, PendingInv, TypeOK, cacheVars, stateVars, socketVars,
         turnVars, serverVars
<1>26. CASE UNCHANGED vars
  BY <1>26 DEF vars, cacheVars, stateVars, socketVars, turnVars, serverVars, PendingInv
<1> QED
  BY <1>1, <1>2, <1>3, <1>4, <1>5, <1>6, <1>7, <1>8, <1>9, <1>10, <1>11, <1>12, <1>13, <1>14,
     <1>15, <1>16, <1>17, <1>18, <1>19, <1>20, <1>21, <1>22, <1>23, <1>24, <1>25, <1>26,
     PruneSteps, StartSteps, RunDropsSteps, DispatchDropsSteps, MainDropsSteps
     DEF Next, MainStep, DispatchStep, RunStep

-----------------------------------------------------------------------------
(* What follows.                                                           *)

(* No socket has been opened, no thread created.                           *)
LEMMA InitIInv == Init => IInv
<1> SUFFICES ASSUME Init PROVE IInv
  OBVIOUS
<1>1. TypeOK
  <2>1. /\ limit \in 1..MaxConversations /\ cache = <<>> /\ lock = <<>>
        /\ turnLock = [th \in Threads |-> <<>>]
    BY DEF Init
  <2>2. cache \in Seq([conv : Convs, thread : Threads]) /\ Len(cache) <= limit
    BY <2>1, MaxAssumption
  <2>3. lock \in Seq(Tasks) /\ turnLock \in [Threads -> Seq(Turns)]
    BY <2>1
  <2>4. expired \in [Sockets -> Seq(Convs)]
    BY DEF Init
  <2>5. /\ old \subseteq Threads /\ retired \subseteq Threads /\ created \subseteq Threads
        /\ tools \in [Threads -> Tools \cup {None}]
        /\ pending \in [Threads -> Sockets \cup {None}]
        /\ owner \in [Threads -> Sockets \cup {None}] /\ deletes \in [Threads -> 0..2]
    BY DEF Init
  <2>6. /\ start \in [Sockets -> [conv : Convs \cup {None}, tools : Tools \cup {None}]]
        /\ uses \in [Sockets -> Threads \cup {None}] /\ had \subseteq Sockets
        /\ of \in [Turns -> Sockets \cup {None}]
    BY DEF Init
  <2>7. exited \in BOOLEAN
    BY Zenon DEF Init
  <2>8. QED
    BY <2>1, <2>2, <2>3, <2>4, <2>5, <2>6, <2>7 DEF Init, TypeOK
<1>2. Entries = {} /\ IsInjective(cache)
  BY DEF Init, Entries, ToSet, IsInjective
<1>3. \A s \in Sockets : main[s] = "new" /\ uses[s] = None /\ dispatch[s] = "off" /\ s \notin had
  BY DEF Init
<1>4. LockInv /\ SocketInv
  BY <1>3 DEF LockInv, SocketInv
<1>5. RunInv /\ FreshInv
  BY <1>2, <1>3, NoneAssumption DEF Init, RunInv, FreshInv
<1>6. CacheInv /\ OwnInv /\ PruneInv
  BY <1>2, <1>3 DEF CacheInv, OwnInv, PruneInv
<1>7. DeletedInv /\ PendingInv
  BY DEF Init, DeletedInv, PendingInv
<1>8. QED
  BY <1>1, <1>4, <1>5, <1>6, <1>7 DEF IInv

(* Every step keeps the invariant.                                         *)
LEMMA StepIInv == IInv /\ [Next]_vars => IInv'
  BY TypeStep, LockStep, SocketStep, TurnStep, FreshStep, CacheStep, OwnStep, PruneStep,
     DeletedStep, PendingStep DEF IInv

(* The invariant, for any sockets, conversations, threads and turns.       *)
THEOREM Invariant == Spec => []IInv
  BY InitIInv, StepIInv, PTL DEF Spec

(* Every variable keeps its type: the cache never outgrows                 *)
(* MAX_CONVERSATIONS.                                                      *)
THEOREM TypeCorrect == Spec => []TypeOK
<1>1. IInv => TypeOK
  BY DEF IInv
<1>2. QED
  BY <1>1, Invariant, PTL

(* What was never created is not deleted, what is cached was not, the      *)
(* thread of a one-shot socket is deleted by nobody else.                  *)
DeletesOnce == \A th \in Threads : deletes[th] \in {0, 1}

LEMMA DeletesOnceStep == IInv /\ DeletesOnce /\ [Next]_vars => DeletesOnce'
<1> SUFFICES ASSUME IInv, DeletesOnce, [Next]_vars PROVE DeletesOnce'
  OBVIOUS
<1>1. /\ TypeOK /\ LockInv /\ SocketInv /\ RunInv /\ FreshInv /\ CacheInv /\ OwnInv
      /\ PruneInv
  BY DEF IInv
<1>2. deletes \in [Threads -> 0..2]
  BY <1>1 DEF TypeOK
<1>3. ASSUME NEW s \in Sockets, GetsCache(s) \/ Pruned(s) PROVE DeletesOnce'
  <2>1. UNCHANGED deletes \/ \E conv, th : EntryLeaves(conv, th)
    BY <1>1, <1>3, PruneSteps DEF PrunesOne, FindsThread, ReplacesThread, IsRefused, FindsRoom
  <2>2. UNCHANGED deletes \/ \E th : deletes' = [deletes EXCEPT ![th] = 1]
    BY <2>1 DEF EntryLeaves
  <2>3. QED
    BY <1>2, <2>2 DEF DeletesOnce
<1>4. ASSUME NEW s \in Sockets, MainDrops(s) \/ DispatchDrops(s) PROVE DeletesOnce'
  <2>1. EntryDropped(s)
    BY <1>1, <1>4, MainDropsSteps, DispatchDropsSteps DEF MainDropsEntry, DispatchDropsEntry
  <2>2. UNCHANGED deletes \/ deletes' = [deletes EXCEPT ![uses[s]] = 1]
    BY <2>1 DEF EntryDropped, EntryLeaves
  <2>3. QED
    BY <1>2, <2>2 DEF DeletesOnce
<1>5. ASSUME NEW t \in Turns, RunDrops(t) PROVE DeletesOnce'
  <2>1. EntryDropped(of[t])
    BY <1>1, <1>5, RunDropsSteps DEF RunDropsEntry
  <2>2. UNCHANGED deletes \/ deletes' = [deletes EXCEPT ![uses[of[t]]] = 1]
    BY <2>1 DEF EntryDropped, EntryLeaves
  <2>3. QED
    BY <1>2, <2>2 DEF DeletesOnce
<1>6. ASSUME NEW s \in Sockets, Gathered(s) PROVE DeletesOnce'
  <2>1. main[s] = "gathering" /\ uses[s] # None
    BY <1>1, <1>6 DEF Gathered, SocketInv
  <2>2. ~Persistent(s) => deletes[uses[s]] = 0
    BY <1>1, <2>1 DEF OwnInv
  <2>3. \/ UNCHANGED deletes
        \/ ~Persistent(s) /\ deletes' = [deletes EXCEPT ![uses[s]] = deletes[uses[s]] + 1]
    BY <1>6 DEF Gathered, Leaves, Deletes
  <2>4. QED
    BY <1>2, <2>2, <2>3 DEF DeletesOnce
<1>7. CASE UNCHANGED deletes
  BY <1>7 DEF DeletesOnce
<1>8. ASSUME NEW s \in Sockets
      PROVE  /\ \A conv, f : Opens(s, conv, f) => UNCHANGED deletes
             /\ \A t : Schedules(s, t) => UNCHANGED deletes
             /\ Stops(s) => UNCHANGED deletes
             /\ \A th : ThreadStarts(s, th) => UNCHANGED deletes
             /\ Replaced(s) \/ Announced(s) \/ AnnounceFails(s) \/ ThreadFails(s) =>
                   UNCHANGED deletes
             /\ Interrupted(s) \/ MainDisposed(s) => UNCHANGED deletes
             /\ DispatchRetires(s) \/ DispatchDisposed(s) \/ DispatchCancelled(s) =>
                   UNCHANGED deletes
  BY DEF Opens, Schedules, Stops, ThreadStarts, Replaced, Announced, AnnounceFails,
         ThreadFails, Interrupted, MainDisposed, DispatchRetires, DispatchDisposed,
         DispatchCancelled, serverVars
<1>9. ASSUME NEW t \in Turns
      PROVE  /\ WaitsForTurn(t) \/ TakesTurn(t) \/ FindsRetired(t) \/ Completes(t) =>
                   UNCHANGED deletes
             /\ TurnFails(t) \/ Sent(t) \/ RunDisposed(t) \/ RunCancelled(t) =>
                   UNCHANGED deletes
  BY DEF WaitsForTurn, TakesTurn, FindsRetired, Completes, TurnFails, Sent, RunDisposed,
         RunCancelled, serverVars
<1>10. /\ \A th : Ages(th) => UNCHANGED deletes
       /\ AppServerExits \/ UNCHANGED vars => UNCHANGED deletes
  BY DEF Ages, AppServerExits, vars, serverVars
<1> QED
  BY <1>3, <1>4, <1>5, <1>6, <1>7, <1>8, <1>9, <1>10
     DEF Next, MainStep, DispatchStep, RunStep

(* A thread is deleted once, whoever may want to.                          *)
THEOREM NoSecondDeletion == Spec => []DeletedOnce
<1>1. Init => DeletesOnce
  BY DEF Init, DeletesOnce
<1>2. DeletesOnce => DeletedOnce
  BY DEF DeletesOnce, DeletedOnce
<1>3. QED
  BY <1>1, <1>2, DeletesOnceStep, Invariant, PTL DEF Spec

(* A thread that is marked as busy is marked for a socket that has not     *)
(* ended, and will clear it.                                               *)
THEOREM NoThreadIsKeptBusy == Spec => []NobodyKeepsAThreadBusy
<1>1. IInv => NobodyKeepsAThreadBusy
  BY DEF IInv, PendingInv, NobodyKeepsAThreadBusy
<1>2. QED
  BY <1>1, Invariant, PTL

(* A turn starts on a thread nobody has marked, so that no conversation    *)
(* has deleted it, nor its own one-shot socket, which is still open.       *)
THEOREM TurnsOnLiveThreads == Spec => NoTurnOnDeletedThread
<1>1. ASSUME IInv, Next, NEW t \in Turns, run[t] # "turn", run'[t] = "turn"
      PROVE  deletes[On(t)] = 0
  <2>1. TypeOK /\ RunInv /\ SocketInv /\ DeletedInv /\ OwnInv
    BY <1>1 DEF IInv
  <2>2. TakesTurn(t)
    <3>1. ASSUME NEW r \in Turns, r # t, RunStep(r) PROVE run'[t] = run[t]
      BY <2>1, <3>1
         DEF RunStep, WaitsForTurn, TakesTurn, FindsRetired, Completes, TurnFails, Sent,
            RunDrops, RunDisposed, RunCancelled, TypeOK
    <3>2. RunStep(t) => TakesTurn(t)
      BY <1>1, <2>1 DEF RunStep, WaitsForTurn, FindsRetired, Completes, TurnFails, Sent,
            RunDrops, RunDisposed, RunCancelled, AfterMark, AfterDrop, TypeOK
    <3>3. ASSUME NEW s \in Sockets
          PROVE  /\ \A conv, f : Opens(s, conv, f) => UNCHANGED run
                 /\ Stops(s) \/ MainStep(s) \/ DispatchStep(s) => UNCHANGED run
      BY DEF Opens, Stops, MainStep, DispatchStep, GetsCache, Pruned, Replaced, Announced,
             AnnounceFails, ThreadStarts, ThreadFails, Interrupted, Gathered, MainDrops,
             MainDisposed, DispatchRetires, DispatchDrops, DispatchDisposed,
             DispatchCancelled, turnVars
    <3>4. ASSUME NEW s \in Sockets, NEW r \in Turns, Schedules(s, r) PROVE run'[t] # "turn"
      BY <1>1, <2>1, <3>4 DEF Schedules, TypeOK
    <3>5. (\E th \in Threads : Ages(th)) \/ AppServerExits => UNCHANGED run
      BY DEF Ages, AppServerExits, turnVars
    <3>6. QED
      BY <1>1, <3>1, <3>2, <3>3, <3>4, <3>5 DEF Next
  <2>3. /\ of[t] \in Sockets /\ main[of[t]] \in {"serving", "stopping", "gathering"}
        /\ On(t) \notin retired
    BY <2>1, <2>2 DEF TakesTurn, Alive, Usable, RunInv
  <2>4. On(t) \in Threads /\ On(t) = uses[of[t]]
    BY <2>1, <2>3 DEF SocketInv, On, TypeOK
  <2> SUFFICES ASSUME deletes[On(t)] # 0 PROVE FALSE
    OBVIOUS
  <2>5. deletes[On(t)] > 0
    <3>1. deletes \in [Threads -> 0..2]
      BY <2>1 DEF TypeOK
    <3>2. QED
      BY <2>4, <3>1
  <2>6. PICK s \in Sockets :
           ~Persistent(s) /\ uses[s] = On(t) /\ main[s] \in {"deleting", "closed"}
    BY <2>1, <2>3, <2>4, <2>5 DEF DeletedInv
  <2>7. s # of[t]
    BY <2>3, <2>6
  <2>8. uses[s] # None
    BY <2>4, <2>6, NoneAssumption
  <2>9. QED
    BY <2>1, <2>3, <2>4, <2>6, <2>7, <2>8 DEF OwnInv
<1>2. IInv /\ [Next]_vars =>
        [\A t \in Turns : run[t] # "turn" /\ run'[t] = "turn" => deletes[On(t)] = 0]_vars
  BY <1>1
<1>3. QED
  BY <1>2, Invariant, PTL DEF Spec, NoTurnOnDeletedThread
=============================================================================
