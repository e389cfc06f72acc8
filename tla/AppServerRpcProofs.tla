-------------------------- MODULE AppServerRpcProofs --------------------------
(***************************************************************************)
(* Proofs about AppServerRpc for any sets of calls and requests and any    *)
(* bound of the table of retired ids.                                      *)
(***************************************************************************)
EXTENDS AppServerRpc, QueueProofs

(***************************************************************************)
(* The inductive invariant, in parts.                                      *)
(***************************************************************************)

(* close() is over only once the App Server is, which is started once.     *)
EndInv ==
    /\ start \in {"no", "calling"} => closing = "no"
    /\ closing = "closed" => process = "exited" /\ start # "failing"

(* Nobody handles a request before it comes.                               *)
UnseenInv == \A q \in Reqs : state[q] = "unseen" =>
    /\ committed[q] = {} /\ stateLock[q] = <<>>
    /\ \A w \in Responders : w.req = q => pc[w] = "idle" /\ w \notin stateless

(* Who waits for the lock of a request is in its queue.                    *)
LockInv == \A w \in Responders : pc[w] = "locking" => w \in ToSet(stateLock[w.req])

(* The table of retired ids holds retired ids only.                        *)
RetiredInv == \A q \in ToSet(retired) : state[q] = "retired"

(* Who answers without a _ServerResponseState answers a forgotten id.      *)
StatelessInv == \A w \in stateless :
    state[w.req] = "forgotten" /\ pc[w] \notin {"idle", "sleeping", "locking"}

(* Any other answer is written with the lock of its request at hand, and   *)
(* the request stays open meanwhile, up to the end of close().             *)
HolderInv == \A w \in Responders \ stateless : pc[w] \in Writing =>
    /\ stateLock[w.req] # <<>> /\ Head(stateLock[w.req]) = w
    /\ state[w.req] = "open" \/ closing = "closed"

(* A request that was answered is retired, or forgotten.                   *)
CommittedInv == \A q \in Reqs : committed[q] # {} => state[q] \in {"retired", "forgotten"}

IInv == /\ TypeOK /\ EndInv /\ UnseenInv /\ LockInv /\ RetiredInv /\ StatelessInv
        /\ HolderInv /\ CommittedInv

-----------------------------------------------------------------------------
(* Facts about the helpers.                                                *)

(* A writer's record, its role and its request.                            *)
LEMMA WriterTypes ==
    /\ \A q \in Reqs : Timer(q) \in Responders /\ Timer(q).req = q /\ Timer(q).role = "timer"
    /\ \A q \in Reqs, role \in {"session", "timer", "reader"} :
          /\ Writer(role, q) \in Responders
          /\ Writer(role, q).req = q /\ Writer(role, q).role = role
    /\ \A c \in Calls : Caller(c) \in Writers /\ Caller(c) \notin Responders
    /\ \A w \in Responders : w \in Writers /\ w.req \in Reqs
  BY DEF Timer, Writer, Caller, Writers, Responders, Callers

(* A queue one of its members left: the others are in it as before.        *)
LEMMA WithoutQueue ==
    ASSUME NEW S, NEW queue \in Seq(S), NEW w
    PROVE  /\ Without(queue, w) \in Seq(S)
           /\ ToSet(Without(queue, w)) = ToSet(queue) \ {w}
           /\ queue = <<>> => Without(queue, w) = <<>>
           /\ queue # <<>> /\ Head(queue) # w =>
                Without(queue, w) # <<>> /\ Head(Without(queue, w)) = Head(queue)
  BY DroppingKeeps DEF Without

(* What is written is a message of a writer.                               *)
LEMMA PipedType ==
    ASSUME TypeOK, NEW w \in Writers
    PROVE  Piped(w) \subseteq Writers
  BY DEF TypeOK, Piped

(* _write keeps the types of what it changes.                              *)
LEMMA StartsWriteType ==
    ASSUME TypeOK, NEW w \in Writers, StartsWrite(w)
    PROVE  /\ writeLock' \in Seq(Writers) /\ stdin' \subseteq Writers
           /\ pc' \in [Writers -> {"idle", "sleeping", "locking", "queued", "draining",
                                   "waiting", "over"}]
<1>1. writeLock' \in Seq(Writers)
  BY DEF StartsWrite, TypeOK
<1>2. stdin' \subseteq Writers
  BY PipedType DEF StartsWrite, TypeOK
<1>3. QED
  BY <1>1, <1>2 DEF StartsWrite, TypeOK

(* So does a writer that leaves the lock.                                  *)
LEMMA LeavesType ==
    ASSUME TypeOK, NEW w, LeavesWrite(w)
    PROVE  writeLock' \in Seq(Writers)
  BY WithoutQueue DEF LeavesWrite, TypeOK

(* Retiring an id closes it, and of the others changes at most one that    *)
(* was retired, which is forgotten.                                        *)
LEMMA RetireEffect ==
    ASSUME TypeOK, NEW q \in Reqs, Retire(q)
    PROVE  /\ retired' \in Seq(Reqs) /\ Len(retired') <= MaxRetired
           /\ state' \in [Reqs -> {"unseen", "open", "retired", "forgotten"}]
           /\ state'[q] \in {"retired", "forgotten"}
           /\ \A p \in Reqs \ {q} :
                 state'[p] = state[p] \/ (p \in ToSet(retired) /\ state'[p] = "forgotten")
           /\ \A p \in ToSet(retired') :
                 /\ p = q \/ p \in ToSet(retired)
                 /\ state'[p] = IF p = q THEN "retired" ELSE state[p]
<1> DEFINE ids == Append(retired, q)
           kept == IF Len(ids) > MaxRetired THEN Tail(ids) ELSE ids
<1>1. retired \in Seq(Reqs) /\ Len(retired) \in Nat /\ Len(retired) <= MaxRetired
  BY DEF TypeOK
<1>2. /\ ids \in Seq(Reqs) /\ ids # <<>> /\ ToSet(ids) = ToSet(retired) \cup {q}
      /\ Len(ids) = Len(retired) + 1
  <2>1. ids \in Seq(Reqs) /\ ids # <<>> /\ ToSet(ids) = ToSet(retired) \cup {q}
    BY <1>1, AppendSet
  <2>2. QED
    BY <1>1, <2>1
<1>3. /\ retired' = kept
      /\ state' = [p \in Reqs |-> IF p \in ToSet(ids) \ ToSet(kept) THEN "forgotten"
                                  ELSE IF p = q THEN "retired" ELSE state[p]]
  BY DEF Retire
<1> HIDE DEF ids
<1>4. Tail(ids) \in Seq(Reqs) /\ ToSet(ids) = ToSet(Tail(ids)) \cup {Head(ids)}
  BY <1>2, TailSet
<1>5. Len(Tail(ids)) = Len(ids) - 1
  BY <1>2
<1>6. kept \in Seq(Reqs) /\ Len(kept) <= MaxRetired /\ ToSet(kept) \subseteq ToSet(ids)
  BY <1>1, <1>2, <1>4, <1>5, RetiredAssumption
<1> HIDE DEF kept
<1>7. ToSet(kept) \subseteq Reqs
  BY <1>6 DEF ToSet
<1>8. retired' \in Seq(Reqs) /\ Len(retired') <= MaxRetired
  BY <1>3, <1>6
<1>9. state' \in [Reqs -> {"unseen", "open", "retired", "forgotten"}]
  BY <1>3 DEF TypeOK
<1>10. \A p \in Reqs \ {q} :
          state'[p] = state[p] \/ (p \in ToSet(retired) /\ state'[p] = "forgotten")
  BY <1>2, <1>3
<1>11. \A p \in ToSet(retired') :
          /\ p = q \/ p \in ToSet(retired)
          /\ state'[p] = IF p = q THEN "retired" ELSE state[p]
  BY <1>2, <1>3, <1>6, <1>7
<1>12. QED
  BY <1>3, <1>8, <1>9, <1>10, <1>11

(* A drain that ends: the request was open and its lock held; the writer   *)
(* and the timer are done with it.                                         *)
LEMMA CommitsEffect ==
    ASSUME TypeOK, EndInv, HolderInv, NEW w \in Responders, Commits(w)
    PROVE  /\ w.req \in Reqs /\ pc[w] = "draining" /\ w \notin stateless
           /\ state[w.req] = "open" /\ closing # "closed"
           /\ stateLock[w.req] # <<>> /\ Head(stateLock[w.req]) = w
           /\ \A v \in Writers :
                 pc'[v] = IF v = w \/ (v = Timer(w.req) /\ pc[v] # "idle") THEN "over" ELSE pc[v]
           /\ stateLock' \in [Reqs -> Seq(Responders)]
           /\ \A p \in Reqs \ {w.req} :
                 stateLock'[p] = stateLock[p] /\ committed'[p] = committed[p]
           /\ ToSet(stateLock[w.req]) \ {w, Timer(w.req)} \subseteq ToSet(stateLock'[w.req])
           /\ Retire(w.req) /\ stateless' = stateless /\ closing' = closing
<1>1. w \in Writers /\ w.req \in Reqs /\ Timer(w.req) \in Writers
  BY WriterTypes
<1>2. pc[w] = "draining" /\ process # "exited" /\ w \notin stateless
  BY DEF Commits, Drained
<1>3. closing # "closed"
  BY <1>2 DEF EndInv
<1>4. state[w.req] = "open" /\ stateLock[w.req] # <<>> /\ Head(stateLock[w.req]) = w
  BY <1>2, <1>3 DEF HolderInv, Writing
<1>5. \A v \in Writers :
         pc'[v] = IF v = w \/ (v = Timer(w.req) /\ pc[v] # "idle") THEN "over" ELSE pc[v]
  BY <1>1 DEF Commits, TypeOK
<1>6. stateLock[w.req] \in Seq(Responders)
  BY <1>1 DEF TypeOK
<1>7. /\ Tail(stateLock[w.req]) \in Seq(Responders)
      /\ ToSet(stateLock[w.req]) = ToSet(Tail(stateLock[w.req])) \cup {w}
  BY <1>4, <1>6, TailSet
<1>8. /\ Without(Tail(stateLock[w.req]), Timer(w.req)) \in Seq(Responders)
      /\ ToSet(Without(Tail(stateLock[w.req]), Timer(w.req)))
           = ToSet(Tail(stateLock[w.req])) \ {Timer(w.req)}
  BY <1>7, WithoutQueue
<1>9. stateLock' = [stateLock EXCEPT
                      ![w.req] = Without(Tail(stateLock[w.req]), Timer(w.req))]
  BY DEF Commits
<1>10. stateLock' \in [Reqs -> Seq(Responders)]
  BY <1>1, <1>8, <1>9 DEF TypeOK
<1>11. ToSet(stateLock[w.req]) \ {w, Timer(w.req)} \subseteq ToSet(stateLock'[w.req])
  BY <1>1, <1>7, <1>8, <1>9 DEF TypeOK
<1>12. \A p \in Reqs \ {w.req} : stateLock'[p] = stateLock[p] /\ committed'[p] = committed[p]
  BY <1>1, <1>9 DEF Commits, TypeOK
<1>13. Retire(w.req) /\ stateless' = stateless /\ closing' = closing
  BY DEF Commits
<1>14. QED
  BY <1>1, <1>2, <1>3, <1>4, <1>5, <1>10, <1>11, <1>12, <1>13

(* The types.                                                              *)
LEMMA TypeStep ==
    EndInv /\ LockInv /\ HolderInv /\ TypeOK /\ [Next]_vars => TypeOK'
<1> SUFFICES ASSUME EndInv, LockInv, HolderInv, TypeOK, [Next]_vars PROVE TypeOK'
  OBVIOUS
<1>1. ASSUME NEW c \in Calls, CallBegins(c) PROVE TypeOK'
  BY <1>1, WriterTypes, StartsWriteType DEF CallBegins, TypeOK
<1>2. ASSUME NEW c \in Calls, CallWritten(c) PROVE TypeOK'
  BY <1>2, LeavesType DEF CallWritten, TypeOK
<1>3. ASSUME NEW c \in Calls, Reply(c) PROVE TypeOK'
  BY <1>3 DEF Reply, TypeOK
<1>4. ASSUME NEW c \in Calls, CallReturns(c) PROVE TypeOK'
  BY <1>4, LeavesType DEF CallReturns, EndsCall, TypeOK
<1>5. ASSUME NEW c \in Calls, CallTimesOut(c) PROVE TypeOK'
  BY <1>5, LeavesType DEF CallTimesOut, EndsCall, TypeOK
<1>6. ASSUME NEW c \in Calls, CallFails(c) PROVE TypeOK'
  BY <1>6, LeavesType DEF CallFails, EndsCall, TypeOK
<1>7. ASSUME NEW c \in Calls, CallCancelled(c) PROVE TypeOK'
  BY <1>7, LeavesType DEF CallCancelled, EndsCall, TypeOK
<1>8. ASSUME NEW q \in Reqs, ToolRequested(q) PROVE TypeOK'
  BY <1>8 DEF ToolRequested, WithTimer, TypeOK
<1>9. ASSUME NEW q \in Reqs, ToolUndeliverable(q) PROVE TypeOK'
  <2>1. /\ Writer("reader", q) \in Responders /\ Writer("reader", q) \in Writers
        /\ Writer("session", q) \in Writers
    BY WriterTypes
  <2>2. <<Writer("reader", q)>> \in Seq(Responders)
    BY <2>1
  <2>3. stateLock' \in [Reqs -> Seq(Responders)]
    BY <1>9, <2>2 DEF ToolUndeliverable, TypeOK
  <2>4. QED
    BY <1>9, <2>1, <2>3 DEF ToolUndeliverable, TypeOK
<1>10. ASSUME NEW q \in Reqs, RequestDeclined(q) PROVE TypeOK'
  BY <1>10, WriterTypes, StartsWriteType DEF RequestDeclined, TypeOK
<1>11. ASSUME NEW q \in Reqs, SessionResponds(q) PROVE TypeOK'
  <2> DEFINE w == Writer("session", q)
  <2>1. w \in Responders /\ w \in Writers
    BY WriterTypes
  <2>2. stateLock' \in [Reqs -> Seq(Responders)]
    <3>1. Append(stateLock[q], w) \in Seq(Responders)
      BY <2>1 DEF TypeOK
    <3>2. QED
      BY <1>11, <3>1 DEF SessionResponds, TypeOK
  <2>3. /\ writeLock' \in Seq(Writers) /\ stdin' \subseteq Writers
        /\ pc' \in [Writers -> {"idle", "sleeping", "locking", "queued", "draining",
                              "waiting", "over"}]
    <3>1. CASE StartsWrite(w)
      BY <2>1, <3>1, StartsWriteType
    <3>2. CASE /\ UNCHANGED <<writeLock, stdin>>
               /\ \E s \in {"locking", "over"} : pc' = [pc EXCEPT ![w] = s]
      BY <2>1, <3>2 DEF TypeOK
    <3>3. QED
      BY <1>11, <3>1, <3>2 DEF SessionResponds
  <2>4. stateless' \subseteq Responders
    BY <1>11, <2>1 DEF SessionResponds, TypeOK
  <2>5. QED
    BY <1>11, <2>2, <2>3, <2>4 DEF SessionResponds, TypeOK
<1>12. ASSUME NEW q \in Reqs, TimerFires(q) PROVE TypeOK'
  BY <1>12, WriterTypes DEF TimerFires, TypeOK
<1>13. ASSUME NEW w \in Writers, GetsWriteLock(w) PROVE TypeOK'
  BY <1>13, PipedType DEF GetsWriteLock, TypeOK
<1>14. ASSUME NEW w \in Responders, EntersState(w) PROVE TypeOK'
  BY <1>14, WriterTypes, StartsWriteType DEF EntersState, TypeOK
<1>15. ASSUME NEW w \in Responders, TurnsBack(w) PROVE TypeOK'
  <2>1. w \in Writers /\ w.req \in Reqs /\ stateLock[w.req] \in Seq(Responders)
    BY WriterTypes DEF TypeOK
  <2>2. stateLock[w.req] # <<>>
    <3>1. w \in ToSet(stateLock[w.req])
      BY <1>15 DEF TurnsBack, HoldsState, LockInv
    <3>2. QED
      BY <3>1 DEF ToSet
  <2>3. Tail(stateLock[w.req]) \in Seq(Responders)
    BY <2>1, <2>2
  <2>4. QED
    BY <1>15, <2>1, <2>3 DEF TurnsBack, TypeOK
<1>16. ASSUME NEW w \in Responders, Commits(w) PROVE TypeOK'
  <2>1. writeLock' \in Seq(Writers)
    BY <1>16, LeavesType DEF Commits
  <2>2. /\ retired' \in Seq(Reqs) /\ Len(retired') <= MaxRetired
        /\ state' \in [Reqs -> {"unseen", "open", "retired", "forgotten"}]
    BY <1>16, CommitsEffect, RetireEffect
  <2>3. stateLock' \in [Reqs -> Seq(Responders)]
    BY <1>16, CommitsEffect
  <2>4. pc' \in [Writers -> {"idle", "sleeping", "locking", "queued", "draining",
                           "waiting", "over"}]
    BY <1>16, WriterTypes DEF Commits, TypeOK
  <2>5. committed' \in [Reqs -> SUBSET Responders]
    BY <1>16, WriterTypes DEF Commits, TypeOK
  <2>6. QED
    BY <1>16, <2>1, <2>2, <2>3, <2>4, <2>5 DEF Commits, TypeOK
<1>17. ASSUME NEW w \in Responders, StatelessWritten(w) PROVE TypeOK'
  BY <1>17, LeavesType DEF StatelessWritten, TypeOK
<1>18. ASSUME NEW w \in Responders, GivesUp(w) PROVE TypeOK'
  BY <1>18, WithoutQueue, LeavesType DEF GivesUp, StopsOnly, TypeOK
<1>19. ASSUME Spawns PROVE TypeOK'
  BY <1>19 DEF Spawns, TypeOK
<1>20. ASSUME Initialized PROVE TypeOK'
  BY <1>20 DEF Initialized, TypeOK
<1>21. ASSUME StartFails PROVE TypeOK'
  BY <1>21 DEF StartFails, TypeOK
<1>22. ASSUME StartRaises PROVE TypeOK'
  BY <1>22 DEF StartRaises, TypeOK
<1>23. ASSUME StdoutEnds PROVE TypeOK'
  BY <1>23 DEF StdoutEnds, TypeOK
<1>24. ASSUME Exits PROVE TypeOK'
  BY <1>24 DEF Exits, FailsPending, TypeOK
<1>25. ASSUME CloseBegins PROVE TypeOK'
  BY <1>25 DEF CloseBegins, TypeOK
<1>26. ASSUME StdinClosed PROVE TypeOK'
  BY <1>26 DEF StdinClosed, TypeOK
<1>27. ASSUME CloseEnds PROVE TypeOK'
  <2>1. writeLock' \in Seq(Writers)
    BY <1>27, DroppingKeeps DEF CloseEnds, TypeOK
  <2>2. stateLock' \in [Reqs -> Seq(Responders)]
    BY <1>27, WithoutQueue DEF CloseEnds, TypeOK
  <2>3. future' \in [Calls -> {"absent", "unset", "result", "exited"}]
    BY <1>27 DEF CloseEnds, FailsPending, TypeOK
  <2>4. retired' \in Seq(Reqs) /\ Len(retired') <= MaxRetired
    BY <1>27, RetiredAssumption DEF CloseEnds
  <2>5. QED
    BY <1>27, <2>1, <2>2, <2>3, <2>4 DEF CloseEnds, TypeOK
<1>28. CASE UNCHANGED vars
  BY <1>28 DEF vars, TypeOK
<1> QED
  BY <1>1, <1>2, <1>3, <1>4, <1>5, <1>6, <1>7, <1>8, <1>9, <1>10, <1>11, <1>12, <1>13, <1>14,
     <1>15, <1>16, <1>17, <1>18, <1>19, <1>20, <1>21, <1>22, <1>23, <1>24, <1>25, <1>26,
     <1>27, <1>28
     DEF Next

(* close() is over only once the App Server is.                            *)
LEMMA EndStep ==
    TypeOK /\ EndInv /\ [Next]_vars => EndInv'
<1> SUFFICES ASSUME TypeOK, EndInv, [Next]_vars PROVE EndInv'
  OBVIOUS
<1>1. ASSUME NEW c \in Calls, CallBegins(c) \/ CallWritten(c) \/ Reply(c) \/ CallReturns(c) \/
                CallTimesOut(c) \/ CallFails(c) \/ CallCancelled(c)
      PROVE  EndInv'
  <2>1. UNCHANGED <<process, start, closing>>
    BY <1>1
       DEF CallBegins, CallWritten, Reply, CallReturns, CallTimesOut, CallFails,
           CallCancelled, EndsCall
  <2>2. QED
    BY <2>1 DEF EndInv
<1>2. ASSUME NEW q \in Reqs, ToolRequested(q) \/ ToolUndeliverable(q) \/ RequestDeclined(q) \/
                SessionResponds(q) \/ TimerFires(q)
      PROVE  EndInv'
  <2>1. UNCHANGED <<process, start, closing>>
    BY <1>2 DEF ToolRequested, ToolUndeliverable, RequestDeclined, SessionResponds, TimerFires
  <2>2. QED
    BY <2>1 DEF EndInv
<1>3. ASSUME NEW w \in Writers, GetsWriteLock(w)
      PROVE  EndInv'
  <2>1. UNCHANGED <<process, start, closing>>
    BY <1>3 DEF GetsWriteLock
  <2>2. QED
    BY <2>1 DEF EndInv
<1>4. ASSUME NEW w \in Responders, EntersState(w) \/ TurnsBack(w) \/ Commits(w) \/
                StatelessWritten(w) \/ GivesUp(w)
      PROVE  EndInv'
  <2>1. UNCHANGED <<process, start, closing>>
    BY <1>4 DEF EntersState, TurnsBack, Commits, StatelessWritten, GivesUp
  <2>2. QED
    BY <2>1 DEF EndInv
<1>5. ASSUME Spawns PROVE EndInv'
  BY <1>5 DEF Spawns, EndInv
<1>6. ASSUME Initialized PROVE EndInv'
  BY <1>6 DEF Initialized, EndInv
<1>7. ASSUME StartFails PROVE EndInv'
  BY <1>7 DEF StartFails, EndInv
<1>8. ASSUME StartRaises PROVE EndInv'
  BY <1>8 DEF StartRaises, EndInv
<1>9. ASSUME StdoutEnds PROVE EndInv'
  BY <1>9 DEF StdoutEnds, EndInv
<1>10. ASSUME Exits PROVE EndInv'
  BY <1>10 DEF Exits, EndInv
<1>11. ASSUME CloseBegins PROVE EndInv'
  BY <1>11 DEF CloseBegins, EndInv
<1>12. ASSUME StdinClosed PROVE EndInv'
  BY <1>12 DEF StdinClosed, EndInv
<1>13. ASSUME CloseEnds PROVE EndInv'
  BY <1>13 DEF CloseEnds, EndInv
<1>14. CASE UNCHANGED vars
  BY <1>14 DEF vars, EndInv
<1> QED
  BY <1>1, <1>2, <1>3, <1>4, <1>5, <1>6, <1>7, <1>8, <1>9, <1>10, <1>11, <1>12, <1>13, <1>14
     DEF Next

(* Nobody handles a request before it comes.                               *)
LEMMA UnseenStep ==
    TypeOK /\ EndInv /\ StatelessInv /\ HolderInv /\ UnseenInv /\ [Next]_vars => UnseenInv'
<1> SUFFICES ASSUME TypeOK, EndInv, StatelessInv, HolderInv, UnseenInv, [Next]_vars
             PROVE  UnseenInv'
  OBVIOUS
<1>1. ASSUME NEW c \in Calls, Reply(c)
      PROVE  UnseenInv'
  <2>1. UNCHANGED <<state, stateLock, pc, stateless, committed>>
    BY <1>1 DEF Reply
  <2>2. QED
    BY <2>1 DEF UnseenInv
<1>2. ASSUME Spawns \/ Initialized \/ StartFails \/ StartRaises \/ StdoutEnds \/ Exits \/
                CloseBegins \/ StdinClosed
      PROVE  UnseenInv'
  <2>1. UNCHANGED <<state, stateLock, pc, stateless, committed>>
    BY <1>2
       DEF Spawns, Initialized, StartFails, StartRaises, StdoutEnds, Exits, CloseBegins,
           StdinClosed
  <2>2. QED
    BY <2>1 DEF UnseenInv
<1>3. ASSUME NEW c \in Calls, CallBegins(c) PROVE UnseenInv'
  BY <1>3, WriterTypes DEF CallBegins, StartsWrite, UnseenInv, TypeOK
<1>4. ASSUME NEW c \in Calls, CallWritten(c) PROVE UnseenInv'
  BY <1>4 DEF CallWritten, Drained, UnseenInv
<1>5. ASSUME NEW c \in Calls, CallReturns(c) PROVE UnseenInv'
  BY <1>5 DEF CallReturns, EndsCall, UnseenInv
<1>6. ASSUME NEW c \in Calls, CallTimesOut(c) PROVE UnseenInv'
  BY <1>6 DEF CallTimesOut, EndsCall, UnseenInv
<1>7. ASSUME NEW c \in Calls, CallFails(c) PROVE UnseenInv'
  BY <1>7 DEF CallFails, EndsCall, PipeBroke, UnseenInv
<1>8. ASSUME NEW c \in Calls, CallCancelled(c) PROVE UnseenInv'
  BY <1>8 DEF CallCancelled, EndsCall, Writing, UnseenInv
<1>9. ASSUME NEW q \in Reqs, ToolRequested(q) PROVE UnseenInv'
  BY <1>9, WriterTypes DEF ToolRequested, WithTimer, UnseenInv, TypeOK
<1>10. ASSUME NEW q \in Reqs, ToolUndeliverable(q) PROVE UnseenInv'
  BY <1>10, WriterTypes DEF ToolUndeliverable, UnseenInv, TypeOK
<1>11. ASSUME NEW q \in Reqs, RequestDeclined(q) PROVE UnseenInv'
  BY <1>11, WriterTypes DEF RequestDeclined, StartsWrite, UnseenInv, TypeOK
<1>12. ASSUME NEW q \in Reqs, SessionResponds(q) PROVE UnseenInv'
  BY <1>12, WriterTypes DEF SessionResponds, StartsWrite, UnseenInv, TypeOK
<1>13. ASSUME NEW q \in Reqs, TimerFires(q) PROVE UnseenInv'
  BY <1>13, WriterTypes DEF TimerFires, UnseenInv
<1>14. ASSUME NEW w \in Writers, GetsWriteLock(w) PROVE UnseenInv'
  BY <1>14 DEF GetsWriteLock, UnseenInv
<1>15. ASSUME NEW w \in Responders, EntersState(w) PROVE UnseenInv'
  BY <1>15, WriterTypes DEF EntersState, StartsWrite, HoldsState, UnseenInv, TypeOK
<1>16. ASSUME NEW w \in Responders, TurnsBack(w) PROVE UnseenInv'
  BY <1>16 DEF TurnsBack, HoldsState, UnseenInv
<1>17. ASSUME NEW w \in Responders, Commits(w) PROVE UnseenInv'
  <2>1. /\ w.req \in Reqs /\ w.req = w.req /\ state'[w.req] # "unseen"
        /\ \A p \in Reqs \ {w.req} : state'[p] = "unseen" => state[p] = "unseen"
    BY <1>17, CommitsEffect, RetireEffect
  <2>2. ASSUME NEW p \in Reqs, state'[p] = "unseen"
        PROVE  /\ p # w.req /\ committed'[p] = {} /\ stateLock'[p] = <<>>
               /\ \A v \in Responders : v.req = p => pc'[v] = "idle" /\ v \notin stateless'
    <3>1. p # w.req /\ state[p] = "unseen"
      BY <2>1, <2>2
    <3>2. committed'[p] = {} /\ stateLock'[p] = <<>>
      BY <1>17, <3>1, CommitsEffect DEF UnseenInv
    <3>3. ASSUME NEW v \in Responders, v.req = p PROVE pc'[v] = "idle" /\ v \notin stateless'
      <4>1. pc[v] = "idle" /\ v \notin stateless
        BY <3>1, <3>3 DEF UnseenInv
      <4>2. v # w /\ v \in Writers
        BY <3>1, <3>3, WriterTypes
      <4>3. QED
        BY <1>17, <4>1, <4>2, CommitsEffect
    <3>4. QED
      BY <3>1, <3>2, <3>3
  <2>3. QED
    BY <2>2 DEF UnseenInv
<1>18. ASSUME NEW w \in Responders, StatelessWritten(w) PROVE UnseenInv'
  BY <1>18 DEF StatelessWritten, UnseenInv
<1>19. ASSUME NEW w \in Responders, GivesUp(w) PROVE UnseenInv'
  BY <1>19 DEF GivesUp, PipeBroke, StopsOnly, Writing, UnseenInv
<1>20. ASSUME CloseEnds PROVE UnseenInv'
  BY <1>20, WriterTypes, WithoutQueue DEF CloseEnds, UnseenInv, TypeOK
<1>21. CASE UNCHANGED vars
  BY <1>21 DEF vars, UnseenInv
<1> QED
  BY <1>1, <1>2, <1>3, <1>4, <1>5, <1>6, <1>7, <1>8, <1>9, <1>10, <1>11, <1>12, <1>13, <1>14,
     <1>15, <1>16, <1>17, <1>18, <1>19, <1>20, <1>21
     DEF Next

(* Who waits for the lock of a request is in its queue.                    *)
LEMMA LockStep ==
    TypeOK /\ EndInv /\ UnseenInv /\ HolderInv /\ LockInv /\ [Next]_vars => LockInv'
<1> SUFFICES ASSUME TypeOK, EndInv, UnseenInv, HolderInv, LockInv, [Next]_vars PROVE LockInv'
  OBVIOUS
<1>1. ASSUME NEW c \in Calls, Reply(c)
      PROVE  LockInv'
  <2>1. UNCHANGED <<stateLock, pc>>
    BY <1>1 DEF Reply
  <2>2. QED
    BY <2>1 DEF LockInv
<1>2. ASSUME Spawns \/ Initialized \/ StartFails \/ StartRaises \/ StdoutEnds \/ Exits \/
                CloseBegins \/ StdinClosed
      PROVE  LockInv'
  <2>1. UNCHANGED <<stateLock, pc>>
    BY <1>2
       DEF Spawns, Initialized, StartFails, StartRaises, StdoutEnds, Exits, CloseBegins,
           StdinClosed
  <2>2. QED
    BY <2>1 DEF LockInv
<1>3. ASSUME NEW c \in Calls, CallBegins(c) PROVE LockInv'
  BY <1>3, WriterTypes DEF CallBegins, StartsWrite, LockInv, TypeOK
<1>4. ASSUME NEW c \in Calls, CallWritten(c) PROVE LockInv'
  BY <1>4 DEF CallWritten, LockInv
<1>5. ASSUME NEW c \in Calls, CallReturns(c) PROVE LockInv'
  BY <1>5 DEF CallReturns, EndsCall, LockInv
<1>6. ASSUME NEW c \in Calls, CallTimesOut(c) PROVE LockInv'
  BY <1>6 DEF CallTimesOut, EndsCall, LockInv
<1>7. ASSUME NEW c \in Calls, CallFails(c) PROVE LockInv'
  BY <1>7 DEF CallFails, EndsCall, LockInv
<1>8. ASSUME NEW c \in Calls, CallCancelled(c) PROVE LockInv'
  BY <1>8 DEF CallCancelled, EndsCall, LockInv
<1>9. ASSUME NEW q \in Reqs, ToolRequested(q) PROVE LockInv'
  BY <1>9 DEF ToolRequested, WithTimer, LockInv
<1>10. ASSUME NEW q \in Reqs, ToolUndeliverable(q) PROVE LockInv'
  <2> DEFINE w == Writer("reader", q)
  <2>1. w \in Responders /\ w \in Writers /\ w.req = q /\ Writer("session", q) \in Writers
    BY WriterTypes
  <2>2. w \in ToSet(<<w>>)
    BY DEF ToSet
  <2> HIDE DEF w
  <2>3. ASSUME NEW v \in Responders, pc'[v] = "locking" PROVE v \in ToSet(stateLock'[v.req])
    <3>1. v \in Writers /\ v.req \in Reqs
      BY WriterTypes
    <3>2. v = w \/ (v.req # q /\ pc[v] = "locking")
      BY <1>10, <2>1, <2>3, <3>1 DEF ToolUndeliverable, UnseenInv, TypeOK, w
    <3>3. stateLock' = [stateLock EXCEPT ![q] = <<w>>]
      BY <1>10 DEF ToolUndeliverable, w
    <3>4. QED
      BY <2>1, <2>2, <3>1, <3>2, <3>3 DEF LockInv, TypeOK
  <2>4. QED
    BY <2>3 DEF LockInv
<1>11. ASSUME NEW q \in Reqs, RequestDeclined(q) PROVE LockInv'
  BY <1>11, WriterTypes, AppendSet DEF RequestDeclined, StartsWrite, LockInv, TypeOK
<1>12. ASSUME NEW q \in Reqs, SessionResponds(q) PROVE LockInv'
  <2> DEFINE w == Writer("session", q)
  <2>1. w \in Responders /\ w \in Writers /\ w.req = q /\ stateLock[q] \in Seq(Responders)
    BY WriterTypes DEF TypeOK
  <2>2. ToSet(Append(stateLock[q], w)) = ToSet(stateLock[q]) \cup {w}
    BY <2>1, AppendSet
  <2> HIDE DEF w
  <2>3. ASSUME NEW v \in Responders, pc'[v] = "locking" PROVE v \in ToSet(stateLock'[v.req])
    <3>1. v \in Writers /\ v.req \in Reqs
      BY WriterTypes
    <3>2. v = w \/ pc[v] = "locking"
      BY <1>12, <2>1, <2>3, <3>1 DEF SessionResponds, StartsWrite, TypeOK, w
    <3>3. CASE state[q] = "open"
      <4>1. stateLock' = [stateLock EXCEPT ![q] = Append(stateLock[q], w)]
        BY <1>12, <3>3 DEF SessionResponds, w
      <4>2. QED
        BY <2>1, <2>2, <3>1, <3>2, <4>1 DEF LockInv, TypeOK
    <3>4. CASE state[q] # "open"
      <4>1. stateLock' = stateLock /\ v # w
        BY <1>12, <2>1, <2>3, <3>4 DEF SessionResponds, StartsWrite, TypeOK, w
      <4>2. QED
        BY <3>2, <4>1 DEF LockInv
    <3>5. QED
      BY <3>3, <3>4
  <2>4. QED
    BY <2>3 DEF LockInv
<1>13. ASSUME NEW q \in Reqs, TimerFires(q) PROVE LockInv'
  BY <1>13, WriterTypes, AppendSet DEF TimerFires, LockInv, TypeOK
<1>14. ASSUME NEW w \in Writers, GetsWriteLock(w) PROVE LockInv'
  BY <1>14 DEF GetsWriteLock, LockInv
<1>15. ASSUME NEW w \in Responders, EntersState(w) PROVE LockInv'
  BY <1>15, WriterTypes DEF EntersState, StartsWrite, LockInv, TypeOK
<1>16. ASSUME NEW w \in Responders, TurnsBack(w) PROVE LockInv'
  <2>1. w \in Writers /\ w.req \in Reqs /\ stateLock[w.req] \in Seq(Responders)
    BY WriterTypes DEF TypeOK
  <2>2. w \in ToSet(stateLock[w.req]) /\ Head(stateLock[w.req]) = w
    BY <1>16 DEF TurnsBack, HoldsState, LockInv
  <2>3. stateLock[w.req] # <<>>
    BY <2>2 DEF ToSet
  <2>4. ToSet(stateLock[w.req]) = ToSet(Tail(stateLock[w.req])) \cup {w}
    BY <2>1, <2>2, <2>3, TailSet
  <2>5. ASSUME NEW v \in Responders, pc'[v] = "locking" PROVE v \in ToSet(stateLock'[v.req])
    <3>1. v # w /\ pc[v] = "locking" /\ v \in Writers /\ v.req \in Reqs
      BY <1>16, <2>1, <2>5, WriterTypes DEF TurnsBack, TypeOK
    <3>2. v \in ToSet(stateLock[v.req])
      BY <3>1 DEF LockInv
    <3>3. QED
      BY <1>16, <2>1, <2>4, <3>1, <3>2 DEF TurnsBack, TypeOK
  <2>6. QED
    BY <2>5 DEF LockInv
<1>17. ASSUME NEW w \in Responders, Commits(w) PROVE LockInv'
  <2> SUFFICES ASSUME NEW v \in Responders, pc'[v] = "locking"
               PROVE  v \in ToSet(stateLock'[v.req])
    BY DEF LockInv
  <2>1. v \in Writers /\ v.req \in Reqs
    BY WriterTypes
  <2>2. v # w /\ pc[v] = "locking" /\ v # Timer(w.req)
    BY <1>17, <2>1, CommitsEffect
  <2>3. v \in ToSet(stateLock[v.req])
    BY <2>2 DEF LockInv
  <2>4. QED
    BY <1>17, <2>1, <2>2, <2>3, CommitsEffect
<1>18. ASSUME NEW w \in Responders, StatelessWritten(w) PROVE LockInv'
  BY <1>18 DEF StatelessWritten, LockInv
<1>19. ASSUME NEW w \in Responders, GivesUp(w) PROVE LockInv'
  BY <1>19, WriterTypes, WithoutQueue DEF GivesUp, StopsOnly, LockInv, TypeOK
<1>20. ASSUME CloseEnds PROVE LockInv'
  BY <1>20, WriterTypes, WithoutQueue DEF CloseEnds, LockInv, TypeOK
<1>21. CASE UNCHANGED vars
  BY <1>21 DEF vars, LockInv
<1> QED
  BY <1>1, <1>2, <1>3, <1>4, <1>5, <1>6, <1>7, <1>8, <1>9, <1>10, <1>11, <1>12, <1>13, <1>14,
     <1>15, <1>16, <1>17, <1>18, <1>19, <1>20, <1>21
     DEF Next

(* The table of retired ids holds retired ids.                             *)
LEMMA RetiredStep ==
    TypeOK /\ EndInv /\ UnseenInv /\ HolderInv /\ RetiredInv /\ [Next]_vars => RetiredInv'
<1> SUFFICES ASSUME TypeOK, EndInv, UnseenInv, HolderInv, RetiredInv, [Next]_vars
             PROVE  RetiredInv'
  OBVIOUS
<1>1. ASSUME NEW c \in Calls, CallBegins(c) \/ CallWritten(c) \/ Reply(c) \/ CallReturns(c) \/
                CallTimesOut(c) \/ CallFails(c) \/ CallCancelled(c)
      PROVE  RetiredInv'
  <2>1. UNCHANGED <<retired, state>>
    BY <1>1
       DEF CallBegins, CallWritten, Reply, CallReturns, CallTimesOut, CallFails,
           CallCancelled, EndsCall
  <2>2. QED
    BY <2>1 DEF RetiredInv
<1>2. ASSUME NEW q \in Reqs, SessionResponds(q) \/ TimerFires(q)
      PROVE  RetiredInv'
  <2>1. UNCHANGED <<retired, state>>
    BY <1>2 DEF SessionResponds, TimerFires
  <2>2. QED
    BY <2>1 DEF RetiredInv
<1>3. ASSUME NEW w \in Writers, GetsWriteLock(w)
      PROVE  RetiredInv'
  <2>1. UNCHANGED <<retired, state>>
    BY <1>3 DEF GetsWriteLock
  <2>2. QED
    BY <2>1 DEF RetiredInv
<1>4. ASSUME NEW w \in Responders, EntersState(w) \/ TurnsBack(w) \/ StatelessWritten(w) \/
                GivesUp(w)
      PROVE  RetiredInv'
  <2>1. UNCHANGED <<retired, state>>
    BY <1>4 DEF EntersState, TurnsBack, StatelessWritten, GivesUp
  <2>2. QED
    BY <2>1 DEF RetiredInv
<1>5. ASSUME Spawns \/ Initialized \/ StartFails \/ StartRaises \/ StdoutEnds \/ Exits \/
                CloseBegins \/ StdinClosed
      PROVE  RetiredInv'
  <2>1. UNCHANGED <<retired, state>>
    BY <1>5
       DEF Spawns, Initialized, StartFails, StartRaises, StdoutEnds, Exits, CloseBegins,
           StdinClosed
  <2>2. QED
    BY <2>1 DEF RetiredInv
<1>6. ASSUME NEW q \in Reqs, ToolRequested(q) PROVE RetiredInv'
  BY <1>6 DEF ToolRequested, RetiredInv
<1>7. ASSUME NEW q \in Reqs, ToolUndeliverable(q) PROVE RetiredInv'
  BY <1>7 DEF ToolUndeliverable, RetiredInv
<1>8. ASSUME NEW q \in Reqs, RequestDeclined(q) PROVE RetiredInv'
  BY <1>8 DEF RequestDeclined, RetiredInv
<1>9. ASSUME NEW w \in Responders, Commits(w) PROVE RetiredInv'
  <2>1. w.req \in Reqs /\ Retire(w.req)
    BY <1>9, CommitsEffect
  <2>2. QED
    BY <2>1, RetireEffect DEF RetiredInv
<1>10. ASSUME CloseEnds PROVE RetiredInv'
  <2>1. ToSet(retired') = {}
    BY <1>10 DEF CloseEnds, ToSet
  <2>2. QED
    BY <2>1 DEF RetiredInv
<1>11. CASE UNCHANGED vars
  BY <1>11 DEF vars, RetiredInv
<1> QED
  BY <1>1, <1>2, <1>3, <1>4, <1>5, <1>6, <1>7, <1>8, <1>9, <1>10, <1>11 DEF Next

(* Who answers without a state answers a forgotten id.                     *)
LEMMA StatelessStep ==
    TypeOK /\ EndInv /\ UnseenInv /\ HolderInv /\ RetiredInv /\ StatelessInv /\ [Next]_vars =>
       StatelessInv'
<1> SUFFICES ASSUME TypeOK, EndInv, UnseenInv, HolderInv, RetiredInv, StatelessInv,
                    [Next]_vars
             PROVE  StatelessInv'
  OBVIOUS
<1>1. ASSUME NEW c \in Calls, Reply(c)
      PROVE  StatelessInv'
  <2>1. UNCHANGED <<stateless, state, pc>>
    BY <1>1 DEF Reply
  <2>2. QED
    BY <2>1 DEF StatelessInv
<1>2. ASSUME Spawns \/ Initialized \/ StartFails \/ StartRaises \/ StdoutEnds \/ Exits \/
                CloseBegins \/ StdinClosed
      PROVE  StatelessInv'
  <2>1. UNCHANGED <<stateless, state, pc>>
    BY <1>2
       DEF Spawns, Initialized, StartFails, StartRaises, StdoutEnds, Exits, CloseBegins,
           StdinClosed
  <2>2. QED
    BY <2>1 DEF StatelessInv
<1>3. ASSUME NEW c \in Calls, CallBegins(c) PROVE StatelessInv'
  BY <1>3, WriterTypes DEF CallBegins, StartsWrite, StatelessInv, TypeOK
<1>4. ASSUME NEW c \in Calls, CallWritten(c) PROVE StatelessInv'
  BY <1>4 DEF CallWritten, StatelessInv
<1>5. ASSUME NEW c \in Calls, CallReturns(c) PROVE StatelessInv'
  BY <1>5 DEF CallReturns, EndsCall, StatelessInv
<1>6. ASSUME NEW c \in Calls, CallTimesOut(c) PROVE StatelessInv'
  BY <1>6 DEF CallTimesOut, EndsCall, StatelessInv
<1>7. ASSUME NEW c \in Calls, CallFails(c) PROVE StatelessInv'
  BY <1>7 DEF CallFails, EndsCall, StatelessInv
<1>8. ASSUME NEW c \in Calls, CallCancelled(c) PROVE StatelessInv'
  BY <1>8 DEF CallCancelled, EndsCall, StatelessInv
<1>9. ASSUME NEW q \in Reqs, ToolRequested(q) PROVE StatelessInv'
  BY <1>9, WriterTypes DEF ToolRequested, WithTimer, StatelessInv
<1>10. ASSUME NEW q \in Reqs, ToolUndeliverable(q) PROVE StatelessInv'
  BY <1>10, WriterTypes DEF ToolUndeliverable, StatelessInv, TypeOK
<1>11. ASSUME NEW q \in Reqs, RequestDeclined(q) PROVE StatelessInv'
  BY <1>11, WriterTypes DEF RequestDeclined, StartsWrite, StatelessInv, TypeOK
<1>12. ASSUME NEW q \in Reqs, SessionResponds(q) PROVE StatelessInv'
  BY <1>12, WriterTypes DEF SessionResponds, StartsWrite, StatelessInv, TypeOK
<1>13. ASSUME NEW q \in Reqs, TimerFires(q) PROVE StatelessInv'
  BY <1>13 DEF TimerFires, StatelessInv
<1>14. ASSUME NEW w \in Writers, GetsWriteLock(w) PROVE StatelessInv'
  BY <1>14 DEF GetsWriteLock, StatelessInv
<1>15. ASSUME NEW w \in Responders, EntersState(w) PROVE StatelessInv'
  BY <1>15, WriterTypes DEF EntersState, StartsWrite, StatelessInv, TypeOK
<1>16. ASSUME NEW w \in Responders, TurnsBack(w) PROVE StatelessInv'
  BY <1>16 DEF TurnsBack, StatelessInv
<1>17. ASSUME NEW w \in Responders, Commits(w) PROVE StatelessInv'
  <2>1. /\ w.req \in Reqs /\ w \notin stateless /\ state[w.req] = "open" /\ Retire(w.req)
        /\ stateless' = stateless
    BY <1>17, CommitsEffect
  <2>2. ASSUME NEW v \in stateless
        PROVE  /\ state'[v.req] = "forgotten"
               /\ pc'[v] \notin {"idle", "sleeping", "locking"}
    <3>1. v \in Writers /\ v.req \in Reqs /\ v # w
      BY <2>1, WriterTypes DEF TypeOK
    <3>2. /\ state[v.req] = "forgotten" /\ v.req # w.req
          /\ pc[v] \notin {"idle", "sleeping", "locking"}
      BY <2>1 DEF StatelessInv
    <3>3. state'[v.req] = "forgotten"
      BY <2>1, <3>1, <3>2, RetireEffect
    <3>4. pc'[v] \notin {"idle", "sleeping", "locking"}
      BY <1>17, <3>1, <3>2, CommitsEffect
    <3>5. QED
      BY <3>3, <3>4
  <2>3. QED
    BY <2>1, <2>2 DEF StatelessInv
<1>18. ASSUME NEW w \in Responders, StatelessWritten(w) PROVE StatelessInv'
  BY <1>18 DEF StatelessWritten, StatelessInv
<1>19. ASSUME NEW w \in Responders, GivesUp(w) PROVE StatelessInv'
  BY <1>19 DEF GivesUp, StopsOnly, StatelessInv
<1>20. ASSUME CloseEnds PROVE StatelessInv'
  BY <1>20, WriterTypes DEF CloseEnds, StatelessInv, TypeOK
<1>21. CASE UNCHANGED vars
  BY <1>21 DEF vars, StatelessInv
<1> QED
  BY <1>1, <1>2, <1>3, <1>4, <1>5, <1>6, <1>7, <1>8, <1>9, <1>10, <1>11, <1>12, <1>13, <1>14,
     <1>15, <1>16, <1>17, <1>18, <1>19, <1>20, <1>21
     DEF Next

(* Who writes an answer has the lock of its request, which is open.        *)
LEMMA HolderStep ==
    TypeOK /\ EndInv /\ UnseenInv /\ LockInv /\ StatelessInv /\ RetiredInv /\ HolderInv /\
       [Next]_vars => HolderInv'
<1> SUFFICES ASSUME TypeOK, EndInv, UnseenInv, LockInv, StatelessInv, RetiredInv, HolderInv,
                    [Next]_vars
             PROVE  HolderInv'
  OBVIOUS
<1>1. ASSUME NEW c \in Calls, Reply(c)
      PROVE  HolderInv'
  <2>1. UNCHANGED <<pc, stateless, stateLock, state, closing>>
    BY <1>1 DEF Reply
  <2>2. QED
    BY <2>1 DEF HolderInv, Writing
<1>2. ASSUME Spawns \/ Initialized \/ StdoutEnds \/ Exits
      PROVE  HolderInv'
  <2>1. UNCHANGED <<pc, stateless, stateLock, state, closing>>
    BY <1>2 DEF Spawns, Initialized, StdoutEnds, Exits
  <2>2. QED
    BY <2>1 DEF HolderInv, Writing
<1>3. ASSUME NEW c \in Calls, CallBegins(c) PROVE HolderInv'
  BY <1>3, WriterTypes DEF CallBegins, StartsWrite, HolderInv, Writing, TypeOK
<1>4. ASSUME NEW c \in Calls, CallWritten(c) PROVE HolderInv'
  BY <1>4 DEF CallWritten, HolderInv, Writing
<1>5. ASSUME NEW c \in Calls, CallReturns(c) PROVE HolderInv'
  BY <1>5 DEF CallReturns, EndsCall, HolderInv, Writing
<1>6. ASSUME NEW c \in Calls, CallTimesOut(c) PROVE HolderInv'
  BY <1>6 DEF CallTimesOut, EndsCall, HolderInv, Writing
<1>7. ASSUME NEW c \in Calls, CallFails(c) PROVE HolderInv'
  BY <1>7 DEF CallFails, EndsCall, HolderInv, Writing
<1>8. ASSUME NEW c \in Calls, CallCancelled(c) PROVE HolderInv'
  BY <1>8 DEF CallCancelled, EndsCall, Writing, HolderInv
<1>9. ASSUME NEW q \in Reqs, ToolRequested(q) PROVE HolderInv'
  BY <1>9 DEF ToolRequested, WithTimer, HolderInv, Writing
<1>10. ASSUME NEW q \in Reqs, ToolUndeliverable(q) PROVE HolderInv'
  BY <1>10, WriterTypes DEF ToolUndeliverable, HolderInv, Writing, TypeOK, EndInv
<1>11. ASSUME NEW q \in Reqs, RequestDeclined(q) PROVE HolderInv'
  BY <1>11, WriterTypes DEF RequestDeclined, StartsWrite, HolderInv, TypeOK
<1>12. ASSUME NEW q \in Reqs, SessionResponds(q) PROVE HolderInv'
  <2> DEFINE w == Writer("session", q)
  <2>1. w \in Responders /\ w \in Writers /\ w.req = q /\ stateLock[q] \in Seq(Responders)
    BY WriterTypes DEF TypeOK
  <2>2. Head(Append(stateLock[q], w)) = IF stateLock[q] = <<>> THEN w ELSE Head(stateLock[q])
    BY <2>1, AppendSet
  <2>3. Append(stateLock[q], w) # <<>>
    BY <2>1, AppendSet
  <2> HIDE DEF w
  <2>4. UNCHANGED <<state, closing>>
    BY <1>12 DEF SessionResponds
  <2>5. ASSUME NEW v \in Responders \ stateless', pc'[v] \in Writing
        PROVE  /\ v \notin stateless /\ pc[v] \in Writing
               /\ stateLock'[v.req] = stateLock[v.req]
                     \/ (stateLock'[v.req] = Append(stateLock[q], w) /\ v.req = q)
    <3>1. v \in Writers /\ v.req \in Reqs
      BY WriterTypes
    <3>2. v \notin stateless /\ v # w
      BY <1>12, <2>1, <2>5, <3>1 DEF SessionResponds, TypeOK, Writing, w
    <3>3. pc[v] \in Writing
      BY <1>12, <2>1, <2>5, <3>1, <3>2 DEF SessionResponds, StartsWrite, TypeOK, w
    <3>4. stateLock' = stateLock \/ stateLock' = [stateLock EXCEPT ![q] = Append(stateLock[q], w)]
      BY <1>12 DEF SessionResponds, w
    <3>5. QED
      BY <3>1, <3>2, <3>3, <3>4 DEF TypeOK
  <2>6. QED
    BY <2>2, <2>3, <2>4, <2>5 DEF HolderInv
<1>13. ASSUME NEW q \in Reqs, TimerFires(q) PROVE HolderInv'
  BY <1>13 DEF TimerFires, HolderInv, Writing
<1>14. ASSUME NEW w \in Writers, GetsWriteLock(w) PROVE HolderInv'
  BY <1>14 DEF GetsWriteLock, HolderInv, Writing
<1>15. ASSUME NEW w \in Responders, EntersState(w) PROVE HolderInv'
  <2>1. w \in Writers /\ w.req \in Reqs /\ stateLock[w.req] # <<>>
    <3>1. w \in ToSet(stateLock[w.req])
      BY <1>15 DEF EntersState, HoldsState, LockInv
    <3>2. QED
      BY <3>1, WriterTypes DEF ToSet
  <2>2. /\ Head(stateLock[w.req]) = w /\ state[w.req] = "open"
        /\ UNCHANGED <<stateLock, state, closing, stateless>>
    BY <1>15 DEF EntersState, HoldsState, StillOpen
  <2>3. \A v \in Responders : v # w => pc'[v] = pc[v]
    BY <1>15, WriterTypes DEF EntersState, StartsWrite, TypeOK
  <2>4. QED
    BY <2>1, <2>2, <2>3 DEF HolderInv
<1>16. ASSUME NEW w \in Responders, TurnsBack(w) PROVE HolderInv'
  BY <1>16 DEF TurnsBack, HoldsState, HolderInv, Writing
<1>17. ASSUME NEW w \in Responders, Commits(w) PROVE HolderInv'
  <2> SUFFICES ASSUME NEW v \in Responders \ stateless', pc'[v] \in Writing
               PROVE  /\ stateLock'[v.req] # <<>> /\ Head(stateLock'[v.req]) = v
                      /\ state'[v.req] = "open" \/ closing' = "closed"
    BY DEF HolderInv
  <2>1. /\ w.req \in Reqs /\ Retire(w.req) /\ closing # "closed" /\ stateless' = stateless
        /\ Head(stateLock[w.req]) = w
    BY <1>17, CommitsEffect
  <2>2. v \in Writers /\ v.req \in Reqs
    BY WriterTypes
  <2>3. v # w /\ pc[v] \in Writing
    BY <1>17, <2>2, CommitsEffect DEF Writing
  <2>4. /\ stateLock[v.req] # <<>> /\ Head(stateLock[v.req]) = v /\ state[v.req] = "open"
    BY <2>1, <2>3 DEF HolderInv
  <2>5. v.req # w.req
    BY <2>1, <2>3, <2>4
  <2>6. stateLock'[v.req] = stateLock[v.req]
    BY <1>17, <2>2, <2>5, CommitsEffect
  <2>7. state'[v.req] = "open"
    BY <2>1, <2>2, <2>4, <2>5, RetireEffect DEF RetiredInv
  <2>8. QED
    BY <2>4, <2>6, <2>7
<1>18. ASSUME NEW w \in Responders, StatelessWritten(w) PROVE HolderInv'
  BY <1>18 DEF StatelessWritten, HolderInv
<1>19. ASSUME NEW w \in Responders, GivesUp(w) PROVE HolderInv'
  BY <1>19, WriterTypes, WithoutQueue DEF GivesUp, StopsOnly, Writing, HolderInv, TypeOK
<1>20. ASSUME StartFails PROVE HolderInv'
  <2>1. closing = "no"
    BY <1>20 DEF StartFails, EndInv
  <2>2. QED
    BY <1>20, <2>1 DEF StartFails, HolderInv
<1>21. ASSUME StartRaises PROVE HolderInv'
  BY <1>21 DEF StartRaises, HolderInv
<1>22. ASSUME CloseBegins PROVE HolderInv'
  BY <1>22 DEF CloseBegins, HolderInv
<1>23. ASSUME StdinClosed PROVE HolderInv'
  BY <1>23 DEF StdinClosed, HolderInv
<1>24. ASSUME CloseEnds PROVE HolderInv'
  <2> SUFFICES ASSUME NEW v \in Responders \ stateless', pc'[v] \in Writing
               PROVE  stateLock'[v.req] # <<>> /\ Head(stateLock'[v.req]) = v
    BY <1>24 DEF HolderInv, CloseEnds
  <2>1. v \in Writers /\ v.req \in Reqs /\ stateLock[v.req] \in Seq(Responders)
    BY WriterTypes DEF TypeOK
  <2>2. pc[v] \in Writing /\ v # Timer(v.req) /\ v \notin stateless
    BY <1>24, <2>1 DEF CloseEnds, Writing
  <2>3. stateLock[v.req] # <<>> /\ Head(stateLock[v.req]) = v
    BY <2>2 DEF HolderInv
  <2>4. stateLock'[v.req] = Without(stateLock[v.req], Timer(v.req))
    BY <1>24, <2>1 DEF CloseEnds
  <2>5. QED
    BY <2>1, <2>2, <2>3, <2>4, WithoutQueue
<1>25. CASE UNCHANGED vars
  BY <1>25 DEF vars, HolderInv, Writing
<1> QED
  BY <1>1, <1>2, <1>3, <1>4, <1>5, <1>6, <1>7, <1>8, <1>9, <1>10, <1>11, <1>12, <1>13, <1>14,
     <1>15, <1>16, <1>17, <1>18, <1>19, <1>20, <1>21, <1>22, <1>23, <1>24, <1>25
     DEF Next

(* A request that was answered is retired or forgotten.                    *)
LEMMA CommittedStep ==
    TypeOK /\ EndInv /\ UnseenInv /\ HolderInv /\ CommittedInv /\ [Next]_vars => CommittedInv'
<1> SUFFICES ASSUME TypeOK, EndInv, UnseenInv, HolderInv, CommittedInv, [Next]_vars
             PROVE  CommittedInv'
  OBVIOUS
<1>1. ASSUME NEW c \in Calls, CallBegins(c) \/ CallWritten(c) \/ Reply(c) \/ CallReturns(c) \/
                CallTimesOut(c) \/ CallFails(c) \/ CallCancelled(c)
      PROVE  CommittedInv'
  <2>1. UNCHANGED <<committed, state>>
    BY <1>1
       DEF CallBegins, CallWritten, Reply, CallReturns, CallTimesOut, CallFails,
           CallCancelled, EndsCall
  <2>2. QED
    BY <2>1 DEF CommittedInv
<1>2. ASSUME NEW q \in Reqs, SessionResponds(q) \/ TimerFires(q)
      PROVE  CommittedInv'
  <2>1. UNCHANGED <<committed, state>>
    BY <1>2 DEF SessionResponds, TimerFires
  <2>2. QED
    BY <2>1 DEF CommittedInv
<1>3. ASSUME NEW w \in Writers, GetsWriteLock(w)
      PROVE  CommittedInv'
  <2>1. UNCHANGED <<committed, state>>
    BY <1>3 DEF GetsWriteLock
  <2>2. QED
    BY <2>1 DEF CommittedInv
<1>4. ASSUME NEW w \in Responders, EntersState(w) \/ TurnsBack(w) \/ StatelessWritten(w) \/
                GivesUp(w)
      PROVE  CommittedInv'
  <2>1. UNCHANGED <<committed, state>>
    BY <1>4 DEF EntersState, TurnsBack, StatelessWritten, GivesUp
  <2>2. QED
    BY <2>1 DEF CommittedInv
<1>5. ASSUME Spawns \/ Initialized \/ StartFails \/ StartRaises \/ StdoutEnds \/ Exits \/
                CloseBegins \/ StdinClosed
      PROVE  CommittedInv'
  <2>1. UNCHANGED <<committed, state>>
    BY <1>5
       DEF Spawns, Initialized, StartFails, StartRaises, StdoutEnds, Exits, CloseBegins,
           StdinClosed
  <2>2. QED
    BY <2>1 DEF CommittedInv
<1>6. ASSUME NEW q \in Reqs, ToolRequested(q) PROVE CommittedInv'
  BY <1>6 DEF ToolRequested, CommittedInv
<1>7. ASSUME NEW q \in Reqs, ToolUndeliverable(q) PROVE CommittedInv'
  BY <1>7 DEF ToolUndeliverable, CommittedInv
<1>8. ASSUME NEW q \in Reqs, RequestDeclined(q) PROVE CommittedInv'
  BY <1>8 DEF RequestDeclined, CommittedInv
<1>9. ASSUME NEW w \in Responders, Commits(w) PROVE CommittedInv'
  <2>1. /\ w.req \in Reqs /\ Retire(w.req)
        /\ \A p \in Reqs \ {w.req} : committed'[p] = committed[p]
    BY <1>9, CommitsEffect
  <2>2. QED
    BY <2>1, RetireEffect DEF CommittedInv
<1>10. ASSUME CloseEnds PROVE CommittedInv'
  BY <1>10 DEF CloseEnds, CommittedInv
<1>11. CASE UNCHANGED vars
  BY <1>11 DEF vars, CommittedInv
<1> QED
  BY <1>1, <1>2, <1>3, <1>4, <1>5, <1>6, <1>7, <1>8, <1>9, <1>10, <1>11 DEF Next

-----------------------------------------------------------------------------
(* What follows.                                                           *)

(* Before start() there is no request and no writer.                       *)
LEMMA InitIInv == Init => IInv
<1> SUFFICES ASSUME Init PROVE IInv
  OBVIOUS
<1>1. TypeOK
  BY RetiredAssumption DEF Init, TypeOK
<1>2. EndInv
  BY DEF Init, EndInv
<1>3. UnseenInv
  BY WriterTypes DEF Init, UnseenInv
<1>4. LockInv /\ HolderInv /\ CommittedInv
  BY WriterTypes DEF Init, LockInv, HolderInv, CommittedInv, Writing
<1>5. RetiredInv /\ StatelessInv
  BY DEF Init, RetiredInv, StatelessInv, ToSet
<1>6. QED
  BY <1>1, <1>2, <1>3, <1>4, <1>5 DEF IInv

(* Every step keeps the invariant.                                         *)
LEMMA StepIInv == IInv /\ [Next]_vars => IInv'
  BY TypeStep, EndStep, UnseenStep, LockStep, RetiredStep, StatelessStep, HolderStep,
     CommittedStep DEF IInv

(* The invariant, for any calls, requests and bound of the table.          *)
THEOREM Invariant == Spec => []IInv
  BY InitIInv, StepIInv, PTL DEF Spec

(* Every variable keeps its type: the table of retired ids never outgrows  *)
(* MAX_RETIRED_SERVER_RESPONSE_IDS.                                        *)
THEOREM TypeCorrect == Spec => []TypeOK
<1>1. IInv => TypeOK
  BY DEF IInv
<1>2. QED
  BY <1>1, Invariant, PTL

(* Who puts bytes into the pipe: a responder whose request has not been    *)
(* answered, or was forgotten.                                             *)
LEMMA PipeStep ==
    IInv /\ [Next]_vars =>
      [\A w \in Responders :
          w \in stdin' \ stdin /\ committed[w.req] # {} => state[w.req] = "forgotten"]_vars
<1> SUFFICES ASSUME IInv, Next, NEW w \in Responders, w \in stdin', w \notin stdin,
                    committed[w.req] # {}
             PROVE  state[w.req] = "forgotten"
  OBVIOUS
<1> USE DEF IInv
<1>1. w \in Writers /\ w.req \in Reqs /\ state[w.req] \in {"retired", "forgotten"}
  BY WriterTypes DEF CommittedInv
<1>2. ASSUME NEW v \in Writers, StartsWrite(v) PROVE w = v
  BY <1>2 DEF StartsWrite, Piped
<1>3. ASSUME NEW c \in Calls, CallBegins(c) PROVE state[w.req] = "forgotten"
  BY <1>2, <1>3, WriterTypes DEF CallBegins
<1>4. ASSUME NEW q \in Reqs, RequestDeclined(q) PROVE state[w.req] = "forgotten"
  <2>1. w = Writer("reader", q)
    BY <1>2, <1>4, WriterTypes DEF RequestDeclined
  <2>2. state[w.req] = "unseen"
    BY <1>4, <2>1, WriterTypes DEF RequestDeclined
  <2>3. QED
    BY <1>1, <2>2
<1>5. ASSUME NEW q \in Reqs, SessionResponds(q) PROVE state[w.req] = "forgotten"
  <2>1. w = Writer("session", q) /\ state[q] = "forgotten"
    BY <1>2, <1>5, WriterTypes DEF SessionResponds
  <2>2. QED
    BY <2>1, WriterTypes
<1>6. ASSUME NEW v \in Writers, GetsWriteLock(v) PROVE state[w.req] = "forgotten"
  <2>1. w = v /\ pc[w] \in Writing /\ closing # "closed"
    BY <1>6 DEF GetsWriteLock, Piped, TakesBytes, Writing
  <2>2. CASE w \in stateless
    BY <2>2 DEF StatelessInv
  <2>3. CASE w \notin stateless
    BY <1>1, <2>1, <2>3 DEF HolderInv
  <2>4. QED
    BY <2>2, <2>3
<1>7. ASSUME NEW v \in Responders, EntersState(v) PROVE state[w.req] = "forgotten"
  <2>1. w = v /\ state[w.req] = "open"
    BY <1>2, <1>7, WriterTypes DEF EntersState, StillOpen
  <2>2. QED
    BY <1>1, <2>1
<1>8. QED
  <2>1. stdin' # stdin
    OBVIOUS
  <2>2. ASSUME NEW c \in Calls,
               CallWritten(c) \/ Reply(c) \/ CallReturns(c) \/ CallTimesOut(c) \/ CallFails(c)
                 \/ CallCancelled(c)
        PROVE  FALSE
    BY <2>1, <2>2
       DEF CallWritten, Reply, CallReturns, CallTimesOut, CallFails, CallCancelled, EndsCall
  <2>3. ASSUME NEW q \in Reqs, ToolRequested(q) \/ ToolUndeliverable(q) \/ TimerFires(q)
        PROVE  FALSE
    BY <2>1, <2>3 DEF ToolRequested, ToolUndeliverable, TimerFires
  <2>4. ASSUME NEW v \in Responders,
               TurnsBack(v) \/ Commits(v) \/ StatelessWritten(v) \/ GivesUp(v)
        PROVE  FALSE
    BY <2>1, <2>4 DEF TurnsBack, Commits, StatelessWritten, GivesUp
  <2>5. ASSUME \/ Spawns \/ Initialized \/ StartFails \/ StartRaises \/ StdoutEnds \/ Exits
               \/ CloseBegins \/ StdinClosed \/ CloseEnds
        PROVE  FALSE
    BY <2>1, <2>5 DEF Spawns, Initialized, StartFails, StartRaises, StdoutEnds, Exits,
                      CloseBegins, StdinClosed, CloseEnds
  <2>6. QED
    BY <1>3, <1>4, <1>5, <1>6, <1>7, <2>2, <2>3, <2>4, <2>5 DEF Next

(* Once one write of an answer completed, no more bytes for that request   *)
(* enter the pipe, whoever else was waiting to write (_respond).           *)
THEOREM AnswersAreLast == Spec => AnswerIsLast
  BY Invariant, PipeStep, PTL DEF Spec, AnswerIsLast
=============================================================================
