-------------------------- MODULE ToolBrokerProofs --------------------------
(***************************************************************************)
(* Proofs about ToolBroker for any number of sockets and calls and any     *)
(* limits.  TypeCorrect bounds the tables; one inductive invariant, IInv,  *)
(* carries the safety properties of the tables and the refinement of       *)
(* RemoteCall; a longer one, WholeInv, says why an honest authority is     *)
(* kept and why live calls do not overrun the component.                   *)
(***************************************************************************)
EXTENDS ToolBroker, QueueProofs, FiniteSetTheorems, SequenceTheorems, TLAPS

(* Taking one element out of a sequence leaves its other elements, in      *)
(* their order: the send lock's queue and _retired lose elements this way. *)
LEMMA RemoveAtLemma ==
    ASSUME NEW S, NEW q \in Seq(S), NEW i \in DOMAIN q
    PROVE  /\ RemoveAt(q, i) \in Seq(S)
           /\ Len(RemoveAt(q, i)) = Len(q) - 1
           /\ \A j \in 1 .. Len(q) - 1 :
                 RemoveAt(q, i)[j] = IF j < i THEN q[j] ELSE q[j + 1]
<1>1. i \in 1 .. Len(q) /\ Len(q) \in Nat
  OBVIOUS
<1> DEFINE a == SubSeq(q, 1, i - 1)
           b == SubSeq(q, i + 1, Len(q))
<1>2. /\ a \in Seq(S) /\ Len(a) = i - 1
      /\ \A j \in 1 .. i - 1 : a[j] = q[j]
  BY <1>1
<1>3. /\ b \in Seq(S) /\ Len(b) = Len(q) - i
      /\ \A j \in 1 .. Len(q) - i : b[j] = q[i + j]
  BY <1>1
<1>4. RemoveAt(q, i) = a \o b
  BY DEF RemoveAt
<1> HIDE DEF a, b
<1>5. /\ a \o b \in Seq(S)
      /\ Len(a \o b) = Len(q) - 1
  BY <1>1, <1>2, <1>3
<1>6. ASSUME NEW j \in 1 .. Len(q) - 1
      PROVE  (a \o b)[j] = IF j < i THEN q[j] ELSE q[j + 1]
  <2>1. CASE j < i
    BY <1>1, <1>2, <1>3, <2>1
  <2>2. CASE ~(j < i)
    <3>1. (a \o b)[j] = b[j - (i - 1)]
      BY SMTT(30), <1>1, <1>2, <1>3, <2>2
    <3>2. QED
      BY <1>1, <1>3, <2>2, <3>1
  <2>3. QED
    BY <2>1, <2>2
<1>7. QED
  BY <1>4, <1>5, <1>6

-----------------------------------------------------------------------------
(* Every action keeps the type invariant and the limits of the tables.     *)

LEMMA TypeInit == Init => TypeOK
<1> SUFFICES ASSUME Init PROVE TypeOK
  OBVIOUS
<1>1. Cardinality({}) = 0
  BY FS_EmptySet
<1>2. /\ sendQueue \in Seq(Senders)
      /\ toHA \in [Sockets -> Seq(Senders)]
      /\ retired \in Seq(Calls) /\ Len(retired) <= MaxRetired
  BY LimitsAssumption DEF Init
<1>3. Cardinality(pending) <= MaxPending
  <2>1. pending = {}
    BY DEF Init
  <2>2. QED
    BY <1>1, <2>1, LimitsAssumption
<1>4. QED
  BY <1>2, <1>3 DEF Init, TypeOK

(* The parts of TypeOK that say more than a set of values.                 *)
LEMMA PendingBound ==
    ASSUME TypeOK, NEW c \in Calls
    PROVE  /\ Cardinality(pending \ {c}) <= MaxPending
           /\ Cardinality({}) <= MaxPending
           /\ HasRoom => Cardinality(pending \cup {c}) <= MaxPending
<1>1. IsFiniteSet(pending) /\ IsFiniteSet(pending \ {c})
  BY SocketsAssumption, FS_Subset DEF TypeOK
<1>2. Cardinality(pending) \in Nat /\ Cardinality(pending \ {c}) \in Nat
  BY <1>1, FS_CardinalityType
<1>3. Cardinality(pending \ {c}) <= Cardinality(pending)
  BY <1>1, FS_Subset
<1>4. Cardinality(pending \cup {c}) =
         IF c \in pending THEN Cardinality(pending) ELSE Cardinality(pending) + 1
  BY ONLY <1>1, FS_AddElement
<1>5. Cardinality(pending) <= MaxPending /\ Cardinality({}) = 0
  BY FS_EmptySet DEF TypeOK
<1>6. QED
  BY <1>2, <1>3, <1>4, <1>5, LimitsAssumption DEF HasRoom

LEMMA RetireType ==
    ASSUME TypeOK, NEW c \in Calls, Retire(c)
    PROVE  /\ retired' \in Seq(Calls) /\ Len(retired') <= MaxRetired
           /\ evicted' \subseteq Calls
<1> DEFINE r == Append(retired, c)
<1>1. r \in Seq(Calls) /\ Len(r) = Len(retired) + 1 /\ Len(retired) \in Nat
  BY DEF TypeOK
<1> HIDE DEF r
<1>2. r # <<>> /\ Head(r) \in Calls /\ Tail(r) \in Seq(Calls)
      /\ Len(Tail(r)) = Len(r) - 1
  BY <1>1
<1>3. Len(retired) <= MaxRetired /\ evicted \subseteq Calls
  BY DEF TypeOK
<1>4. CASE Len(r) > MaxRetired
  <2>1. retired' = Tail(r) /\ evicted' = evicted \cup {Head(r)}
    BY <1>4 DEF Retire, r
  <2>2. QED
    BY <1>1, <1>2, <1>3, <2>1
<1>5. CASE ~(Len(r) > MaxRetired)
  <2>1. retired' = r /\ evicted' = evicted
    BY <1>5 DEF Retire, r
  <2>2. QED
    BY <1>1, <1>3, <1>5, <2>1, LimitsAssumption
<1>6. QED
  BY <1>4, <1>5

LEMMA SettleType ==
    ASSUME TypeOK, NEW c \in Calls, NEW end \in Answers \cup Abandoned,
           Settle(c, end)
    PROVE  /\ status' \in [Calls -> {"idle"} \cup Active \cup Answers \cup Abandoned]
           /\ future' \in [Calls -> {"unset", "error"} \cup Answers]
           /\ interrupt' \in [Calls -> {"none", "deadline", "cancel"}]
           /\ pending' \subseteq Calls /\ Cardinality(pending') <= MaxPending
           /\ retired' \in Seq(Calls) /\ Len(retired') <= MaxRetired
           /\ evicted' \subseteq Calls
<1>1. CASE end \in Abandoned /\ Retires(c)
  BY <1>1, PendingBound, RetireType DEF TypeOK, Settle
<1>2. CASE ~(end \in Abandoned /\ Retires(c))
  BY <1>2, PendingBound DEF TypeOK, Settle
<1>3. QED
  BY <1>1, <1>2

LEMMA FailPendingType ==
    ASSUME TypeOK, FailPending
    PROVE  /\ future' \in [Calls -> {"unset", "error"} \cup Answers]
           /\ pending' \subseteq Calls /\ Cardinality(pending') <= MaxPending
           /\ retired' \in Seq(Calls) /\ Len(retired') <= MaxRetired
  BY LimitsAssumption, FS_EmptySet DEF TypeOK, FailPending

LEMMA ReleaseType ==
    ASSUME TypeOK, sendQueue # <<>>
    PROVE  Release => sendQueue' \in Seq(Senders) /\ written' \in BOOLEAN
<1>1. Tail(sendQueue) \in Seq(Senders)
  BY DEF TypeOK
<1>2. QED
  BY <1>1 DEF Release

LEMMA EnqueueType ==
    ASSUME TypeOK, NEW who \in Senders, Enqueue(who)
    PROVE  sendQueue' \in Seq(Senders) /\ written' \in BOOLEAN
  BY DEF TypeOK, Enqueue

LEMMA PutType ==
    ASSUME TypeOK, NEW who \in Senders, NEW s
    PROVE  Put(who, s) \in [Sockets -> Seq(Senders)]
<1>1. CASE s \in Sockets
  <2>1. Append(toHA[s], who) \in Seq(Senders)
    BY <1>1 DEF TypeOK
  <2>2. QED
    BY <1>1, <2>1 DEF TypeOK, Put
<1>2. CASE s \notin Sockets
  BY <1>2 DEF TypeOK, Put
<1>3. QED
  BY <1>1, <1>2

LEMMA LeaveQueueType ==
    ASSUME TypeOK, NEW c, LeaveQueue(c)
    PROVE  sendQueue' \in Seq(Senders)
  BY RemoveAtLemma DEF TypeOK, LeaveQueue

LEMMA TypeStep == TypeOK /\ AnswersInv /\ [Next]_vars => TypeOK'
<1> SUFFICES ASSUME TypeOK, AnswersInv, [Next]_vars PROVE TypeOK'
  OBVIOUS
<1> USE DEF bridgeVars, sendVars, callVars, tableVars, haVars
<1>1. ASSUME NEW s \in Sockets, HaConnect(s) PROVE TypeOK'
  BY <1>1 DEF TypeOK, HaConnect
<1>2. ASSUME NEW s \in Sockets, SocketClosed(s) PROVE TypeOK'
  BY <1>2 DEF TypeOK, SocketClosed
<1>3. ASSUME NEW s \in Sockets, Register(s) PROVE TypeOK'
  <2>1. /\ sendQueue' \in Seq(Senders) /\ written' \in BOOLEAN
        /\ toHA' \in [Sockets -> Seq(Senders)]
    BY <1>3, EnqueueType, PutType DEF Register, Senders, TypeOK
  <2>2. /\ future' \in [Calls -> {"unset", "error"} \cup Answers]
        /\ pending' \subseteq Calls /\ Cardinality(pending') <= MaxPending
        /\ retired' \in Seq(Calls) /\ Len(retired') <= MaxRetired
    BY <1>3, FailPendingType DEF Register, TypeOK
  <2>3. QED
    BY <1>3, <2>1, <2>2 DEF TypeOK, Register
<1>4. ASSUME NEW s \in Sockets, RegisterBusy(s) PROVE TypeOK'
  BY <1>4 DEF TypeOK, RegisterBusy
<1>5. ASSUME NEW s \in Sockets, SeesClose(s) PROVE TypeOK'
  BY <1>5 DEF TypeOK, SeesClose
<1>6. ASSUME NEW s \in Sockets, BadMessage(s) PROVE TypeOK'
  BY <1>6 DEF TypeOK, BadMessage
<1>7. ASSUME NEW s \in Sockets, Unregister(s) PROVE TypeOK'
  <2>1. /\ authority' \in Sockets \cup {None}
        /\ future' \in [Calls -> {"unset", "error"} \cup Answers]
        /\ pending' \subseteq Calls /\ Cardinality(pending') <= MaxPending
        /\ retired' \in Seq(Calls) /\ Len(retired') <= MaxRetired
    BY <1>7, FailPendingType DEF Unregister, Detach, TypeOK
  <2>2. QED
    BY <1>7, <2>1 DEF TypeOK, Unregister
<1>8. ASSUME NEW s \in Sockets, HandlePing(s) PROVE TypeOK'
  <2>1. sendQueue' \in Seq(Senders) /\ written' \in BOOLEAN
    BY <1>8, EnqueueType DEF HandlePing, Senders
  <2>2. QED
    BY <1>8, <2>1 DEF TypeOK, HandlePing
<1>9. ASSUME NEW s \in Sockets, HaGone(s) PROVE TypeOK'
  BY <1>9 DEF TypeOK, HaGone, HaEnds
<1>10. ASSUME NEW s \in Sockets, HaRegistered(s) PROVE TypeOK'
  BY <1>10 DEF TypeOK, HaRegistered
<1>11. ASSUME NEW c \in Calls, CallReturn(c) PROVE TypeOK'
  <2>1. (IF future[c] = "error" THEN "transport_failed" ELSE future[c])
           \in Answers \cup Abandoned
    BY <1>11 DEF CallReturn, TypeOK, Answers, Abandoned
  <2>2. QED
    BY <1>11, <2>1, SettleType DEF TypeOK, CallReturn
<1>12. ASSUME NEW c \in Calls, CallUnwind(c) PROVE TypeOK'
  <2>1. (IF interrupt[c] = "cancel" THEN "cancelled" ELSE "timed_out")
           \in Answers \cup Abandoned
    BY DEF Abandoned
  <2>2. /\ sendQueue' \in Seq(Senders) /\ written' \in BOOLEAN
        /\ UNCHANGED onWire
    BY <1>12, ReleaseType DEF CallUnwind, Holds, TypeOK, Release
  <2>3. QED
    BY <1>12, <2>1, <2>2, SettleType DEF TypeOK, CallUnwind
<1>13. ASSUME NEW c \in Calls, NEW why \in {"deadline", "cancel"},
              Interrupt(c, why)
       PROVE TypeOK'
  BY <1>13, LeaveQueueType DEF TypeOK, Interrupt
<1>14. ASSUME NEW s \in Sockets, NEW c \in Calls, CallStart(c, s) PROVE TypeOK'
  <2>1. /\ sendQueue' \in Seq(Senders) /\ written' \in BOOLEAN
        /\ toHA' \in [Sockets -> Seq(Senders)]
    BY <1>14, EnqueueType, PutType DEF CallStart, Senders, TypeOK
  <2>2. pending' \subseteq Calls /\ Cardinality(pending') <= MaxPending
    BY <1>14, PendingBound DEF CallStart, TypeOK
  <2>3. QED
    BY <1>14, <2>1, <2>2 DEF TypeOK, CallStart, Active
<1>15. ASSUME NEW s \in Sockets, NEW c \in Calls, HandleResult(s, c) PROVE TypeOK'
  <2>1. pending' \subseteq Calls /\ Cardinality(pending') <= MaxPending
    BY <1>15, PendingBound DEF HandleResult, TypeOK
  <2>2. retired' \in Seq(Calls) /\ Len(retired') <= MaxRetired
    <3>1. ASSUME NEW i \in DOMAIN retired, retired' = RemoveAt(retired, i)
          PROVE  retired' \in Seq(Calls) /\ Len(retired') <= MaxRetired
      <4>1. retired' \in Seq(Calls) /\ Len(retired') = Len(retired) - 1
        BY <3>1, RemoveAtLemma DEF TypeOK
      <4>2. QED
        BY <4>1, LimitsAssumption DEF TypeOK
    <3>2. QED
      BY <1>15, <3>1 DEF HandleResult, TypeOK
  <2>3. future' \in [Calls -> {"unset", "error"} \cup Answers]
    BY <1>15 DEF HandleResult, Resolve, TypeOK, AnswersInv
  <2>4. /\ handler' \in [Sockets -> {"idle", "registering", "serving",
                                     "ponging", "leaving", "done"}]
        /\ rejected' \subseteq Sockets /\ replies' \subseteq Calls
    <3>1. handler' = handler \/ handler' = [handler EXCEPT ![s] = "leaving"]
      BY <1>15 DEF HandleResult
    <3>2. rejected' = rejected \/ rejected' = rejected \cup {s}
      BY <1>15 DEF HandleResult
    <3>3. replies' = replies \ {c}
      BY <1>15 DEF HandleResult
    <3>4. handler' \in [Sockets -> {"idle", "registering", "serving",
                                    "ponging", "leaving", "done"}]
      BY <3>1 DEF TypeOK
    <3>5. QED
      BY <3>2, <3>3, <3>4 DEF TypeOK
  <2>5. QED
    BY <1>15, <2>1, <2>2, <2>3, <2>4 DEF TypeOK, HandleResult
<1>16. ASSUME NEW s \in Sockets, NEW c \in Calls, HaToolCall(s, c) PROVE TypeOK'
  <2>1. toHA' \in [Sockets -> Seq(Senders)]
    BY <1>16 DEF TypeOK, HaToolCall
  <2>2. /\ seen' \in [Sockets -> SUBSET Calls]
        /\ running' \in [Sockets -> SUBSET Calls]
        /\ effect' \in [Calls -> {"none", "begun"} \cup Answers]
    <3>1. CASE gen[c] = s /\ c \notin seen[s]
      <4>1. /\ seen' = [seen EXCEPT ![s] = @ \cup {c}]
            /\ running' = [running EXCEPT ![s] = @ \cup {c}]
            /\ effect' = [effect EXCEPT ![c] = "begun"]
        BY <1>16, <3>1 DEF HaToolCall
      <4>2. seen[s] \cup {c} \in SUBSET Calls /\ running[s] \cup {c} \in SUBSET Calls
        BY DEF TypeOK
      <4>3. QED
        BY <4>1, <4>2 DEF TypeOK
    <3>2. CASE ~(gen[c] = s /\ c \notin seen[s])
      BY <1>16, <3>2 DEF TypeOK, HaToolCall
    <3>3. QED
      BY <3>1, <3>2
  <2>3. QED
    BY <1>16, <2>1, <2>2 DEF TypeOK, HaToolCall
<1>17. ASSUME NEW s \in Sockets, NEW c \in Calls, HaRefuses(s, c) PROVE TypeOK'
  BY <1>17 DEF TypeOK, HaRefuses, HaEnds
<1>18. ASSUME NEW s \in Sockets, NEW c \in Calls, NEW answer \in Answers,
              HaAnswer(s, c, answer)
       PROVE TypeOK'
  BY <1>18 DEF TypeOK, HaAnswer
<1>19. ASSUME NEW s \in Sockets, NEW c \in Calls, HaTaskDone(s, c) PROVE TypeOK'
  BY <1>19 DEF TypeOK, HaTaskDone
<1>20. ASSUME NEW who \in Senders, TakeLock(who) PROVE TypeOK'
  <2>1. toHA' \in [Sockets -> Seq(Senders)]
    BY <1>20, PutType DEF TypeOK, TakeLock
  <2>2. QED
    BY <1>20, <2>1 DEF TypeOK, TakeLock
<1>21. ASSUME NEW who \in Senders, Drained(who) PROVE TypeOK'
  <2>1. sendQueue' \in Seq(Senders) /\ written' \in BOOLEAN /\ UNCHANGED onWire
    BY <1>21, ReleaseType DEF Drained, Holds, Release
  <2>2. QED
    BY <1>21, <2>1 DEF TypeOK, Drained, Active, Senders
<1>22. ASSUME NEW who \in Senders, SendFails(who) PROVE TypeOK'
  <2>1. sendQueue' \in Seq(Senders) /\ written' \in BOOLEAN /\ UNCHANGED onWire
    BY <1>22, ReleaseType DEF SendFails, Holds, Release
  <2>2. CASE who \in Calls
    BY <1>22, <2>1, <2>2, SettleType DEF TypeOK, SendFails, Abandoned
  <2>3. CASE who \notin Calls
    BY <1>22, <2>1, <2>3 DEF TypeOK, SendFails, Senders
  <2>4. QED
    BY <2>2, <2>3
<1>23. CASE UNCHANGED vars
  BY <1>23 DEF TypeOK, vars
<1>24. QED
  BY <1>1, <1>2, <1>3, <1>4, <1>5, <1>6, <1>7, <1>8, <1>9, <1>10, <1>11,
     <1>12, <1>13, <1>14, <1>15, <1>16, <1>17, <1>18, <1>19, <1>20, <1>21,
     <1>22, <1>23
     DEF Next, AuthorityStep, CallStep, Correlate, SendStep

-----------------------------------------------------------------------------
(* What Settle and the send lock do to the facts the invariant is made of. *)

LEMMA RetiredAreCalls == TypeOK => ToSet(retired) \subseteq Calls
  BY DEF TypeOK, ToSet

LEMMA RetireSet ==
    ASSUME TypeOK, NEW c \in Calls, Retire(c)
    PROVE  ToSet(retired') \subseteq ToSet(retired) \cup {c}
<1> DEFINE r == Append(retired, c)
<1>1. /\ r \in Seq(Calls) /\ Len(r) = Len(retired) + 1 /\ Len(retired) \in Nat
      /\ \A i \in 1 .. Len(r) : r[i] = IF i <= Len(retired) THEN retired[i] ELSE c
  BY DEF TypeOK
<1>2. ToSet(r) \subseteq ToSet(retired) \cup {c}
  BY <1>1 DEF ToSet, TypeOK
<1> HIDE DEF r
<1>3. ToSet(Tail(r)) \subseteq ToSet(r)
  <2>1. /\ Tail(r) \in Seq(Calls) /\ Len(Tail(r)) = Len(r) - 1
        /\ \A i \in 1 .. Len(r) - 1 : Tail(r)[i] = r[i + 1]
    BY <1>1
  <2>2. QED
    BY <1>1, <2>1 DEF ToSet
<1>4. retired' = Tail(r) \/ retired' = r
  BY DEF Retire, r
<1>5. QED
  BY <1>2, <1>3, <1>4

(* What call()'s finally block changes, and for whom.                      *)
LEMMA SettleChanges ==
    ASSUME TypeOK, NEW c \in Calls, NEW end \in Answers \cup Abandoned,
           Settle(c, end)
    PROVE  /\ status'[c] = end /\ future'[c] = "unset" /\ interrupt'[c] = "none"
           /\ \A d \in Calls \ {c} : /\ status'[d] = status[d]
                                     /\ future'[d] = future[d]
                                     /\ interrupt'[d] = interrupt[d]
           /\ pending' = pending \ {c}
           /\ \A d \in ToSet(retired') :
                 d \in ToSet(retired)
                 \/ (d = c /\ end \in Abandoned /\ gen[c] = authority)
<1>1. CASE end \in Abandoned /\ Retires(c)
  BY <1>1, RetireSet DEF Settle, TypeOK, Retires
<1>2. CASE ~(end \in Abandoned /\ Retires(c))
  BY <1>2 DEF Settle, TypeOK
<1>3. QED
  BY <1>1, <1>2

LEMMA RemoveAtSet ==
    ASSUME NEW S, NEW q \in Seq(S), NEW i \in DOMAIN q
    PROVE  ToSet(RemoveAt(q, i)) \subseteq ToSet(q)
<1>1. /\ RemoveAt(q, i) \in Seq(S) /\ Len(RemoveAt(q, i)) = Len(q) - 1
      /\ \A j \in 1 .. Len(q) - 1 :
            RemoveAt(q, i)[j] = IF j < i THEN q[j] ELSE q[j + 1]
      /\ Len(q) \in Nat /\ DOMAIN q = 1 .. Len(q)
  BY RemoveAtLemma
<1>2. QED
  BY <1>1 DEF ToSet

(* A call that settles was active, whichever way it ends.                  *)
LEMMA Settles ==
    ASSUME TypeOK, QueueInv
    PROVE  /\ \A c \in Calls : CallReturn(c) =>
                 /\ status[c] \in Active
                 /\ \E end \in Answers \cup Abandoned : Settle(c, end)
           /\ \A c \in Calls : CallUnwind(c) =>
                 /\ status[c] \in Active
                 /\ \E end \in Abandoned : Settle(c, end)
           /\ \A c \in Calls : SendFails(c) =>
                 /\ status[c] \in Active
                 /\ \E end \in Abandoned : Settle(c, end)
<1>1. ASSUME NEW c \in Calls, CallReturn(c)
      PROVE  /\ status[c] \in Active
             /\ \E end \in Answers \cup Abandoned : Settle(c, end)
  BY <1>1 DEF CallReturn, TypeOK, Answers, Abandoned, Active
<1>2. ASSUME NEW c \in Calls, CallUnwind(c)
      PROVE  status[c] \in Active /\ \E end \in Abandoned : Settle(c, end)
  BY <1>2 DEF CallUnwind, Abandoned
<1>3. ASSUME NEW c \in Calls, SendFails(c)
      PROVE  status[c] \in Active /\ \E end \in Abandoned : Settle(c, end)
  <2>1. 1 \in DOMAIN sendQueue /\ sendQueue[1] = c
    BY <1>3 DEF SendFails, Holds, TypeOK
  <2>2. status[c] = "sending"
    BY <2>1 DEF QueueInv
  <2>3. QED
    BY <1>3, <2>2 DEF SendFails, Abandoned, Active
<1>4. QED
  BY <1>1, <1>2, <1>3

-----------------------------------------------------------------------------
(* The inductive invariant, part by part.                                  *)

LEMMA CallsStep == TypeOK /\ QueueInv /\ CallsInv /\ [Next]_vars => CallsInv'
<1> SUFFICES ASSUME TypeOK, QueueInv, CallsInv, [Next]_vars PROVE CallsInv'
  OBVIOUS
<1> USE DEF bridgeVars, sendVars, callVars, tableVars, haVars
<1>1. ASSUME UNCHANGED <<gen, status, interrupt, onWire>> PROVE CallsInv'
  BY <1>1 DEF CallsInv
<1>2. ASSUME NEW c \in Calls, NEW end \in Answers \cup Abandoned, Settle(c, end),
             status[c] \in Active, UNCHANGED <<gen, onWire>>
      PROVE CallsInv'
  <2>1. end \notin Active /\ end # "idle" /\ status[c] # "idle"
    BY <1>2 DEF Answers, Abandoned, Active
  <2>2. QED
    BY <1>2, <2>1, SettleChanges DEF CallsInv
<1>3. ASSUME NEW c \in Calls, CallReturn(c) PROVE CallsInv'
  BY <1>2, <1>3, Settles DEF CallReturn
<1>4. ASSUME NEW c \in Calls, CallUnwind(c) PROVE CallsInv'
  BY <1>2, <1>4, Settles DEF CallUnwind, Release
<1>5. ASSUME NEW c \in Calls, NEW why \in {"deadline", "cancel"},
             Interrupt(c, why)
      PROVE CallsInv'
  BY <1>5 DEF CallsInv, Interrupt, UnderDeadline, TypeOK
<1>6. ASSUME NEW s \in Sockets, NEW c \in Calls, CallStart(c, s) PROVE CallsInv'
  BY <1>6, SocketsAssumption DEF CallsInv, CallStart, TypeOK, Active
<1>7. ASSUME NEW who \in Senders, TakeLock(who) PROVE CallsInv'
  <2>1. 1 \in DOMAIN sendQueue /\ sendQueue[1] = who
    BY <1>7 DEF TakeLock, Holds, TypeOK
  <2>2. who \in Calls => status[who] # "idle"
    BY <2>1 DEF QueueInv
  <2>3. QED
    BY <1>7, <2>2 DEF CallsInv, TakeLock
<1>8. ASSUME NEW who \in Senders, Drained(who) PROVE CallsInv'
  <2>1. 1 \in DOMAIN sendQueue /\ sendQueue[1] = who
    BY <1>8 DEF Drained, Holds, TypeOK
  <2>2. who \in Calls => status[who] = "sending"
    BY <2>1 DEF QueueInv
  <2>3. CASE who \in Calls
    BY <1>8, <2>2, <2>3 DEF CallsInv, Drained, TypeOK, Active, Release
  <2>4. CASE who \notin Calls
    BY <1>1, <1>8, <2>4 DEF Drained, Release
  <2>5. QED
    BY <2>3, <2>4
<1>9. ASSUME NEW who \in Senders, SendFails(who) PROVE CallsInv'
  <2>1. CASE who \in Calls
    BY <1>2, <1>9, <2>1, Settles DEF SendFails, Release
  <2>2. CASE who \notin Calls
    BY <1>1, <1>9, <2>2 DEF SendFails, Release
  <2>3. QED
    BY <2>1, <2>2
<1>10. ASSUME NEW s \in Sockets, AuthorityStep(s) PROVE CallsInv'
  BY <1>1, <1>10 DEF AuthorityStep, HaConnect, SocketClosed, Register,
     RegisterBusy, SeesClose, BadMessage, Unregister, HandlePing, HaGone,
     HaRegistered
<1>11. ASSUME NEW s \in Sockets, NEW c \in Calls, Correlate(s, c),
              ~CallStart(c, s)
       PROVE CallsInv'
  BY <1>1, <1>11 DEF Correlate, HandleResult, HaToolCall, HaRefuses, HaAnswer,
     HaTaskDone
<1>12. CASE UNCHANGED vars
  BY <1>1, <1>12 DEF vars
<1>13. QED
  BY <1>3, <1>4, <1>5, <1>6, <1>7, <1>8, <1>9, <1>10, <1>11, <1>12
     DEF Next, CallStep, SendStep

LEMMA TablesStep ==
    TypeOK /\ QueueInv /\ CallsInv /\ TablesInv /\ [Next]_vars => TablesInv'
<1> SUFFICES ASSUME TypeOK, QueueInv, CallsInv, TablesInv, [Next]_vars
             PROVE  TablesInv'
  OBVIOUS
<1> USE DEF bridgeVars, sendVars, callVars, tableVars, haVars
<1>1. ASSUME UNCHANGED <<authority, gen, status, pending, retired>>
      PROVE  TablesInv'
  BY <1>1 DEF TablesInv
<1>2. ASSUME NEW c \in Calls, NEW end \in Answers \cup Abandoned, Settle(c, end),
             status[c] \in Active, UNCHANGED <<authority, gen>>
      PROVE TablesInv'
  <2>1. \A d \in pending' : status'[d] \in Active /\ gen'[d] = authority'
    BY <1>2, SettleChanges DEF TablesInv, TypeOK
  <2>2. ASSUME NEW d \in ToSet(retired')
        PROVE  status'[d] \in Abandoned /\ gen'[d] = authority'
    <3>1. CASE d = c
      <4>1. c \notin ToSet(retired)
        BY <1>2 DEF TablesInv, Active, Abandoned
      <4>2. QED
        BY <1>2, <2>2, <3>1, <4>1, SettleChanges
    <3>2. CASE d # c
      <4>1. d \in ToSet(retired) /\ d \in Calls
        BY <1>2, <2>2, <3>2, SettleChanges, RetiredAreCalls
      <4>2. QED
        BY <1>2, <3>2, <4>1, SettleChanges DEF TablesInv
    <3>3. QED
      BY <3>1, <3>2
  <2>3. QED
    BY <2>1, <2>2 DEF TablesInv
<1>3. ASSUME pending' = {}, retired' = <<>> PROVE TablesInv'
  BY <1>3 DEF TablesInv, ToSet
<1>4. ASSUME NEW s \in Sockets, Register(s) PROVE TablesInv'
  <2>1. CASE authority # None
    BY <1>3, <1>4, <2>1 DEF Register, FailPending
  <2>2. CASE authority = None
    <3>1. pending = {}
      BY <2>2 DEF TablesInv, CallsInv, TypeOK, Active
    <3>2. ToSet(retired) = {}
      BY <2>2, RetiredAreCalls DEF TablesInv, CallsInv, Abandoned
    <3>3. QED
      BY <1>4, <2>2, <3>1, <3>2 DEF Register, TablesInv
  <2>3. QED
    BY <2>1, <2>2
<1>5. ASSUME NEW s \in Sockets, Unregister(s) PROVE TablesInv'
  BY <1>1, <1>3, <1>5 DEF Unregister, Detach, FailPending
<1>6. ASSUME NEW s \in Sockets, NEW c \in Calls, CallStart(c, s) PROVE TablesInv'
  <2>1. c \notin pending /\ c \notin ToSet(retired)
    BY <1>6 DEF CallStart, TablesInv, Active, Abandoned
  <2>2. \A d \in ToSet(retired) : d \in Calls
    BY RetiredAreCalls
  <2>3. QED
    BY <1>6, <2>1, <2>2 DEF CallStart, TablesInv, Active, TypeOK
<1>7. ASSUME NEW s \in Sockets, NEW c \in Calls, HandleResult(s, c)
      PROVE TablesInv'
  <2>1. ToSet(retired') \subseteq ToSet(retired)
    BY <1>7, RemoveAtSet DEF HandleResult, TypeOK
  <2>2. pending' \subseteq pending
    BY <1>7 DEF HandleResult
  <2>3. QED
    BY <1>7, <2>1, <2>2 DEF HandleResult, TablesInv
<1>8. ASSUME NEW who \in Senders, Drained(who) PROVE TablesInv'
  <2>1. 1 \in DOMAIN sendQueue /\ sendQueue[1] = who
    BY <1>8 DEF Drained, Holds, TypeOK
  <2>2. who \in Calls => status[who] = "sending"
    BY <2>1 DEF QueueInv
  <2>3. CASE who \in Calls
    <3>1. /\ status'[who] = "waiting"
          /\ \A d \in Calls \ {who} : status'[d] = status[d]
      BY <1>8, <2>3 DEF Drained, TypeOK
    <3>2. who \notin ToSet(retired)
      BY <2>2, <2>3 DEF TablesInv, Abandoned
    <3>3. \A d \in ToSet(retired) : d \in Calls
      BY RetiredAreCalls
    <3>4. QED
      BY <1>8, <2>3, <3>1, <3>2, <3>3 DEF Drained, TablesInv, TypeOK, Active
  <2>4. CASE who \notin Calls
    BY <1>1, <1>8, <2>4 DEF Drained
  <2>5. QED
    BY <2>3, <2>4
<1>9. ASSUME NEW who \in Senders, SendFails(who) PROVE TablesInv'
  <2>1. CASE who \in Calls
    BY <1>2, <1>9, <2>1, Settles DEF SendFails
  <2>2. CASE who \notin Calls
    BY <1>1, <1>9, <2>2 DEF SendFails
  <2>3. QED
    BY <2>1, <2>2
<1>10. ASSUME NEW c \in Calls, CallStep(c) PROVE TablesInv'
  BY <1>2, <1>10, Settles DEF CallStep, CallReturn, CallUnwind
<1>11. ASSUME NEW c \in Calls, NEW why, Interrupt(c, why) PROVE TablesInv'
  BY <1>1, <1>11 DEF Interrupt
<1>12. ASSUME NEW s \in Sockets, AuthorityStep(s), ~Register(s), ~Unregister(s)
       PROVE TablesInv'
  BY <1>1, <1>12 DEF AuthorityStep, HaConnect, SocketClosed, RegisterBusy,
     SeesClose, BadMessage, HandlePing, HaGone, HaRegistered
<1>13. ASSUME NEW s \in Sockets, NEW c \in Calls, Correlate(s, c),
              ~CallStart(c, s), ~HandleResult(s, c)
       PROVE TablesInv'
  BY <1>1, <1>13 DEF Correlate, HaToolCall, HaRefuses, HaAnswer, HaTaskDone
<1>14. ASSUME NEW who, TakeLock(who) PROVE TablesInv'
  BY <1>1, <1>14 DEF TakeLock
<1>15. CASE UNCHANGED vars
  BY <1>1, <1>15 DEF vars
<1>16. QED
  BY <1>4, <1>5, <1>6, <1>7, <1>8, <1>9, <1>10, <1>11, <1>12, <1>13, <1>14,
     <1>15 DEF Next, SendStep

LEMMA ActedStep ==
    TypeOK /\ CallsInv /\ ActedInv /\ [Next]_vars => ActedInv'
<1> SUFFICES ASSUME TypeOK, CallsInv, ActedInv, [Next]_vars PROVE ActedInv'
  OBVIOUS
<1> USE DEF bridgeVars, sendVars, callVars, tableVars, haVars
<1>1. ASSUME UNCHANGED <<gen, haState, seen, effect>> PROVE ActedInv'
  BY <1>1 DEF ActedInv
<1>2. ASSUME NEW s \in Sockets, HaConnect(s) PROVE ActedInv'
  BY <1>2 DEF ActedInv, HaConnect, TypeOK
<1>3. ASSUME NEW s \in Sockets, HaRegistered(s) PROVE ActedInv'
  BY <1>3 DEF ActedInv, HaRegistered, TypeOK
<1>4. ASSUME NEW s \in Sockets, HaEnds(s), UNCHANGED <<gen, effect>>
      PROVE ActedInv'
  BY <1>4 DEF ActedInv, HaEnds, TypeOK
<1>5. ASSUME NEW s \in Sockets, NEW c \in Calls, CallStart(c, s) PROVE ActedInv'
  <2>1. effect[c] = "none"
    BY <1>5, SocketsAssumption DEF CallStart, CallsInv, ActedInv
  <2>2. QED
    BY <1>5, <2>1 DEF CallStart, ActedInv, TypeOK
<1>6. ASSUME NEW s \in Sockets, NEW c \in Calls, HaToolCall(s, c) PROVE ActedInv'
  <2>1. CASE gen[c] = s /\ c \notin seen[s]
    <3>1. /\ seen' = [seen EXCEPT ![s] = @ \cup {c}]
          /\ effect' = [effect EXCEPT ![c] = "begun"]
          /\ UNCHANGED <<gen, haState>>
      BY <1>6, <2>1 DEF HaToolCall
    <3>2. QED
      BY <2>1, <3>1 DEF ActedInv, TypeOK
  <2>2. CASE ~(gen[c] = s /\ c \notin seen[s])
    BY <1>1, <1>6, <2>2 DEF HaToolCall
  <2>3. QED
    BY <2>1, <2>2
<1>7. ASSUME NEW s \in Sockets, NEW c \in Calls, NEW answer \in Answers,
             HaAnswer(s, c, answer)
      PROVE ActedInv'
  BY <1>7 DEF ActedInv, HaAnswer, TypeOK
<1>8. ASSUME NEW s \in Sockets, AuthorityStep(s) PROVE ActedInv'
  BY <1>1, <1>2, <1>3, <1>4, <1>8 DEF AuthorityStep, SocketClosed, Register,
     RegisterBusy, SeesClose, BadMessage, Unregister, HandlePing, HaGone
<1>9. ASSUME NEW s \in Sockets, NEW c \in Calls, Correlate(s, c) PROVE ActedInv'
  BY <1>1, <1>4, <1>5, <1>6, <1>7, <1>9 DEF Correlate, HandleResult, HaRefuses,
     HaTaskDone
<1>10. ASSUME NEW c \in Calls, NEW why, CallStep(c) \/ Interrupt(c, why)
       PROVE ActedInv'
  BY <1>1, <1>10 DEF CallStep, CallReturn, CallUnwind, Interrupt
<1>11. ASSUME NEW who, SendStep(who) PROVE ActedInv'
  BY <1>1, <1>11 DEF SendStep, TakeLock, Drained, SendFails
<1>12. CASE UNCHANGED vars
  BY <1>1, <1>12 DEF vars
<1>13. QED
  BY <1>8, <1>9, <1>10, <1>11, <1>12 DEF Next

LEMMA AnswersStep ==
    TypeOK /\ QueueInv /\ ActedInv /\ AnswersInv /\ ToldTheTruth /\ [Next]_vars
        => AnswersInv' /\ ToldTheTruth'
<1> SUFFICES ASSUME TypeOK, QueueInv, ActedInv, AnswersInv, ToldTheTruth,
                    [Next]_vars
             PROVE  AnswersInv' /\ ToldTheTruth'
  OBVIOUS
<1> USE DEF bridgeVars, sendVars, callVars, tableVars, haVars
<1>1. ASSUME replies' \subseteq replies, UNCHANGED <<effect, future, status>>
      PROVE  AnswersInv' /\ ToldTheTruth'
  BY <1>1 DEF AnswersInv, ToldTheTruth
<1>2. ASSUME FailPending, replies' \subseteq replies, UNCHANGED <<effect, status>>
      PROVE  AnswersInv' /\ ToldTheTruth'
  BY <1>2 DEF AnswersInv, ToldTheTruth, FailPending, Answers
<1>3. ASSUME NEW c \in Calls, NEW end \in Abandoned, Settle(c, end),
             UNCHANGED <<replies, effect>>
      PROVE  AnswersInv' /\ ToldTheTruth'
  BY <1>3, SettleChanges DEF AnswersInv, ToldTheTruth, Abandoned, Answers
<1>4. ASSUME NEW c \in Calls, CallReturn(c) PROVE AnswersInv' /\ ToldTheTruth'
  <2>1. CASE future[c] = "error"
    BY <1>3, <1>4, <2>1 DEF CallReturn, Abandoned
  <2>2. CASE future[c] # "error"
    <3>1. future[c] \in Answers /\ Settle(c, future[c])
      BY <1>4, <2>2 DEF CallReturn, TypeOK
    <3>2. effect[c] = future[c]
      BY <3>1 DEF AnswersInv
    <3>3. QED
      BY <1>4, <3>1, <3>2, SettleChanges
         DEF CallReturn, AnswersInv, ToldTheTruth, Answers
  <2>3. QED
    BY <2>1, <2>2
<1>5. ASSUME NEW c \in Calls, CallUnwind(c) PROVE AnswersInv' /\ ToldTheTruth'
  BY <1>3, <1>5, Settles DEF CallUnwind
<1>6. ASSUME NEW c \in Calls, NEW why, Interrupt(c, why)
      PROVE  AnswersInv' /\ ToldTheTruth'
  BY <1>1, <1>6 DEF Interrupt
<1>7. ASSUME NEW s \in Sockets, AuthorityStep(s)
      PROVE  AnswersInv' /\ ToldTheTruth'
  BY <1>1, <1>2, <1>7 DEF AuthorityStep, HaConnect, SocketClosed, Register,
     RegisterBusy, SeesClose, BadMessage, Unregister, Detach, HandlePing,
     HaGone, HaRegistered
<1>8. ASSUME NEW s \in Sockets, NEW c \in Calls, CallStart(c, s)
      PROVE  AnswersInv' /\ ToldTheTruth'
  BY <1>8 DEF CallStart, AnswersInv, ToldTheTruth, TypeOK, Answers
<1>9. ASSUME NEW s \in Sockets, NEW c \in Calls, HandleResult(s, c)
      PROVE  AnswersInv' /\ ToldTheTruth'
  BY <1>9 DEF HandleResult, Resolve, AnswersInv, ToldTheTruth, TypeOK
<1>10. ASSUME NEW s \in Sockets, NEW c \in Calls, HaToolCall(s, c)
       PROVE  AnswersInv' /\ ToldTheTruth'
  <2>1. CASE gen[c] = s /\ c \notin seen[s]
    <3>1. effect[c] = "none"
      BY <1>10, <2>1 DEF HaToolCall, ActedInv
    <3>2. /\ effect' = [effect EXCEPT ![c] = "begun"]
          /\ UNCHANGED <<replies, future, status>>
      BY <1>10, <2>1 DEF HaToolCall
    <3>3. QED
      BY <3>1, <3>2 DEF AnswersInv, ToldTheTruth, TypeOK, Answers
  <2>2. CASE ~(gen[c] = s /\ c \notin seen[s])
    BY <1>1, <1>10, <2>2 DEF HaToolCall
  <2>3. QED
    BY <2>1, <2>2
<1>11. ASSUME NEW s \in Sockets, NEW c \in Calls, NEW answer \in Answers,
              HaAnswer(s, c, answer)
       PROVE  AnswersInv' /\ ToldTheTruth'
  BY <1>11 DEF HaAnswer, AnswersInv, ToldTheTruth, TypeOK, Answers
<1>12. ASSUME NEW s \in Sockets, NEW c \in Calls,
              HaRefuses(s, c) \/ HaTaskDone(s, c)
       PROVE  AnswersInv' /\ ToldTheTruth'
  BY <1>1, <1>12 DEF HaRefuses, HaTaskDone
<1>13. ASSUME NEW who \in Senders, Drained(who)
       PROVE  AnswersInv' /\ ToldTheTruth'
  BY SMTT(30), <1>13 DEF Drained, AnswersInv, ToldTheTruth, TypeOK, Answers
<1>14. ASSUME NEW who \in Senders, SendFails(who)
       PROVE  AnswersInv' /\ ToldTheTruth'
  <2>1. CASE who \in Calls
    BY <1>3, <1>14, <2>1, Settles DEF SendFails
  <2>2. CASE who \notin Calls
    BY <1>1, <1>14, <2>2 DEF SendFails
  <2>3. QED
    BY <2>1, <2>2
<1>15. ASSUME NEW who, TakeLock(who) PROVE AnswersInv' /\ ToldTheTruth'
  BY <1>1, <1>15 DEF TakeLock
<1>16. CASE UNCHANGED vars
  BY <1>1, <1>16 DEF vars
<1>17. QED
  BY <1>4, <1>5, <1>6, <1>7, <1>8, <1>9, <1>10, <1>11, <1>12, <1>13, <1>14,
     <1>15, <1>16 DEF Next, CallStep, Correlate, SendStep

-----------------------------------------------------------------------------
(* The send lock.                                                          *)

LEMMA Queued ==
    ASSUME TypeOK, NEW who, Holds(who)
    PROVE  /\ 1 \in DOMAIN sendQueue /\ sendQueue[1] = who
           /\ who \in Senders
  BY DEF TypeOK, Holds

LEMMA EnqueueShape ==
    ASSUME TypeOK, NEW who \in Senders, Enqueue(who)
    PROVE  /\ \A i \in DOMAIN sendQueue' :
                 \/ i \in DOMAIN sendQueue /\ sendQueue'[i] = sendQueue[i]
                 \/ i = Len(sendQueue) + 1 /\ sendQueue'[i] = who
           /\ (1 \in DOMAIN sendQueue /\ written) => written'
           /\ sendQueue = <<>> => written'
           /\ Len(sendQueue) \in Nat /\ DOMAIN sendQueue = 1 .. Len(sendQueue)
<1>1. /\ sendQueue \in Seq(Senders) /\ written \in BOOLEAN
      /\ sendQueue' = Append(sendQueue, who)
      /\ sendQueue = <<>> => written'
      /\ written => written'
  BY ZenonT(30) DEF TypeOK, Enqueue
<1>2. QED
  BY <1>1

LEMMA ReleaseShape ==
    ASSUME TypeOK, sendQueue # <<>>, Release
    PROVE  /\ \A i \in DOMAIN sendQueue' :
                 /\ i \in Nat /\ i + 1 \in DOMAIN sendQueue
                 /\ i + 1 # 1
                 /\ sendQueue'[i] = sendQueue[i + 1]
           /\ written' = FALSE
           /\ onWire' = onWire
  BY DEF TypeOK, Release

(* What is left of the queue when its holder has gone.                     *)
LEMMA ReleaseQueue ==
    ASSUME TypeOK, QueueInv, NEW who, Holds(who), Release,
           \A d \in Calls \ {who} : /\ status'[d] = status[d]
                                    /\ interrupt'[d] = interrupt[d],
           \A s \in Sockets \ {who} : handler'[s] = handler[s]
    PROVE  QueueInv'
<1>1. sendQueue # <<>>
  BY DEF Holds
<1>2. \A i \in DOMAIN sendQueue' : sendQueue'[i] # who
  BY <1>1, Queued, ReleaseShape DEF QueueInv
<1>3. \A i, j \in DOMAIN sendQueue' : sendQueue'[i] = sendQueue'[j] => i = j
  BY <1>1, ReleaseShape DEF QueueInv
<1>4. ASSUME NEW i \in DOMAIN sendQueue'
      PROVE  /\ sendQueue'[i] \in Sockets =>
                    handler'[sendQueue'[i]] \in {"registering", "ponging"}
             /\ sendQueue'[i] \in Calls =>
                    /\ status'[sendQueue'[i]] = "sending"
                    /\ interrupt'[sendQueue'[i]] = "none"
                    /\ sendQueue'[i] \notin onWire'
  <2>1. /\ i + 1 \in DOMAIN sendQueue /\ i + 1 # 1
        /\ sendQueue'[i] = sendQueue[i + 1]
        /\ onWire' = onWire
    BY <1>1, <1>4, ReleaseShape
  <2>2. sendQueue'[i] # who
    BY <1>2, <1>4
  <2>3. QED
    BY <2>1, <2>2 DEF QueueInv
<1>5. QED
  BY <1>3, <1>4 DEF QueueInv

(* A newcomer queues last.                                                 *)
LEMMA EnqueueQueue ==
    ASSUME TypeOK, QueueInv, NEW who \in Senders, Enqueue(who),
           \A i \in DOMAIN sendQueue : sendQueue[i] # who,
           \A d \in Calls \ {who} : /\ status'[d] = status[d]
                                    /\ interrupt'[d] = interrupt[d]
                                    /\ d \in onWire' => d \in onWire,
           who \in Calls => /\ status'[who] = "sending"
                            /\ interrupt'[who] = "none"
                            /\ sendQueue = <<>> \/ who \notin onWire',
           \A s \in Sockets \ {who} : handler'[s] = handler[s],
           who \in Sockets => handler'[who] \in {"registering", "ponging"}
    PROVE  QueueInv'
<1>1. \A i, j \in DOMAIN sendQueue' : sendQueue'[i] = sendQueue'[j] => i = j
  BY EnqueueShape DEF QueueInv
<1>2. ASSUME NEW i \in DOMAIN sendQueue'
      PROVE  /\ sendQueue'[i] \in Sockets =>
                    handler'[sendQueue'[i]] \in {"registering", "ponging"}
             /\ sendQueue'[i] \in Calls =>
                    /\ status'[sendQueue'[i]] = "sending"
                    /\ \/ i = 1 /\ written'
                       \/ /\ interrupt'[sendQueue'[i]] = "none"
                          /\ sendQueue'[i] \notin onWire'
  <2>1. CASE i \in DOMAIN sendQueue /\ sendQueue'[i] = sendQueue[i]
    BY <2>1, EnqueueShape DEF QueueInv
  <2>2. CASE i = Len(sendQueue) + 1 /\ sendQueue'[i] = who
    <3>1. sendQueue = <<>> => i = 1 /\ written'
      BY <2>2, EnqueueShape
    <3>2. QED
      BY <2>2, <3>1
  <2>3. QED
    BY <1>2, <2>1, <2>2, EnqueueShape
<1>3. QED
  BY <1>1, <1>2 DEF QueueInv

(* A call that is interrupted leaves the queue unless it holds the lock.   *)
LEMMA LeaveQueueQueue ==
    ASSUME TypeOK, QueueInv, NEW c \in Calls, LeaveQueue(c),
           \A d \in Calls \ {c} : interrupt'[d] = interrupt[d],
           UNCHANGED <<written, onWire, status, handler>>
    PROVE  QueueInv'
<1>1. CASE c \notin ToSet(sendQueue)
  <2>1. sendQueue' = sendQueue /\ \A i \in DOMAIN sendQueue : sendQueue[i] # c
    BY <1>1 DEF LeaveQueue, ToSet
  <2>2. QED
    BY <2>1 DEF QueueInv
<1>2. CASE Holds(c) /\ written
  <2>1. sendQueue[1] = c /\ 1 \in DOMAIN sendQueue /\ sendQueue' = sendQueue
    BY <1>2, Queued DEF LeaveQueue
  <2>2. QED
    BY <1>2, <2>1 DEF QueueInv
<1>3. CASE c \in ToSet(sendQueue) /\ ~(Holds(c) /\ written)
  <2>1. PICK n \in DOMAIN sendQueue : /\ sendQueue[n] = c
                                      /\ sendQueue' = RemoveAt(sendQueue, n)
    BY <1>3 DEF LeaveQueue
  <2>2. /\ Len(sendQueue) \in Nat /\ DOMAIN sendQueue = 1 .. Len(sendQueue)
        /\ sendQueue' \in Seq(Senders) /\ Len(sendQueue') = Len(sendQueue) - 1
        /\ \A j \in 1 .. Len(sendQueue) - 1 :
              sendQueue'[j] = IF j < n THEN sendQueue[j] ELSE sendQueue[j + 1]
    BY <2>1, RemoveAtLemma DEF TypeOK
  <2> DEFINE old(i) == IF i < n THEN i ELSE i + 1
  <2>3. \A i \in DOMAIN sendQueue' :
           /\ i \in Nat /\ old(i) \in DOMAIN sendQueue
           /\ old(i) # n
           /\ sendQueue'[i] = sendQueue[old(i)]
    BY <2>1, <2>2
  <2>4. \A i, j \in DOMAIN sendQueue' : old(i) = old(j) => i = j
    BY <2>1, <2>2
  <2>5. n = 1 => ~written
    BY <1>3, <2>1, <2>2 DEF Holds
  <2>6. \A i \in DOMAIN sendQueue' : old(i) = 1 /\ written => i = 1
    BY <2>1, <2>2, <2>5
  <2> HIDE DEF old
  <2>7. \A i \in DOMAIN sendQueue' : sendQueue'[i] # c
    BY <2>1, <2>3 DEF QueueInv
  <2>8. \A i, j \in DOMAIN sendQueue' : sendQueue'[i] = sendQueue'[j] => i = j
    BY <2>3, <2>4 DEF QueueInv
  <2>9. ASSUME NEW i \in DOMAIN sendQueue'
        PROVE  /\ sendQueue'[i] \in Sockets =>
                      handler'[sendQueue'[i]] \in {"registering", "ponging"}
               /\ sendQueue'[i] \in Calls =>
                      /\ status'[sendQueue'[i]] = "sending"
                      /\ \/ i = 1 /\ written'
                         \/ /\ interrupt'[sendQueue'[i]] = "none"
                            /\ sendQueue'[i] \notin onWire'
    BY <2>3, <2>6, <2>7, <2>9 DEF QueueInv
  <2>10. QED
    BY <2>8, <2>9 DEF QueueInv
<1>4. QED
  BY <1>1, <1>2, <1>3

LEMMA QueueStep ==
    TypeOK /\ CallsInv /\ QueueInv /\ [Next]_vars => QueueInv'
<1> SUFFICES ASSUME TypeOK, CallsInv, QueueInv, [Next]_vars PROVE QueueInv'
  OBVIOUS
<1> USE DEF bridgeVars, sendVars, callVars, tableVars, haVars
<1>1. ASSUME UNCHANGED <<sendQueue, written, onWire, status, interrupt>>,
             \A s \in Sockets : handler[s] \in {"registering", "ponging"}
                                => handler'[s] = handler[s]
      PROVE  QueueInv'
  BY <1>1 DEF QueueInv
<1>2. ASSUME NEW s \in Sockets, Register(s) \/ HandlePing(s) PROVE QueueInv'
  <2>1. /\ Enqueue(s) /\ handler[s] \in {"idle", "serving"}
        /\ handler' = [handler EXCEPT ![s] = handler'[s]]
        /\ handler'[s] \in {"registering", "ponging"}
        /\ UNCHANGED <<onWire, status, interrupt>>
    BY <1>2 DEF Register, HandlePing, TypeOK
  <2>2. \A i \in DOMAIN sendQueue : sendQueue[i] # s
    BY <2>1 DEF QueueInv
  <2>3. s \in Senders /\ s \notin Calls
    BY SocketsAssumption DEF Senders
  <2>4. \A r \in Sockets \ {s} : handler'[r] = handler[r]
    BY <2>1 DEF TypeOK
  <2>5. QED
    BY <2>1, <2>2, <2>3, <2>4, EnqueueQueue
<1>3. ASSUME NEW s \in Sockets, NEW c \in Calls, CallStart(c, s) PROVE QueueInv'
  <2>1. \A i \in DOMAIN sendQueue : sendQueue[i] # c
    BY <1>3 DEF CallStart, QueueInv
  <2>2. c \in Senders /\ c \notin Sockets
    BY SocketsAssumption DEF Senders
  <2>3. /\ interrupt[c] = "none" /\ c \notin onWire
    BY <1>3 DEF CallStart, CallsInv, Active
  <2>4. /\ status'[c] = "sending" /\ interrupt' = interrupt
        /\ \A d \in Calls \ {c} : status'[d] = status[d]
        /\ handler' = handler /\ Enqueue(c)
        /\ sendQueue = <<>> \/ onWire' = onWire
        /\ onWire' \subseteq onWire \cup {c}
    BY <1>3 DEF CallStart, TypeOK
  <2>5. QED
    BY <2>1, <2>2, <2>3, <2>4, EnqueueQueue
<1>4. ASSUME NEW c \in Calls, NEW why \in {"deadline", "cancel"},
             Interrupt(c, why)
      PROVE  QueueInv'
  BY <1>4, LeaveQueueQueue DEF Interrupt, TypeOK
<1>5. ASSUME NEW c \in Calls, NEW end \in Answers \cup Abandoned, Settle(c, end),
             status[c] = "waiting", UNCHANGED <<sendQueue, written, onWire, handler>>
      PROVE  QueueInv'
  <2>1. \A i \in DOMAIN sendQueue : sendQueue[i] # c
    BY <1>5 DEF QueueInv
  <2>2. QED
    BY <1>5, <2>1, SettleChanges DEF QueueInv
<1>6. ASSUME NEW c \in Calls, CallReturn(c) PROVE QueueInv'
  BY <1>5, <1>6, Settles DEF CallReturn
<1>7. ASSUME NEW c \in Calls, CallUnwind(c) PROVE QueueInv'
  <2>1. PICK end \in Abandoned : Settle(c, end)
    BY <1>7, Settles
  <2>2. CASE Holds(c)
    BY <1>7, <2>1, <2>2, SettleChanges, ReleaseQueue DEF CallUnwind
  <2>3. CASE ~Holds(c)
    <3>1. \A i \in DOMAIN sendQueue : sendQueue[i] # c
      BY <1>7, <2>3 DEF CallUnwind, QueueInv, Holds, TypeOK
    <3>2. UNCHANGED <<sendQueue, written, onWire, handler>>
      BY <1>7, <2>3 DEF CallUnwind
    <3>3. QED
      BY <2>1, <3>1, <3>2, SettleChanges DEF QueueInv
  <2>4. QED
    BY <2>2, <2>3
<1>8. ASSUME NEW who \in Senders, TakeLock(who) PROVE QueueInv'
  <2>1. /\ sendQueue[1] = who /\ 1 \in DOMAIN sendQueue
        /\ written' /\ onWire' \subseteq onWire \cup {who}
        /\ UNCHANGED <<sendQueue, status, interrupt, handler>>
    BY <1>8, Queued DEF TakeLock
  <2>2. QED
    BY <2>1 DEF QueueInv
<1>9. ASSUME NEW who \in Senders, Drained(who) PROVE QueueInv'
  <2>1. /\ \A d \in Calls \ {who} : /\ status'[d] = status[d]
                                   /\ interrupt'[d] = interrupt[d]
        /\ \A s \in Sockets \ {who} : handler'[s] = handler[s]
    BY <1>9 DEF Drained, TypeOK
  <2>2. QED
    BY <1>9, <2>1, ReleaseQueue DEF Drained
<1>10. ASSUME NEW who \in Senders, SendFails(who) PROVE QueueInv'
  <2>1. CASE who \in Calls
    BY <1>10, <2>1, Settles, SettleChanges, ReleaseQueue DEF SendFails
  <2>2. CASE who \notin Calls
    <3>1. \A s \in Sockets \ {who} : handler'[s] = handler[s]
      BY <1>10, <2>2 DEF SendFails, TypeOK
    <3>2. QED
      BY <1>10, <2>2, <3>1, ReleaseQueue DEF SendFails
  <2>3. QED
    BY <2>1, <2>2
<1>11. ASSUME NEW s \in Sockets, AuthorityStep(s), ~Register(s), ~HandlePing(s)
       PROVE  QueueInv'
  BY <1>1, <1>11 DEF AuthorityStep, HaConnect, SocketClosed, RegisterBusy,
     SeesClose, BadMessage, Unregister, HaGone, HaRegistered, TypeOK
<1>12. ASSUME NEW s \in Sockets, NEW c \in Calls, Correlate(s, c),
              ~CallStart(c, s)
       PROVE  QueueInv'
  BY <1>1, <1>12 DEF Correlate, HandleResult, HaToolCall, HaRefuses, HaAnswer,
     HaTaskDone, TypeOK
<1>13. CASE UNCHANGED vars
  BY <1>1, <1>13 DEF vars
<1>14. QED
  BY <1>2, <1>3, <1>4, <1>6, <1>7, <1>8, <1>9, <1>10, <1>11, <1>12, <1>13
     DEF Next, CallStep, SendStep

-----------------------------------------------------------------------------
(* One authority: a handler in its message loop is the authority's, or its *)
(* socket has closed.                                                      *)

LEMMA OneAuthorityStep ==
    TypeOK /\ QueueInv /\ OneAuthority /\ [Next]_vars => OneAuthority'
<1> SUFFICES ASSUME TypeOK, QueueInv, OneAuthority, [Next]_vars
             PROVE  OneAuthority'
  OBVIOUS
<1> USE DEF bridgeVars, sendVars, callVars, tableVars, haVars
<1> DEFINE Looping == {"registering", "serving", "ponging"}
<1>1. ASSUME authority' = authority, closed \subseteq closed',
             \A s \in Sockets : handler'[s] \in Looping => handler[s] \in Looping
      PROVE  OneAuthority'
  BY <1>1 DEF OneAuthority
<1>2. ASSUME NEW s \in Sockets, Register(s) PROVE OneAuthority'
  BY <1>2, SocketsAssumption DEF Register, Free, OneAuthority, TypeOK
<1>3. ASSUME NEW s \in Sockets, Unregister(s) PROVE OneAuthority'
  <2>1. CASE authority = s
    BY <1>3, <2>1 DEF Unregister, OneAuthority, TypeOK
  <2>2. CASE authority # s
    BY <1>1, <1>3, <2>2 DEF Unregister, Detach, TypeOK
  <2>3. QED
    BY <2>1, <2>2
<1>4. ASSUME NEW who \in Senders, Drained(who) PROVE OneAuthority'
  <2>1. who \in Sockets => handler[who] \in Looping
    BY <1>4, Queued DEF Drained, QueueInv
  <2>2. \A s \in Sockets : handler'[s] \in Looping => handler[s] \in Looping
    BY <1>4, <2>1 DEF Drained, TypeOK, Senders
  <2>3. QED
    BY <1>1, <1>4, <2>2 DEF Drained
<1>5. ASSUME NEW who \in Senders, SendFails(who) PROVE OneAuthority'
  <2>1. \A s \in Sockets : handler'[s] \in Looping => handler[s] \in Looping
    BY <1>5 DEF SendFails, TypeOK, Senders
  <2>2. QED
    BY <1>1, <1>5, <2>1 DEF SendFails
<1>6. ASSUME NEW s \in Sockets, AuthorityStep(s), ~Register(s), ~Unregister(s)
      PROVE  OneAuthority'
  BY <1>1, <1>6 DEF AuthorityStep, HaConnect, SocketClosed, RegisterBusy,
     SeesClose, BadMessage, HandlePing, HaGone, HaRegistered, TypeOK
<1>7. ASSUME NEW s \in Sockets, NEW c \in Calls, Correlate(s, c)
      PROVE  OneAuthority'
  BY <1>1, <1>7 DEF Correlate, CallStart, HandleResult, HaToolCall, HaRefuses,
     HaAnswer, HaTaskDone, TypeOK
<1>8. ASSUME NEW c \in Calls, NEW why, CallStep(c) \/ Interrupt(c, why)
      PROVE  OneAuthority'
  BY <1>1, <1>8 DEF CallStep, CallReturn, CallUnwind, Interrupt
<1>9. ASSUME NEW who, TakeLock(who) PROVE OneAuthority'
  BY <1>1, <1>9 DEF TakeLock
<1>10. CASE UNCHANGED vars
  BY <1>1, <1>10 DEF vars
<1>11. QED
  BY <1>2, <1>3, <1>4, <1>5, <1>6, <1>7, <1>8, <1>9, <1>10 DEF Next, SendStep

-----------------------------------------------------------------------------
(* The wire carries only frames that were written.                         *)

LEMMA TailShape ==
    ASSUME NEW S, NEW q \in Seq(S), q # <<>>
    PROVE  \A i \in DOMAIN Tail(q) : i + 1 \in DOMAIN q /\ Tail(q)[i] = q[i + 1]
  OBVIOUS

LEMMA PutShape ==
    ASSUME TypeOK, WireInv, NEW who \in Senders, NEW s \in Sockets,
           toHA' = Put(who, s), onWire' = onWire \cup ({who} \cap Calls)
    PROVE  WireInv'
<1>1. CASE haState[s] = "gone"
  BY <1>1 DEF Put, WireInv
<1>2. CASE haState[s] # "gone"
  <2>1. toHA' = [toHA EXCEPT ![s] = Append(@, who)]
    BY <1>2 DEF Put
  <2>2. \A i \in DOMAIN toHA'[s] :
           (i \in DOMAIN toHA[s] /\ toHA'[s][i] = toHA[s][i]) \/ toHA'[s][i] = who
    <3>1. toHA[s] \in Seq(Senders) /\ toHA'[s] = Append(toHA[s], who)
      BY <2>1 DEF TypeOK
    <3>2. QED
      BY <3>1
  <2>3. \A r \in Sockets \ {s} : toHA'[r] = toHA[r]
    BY <2>1 DEF TypeOK
  <2>4. QED
    BY <2>2, <2>3 DEF WireInv
<1>3. QED
  BY <1>1, <1>2

LEMMA WireStep ==
    TypeOK /\ CallsInv /\ QueueInv /\ WireInv /\ [Next]_vars => WireInv'
<1> SUFFICES ASSUME TypeOK, CallsInv, QueueInv, WireInv, [Next]_vars
             PROVE  WireInv'
  OBVIOUS
<1> USE DEF bridgeVars, sendVars, callVars, tableVars, haVars
<1>1. ASSUME onWire \subseteq onWire', UNCHANGED toHA PROVE WireInv'
  BY <1>1 DEF WireInv
<1>2. ASSUME NEW s \in Sockets, toHA[s] # <<>>, UNCHANGED onWire,
             toHA' = [toHA EXCEPT ![s] = Tail(@)]
      PROVE  WireInv'
  <2>1. \A i \in DOMAIN toHA'[s] :
           i + 1 \in DOMAIN toHA[s] /\ toHA'[s][i] = toHA[s][i + 1]
    <3>1. toHA[s] \in Seq(Senders) /\ toHA'[s] = Tail(toHA[s])
      BY <1>2 DEF TypeOK
    <3>2. QED
      BY <1>2, <3>1, TailShape
  <2>2. \A r \in Sockets \ {s} : toHA'[r] = toHA[r]
    BY <1>2 DEF TypeOK
  <2>3. QED
    BY <1>2, <2>1, <2>2 DEF WireInv
<1>3. ASSUME NEW s \in Sockets, HaEnds(s), UNCHANGED onWire PROVE WireInv'
  BY <1>3 DEF HaEnds, WireInv, TypeOK
<1>4. ASSUME NEW s \in Sockets, Register(s) PROVE WireInv'
  <2>1. s \in Senders /\ {s} \cap Calls = {}
    BY SocketsAssumption DEF Senders
  <2>2. QED
    BY <1>1, <1>4, <2>1, PutShape DEF Register
<1>5. ASSUME NEW s \in Sockets, AuthorityStep(s), ~Register(s) PROVE WireInv'
  BY <1>1, <1>2, <1>3, <1>5 DEF AuthorityStep, HaConnect, SocketClosed,
     RegisterBusy, SeesClose, BadMessage, Unregister, HandlePing, HaGone,
     HaRegistered
<1>6. ASSUME NEW s \in Sockets, NEW c \in Calls, CallStart(c, s) PROVE WireInv'
  <2>1. c \in Senders /\ {c} \cap Calls = {c}
    BY DEF Senders
  <2>2. QED
    BY <1>1, <1>6, <2>1, PutShape DEF CallStart
<1>7. ASSUME NEW s \in Sockets, NEW c \in Calls, Correlate(s, c),
             ~CallStart(c, s)
      PROVE  WireInv'
  BY <1>1, <1>2, <1>3, <1>7 DEF Correlate, HandleResult, HaToolCall, HaRefuses,
     HaAnswer, HaTaskDone
<1>8. ASSUME NEW c \in Calls, NEW why, CallStep(c) \/ Interrupt(c, why)
      PROVE  WireInv'
  BY <1>1, <1>8 DEF CallStep, CallReturn, CallUnwind, Interrupt, Release
<1>9. ASSUME NEW who \in Senders, TakeLock(who) PROVE WireInv'
  <2>1. CASE who \in Sockets
    BY <1>1, <1>9, <2>1, PutShape DEF TakeLock, Target
  <2>2. CASE who \in Calls
    <3>1. 1 \in DOMAIN sendQueue /\ sendQueue[1] = who
      BY <1>9, Queued DEF TakeLock
    <3>2. status[who] = "sending"
      BY <2>2, <3>1 DEF QueueInv
    <3>3. gen[who] \in Sockets /\ who \notin Sockets
      BY <2>2, <3>2, SocketsAssumption DEF CallsInv, TypeOK
    <3>4. QED
      BY <1>9, <2>2, <3>3, PutShape DEF TakeLock, Target
  <2>3. QED
    BY <2>1, <2>2 DEF Senders
<1>10. ASSUME NEW who, Drained(who) \/ SendFails(who) PROVE WireInv'
  BY <1>1, <1>10 DEF Drained, SendFails, Release
<1>11. CASE UNCHANGED vars
  BY <1>1, <1>11 DEF vars
<1>12. QED
  BY <1>4, <1>5, <1>6, <1>7, <1>8, <1>9, <1>10, <1>11 DEF Next, SendStep

-----------------------------------------------------------------------------
LEMMA InvInit == Init => IInv
<1> SUFFICES ASSUME Init PROVE IInv
  OBVIOUS
<1>1. TypeOK
  BY TypeInit
<1>2. sendQueue = <<>> /\ DOMAIN sendQueue = {} /\ ToSet(retired) = {}
  BY DEF Init, ToSet
<1>3. CallsInv /\ ActedInv /\ OneAuthority
  BY DEF Init, CallsInv, ActedInv, OneAuthority, Active
<1>4. AnswersInv /\ ToldTheTruth
  BY DEF Init, AnswersInv, ToldTheTruth, Answers
<1>5. TablesInv /\ QueueInv /\ WireInv
  BY <1>2 DEF Init, TablesInv, QueueInv, WireInv
<1>6. QED
  BY <1>1, <1>3, <1>4, <1>5 DEF IInv

LEMMA InvStep == IInv /\ [Next]_vars => IInv'
  BY TypeStep, CallsStep, TablesStep, ActedStep, AnswersStep, QueueStep,
     WireStep, OneAuthorityStep DEF IInv

THEOREM Invariant == Spec => []IInv
  BY InvInit, InvStep, PTL DEF Spec

(* The broker's variables keep their types and its two tables their        *)
(* limits, whatever the number of sockets and calls: pending calls are     *)
(* refused at the limit and the oldest retired id makes room.              *)
THEOREM TypeCorrect == Spec => []TypeOK
<1>1. IInv => TypeOK
  BY DEF IInv
<1>2. QED
  BY <1>1, Invariant, PTL

(* call() never returns anything but the component's own answer to that    *)
(* very call, for any interleaving of deadlines, cancellations, late       *)
(* results, disconnects and reconnects.                                    *)
THEOREM Truthful == Spec => []ToldTheTruth
<1>1. IInv => ToldTheTruth
  BY DEF IInv
<1>2. QED
  BY <1>1, Invariant, PTL

(* No call of an earlier generation survives in the broker's tables once   *)
(* the authority has changed, and no call is both pending and retired.     *)
THEOREM Current == Spec => []TablesAreCurrent
<1>1. IInv => TablesAreCurrent
  BY DEF IInv, TablesInv, TablesAreCurrent, Active, Abandoned
<1>2. QED
  BY <1>1, Invariant, PTL

(* Two open sockets never serve as the tool authority at the same time.    *)
THEOREM Exclusive == Spec => []OneAuthority
<1>1. IInv => OneAuthority
  BY DEF IInv
<1>2. QED
  BY <1>1, Invariant, PTL

(* The authority is detached only when its own socket has closed or its    *)
(* own handler is ending: a refused or replaced handler cannot detach it.  *)
THEOREM Detached == Spec => DetachedByItself
<1>1. Init => TypeOK
  BY TypeInit
<1>2. [Next]_vars =>
         [\A s \in Sockets : authority = s /\ authority' # s
              => s \in closed \/ handler[s] = "leaving"]_vars
  <2> SUFFICES ASSUME Next, NEW s \in Sockets, authority = s, authority' # s
               PROVE  s \in closed \/ handler[s] = "leaving"
    OBVIOUS
  <2> USE DEF bridgeVars
  <2>1. ASSUME NEW r \in Sockets, AuthorityStep(r)
        PROVE  s \in closed \/ handler[s] = "leaving"
    BY <2>1, SocketsAssumption DEF AuthorityStep, HaConnect, SocketClosed,
       Register, Free, RegisterBusy, SeesClose, BadMessage, Unregister, Detach,
       HandlePing, HaGone, HaRegistered
  <2>2. ASSUME NEW r \in Sockets, NEW c \in Calls, Correlate(r, c) PROVE FALSE
    BY <2>2 DEF Correlate, CallStart, HandleResult, HaToolCall, HaRefuses,
       HaAnswer, HaTaskDone
  <2>3. ASSUME NEW c \in Calls, NEW why, CallStep(c) \/ Interrupt(c, why)
        PROVE  FALSE
    BY <2>3 DEF CallStep, CallReturn, CallUnwind, Interrupt
  <2>4. ASSUME NEW who, SendStep(who) PROVE FALSE
    BY <2>4 DEF SendStep, TakeLock, Drained, SendFails
  <2>5. QED
    BY <2>1, <2>2, <2>3, <2>4 DEF Next
<1>3. QED
  BY <1>2, PTL DEF Spec, DetachedByItself

-----------------------------------------------------------------------------
(* The broker implements RemoteCall.                                       *)

LEMMA RemoteInit == Init => Remote!Init
<1> SUFFICES ASSUME Init PROVE Remote!Init
  OBVIOUS
<1>1. \A c \in Calls : Told(c) = "nothing"
  BY DEF Init, Told, Active, Answers
<1>2. QED
  BY <1>1 DEF Init, Remote!Init

LEMMA RemoteStep ==
    IInv /\ IInv' /\ [Next]_vars => [Remote!Next]_(Remote!vars)
<1> SUFFICES ASSUME IInv, IInv', [Next]_vars
             PROVE  [Remote!Next]_(Remote!vars)
  OBVIOUS
<1> USE DEF bridgeVars, sendVars, callVars, tableVars, haVars
<1>1. TypeOK /\ TypeOK' /\ CallsInv /\ QueueInv /\ AnswersInv /\ ToldTheTruth'
  BY DEF IInv
<1>2. ASSUME UNCHANGED <<status, interrupt, onWire, effect>>
      PROVE  UNCHANGED Remote!vars
  BY <1>2 DEF Remote!vars, Told
<1>3. ASSUME NEW c \in Calls, NEW end \in Answers \cup Abandoned, Settle(c, end),
             status[c] \in Active, end \in Answers => interrupt[c] = "none",
             end \in Answers => effect[c] = end,
             UNCHANGED <<onWire, effect>>
      PROVE  [Remote!Next]_(Remote!vars)
  <2>1. \A d \in Calls \ {c} : Told(d)' = Told(d)
    BY <1>1, <1>3, SettleChanges DEF Told
  <2>2. Told(c)' = IF end \in Answers THEN end ELSE "unknown"
    BY <1>1, <1>3, SettleChanges DEF Told, Answers, Abandoned, Active
  <2>3. CASE interrupt[c] = "none"
    <3>1. Told(c) = "waiting"
      BY <1>3, <2>3 DEF Told, Active, Answers
    <3>2. [d \in Calls |-> Told(d)'] = [[d \in Calls |-> Told(d)] EXCEPT ![c] = Told(c)']
      BY <2>1
    <3>3. Remote!Tell(c)
      BY <1>3, <2>2, <3>1, <3>2 DEF Remote!Tell, Remote!Answers, Answers
    <3>4. QED
      BY <3>3 DEF Remote!Next
  <2>4. CASE interrupt[c] # "none"
    <3>1. Told(c) = "unknown" /\ Told(c)' = "unknown"
      BY <1>3, <2>2, <2>4 DEF Told, Active, Answers
    <3>2. [d \in Calls |-> Told(d)'] = [d \in Calls |-> Told(d)]
      BY <2>1, <3>1
    <3>3. QED
      BY <1>3, <3>2 DEF Remote!vars
  <2>5. QED
    BY <2>3, <2>4
<1>4. ASSUME NEW c \in Calls, CallReturn(c) PROVE [Remote!Next]_(Remote!vars)
  <2>1. CASE future[c] = "error"
    BY <1>3, <1>4, <2>1 DEF CallReturn, Active, Abandoned, Answers
  <2>2. CASE future[c] # "error"
    <3>1. future[c] \in Answers /\ effect[c] = future[c]
      BY <1>1, <1>4, <2>2 DEF CallReturn, TypeOK, AnswersInv
    <3>2. Settle(c, future[c]) /\ interrupt[c] = "none" /\ status[c] \in Active
          /\ UNCHANGED <<onWire, effect>>
      BY <1>4, <2>2 DEF CallReturn, Active
    <3>3. QED
      BY <1>3, <3>1, <3>2
  <2>3. QED
    BY <2>1, <2>2
<1>5. ASSUME NEW c \in Calls, CallUnwind(c) PROVE [Remote!Next]_(Remote!vars)
  <2>1. PICK end \in Abandoned : Settle(c, end)
    BY <1>1, <1>5, Settles
  <2>2. status[c] \in Active /\ UNCHANGED <<onWire, effect>>
    BY <1>5 DEF CallUnwind, Release
  <2>3. end \notin Answers
    BY DEF Abandoned, Answers
  <2>4. QED
    BY <1>3, <2>1, <2>2, <2>3
<1>6. ASSUME NEW c \in Calls, NEW why \in {"deadline", "cancel"},
             Interrupt(c, why)
      PROVE  [Remote!Next]_(Remote!vars)
  <2>1. /\ status[c] \in Active /\ status' = status
        /\ interrupt' = [interrupt EXCEPT ![c] = why] /\ why # "none"
        /\ UNCHANGED <<onWire, effect>>
    BY <1>6 DEF Interrupt, UnderDeadline
  <2>2. \A d \in Calls \ {c} : Told(d)' = Told(d)
    BY <1>1, <2>1 DEF Told, TypeOK
  <2>3. Told(c)' = "unknown"
    BY <1>1, <2>1 DEF Told, TypeOK, Active, Answers
  <2>4. CASE interrupt[c] = "none"
    <3>1. Told(c) = "waiting"
      BY <2>1, <2>4 DEF Told, Active, Answers
    <3>2. [d \in Calls |-> Told(d)'] = [[d \in Calls |-> Told(d)] EXCEPT ![c] = "unknown"]
      BY <2>2, <2>3
    <3>3. Remote!Tell(c)
      BY <2>1, <3>1, <3>2 DEF Remote!Tell
    <3>4. QED
      BY <3>3 DEF Remote!Next
  <2>5. CASE interrupt[c] # "none"
    <3>1. Told(c) = "unknown"
      BY <2>1, <2>5 DEF Told, Active, Answers
    <3>2. [d \in Calls |-> Told(d)'] = [d \in Calls |-> Told(d)]
      BY <2>2, <2>3, <3>1
    <3>3. QED
      BY <2>1, <3>2 DEF Remote!vars
  <2>6. QED
    BY <2>4, <2>5
<1>7. ASSUME NEW s \in Sockets, NEW c \in Calls, CallStart(c, s)
      PROVE  [Remote!Next]_(Remote!vars)
  <2>1. /\ status[c] = "idle" /\ status' = [status EXCEPT ![c] = "sending"]
        /\ interrupt' = interrupt /\ effect' = effect
        /\ onWire' \in {onWire, onWire \cup {c}}
    BY <1>7 DEF CallStart
  <2>2. interrupt[c] = "none"
    BY <1>1, <2>1 DEF CallsInv, Active
  <2>3. /\ \A d \in Calls \ {c} : Told(d)' = Told(d)
        /\ Told(c) = "nothing" /\ Told(c)' = "waiting"
    BY <1>1, <2>1, <2>2 DEF Told, TypeOK, Active, Answers
  <2>4. [d \in Calls |-> Told(d)'] = [[d \in Calls |-> Told(d)] EXCEPT ![c] = "waiting"]
    BY <2>3
  <2>5. Remote!Ask(c)
    BY <2>1, <2>3, <2>4 DEF Remote!Ask
  <2>6. QED
    BY <2>5 DEF Remote!Next
<1>8. ASSUME NEW who \in Senders, TakeLock(who) PROVE [Remote!Next]_(Remote!vars)
  <2>1. UNCHANGED <<status, interrupt, effect>> /\ onWire' = onWire \cup ({who} \cap Calls)
    BY <1>8 DEF TakeLock
  <2>2. CASE who \in Calls
    <3>1. /\ status[who] = "sending" /\ interrupt[who] = "none" /\ who \notin onWire
      BY <1>1, <1>8, <2>2, Queued DEF TakeLock, QueueInv
    <3>2. Told(who) = "waiting"
      BY <3>1 DEF Told, Active, Answers
    <3>3. [d \in Calls |-> Told(d)'] = [d \in Calls |-> Told(d)]
      BY <2>1 DEF Told
    <3>4. onWire' = onWire \cup {who}
      BY <2>1, <2>2
    <3>5. Remote!Leave(who)
      BY <2>1, <2>2, <3>1, <3>2, <3>3, <3>4 DEF Remote!Leave
    <3>6. QED
      BY <2>2, <3>5 DEF Remote!Next
  <2>3. CASE who \notin Calls
    BY <1>2, <2>1, <2>3
  <2>4. QED
    BY <2>2, <2>3
<1>9. ASSUME NEW who \in Senders, Drained(who) PROVE [Remote!Next]_(Remote!vars)
  <2>1. CASE who \in Calls
    <3>1. status[who] = "sending" /\ status' = [status EXCEPT ![who] = "waiting"]
          /\ UNCHANGED <<interrupt, onWire, effect>>
      BY <1>1, <1>9, <2>1, Queued DEF Drained, QueueInv, Release
    <3>2. \A d \in Calls : Told(d)' = Told(d)
      BY <1>1, <3>1 DEF Told, TypeOK, Active, Answers
    <3>3. QED
      BY <3>1, <3>2 DEF Remote!vars
  <2>2. CASE who \notin Calls
    BY <1>2, <1>9, <2>2 DEF Drained, Release
  <2>3. QED
    BY <2>1, <2>2
<1>10. ASSUME NEW who \in Senders, SendFails(who)
       PROVE  [Remote!Next]_(Remote!vars)
  <2>1. CASE who \in Calls
    <3>1. PICK end \in Abandoned : Settle(who, end)
      BY <1>1, <1>10, <2>1, Settles
    <3>2. status[who] \in Active /\ UNCHANGED <<onWire, effect>>
      BY <1>1, <1>10, <2>1, Settles DEF SendFails, Release
    <3>3. end \notin Answers
      BY DEF Abandoned, Answers
    <3>4. QED
      BY <1>3, <2>1, <3>1, <3>2, <3>3
  <2>2. CASE who \notin Calls
    BY <1>2, <1>10, <2>2 DEF SendFails, Release
  <2>3. QED
    BY <2>1, <2>2
<1>11. ASSUME NEW s \in Sockets, NEW c \in Calls, HaToolCall(s, c)
       PROVE  [Remote!Next]_(Remote!vars)
  <2>1. CASE gen[c] = s /\ c \notin seen[s]
    <3>1. 1 \in DOMAIN toHA[s] /\ toHA[s][1] = c
      BY <1>1, <1>11 DEF HaToolCall, TypeOK
    <3>2. c \in onWire
      BY <3>1 DEF IInv, WireInv
    <3>3. effect[c] = "none"
      BY <1>11, <2>1 DEF HaToolCall, IInv, ActedInv
    <3>4. effect' = [effect EXCEPT ![c] = "begun"] /\ UNCHANGED <<status, interrupt, onWire>>
      BY <1>11, <2>1 DEF HaToolCall
    <3>5. [d \in Calls |-> Told(d)'] = [d \in Calls |-> Told(d)]
      BY <3>4 DEF Told
    <3>6. Remote!Begin(c)
      BY <3>2, <3>3, <3>4, <3>5 DEF Remote!Begin
    <3>7. QED
      BY <3>6 DEF Remote!Next
  <2>2. CASE ~(gen[c] = s /\ c \notin seen[s])
    BY <1>2, <1>11, <2>2 DEF HaToolCall
  <2>3. QED
    BY <2>1, <2>2
<1>12. ASSUME NEW s \in Sockets, NEW c \in Calls, NEW answer \in Answers,
              HaAnswer(s, c, answer)
       PROVE  [Remote!Next]_(Remote!vars)
  <2>1. /\ effect[c] = "begun" /\ effect' = [effect EXCEPT ![c] = answer]
        /\ UNCHANGED <<status, interrupt, onWire>>
    BY <1>12 DEF HaAnswer
  <2>2. [d \in Calls |-> Told(d)'] = [d \in Calls |-> Told(d)]
    BY <2>1 DEF Told
  <2>3. Remote!Answer(c, answer)
    BY <2>1, <2>2 DEF Remote!Answer
  <2>4. QED
    BY <2>3 DEF Remote!Next, Remote!Answers, Answers
<1>13. ASSUME NEW s \in Sockets, AuthorityStep(s)
       PROVE  [Remote!Next]_(Remote!vars)
  BY <1>2, <1>13 DEF AuthorityStep, HaConnect, SocketClosed, Register,
     RegisterBusy, SeesClose, BadMessage, Unregister, HandlePing, HaGone,
     HaRegistered
<1>14. ASSUME NEW s \in Sockets, NEW c \in Calls,
              HandleResult(s, c) \/ HaRefuses(s, c) \/ HaTaskDone(s, c)
       PROVE  [Remote!Next]_(Remote!vars)
  BY <1>2, <1>14 DEF HandleResult, HaRefuses, HaTaskDone
<1>15. CASE UNCHANGED vars
  BY <1>2, <1>15 DEF vars
<1>16. QED
  BY <1>4, <1>5, <1>6, <1>7, <1>8, <1>9, <1>10, <1>11, <1>12, <1>13, <1>14,
     <1>15 DEF Next, CallStep, Correlate, SendStep

(* For any number of calls, sockets and reconnects, the broker, its send   *)
(* lock, the wire and the component together are a RemoteCall: at most one *)
(* dispatch, none after the caller was interrupted, at most one action,    *)
(* and a truthful or an unknown outcome.                                   *)
THEOREM Refinement == Spec => RemoteSpec
<1>1. Spec => Remote!Init /\ [][Remote!Next]_(Remote!vars)
  BY RemoteInit, Invariant, RemoteStep, PTL DEF Spec
<1>2. QED
  BY <1>1 DEF RemoteSpec, Remote!Spec

-----------------------------------------------------------------------------
(***************************************************************************)
(* Why an honest authority is kept, and why live calls do not overrun the  *)
(* component: more parts of the invariant.                                 *)
(***************************************************************************)

(* A socket registers once, so that a generation that begins is new.       *)
FreshInv == \A s \in Sockets :
    /\ haState[s] = "idle" => handler[s] = "idle" /\ s \notin closed
    /\ handler[s] = "idle" =>
          authority # s /\ toHA[s] = <<>> /\ \A c \in Calls : gen[c] # s

(* While the answer of a call of this generation may still come, the       *)
(* broker knows the call, unless its id fell out of _retired.              *)
MayAnswer(c) == c \in replies \/ effect[c] \notin Answers

ExpectInv == \A c \in Calls :
    /\ future[c] = "error" => gen[c] # authority
    /\ c \in replies => future[c] \notin Answers /\ status[c] \notin Answers
    /\ c \in pending \/ gen[c] = None => future[c] = "unset"
    /\ gen[c] = authority /\ MayAnswer(c) =>
          /\ status[c] \in Active => c \in pending
          /\ status[c] \in Abandoned => c \in ToSet(retired) \cup evicted

(* An id falls out of a full table, whose members are all different, and   *)
(* all given up on.                                                        *)
EvictedInv ==
    /\ IsInjective(retired)
    /\ \A c \in evicted : status[c] \in Abandoned
    /\ \A c \in evicted, s \in Sockets :
          gen[c] = s => Cardinality(GivenUp(s)) > MaxRetired

(* The component runs calls of its own socket, and nobody writes to a      *)
(* socket but its handler and its calls.                                   *)
OwnCallsInv == \A s \in Sockets :
    /\ \A c \in running[s] : gen[c] = s
    /\ \A i \in DOMAIN toHA[s] : toHA[s][i] \in Sockets => toHA[s][i] = s

(* Of the calls that run, or that were written or queued before another,   *)
(* fewer than MaxPending are pending: all that are were so when that other *)
(* one started.                                                            *)
Unwritten(s, i) == sendQueue[i] \in Calls /\ gen[sendQueue[i]] = s /\ ~(i = 1 /\ written)

Ahead(s, i) == running[s] \cup {toHA[s][j] : j \in 1 .. i - 1}

Before(s, i) ==
    running[s] \cup ToSet(toHA[s]) \cup {sendQueue[j] : j \in 1 .. i - 1}

LineInv == \A s \in Sockets :
    /\ \A i \in DOMAIN toHA[s] : toHA[s][i] \in Calls =>
          Cardinality(pending \cap Ahead(s, i)) < MaxPending
    /\ \A i \in DOMAIN sendQueue : Unwritten(s, i) =>
          Cardinality(pending \cap Before(s, i)) < MaxPending

(* The registered event precedes every call of its socket.                 *)
Announced(s) == toHA[s] # <<>> /\ toHA[s][1] = s

First(s) ==
    /\ \A i \in DOMAIN toHA[s] : toHA[s][i] \in Calls => toHA[s][1] = s
    /\ s \notin closed =>
          /\ authority = s =>
                Announced(s) \/ (handler[s] = "registering" /\ s \in ToSet(sendQueue))
          /\ \A i \in DOMAIN sendQueue : Unwritten(s, i) =>
                \/ Announced(s)
                \/ handler[s] = "registering" /\ \E j \in 1 .. i - 1 : sendQueue[j] = s
          /\ sendQueue # <<>> /\ sendQueue[1] = s /\ written => Announced(s)

FirstInv == \A s \in Sockets : haState[s] = "connecting" => First(s)

-----------------------------------------------------------------------------
(* Fewer than n of a smaller set of calls.                                 *)
LEMMA Fewer ==
    ASSUME NEW X, NEW Y, Y \subseteq Calls, X \subseteq Y, NEW n \in Int, Cardinality(Y) < n
    PROVE  Cardinality(X) < n
<1>1. IsFiniteSet(Y)
  BY SocketsAssumption, FS_Subset
<1>2. IsFiniteSet(X) /\ Cardinality(X) <= Cardinality(Y)
  BY <1>1, FS_Subset
<1>3. Cardinality(X) \in Nat /\ Cardinality(Y) \in Nat
  BY <1>1, <1>2, FS_CardinalityType
<1>4. QED
  BY <1>2, <1>3

(* A table whose members are all different has as many as it is long.      *)
LEMMA OnceCount ==
    ASSUME NEW S, NEW q \in Seq(S), IsInjective(q)
    PROVE  IsFiniteSet(ToSet(q)) /\ Cardinality(ToSet(q)) = Len(q)
<1>1. /\ Len(q) \in Nat /\ DOMAIN q = 1 .. Len(q) /\ q = [i \in 1 .. Len(q) |-> q[i]]
      /\ \A i, j \in 1 .. Len(q) : q[i] = q[j] => i = j
  BY DEF IsInjective
<1>2. ToSet(q) = {q[i] : i \in 1 .. Len(q)}
  BY <1>1 DEF ToSet
<1>3. q \in Bijection(1 .. Len(q), ToSet(q))
  <2>1. q \in [1 .. Len(q) -> ToSet(q)]
    BY <1>1, <1>2
  <2>2. \A t \in ToSet(q) : \E i \in 1 .. Len(q) : q[i] = t
    BY <1>2
  <2>3. QED
    BY <1>1, <2>1, <2>2 DEF Bijection, Injection, Surjection
<1>4. ExistsBijection(1 .. Len(q), ToSet(q))
  BY <1>3 DEF ExistsBijection
<1>5. QED
  BY <1>1, <1>4, FS_CountingElements, FS_NatBijection

(* What the send lock's queue is when its holder has gone, somebody has    *)
(* joined it or left it: a call that has yet to write was there, behind    *)
(* all those that are still before it.                                     *)
KeepsOrder ==
    \A i \in DOMAIN sendQueue' : sendQueue'[i] \in Calls /\ ~(i = 1 /\ written') =>
        \E k \in DOMAIN sendQueue :
            /\ ~(k = 1 /\ written) /\ sendQueue'[i] = sendQueue[k]
            /\ \A j \in 1 .. i - 1 : \E l \in 1 .. k - 1 : sendQueue'[j] = sendQueue[l]

LEMMA SameKeeps ==
    ASSUME TypeOK, UNCHANGED sendQueue, written' = written \/ written' = TRUE
    PROVE  KeepsOrder
<1> SUFFICES ASSUME NEW i \in DOMAIN sendQueue, ~(i = 1 /\ written')
             PROVE  /\ ~(i = 1 /\ written) /\ sendQueue'[i] = sendQueue[i]
                    /\ \A j \in 1 .. i - 1 : sendQueue'[j] = sendQueue[j]
  BY DEF KeepsOrder
<1> QED
  OBVIOUS

LEMMA ReleaseKeeps ==
    ASSUME TypeOK, sendQueue # <<>>, Release
    PROVE  KeepsOrder
<1>1. /\ Len(sendQueue) \in Nat \ {0} /\ DOMAIN sendQueue = 1 .. Len(sendQueue)
      /\ DOMAIN sendQueue' = 1 .. Len(sendQueue) - 1
      /\ \A i \in 1 .. Len(sendQueue) - 1 : sendQueue'[i] = sendQueue[i + 1]
  BY DEF TypeOK, Release
<1> DEFINE old(i) == i + 1
<1>2. ASSUME NEW i \in DOMAIN sendQueue'
      PROVE  /\ old(i) \in DOMAIN sendQueue /\ old(i) # 1 /\ sendQueue'[i] = sendQueue[old(i)]
             /\ \A j \in 1 .. i - 1 :
                   old(j) \in 1 .. old(i) - 1 /\ sendQueue'[j] = sendQueue[old(j)]
  BY <1>1
<1> HIDE DEF old
<1>3. QED
  BY <1>2 DEF KeepsOrder

LEMMA EnqueueKeeps ==
    ASSUME TypeOK, NEW who \in Senders, who \notin Calls, Enqueue(who)
    PROVE  KeepsOrder
<1>1. /\ Len(sendQueue) \in Nat /\ DOMAIN sendQueue = 1 .. Len(sendQueue)
      /\ \A i \in DOMAIN sendQueue' :
            \/ i \in DOMAIN sendQueue /\ sendQueue'[i] = sendQueue[i]
            \/ i = Len(sendQueue) + 1 /\ sendQueue'[i] = who
      /\ (1 \in DOMAIN sendQueue /\ written) => written'
  BY EnqueueShape
<1>2. DOMAIN sendQueue' = 1 .. Len(sendQueue) + 1
  BY <1>1 DEF Enqueue, TypeOK
<1>3. ASSUME NEW i \in DOMAIN sendQueue', sendQueue'[i] \in Calls, ~(i = 1 /\ written')
      PROVE  /\ i \in DOMAIN sendQueue /\ ~(i = 1 /\ written) /\ sendQueue'[i] = sendQueue[i]
             /\ \A j \in 1 .. i - 1 : sendQueue'[j] = sendQueue[j]
  <2>1. i \in DOMAIN sendQueue /\ sendQueue'[i] = sendQueue[i]
    BY <1>1, <1>3
  <2>2. ASSUME NEW j \in 1 .. i - 1 PROVE sendQueue'[j] = sendQueue[j]
    BY <1>1, <1>2, <2>1
  <2>3. QED
    BY <1>1, <1>3, <2>1, <2>2
<1>4. QED
  BY <1>3 DEF KeepsOrder

LEMMA LeaveKeeps ==
    ASSUME TypeOK, NEW c, LeaveQueue(c), UNCHANGED written
    PROVE  KeepsOrder
<1>1. CASE UNCHANGED sendQueue
  BY <1>1, SameKeeps
<1>2. CASE ~ UNCHANGED sendQueue
  <2>1. PICK n \in DOMAIN sendQueue : /\ sendQueue[n] = c
                                      /\ sendQueue' = RemoveAt(sendQueue, n)
    BY <1>2 DEF LeaveQueue
  <2>2. ~(Holds(c) /\ written)
    BY <1>2 DEF LeaveQueue
  <2>3. /\ Len(sendQueue) \in Nat /\ DOMAIN sendQueue = 1 .. Len(sendQueue)
        /\ DOMAIN sendQueue' = 1 .. Len(sendQueue) - 1
        /\ \A j \in 1 .. Len(sendQueue) - 1 :
              sendQueue'[j] = IF j < n THEN sendQueue[j] ELSE sendQueue[j + 1]
    BY <2>1, RemoveAtLemma DEF TypeOK
  <2>4. n = 1 => ~written
    BY <2>1, <2>2, <2>3 DEF Holds
  <2> DEFINE old(i) == IF i < n THEN i ELSE i + 1
  <2>5. ASSUME NEW i \in DOMAIN sendQueue', ~(i = 1 /\ written')
        PROVE  /\ old(i) \in DOMAIN sendQueue /\ sendQueue'[i] = sendQueue[old(i)]
               /\ ~(old(i) = 1 /\ written)
               /\ \A j \in 1 .. i - 1 :
                     old(j) \in 1 .. old(i) - 1 /\ sendQueue'[j] = sendQueue[old(j)]
    BY <2>3, <2>4, <2>5
  <2> HIDE DEF old
  <2>6. QED
    BY <2>5 DEF KeepsOrder
<1>3. QED
  BY <1>1, <1>2

(* A line that did not grow is as good as it was.                          *)
LEMMA LineLess ==
    ASSUME TypeOK, LineInv, NEW s \in Sockets, KeepsOrder, UNCHANGED gen,
           pending' \subseteq pending,
           pending' \cap (running'[s] \cup ToSet(toHA'[s])) \subseteq
               running[s] \cup ToSet(toHA[s]),
           \A i \in DOMAIN toHA'[s] : toHA'[s][i] \in Calls =>
               \E k \in DOMAIN toHA[s] :
                   toHA[s][k] \in Calls /\ pending' \cap Ahead(s, i)' \subseteq Ahead(s, k)
    PROVE  /\ \A i \in DOMAIN toHA'[s] : toHA'[s][i] \in Calls =>
                 Cardinality(pending' \cap Ahead(s, i)') < MaxPending
           /\ \A i \in DOMAIN sendQueue' : Unwritten(s, i)' =>
                 Cardinality(pending' \cap Before(s, i)') < MaxPending
<1>1. pending \subseteq Calls /\ MaxPending \in Int
  BY LimitsAssumption DEF TypeOK
<1>2. ASSUME NEW i \in DOMAIN toHA'[s], toHA'[s][i] \in Calls
      PROVE  Cardinality(pending' \cap Ahead(s, i)') < MaxPending
  <2>1. PICK k \in DOMAIN toHA[s] :
            toHA[s][k] \in Calls /\ pending' \cap Ahead(s, i)' \subseteq Ahead(s, k)
    BY <1>2
  <2>2. Cardinality(pending \cap Ahead(s, k)) < MaxPending
    BY <2>1 DEF LineInv
  <2>3. /\ pending' \cap Ahead(s, i)' \subseteq pending \cap Ahead(s, k)
        /\ pending \cap Ahead(s, k) \subseteq Calls
    BY <1>1, <2>1
  <2>4. QED
    BY <1>1, <2>2, <2>3, Fewer
<1>3. ASSUME NEW i \in DOMAIN sendQueue', Unwritten(s, i)'
      PROVE  Cardinality(pending' \cap Before(s, i)') < MaxPending
  <2>1. PICK k \in DOMAIN sendQueue :
            /\ ~(k = 1 /\ written) /\ sendQueue'[i] = sendQueue[k]
            /\ \A j \in 1 .. i - 1 : \E l \in 1 .. k - 1 : sendQueue'[j] = sendQueue[l]
    BY <1>3 DEF KeepsOrder, Unwritten
  <2>2. Unwritten(s, k)
    BY <1>3, <2>1 DEF Unwritten
  <2>3. Cardinality(pending \cap Before(s, k)) < MaxPending
    BY <2>2 DEF LineInv
  <2>4. pending' \cap Before(s, i)' \subseteq pending \cap Before(s, k)
    BY <2>1 DEF Before
  <2>5. QED
    BY <1>1, <2>3, <2>4, Fewer
<1>4. QED
  BY <1>2, <1>3

(* A call keeps its generation, and one that was given up on stays so.     *)
Stays == \A c \in Calls :
    /\ gen[c] # None => gen'[c] = gen[c]
    /\ status[c] \in Abandoned => status'[c] = status[c]

(* What is written to a socket comes from its handler or from a call.      *)
LEMMA PutOwn ==
    ASSUME TypeOK, OwnCallsInv, NEW who \in Senders, NEW s \in Sockets,
           who \in Sockets => who = s, toHA' = Put(who, s)
    PROVE  \A r \in Sockets : \A i \in DOMAIN toHA'[r] :
              toHA'[r][i] \in Sockets => toHA'[r][i] = r
<1>1. CASE haState[s] = "gone"
  BY <1>1 DEF Put, OwnCallsInv
<1>2. CASE haState[s] # "gone"
  <2>1. toHA' = [toHA EXCEPT ![s] = Append(@, who)]
    BY <1>2 DEF Put
  <2>2. \A i \in DOMAIN toHA'[s] :
           (i \in DOMAIN toHA[s] /\ toHA'[s][i] = toHA[s][i]) \/ toHA'[s][i] = who
    <3>1. toHA[s] \in Seq(Senders) /\ toHA'[s] = Append(toHA[s], who)
      BY <2>1 DEF TypeOK
    <3>2. QED
      BY <3>1
  <2>3. \A r \in Sockets \ {s} : toHA'[r] = toHA[r]
    BY <2>1 DEF TypeOK
  <2>4. QED
    BY <2>2, <2>3 DEF OwnCallsInv
<1>3. QED
  BY <1>1, <1>2

(* A generation is a socket as long as its call is not idle.               *)
LEMMA TargetSocket ==
    ASSUME TypeOK, QueueInv, CallsInv, NEW who \in Senders, Holds(who)
    PROVE  Target(who) \in Sockets /\ (who \in Sockets => who = Target(who))
<1>1. CASE who \in Sockets
  BY <1>1 DEF Target
<1>2. CASE who \in Calls /\ who \notin Sockets
  <2>1. status[who] = "sending"
    BY <1>2, Queued DEF QueueInv
  <2>2. QED
    BY <1>2, <2>1 DEF Target, CallsInv, TypeOK
<1>3. QED
  BY <1>1, <1>2 DEF Senders

(* An id that is retired stays known, unless it falls out.                 *)
LEMMA RetireKeeps ==
    ASSUME TypeOK, NEW c \in Calls, Retire(c)
    PROVE  ToSet(retired) \cup evicted \cup {c} \subseteq ToSet(retired') \cup evicted'
<1> DEFINE r == Append(retired, c)
<1>1. r \in Seq(Calls) /\ r # <<>> /\ ToSet(r) = ToSet(retired) \cup {c}
  BY SMTT(30), AppendSet DEF TypeOK
<1> HIDE DEF r
<1>2. ToSet(r) = ToSet(Tail(r)) \cup {Head(r)}
  BY <1>1, TailSet
<1>3. \/ retired' = r /\ evicted' = evicted
      \/ retired' = Tail(r) /\ evicted' = evicted \cup {Head(r)}
  BY DEF Retire, r
<1>4. QED
  BY <1>1, <1>2, <1>3

(* When a call ends, the broker still knows what may be answered.          *)
LEMMA SettleExpect ==
    ASSUME TypeOK, ExpectInv, NEW c \in Calls, NEW end \in Answers \cup Abandoned,
           Settle(c, end), end \in Answers => c \notin replies,
           UNCHANGED <<authority, gen, replies, effect>>
    PROVE  ExpectInv'
<1> USE DEF Answers, Abandoned, Active
<1>1. /\ status'[c] = end /\ future'[c] = "unset" /\ pending' = pending \ {c}
      /\ \A d \in Calls \ {c} : status'[d] = status[d] /\ future'[d] = future[d]
  BY SettleChanges
<1>2. /\ ToSet(retired) \cup evicted \subseteq ToSet(retired') \cup evicted'
      /\ end \in Abandoned /\ gen[c] = authority => c \in ToSet(retired') \cup evicted'
  <2>1. CASE end \in Abandoned /\ Retires(c)
    BY <2>1, RetireKeeps DEF Settle
  <2>2. CASE ~(end \in Abandoned /\ Retires(c))
    BY <2>2 DEF Settle, Retires
  <2>3. QED
    BY <2>1, <2>2
<1>3. ASSUME NEW d \in Calls
      PROVE  /\ future'[d] = "error" => gen'[d] # authority'
             /\ d \in replies' => future'[d] \notin Answers /\ status'[d] \notin Answers
             /\ d \in pending' \/ gen'[d] = None => future'[d] = "unset"
             /\ gen'[d] = authority' /\ MayAnswer(d)' =>
                   /\ status'[d] \in Active => d \in pending'
                   /\ status'[d] \in Abandoned => d \in ToSet(retired') \cup evicted'
  <2>1. CASE d = c
    BY <1>1, <1>2, <2>1
  <2>2. CASE d # c
    BY <1>1, <1>2, <2>2 DEF ExpectInv, MayAnswer
  <2>3. QED
    BY <2>1, <2>2
<1>4. QED
  BY <1>3 DEF ExpectInv

(* Taking one element out leaves the others.                               *)
LEMMA RemoveAtOthers ==
    ASSUME NEW S, NEW q \in Seq(S), NEW i \in DOMAIN q, NEW d \in ToSet(q), d # q[i]
    PROVE  d \in ToSet(RemoveAt(q, i))
<1>1. Len(q) \in Nat /\ DOMAIN q = 1 .. Len(q)
  OBVIOUS
<1> DEFINE r == RemoveAt(q, i)
<1>2. /\ r \in Seq(S) /\ Len(r) = Len(q) - 1
      /\ \A j \in 1 .. Len(q) - 1 : r[j] = IF j < i THEN q[j] ELSE q[j + 1]
  BY RemoveAtLemma
<1> HIDE DEF r
<1>3. DOMAIN r = 1 .. Len(q) - 1
  BY <1>2
<1>4. PICK k \in 1 .. Len(q) : q[k] = d
  BY <1>1 DEF ToSet
<1>5. k # i
  BY <1>4
<1>6. \E j \in DOMAIN r : r[j] = d
  <2>1. CASE k < i
    BY <1>1, <1>2, <1>3, <1>4, <2>1
  <2>2. CASE ~(k < i)
    <3>1. k - 1 \in DOMAIN r /\ r[k - 1] = d
      BY <1>1, <1>2, <1>3, <1>4, <1>5, <2>2
    <3>2. QED
      BY <3>1
  <2>3. QED
    BY <2>1, <2>2
<1>7. QED
  BY <1>6 DEF ToSet, r

(* A table whose members are all different stays so.                       *)
LEMMA RemoveAtOnce ==
    ASSUME NEW S, NEW q \in Seq(S), NEW i \in DOMAIN q, IsInjective(q)
    PROVE  IsInjective(RemoveAt(q, i))
<1>1. Len(q) \in Nat /\ DOMAIN q = 1 .. Len(q)
  OBVIOUS
<1>2. \A j, k \in 1 .. Len(q) : q[j] = q[k] => j = k
  BY <1>1 DEF IsInjective
<1> DEFINE r == RemoveAt(q, i)
<1>3. /\ r \in Seq(S) /\ Len(r) = Len(q) - 1
      /\ \A j \in 1 .. Len(q) - 1 : r[j] = IF j < i THEN q[j] ELSE q[j + 1]
  BY RemoveAtLemma
<1> HIDE DEF r
<1>4. DOMAIN r = 1 .. Len(q) - 1
  BY <1>3
<1>5. \A j, k \in 1 .. Len(q) - 1 : r[j] = r[k] => j = k
  BY <1>1, <1>2, <1>3
<1>6. IsInjective(r)
  BY <1>4, <1>5 DEF IsInjective
<1>7. QED
  BY <1>6 DEF r

(* A generation that begins is new.                                        *)
LEMMA FreshStep ==
    TypeOK /\ QueueInv /\ CallsInv /\ FreshInv /\ [Next]_vars => FreshInv'
<1> SUFFICES ASSUME TypeOK, QueueInv, CallsInv, FreshInv, [Next]_vars PROVE FreshInv'
  OBVIOUS
<1> USE DEF bridgeVars, sendVars, callVars, tableVars, haVars
<1>1. ASSUME NEW c \in Calls, CallReturn(c) \/ CallUnwind(c)
      PROVE  FreshInv'
  <2>1. UNCHANGED <<haState, handler, closed, authority, toHA, gen>>
    BY <1>1 DEF CallReturn, CallUnwind
  <2>2. QED
    BY <2>1 DEF FreshInv
<1>2. ASSUME NEW c \in Calls, NEW why, Interrupt(c, why)
      PROVE  FreshInv'
  <2>1. UNCHANGED <<haState, handler, closed, authority, toHA, gen>>
    BY <1>2 DEF Interrupt
  <2>2. QED
    BY <2>1 DEF FreshInv
<1>3. ASSUME NEW s \in Sockets, NEW c \in Calls, HaTaskDone(s, c)
      PROVE  FreshInv'
  <2>1. UNCHANGED <<haState, handler, closed, authority, toHA, gen>>
    BY <1>3 DEF HaTaskDone
  <2>2. QED
    BY <2>1 DEF FreshInv
<1>4. ASSUME NEW s \in Sockets, NEW c \in Calls, NEW answer \in Answers, HaAnswer(s, c,
                answer)
      PROVE  FreshInv'
  <2>1. UNCHANGED <<haState, handler, closed, authority, toHA, gen>>
    BY <1>4 DEF HaAnswer
  <2>2. QED
    BY <2>1 DEF FreshInv
<1>5. ASSUME NEW s \in Sockets, HaConnect(s) PROVE FreshInv'
  BY <1>5 DEF HaConnect, FreshInv
<1>6. ASSUME NEW s \in Sockets, SocketClosed(s) PROVE FreshInv'
  BY <1>6 DEF SocketClosed, FreshInv
<1>7. ASSUME NEW s \in Sockets, Register(s) PROVE FreshInv'
  BY <1>7 DEF Register, Put, FreshInv, TypeOK
<1>8. ASSUME NEW s \in Sockets, RegisterBusy(s) PROVE FreshInv'
  BY <1>8 DEF RegisterBusy, FreshInv
<1>9. ASSUME NEW s \in Sockets, SeesClose(s) PROVE FreshInv'
  BY <1>9 DEF SeesClose, FreshInv
<1>10. ASSUME NEW s \in Sockets, BadMessage(s) PROVE FreshInv'
  BY <1>10 DEF BadMessage, FreshInv
<1>11. ASSUME NEW s \in Sockets, Unregister(s) PROVE FreshInv'
  <2>1. /\ handler' = [handler EXCEPT ![s] = "done"] /\ closed' = closed \cup {s}
        /\ handler[s] = "leaving" /\ authority' \in {authority, None}
        /\ UNCHANGED <<haState, toHA, gen>>
    BY <1>11 DEF Unregister, Detach
  <2>2. QED
    BY <2>1, SocketsAssumption DEF FreshInv, TypeOK
<1>12. ASSUME NEW s \in Sockets, HandlePing(s) PROVE FreshInv'
  BY <1>12 DEF HandlePing, FreshInv
<1>13. ASSUME NEW s \in Sockets, HaGone(s) PROVE FreshInv'
  BY <1>13 DEF HaGone, HaEnds, FreshInv
<1>14. ASSUME NEW s \in Sockets, HaRegistered(s) PROVE FreshInv'
  BY <1>14 DEF HaRegistered, FreshInv
<1>15. ASSUME NEW s \in Sockets, NEW c \in Calls, CallStart(c, s) PROVE FreshInv'
  BY <1>15 DEF CallStart, Put, FreshInv, TypeOK
<1>16. ASSUME NEW s \in Sockets, NEW c \in Calls, HandleResult(s, c) PROVE FreshInv'
  BY <1>16 DEF HandleResult, FreshInv, TypeOK
<1>17. ASSUME NEW s \in Sockets, NEW c \in Calls, HaToolCall(s, c) PROVE FreshInv'
  BY <1>17 DEF HaToolCall, FreshInv
<1>18. ASSUME NEW s \in Sockets, NEW c \in Calls, HaRefuses(s, c) PROVE FreshInv'
  BY <1>18 DEF HaRefuses, HaEnds, FreshInv
<1>19. ASSUME NEW who \in Senders, TakeLock(who) PROVE FreshInv'
  BY <1>19, Queued DEF TakeLock, Put, Target, FreshInv, TypeOK, QueueInv, Senders
<1>20. ASSUME NEW who \in Senders, Drained(who) PROVE FreshInv'
  <2>1. CASE who \in Calls
    BY <1>20, <2>1 DEF Drained, FreshInv
  <2>2. CASE who \in Sockets /\ who \notin Calls
    <3>1. handler[who] \in {"registering", "ponging"}
      BY <1>20, <2>2, Queued DEF Drained, QueueInv
    <3>2. QED
      BY <1>20, <2>2, <3>1 DEF Drained, FreshInv, TypeOK
  <2>3. QED
    BY <2>1, <2>2 DEF Senders
<1>21. ASSUME NEW who \in Senders, SendFails(who) PROVE FreshInv'
  <2>1. CASE who \in Calls
    BY <1>21, <2>1 DEF SendFails, FreshInv
  <2>2. CASE who \in Sockets /\ who \notin Calls
    <3>1. handler[who] \in {"registering", "ponging"}
      BY <1>21, <2>2, Queued DEF SendFails, QueueInv
    <3>2. QED
      BY <1>21, <2>2, <3>1 DEF SendFails, FreshInv, TypeOK
  <2>3. QED
    BY <2>1, <2>2 DEF Senders
<1>22. CASE UNCHANGED vars
  BY <1>22 DEF vars, FreshInv
<1> QED
  BY <1>1, <1>2, <1>3, <1>4, <1>5, <1>6, <1>7, <1>8, <1>9, <1>10, <1>11, <1>12, <1>13, <1>14,
     <1>15, <1>16, <1>17, <1>18, <1>19, <1>20, <1>21, <1>22
     DEF Next, AuthorityStep, CallStep, Correlate, SendStep

(* A call keeps its generation, and one that was given up on stays so.     *)
LEMMA StayStep ==
    TypeOK /\ QueueInv /\ CallsInv /\ TablesInv /\ [Next]_vars => Stays
<1> SUFFICES ASSUME TypeOK, QueueInv, CallsInv, TablesInv, [Next]_vars PROVE Stays
  OBVIOUS
<1> USE DEF bridgeVars, sendVars, callVars, tableVars, haVars
<1>1. ASSUME NEW s \in Sockets, HaConnect(s) \/ SocketClosed(s) \/ Register(s) \/
                RegisterBusy(s) \/ SeesClose(s) \/ BadMessage(s) \/ Unregister(s) \/
                HandlePing(s) \/ HaGone(s) \/ HaRegistered(s)
      PROVE  Stays
  <2>1. UNCHANGED <<gen, status>>
    BY <1>1
       DEF HaConnect, SocketClosed, Register, RegisterBusy, SeesClose, BadMessage, Unregister,
           HandlePing, HaGone, HaRegistered
  <2>2. QED
    BY <2>1 DEF Stays
<1>2. ASSUME NEW c \in Calls, NEW why, Interrupt(c, why)
      PROVE  Stays
  <2>1. UNCHANGED <<gen, status>>
    BY <1>2 DEF Interrupt
  <2>2. QED
    BY <2>1 DEF Stays
<1>3. ASSUME NEW s \in Sockets, NEW c \in Calls, HandleResult(s, c) \/ HaToolCall(s, c) \/
                HaRefuses(s, c) \/ HaTaskDone(s, c)
      PROVE  Stays
  <2>1. UNCHANGED <<gen, status>>
    BY <1>3 DEF HandleResult, HaToolCall, HaRefuses, HaTaskDone
  <2>2. QED
    BY <2>1 DEF Stays
<1>4. ASSUME NEW s \in Sockets, NEW c \in Calls, NEW answer \in Answers, HaAnswer(s, c,
                answer)
      PROVE  Stays
  <2>1. UNCHANGED <<gen, status>>
    BY <1>4 DEF HaAnswer
  <2>2. QED
    BY <2>1 DEF Stays
<1>5. ASSUME NEW who \in Senders, TakeLock(who)
      PROVE  Stays
  <2>1. UNCHANGED <<gen, status>>
    BY <1>5 DEF TakeLock
  <2>2. QED
    BY <2>1 DEF Stays
<1>6. ASSUME NEW c \in Calls, CallReturn(c) PROVE Stays
  BY <1>6, SettleChanges DEF CallReturn, Stays, TypeOK, Abandoned
<1>7. ASSUME NEW c \in Calls, CallUnwind(c) PROVE Stays
  BY <1>7, SettleChanges DEF CallUnwind, Stays, Abandoned, Active
<1>8. ASSUME NEW s \in Sockets, NEW c \in Calls, CallStart(c, s) PROVE Stays
  BY <1>8 DEF CallStart, Stays, CallsInv, Abandoned
<1>9. ASSUME NEW who \in Senders, Drained(who) PROVE Stays
  <2>1. CASE who \in Calls
    <3>1. status[who] = "sending"
      BY <1>9, <2>1, Queued DEF Drained, QueueInv
    <3>2. QED
      BY <1>9, <2>1, <3>1 DEF Drained, Stays, TypeOK, Abandoned
  <2>2. CASE who \notin Calls
    BY <1>9, <2>2 DEF Drained, Stays
  <2>3. QED
    BY <2>1, <2>2
<1>10. ASSUME NEW who \in Senders, SendFails(who) PROVE Stays
  <2>1. CASE who \in Calls
    BY <1>10, <2>1, Settles, SettleChanges DEF SendFails, Stays, Active, Abandoned
  <2>2. CASE who \notin Calls
    BY <1>10, <2>2 DEF SendFails, Stays
  <2>3. QED
    BY <2>1, <2>2
<1>11. CASE UNCHANGED vars
  BY <1>11 DEF vars, Stays
<1> QED
  BY <1>1, <1>2, <1>3, <1>4, <1>5, <1>6, <1>7, <1>8, <1>9, <1>10, <1>11
     DEF Next, AuthorityStep, CallStep, Correlate, SendStep

(* The component runs calls of its own socket.                             *)
LEMMA OwnCallsStep ==
    TypeOK /\ CallsInv /\ FreshInv /\ QueueInv /\ OwnCallsInv /\ [Next]_vars => OwnCallsInv'
<1> SUFFICES ASSUME TypeOK, CallsInv, FreshInv, QueueInv, OwnCallsInv, [Next]_vars
             PROVE  OwnCallsInv'
  OBVIOUS
<1> USE DEF bridgeVars, sendVars, callVars, tableVars, haVars
<1>1. ASSUME NEW s \in Sockets, HaConnect(s) \/ SocketClosed(s) \/ RegisterBusy(s) \/
                SeesClose(s) \/ BadMessage(s) \/ Unregister(s) \/ HandlePing(s)
      PROVE  OwnCallsInv'
  <2>1. UNCHANGED <<running, gen, toHA>>
    BY <1>1
       DEF HaConnect, SocketClosed, RegisterBusy, SeesClose, BadMessage, Unregister,
           HandlePing
  <2>2. QED
    BY <2>1 DEF OwnCallsInv
<1>2. ASSUME NEW c \in Calls, CallReturn(c) \/ CallUnwind(c)
      PROVE  OwnCallsInv'
  <2>1. UNCHANGED <<running, gen, toHA>>
    BY <1>2 DEF CallReturn, CallUnwind
  <2>2. QED
    BY <2>1 DEF OwnCallsInv
<1>3. ASSUME NEW c \in Calls, NEW why, Interrupt(c, why)
      PROVE  OwnCallsInv'
  <2>1. UNCHANGED <<running, gen, toHA>>
    BY <1>3 DEF Interrupt
  <2>2. QED
    BY <2>1 DEF OwnCallsInv
<1>4. ASSUME NEW s \in Sockets, NEW c \in Calls, HandleResult(s, c)
      PROVE  OwnCallsInv'
  <2>1. UNCHANGED <<running, gen, toHA>>
    BY <1>4 DEF HandleResult
  <2>2. QED
    BY <2>1 DEF OwnCallsInv
<1>5. ASSUME NEW s \in Sockets, NEW c \in Calls, NEW answer \in Answers, HaAnswer(s, c,
                answer)
      PROVE  OwnCallsInv'
  <2>1. UNCHANGED <<running, gen, toHA>>
    BY <1>5 DEF HaAnswer
  <2>2. QED
    BY <2>1 DEF OwnCallsInv
<1>6. ASSUME NEW who \in Senders, Drained(who) \/ SendFails(who)
      PROVE  OwnCallsInv'
  <2>1. UNCHANGED <<running, gen, toHA>>
    BY <1>6 DEF Drained, SendFails
  <2>2. QED
    BY <2>1 DEF OwnCallsInv
<1>7. ASSUME NEW s \in Sockets, Register(s) PROVE OwnCallsInv'
  BY <1>7 DEF Register, Put, OwnCallsInv
<1>8. ASSUME NEW s \in Sockets, HaGone(s) PROVE OwnCallsInv'
  BY <1>8 DEF HaGone, HaEnds, OwnCallsInv
<1>9. ASSUME NEW s \in Sockets, HaRegistered(s) PROVE OwnCallsInv'
  BY <1>9 DEF HaRegistered, OwnCallsInv, TypeOK
<1>10. ASSUME NEW s \in Sockets, NEW c \in Calls, CallStart(c, s) PROVE OwnCallsInv'
  <2>1. \A r \in Sockets : c \notin running[r]
    BY <1>10, SocketsAssumption DEF CallStart, OwnCallsInv, CallsInv
  <2>2. \A r \in Sockets : \A d \in running[r] : d \in Calls /\ gen'[d] = r
    BY <1>10, <2>1 DEF CallStart, OwnCallsInv, TypeOK
  <2>3. c \in Senders /\ c \notin Sockets
    BY SocketsAssumption DEF Senders
  <2>4. \A r \in Sockets : \A i \in DOMAIN toHA'[r] : toHA'[r][i] \in Sockets => toHA'[r][i] = r
    <3>1. CASE toHA' = Put(c, s)
      BY <2>3, <3>1, PutOwn
    <3>2. CASE UNCHANGED toHA
      BY <3>2 DEF OwnCallsInv
    <3>3. QED
      BY <1>10, <3>1, <3>2 DEF CallStart
  <2>5. QED
    BY <1>10, <2>2, <2>4 DEF CallStart, OwnCallsInv
<1>11. ASSUME NEW s \in Sockets, NEW c \in Calls, HaToolCall(s, c) PROVE OwnCallsInv'
  BY <1>11 DEF HaToolCall, OwnCallsInv, TypeOK
<1>12. ASSUME NEW s \in Sockets, NEW c \in Calls, HaRefuses(s, c) PROVE OwnCallsInv'
  BY <1>12 DEF HaRefuses, HaEnds, OwnCallsInv
<1>13. ASSUME NEW s \in Sockets, NEW c \in Calls, HaTaskDone(s, c) PROVE OwnCallsInv'
  BY <1>13 DEF HaTaskDone, OwnCallsInv
<1>14. ASSUME NEW who \in Senders, TakeLock(who) PROVE OwnCallsInv'
  <2>1. \A r \in Sockets : \A i \in DOMAIN toHA'[r] : toHA'[r][i] \in Sockets => toHA'[r][i] = r
    <3>1. CASE toHA' = Put(who, Target(who))
      <4>1. Target(who) \in Sockets /\ (who \in Sockets => who = Target(who))
        BY <1>14, TargetSocket DEF TakeLock
      <4>2. QED
        BY <3>1, <4>1, PutOwn
    <3>2. CASE UNCHANGED toHA
      BY <3>2 DEF OwnCallsInv
    <3>3. QED
      BY <1>14, <3>1, <3>2 DEF TakeLock
  <2>2. QED
    BY <1>14, <2>1 DEF TakeLock, OwnCallsInv
<1>15. CASE UNCHANGED vars
  BY <1>15 DEF vars, OwnCallsInv
<1> QED
  BY <1>1, <1>2, <1>3, <1>4, <1>5, <1>6, <1>7, <1>8, <1>9, <1>10, <1>11, <1>12, <1>13, <1>14,
     <1>15
     DEF Next, AuthorityStep, CallStep, Correlate, SendStep

(* Whose answer may still come, the broker knows.                          *)
LEMMA ExpectStep ==
    TypeOK /\ CallsInv /\ TablesInv /\ ActedInv /\ AnswersInv /\ ToldTheTruth /\ QueueInv /\
       OneAuthority /\ FreshInv /\ ExpectInv /\ [Next]_vars => ExpectInv'
<1> SUFFICES ASSUME TypeOK, CallsInv, TablesInv, ActedInv, AnswersInv, ToldTheTruth, QueueInv,
                    OneAuthority, FreshInv, ExpectInv, [Next]_vars
             PROVE  ExpectInv'
  OBVIOUS
<1> USE DEF bridgeVars, sendVars, callVars, tableVars, haVars
<1>1. ASSUME NEW s \in Sockets, HaConnect(s) \/ SocketClosed(s) \/ RegisterBusy(s) \/
                SeesClose(s) \/ BadMessage(s) \/ HandlePing(s) \/ HaGone(s) \/ HaRegistered(s)
      PROVE  ExpectInv'
  <2>1. UNCHANGED <<gen, authority, replies, effect, status, pending, retired, evicted, future>>
    BY <1>1
       DEF HaConnect, SocketClosed, RegisterBusy, SeesClose, BadMessage, HandlePing, HaGone,
           HaRegistered
  <2>2. QED
    BY <2>1 DEF ExpectInv, MayAnswer
<1>2. ASSUME NEW c \in Calls, NEW why, Interrupt(c, why)
      PROVE  ExpectInv'
  <2>1. UNCHANGED <<gen, authority, replies, effect, status, pending, retired, evicted, future>>
    BY <1>2 DEF Interrupt
  <2>2. QED
    BY <2>1 DEF ExpectInv, MayAnswer
<1>3. ASSUME NEW s \in Sockets, NEW c \in Calls, HaRefuses(s, c) \/ HaTaskDone(s, c)
      PROVE  ExpectInv'
  <2>1. UNCHANGED <<gen, authority, replies, effect, status, pending, retired, evicted, future>>
    BY <1>3 DEF HaRefuses, HaTaskDone
  <2>2. QED
    BY <2>1 DEF ExpectInv, MayAnswer
<1>4. ASSUME NEW who \in Senders, TakeLock(who)
      PROVE  ExpectInv'
  <2>1. UNCHANGED <<gen, authority, replies, effect, status, pending, retired, evicted, future>>
    BY <1>4 DEF TakeLock
  <2>2. QED
    BY <2>1 DEF ExpectInv, MayAnswer
<1>5. ASSUME NEW s \in Sockets, Register(s) PROVE ExpectInv'
  BY <1>5 DEF Register, FailPending, ExpectInv, TablesInv, FreshInv, Answers
<1>6. ASSUME NEW s \in Sockets, Unregister(s) PROVE ExpectInv'
  <2>1. /\ replies' \subseteq replies
        /\ UNCHANGED <<gen, status, evicted, effect>>
    BY <1>6 DEF Unregister
  <2>2. CASE authority = s
    <3>1. /\ authority' = None /\ pending' = {}
          /\ \A d \in Calls : future'[d] = IF d \in pending /\ future[d] = "unset"
                                            THEN "error" ELSE future[d]
      BY <1>6, <2>2 DEF Unregister, Detach, FailPending, TypeOK
    <3>2. \A d \in pending : d \in Calls /\ gen[d] # None
      BY <2>2, SocketsAssumption DEF TablesInv, TypeOK
    <3>3. \A d \in Calls : gen[d] = None => status[d] = "idle" /\ future[d] = "unset"
      BY DEF CallsInv, ExpectInv
    <3>4. QED
      BY <2>1, <3>1, <3>2, <3>3 DEF ExpectInv, MayAnswer, Answers, Abandoned, Active
  <2>3. CASE authority # s
    BY <1>6, <2>1, <2>3 DEF Unregister, Detach, ExpectInv, MayAnswer
  <2>4. QED
    BY <2>2, <2>3
<1>7. ASSUME NEW c \in Calls, CallReturn(c) PROVE ExpectInv'
  <2>1. PICK end \in Answers \cup Abandoned :
            Settle(c, end) /\ (end \in Answers => end = future[c])
    BY <1>7 DEF CallReturn, TypeOK, Answers, Abandoned
  <2>2. end \in Answers => c \notin replies
    BY <2>1 DEF ExpectInv
  <2>3. QED
    BY <1>7, <2>1, <2>2, SettleExpect DEF CallReturn
<1>8. ASSUME NEW c \in Calls, CallUnwind(c) PROVE ExpectInv'
  <2>1. PICK end \in Abandoned : Settle(c, end)
    BY <1>8, Settles
  <2>2. end \notin Answers
    BY DEF Answers, Abandoned
  <2>3. QED
    BY <1>8, <2>1, <2>2, SettleExpect DEF CallUnwind
<1>9. ASSUME NEW s \in Sockets, NEW c \in Calls, CallStart(c, s) PROVE ExpectInv'
  <2>1. gen[c] = None /\ future[c] = "unset" /\ c \notin replies
    <3>1. gen[c] = None /\ future[c] = "unset"
      BY <1>9 DEF CallStart, CallsInv, ExpectInv
    <3>2. effect[c] = "none"
      BY <3>1, SocketsAssumption DEF ActedInv
    <3>3. QED
      BY <3>1, <3>2 DEF AnswersInv, Answers
  <2>2. /\ \A d \in Calls : gen'[d] = IF d = c THEN s ELSE gen[d]
        /\ \A d \in Calls : status'[d] = IF d = c THEN "sending" ELSE status[d]
        /\ pending' = pending \cup {c} /\ authority = s
        /\ UNCHANGED <<authority, replies, effect, retired, evicted, future>>
    BY <1>9 DEF CallStart, TypeOK
  <2>3. QED
    BY <2>1, <2>2, SocketsAssumption DEF ExpectInv, MayAnswer, Answers, Abandoned
<1>10. ASSUME NEW s \in Sockets, NEW c \in Calls, HandleResult(s, c) PROVE ExpectInv'
  <2>1. /\ replies' = replies \ {c} /\ pending' = pending \ {c} /\ c \in replies
        /\ UNCHANGED <<authority, gen, status, evicted, effect>>
        /\ \/ c \in pending /\ future' = [future EXCEPT ![c] = effect[c]] /\ retired' = retired
           \/ /\ future' = future /\ c \notin pending
              /\ \E i \in DOMAIN retired : retired[i] = c /\ retired' = RemoveAt(retired, i)
           \/ UNCHANGED <<future, retired>>
    BY <1>10 DEF HandleResult, Resolve
  <2>2. \A d \in ToSet(retired) : d = c \/ d \in ToSet(retired')
    BY <2>1, RemoveAtOthers DEF TypeOK
  <2>3. effect[c] \in Answers /\ c \notin replies'
    BY <2>1 DEF AnswersInv
  <2>4. \A d \in Calls \ {c} : future'[d] = future[d]
    BY <2>1 DEF TypeOK
  <2>5. future'[c] \in {future[c], effect[c]} /\ (future'[c] # future[c] => c \in pending)
    BY <2>1 DEF TypeOK
  <2>6. c \in pending => gen[c] # None
    BY SocketsAssumption DEF TablesInv, CallsInv, Active
  <2>7. QED
    BY <2>1, <2>2, <2>3, <2>4, <2>5, <2>6 DEF ExpectInv, MayAnswer, Answers
<1>11. ASSUME NEW s \in Sockets, NEW c \in Calls, HaToolCall(s, c) PROVE ExpectInv'
  <2>1. CASE gen[c] = s /\ c \notin seen[s]
    <3>1. effect[c] = "none"
      BY <1>11, <2>1 DEF HaToolCall, ActedInv
    <3>2. /\ \A d \in Calls : effect'[d] = IF d = c THEN "begun" ELSE effect[d]
          /\ UNCHANGED <<authority, gen, replies, status, pending, retired, evicted, future>>
      BY <1>11, <2>1 DEF HaToolCall, TypeOK
    <3>3. QED
      BY <3>1, <3>2 DEF ExpectInv, MayAnswer, Answers
  <2>2. CASE ~(gen[c] = s /\ c \notin seen[s])
    BY <1>11, <2>2 DEF HaToolCall, ExpectInv, MayAnswer
  <2>3. QED
    BY <2>1, <2>2
<1>12. ASSUME NEW s \in Sockets, NEW c \in Calls, NEW answer \in Answers, HaAnswer(s, c, answer)
      PROVE  ExpectInv'
  BY <1>12 DEF HaAnswer, ExpectInv, MayAnswer, AnswersInv, ToldTheTruth, Answers
<1>13. ASSUME NEW who \in Senders, Drained(who) PROVE ExpectInv'
  <2>1. CASE who \in Calls
    <3>1. status[who] = "sending"
      BY <1>13, <2>1, Queued DEF Drained, QueueInv
    <3>2. /\ \A d \in Calls : status'[d] = IF d = who THEN "waiting" ELSE status[d]
          /\ UNCHANGED <<authority, gen, replies, effect, pending, retired, evicted, future>>
      BY <1>13, <2>1 DEF Drained, TypeOK
    <3>3. QED
      BY <3>1, <3>2 DEF ExpectInv, MayAnswer, Active, Abandoned, Answers
  <2>2. CASE who \notin Calls
    BY <1>13, <2>2 DEF Drained, ExpectInv, MayAnswer
  <2>3. QED
    BY <2>1, <2>2
<1>14. ASSUME NEW who \in Senders, SendFails(who) PROVE ExpectInv'
  <2>1. CASE who \in Calls
    <3>1. PICK end \in Abandoned : Settle(who, end)
      BY <1>14, <2>1, Settles
    <3>2. end \notin Answers
      BY DEF Answers, Abandoned
    <3>3. QED
      BY <1>14, <2>1, <3>1, <3>2, SettleExpect DEF SendFails
  <2>2. CASE who \notin Calls
    BY <1>14, <2>2 DEF SendFails, ExpectInv, MayAnswer
  <2>3. QED
    BY <2>1, <2>2
<1>15. CASE UNCHANGED vars
  BY <1>15 DEF vars, ExpectInv, MayAnswer
<1> QED
  BY <1>1, <1>2, <1>3, <1>4, <1>5, <1>6, <1>7, <1>8, <1>9, <1>10, <1>11, <1>12, <1>13, <1>14,
     <1>15
     DEF Next, AuthorityStep, CallStep, Correlate, SendStep

(* Nobody who was given up on is forgotten.                                *)
LEMMA GivenUpGrows ==
    ASSUME Stays, CallsInv, NEW s \in Sockets, Cardinality(GivenUp(s)) > MaxRetired
    PROVE  Cardinality(GivenUp(s)') > MaxRetired
<1>1. GivenUp(s) \subseteq GivenUp(s)' /\ GivenUp(s)' \subseteq Calls
  BY SocketsAssumption DEF GivenUp, Stays
<1>2. IsFiniteSet(GivenUp(s)') /\ IsFiniteSet(GivenUp(s))
  BY <1>1, SocketsAssumption, FS_Subset
<1>3. Cardinality(GivenUp(s)) <= Cardinality(GivenUp(s)')
  BY <1>1, <1>2, FS_Subset
<1>4. Cardinality(GivenUp(s)) \in Nat /\ Cardinality(GivenUp(s)') \in Nat
  BY <1>2, FS_CardinalityType
<1>5. QED
  BY <1>3, <1>4, LimitsAssumption

(* A full table of ids that were given up on, and one more.                *)
LEMMA TooMany ==
    ASSUME NEW s \in Sockets, NEW r \in Seq(Calls), IsInjective(r), Len(r) > MaxRetired,
           ToSet(r) \subseteq GivenUp(s)'
    PROVE  Cardinality(GivenUp(s)') > MaxRetired
<1>1. IsFiniteSet(GivenUp(s)')
  BY SocketsAssumption, FS_Subset DEF GivenUp
<1>2. Cardinality(ToSet(r)) = Len(r) /\ Cardinality(ToSet(r)) <= Cardinality(GivenUp(s)')
  BY <1>1, OnceCount, FS_Subset
<1>3. Cardinality(GivenUp(s)') \in Nat /\ Len(r) \in Nat
  BY <1>1, FS_CardinalityType
<1>4. QED
  BY <1>2, <1>3, LimitsAssumption

(* An id falls out only of a table that is full of ids given up on.        *)
LEMMA EvictedStep ==
    TypeOK /\ QueueInv /\ CallsInv /\ TablesInv /\ EvictedInv /\ [Next]_vars => EvictedInv'
<1> SUFFICES ASSUME TypeOK, QueueInv, CallsInv, TablesInv, EvictedInv, [Next]_vars
             PROVE  EvictedInv'
  OBVIOUS
<1> USE DEF bridgeVars, sendVars, callVars, tableVars, haVars
<1>1. Stays
  BY StayStep
<1>2. \A c \in evicted :
         /\ status'[c] \in Abandoned
         /\ \A s \in Sockets : gen'[c] = s => Cardinality(GivenUp(s)') > MaxRetired
  <2> SUFFICES ASSUME NEW c \in evicted
               PROVE  /\ status'[c] \in Abandoned
                      /\ \A s \in Sockets : gen'[c] = s => Cardinality(GivenUp(s)') > MaxRetired
    OBVIOUS
  <2>1. c \in Calls /\ status[c] \in Abandoned /\ gen[c] # None
    BY DEF EvictedInv, TypeOK, CallsInv, Abandoned
  <2>2. status'[c] = status[c] /\ gen'[c] = gen[c]
    BY <1>1, <2>1 DEF Stays
  <2>3. QED
    BY <1>1, <2>1, <2>2, GivenUpGrows DEF EvictedInv
<1>3. ASSUME UNCHANGED evicted, IsInjective(retired') PROVE EvictedInv'
  BY <1>2, <1>3 DEF EvictedInv
<1>4. ASSUME UNCHANGED <<evicted, retired>> PROVE EvictedInv'
  BY <1>3, <1>4 DEF EvictedInv
<1>5. ASSUME NEW c \in Calls, NEW end \in Answers \cup Abandoned, Settle(c, end),
             status[c] \in Active, UNCHANGED <<authority, gen>>
      PROVE  EvictedInv'
  <2>1. CASE end \in Abandoned /\ Retires(c)
    <3> DEFINE r == Append(retired, c)
    <3>1. c \notin ToSet(retired) /\ gen[c] \in Sockets
      BY <1>5, <2>1 DEF TablesInv, CallsInv, Retires, Active, Abandoned, TypeOK
    <3> PICK g \in Sockets : g = gen[c] /\ g = authority
      BY <2>1, <3>1 DEF Retires
    <3>2. r \in Seq(Calls) /\ r # <<>> /\ ToSet(r) = ToSet(retired) \cup {c} /\ IsInjective(r)
      <4>1. retired \in Seq(Calls) /\ IsInjective(retired)
        BY DEF TypeOK, EvictedInv
      <4>2. r \in Seq(Calls) /\ r # <<>> /\ ToSet(r) = ToSet(retired) \cup {c}
        BY <4>1, AppendSet
      <4>3. IsInjective(r)
        BY <3>1, <4>1, JoinsOnce
      <4>4. QED
        BY <4>2, <4>3
    <3> HIDE DEF r
    <3>3. /\ ToSet(r) = ToSet(Tail(r)) \cup {Head(r)} /\ IsInjective(Tail(r))
          /\ Head(r) \in ToSet(r)
      BY <3>2, TailSet, TailOnce
    <3>4. ToSet(r) \subseteq GivenUp(g)'
      <4> SUFFICES ASSUME NEW d \in ToSet(r)
                   PROVE  d \in Calls /\ gen'[d] = g /\ status'[d] \in Abandoned
        BY <1>5 DEF GivenUp
      <4>1. CASE d = c
        BY <1>5, <2>1, <3>1, <4>1, SettleChanges
      <4>2. CASE d # c
        <5>1. d \in ToSet(retired) /\ d \in Calls
          BY <3>2, <4>2, RetiredAreCalls
        <5>2. QED
          BY <1>1, <1>5, <5>1 DEF TablesInv, Stays
      <4>3. QED
        BY <4>1, <4>2
    <3>5. CASE Len(r) > MaxRetired
      <4>1. retired' = Tail(r) /\ evicted' = evicted \cup {Head(r)}
        BY <1>5, <2>1, <3>5 DEF Settle, Retire, r
      <4>2. Cardinality(GivenUp(g)') > MaxRetired
        BY <3>2, <3>4, <3>5, TooMany
      <4>3. status'[Head(r)] \in Abandoned /\ gen'[Head(r)] = g
        BY <3>3, <3>4 DEF GivenUp
      <4>4. QED
        BY <1>2, <3>3, <4>1, <4>2, <4>3 DEF EvictedInv
    <3>6. CASE ~(Len(r) > MaxRetired)
      <4>1. retired' = r /\ evicted' = evicted
        BY <1>5, <2>1, <3>6 DEF Settle, Retire, r
      <4>2. QED
        BY <1>3, <3>2, <4>1
    <3>7. QED
      BY <3>5, <3>6
  <2>2. CASE ~(end \in Abandoned /\ Retires(c))
    BY <1>4, <1>5, <2>2 DEF Settle
  <2>3. QED
    BY <2>1, <2>2
<1>6. ASSUME UNCHANGED evicted, retired' = <<>> PROVE EvictedInv'
  <2>1. IsInjective(<<>>)
    BY DEF IsInjective
  <2>2. QED
    BY <1>3, <1>6, <2>1
<1>7. ASSUME NEW s \in Sockets, Register(s) \/ Unregister(s) PROVE EvictedInv'
  BY <1>4, <1>6, <1>7 DEF Register, Unregister, Detach, FailPending
<1>8. ASSUME NEW s \in Sockets, NEW c \in Calls, HandleResult(s, c) PROVE EvictedInv'
  <2>1. CASE UNCHANGED retired
    BY <1>4, <1>8, <2>1 DEF HandleResult
  <2>2. CASE \E i \in DOMAIN retired : retired' = RemoveAt(retired, i)
    BY <1>3, <1>8, <2>2, RemoveAtOnce DEF HandleResult, EvictedInv, TypeOK
  <2>3. QED
    BY <1>8, <2>1, <2>2 DEF HandleResult
<1>9. ASSUME NEW c \in Calls, CallStep(c) PROVE EvictedInv'
  BY <1>5, <1>9, Settles DEF CallStep, CallReturn, CallUnwind
<1>10. ASSUME NEW who \in Senders, SendFails(who) PROVE EvictedInv'
  <2>1. CASE who \in Calls
    BY <1>5, <1>10, <2>1, Settles DEF SendFails
  <2>2. CASE who \notin Calls
    BY <1>4, <1>10, <2>2 DEF SendFails
  <2>3. QED
    BY <2>1, <2>2
<1>11. ASSUME NEW who \in Senders, TakeLock(who) \/ Drained(who) PROVE EvictedInv'
  BY <1>4, <1>11 DEF TakeLock, Drained
<1>12. ASSUME NEW s \in Sockets, AuthorityStep(s), ~Register(s), ~Unregister(s)
       PROVE  EvictedInv'
  BY <1>4, <1>12 DEF AuthorityStep, HaConnect, SocketClosed, RegisterBusy, SeesClose,
     BadMessage, HandlePing, HaGone, HaRegistered
<1>13. ASSUME NEW s \in Sockets, NEW c \in Calls, Correlate(s, c), ~HandleResult(s, c)
       PROVE  EvictedInv'
  BY <1>4, <1>13 DEF Correlate, CallStart, HaToolCall, HaRefuses, HaAnswer, HaTaskDone
<1>14. ASSUME NEW c \in Calls, NEW why, Interrupt(c, why) PROVE EvictedInv'
  BY <1>4, <1>14 DEF Interrupt
<1>15. CASE UNCHANGED vars
  BY <1>4, <1>15 DEF vars
<1>16. QED
  BY <1>7, <1>8, <1>9, <1>10, <1>11, <1>12, <1>13, <1>14, <1>15 DEF Next, SendStep

(* An answer is refused only after more calls of its generation were given *)
(* up on than the table holds.                                             *)
LEMMA KeptStep ==
    TypeOK /\ QueueInv /\ CallsInv /\ TablesInv /\ AnswersInv /\ OneAuthority /\ ExpectInv
    /\ EvictedInv /\ HonestAuthorityIsKept /\ [Next]_vars => HonestAuthorityIsKept'
<1> SUFFICES ASSUME TypeOK, QueueInv, CallsInv, TablesInv, AnswersInv, OneAuthority,
                    ExpectInv, EvictedInv, HonestAuthorityIsKept, [Next]_vars
             PROVE  HonestAuthorityIsKept'
  OBVIOUS
<1> USE DEF bridgeVars, sendVars, callVars, tableVars, haVars
<1>1. \A s \in rejected : Cardinality(GivenUp(s)') > MaxRetired
  BY StayStep, GivenUpGrows DEF HonestAuthorityIsKept, TypeOK
<1>2. ASSUME UNCHANGED rejected PROVE HonestAuthorityIsKept'
  BY <1>1, <1>2 DEF HonestAuthorityIsKept
<1>3. ASSUME NEW s \in Sockets, NEW c \in Calls, HandleResult(s, c)
      PROVE  HonestAuthorityIsKept'
  <2>1. CASE UNCHANGED rejected
    BY <1>2, <2>1
  <2>2. CASE rejected' # rejected
    <3>1. /\ rejected' = rejected \cup {s} /\ c \in replies /\ gen[c] = s
          /\ handler[s] = "serving" /\ s \notin closed
          /\ \/ authority # s
             \/ c \in pending /\ future[c] # "unset"
             \/ c \notin pending /\ c \notin ToSet(retired)
      BY <1>3, <2>2 DEF HandleResult
    <3>2. authority = s /\ c \notin pending /\ c \notin ToSet(retired)
      BY <3>1 DEF OneAuthority, ExpectInv
    <3>3. status[c] # "idle" /\ status[c] \notin Answers
      BY <3>1, SocketsAssumption DEF CallsInv, ExpectInv
    <3>4. c \in evicted
      BY <3>1, <3>2, <3>3 DEF ExpectInv, MayAnswer, TypeOK
    <3>5. Cardinality(GivenUp(s)') > MaxRetired
      BY <3>1, <3>4, StayStep, GivenUpGrows DEF EvictedInv
    <3>6. QED
      BY <1>1, <3>1, <3>5 DEF HonestAuthorityIsKept
  <2>3. QED
    BY <2>1, <2>2
<1>4. ASSUME NEW s \in Sockets, AuthorityStep(s) PROVE UNCHANGED rejected
  BY <1>4 DEF AuthorityStep, HaConnect, SocketClosed, Register, RegisterBusy, SeesClose,
     BadMessage, Unregister, HandlePing, HaGone, HaRegistered
<1>5. ASSUME NEW s \in Sockets, NEW c \in Calls, Correlate(s, c), ~HandleResult(s, c)
      PROVE  UNCHANGED rejected
  BY <1>5 DEF Correlate, CallStart, HaToolCall, HaRefuses, HaAnswer, HaTaskDone
<1>6. ASSUME NEW c \in Calls, NEW why, CallStep(c) \/ Interrupt(c, why)
      PROVE  UNCHANGED rejected
  BY <1>6 DEF CallStep, CallReturn, CallUnwind, Interrupt
<1>7. ASSUME NEW who \in Senders, SendStep(who) PROVE UNCHANGED rejected
  BY <1>7 DEF SendStep, TakeLock, Drained, SendFails
<1>8. CASE UNCHANGED vars
  BY <1>2, <1>8 DEF vars
<1>9. QED
  BY <1>2, <1>3, <1>4, <1>5, <1>6, <1>7, <1>8 DEF Next

-----------------------------------------------------------------------------
(* A frame that is put on a wire is its last.                              *)
LEMMA PutLast ==
    ASSUME TypeOK, NEW who \in Senders, NEW s \in Sockets, toHA' = Put(who, s)
    PROVE  /\ Len(toHA[s]) \in Nat /\ DOMAIN toHA[s] = 1 .. Len(toHA[s])
           /\ \A r \in Sockets : r # s => toHA'[r] = toHA[r]
           /\ \/ toHA'[s] = toHA[s]
              \/ /\ DOMAIN toHA'[s] = 1 .. Len(toHA[s]) + 1
                 /\ toHA'[s][Len(toHA[s]) + 1] = who
                 /\ \A i \in 1 .. Len(toHA[s]) : toHA'[s][i] = toHA[s][i]
<1>1. toHA[s] \in Seq(Senders)
  BY DEF TypeOK
<1>2. CASE haState[s] = "gone"
  BY <1>1, <1>2 DEF Put
<1>3. CASE haState[s] # "gone"
  <2>1. toHA' = [toHA EXCEPT ![s] = Append(@, who)]
    BY <1>3 DEF Put
  <2>2. /\ toHA'[s] = Append(toHA[s], who)
        /\ \A r \in Sockets : r # s => toHA'[r] = toHA[r]
    BY <2>1 DEF TypeOK
  <2>3. QED
    BY <1>1, <2>2
<1>4. QED
  BY <1>2, <1>3

(* The lines of all sockets, when nobody joins one.                        *)
LEMMA LineKept ==
    ASSUME TypeOK, LineInv, KeepsOrder, UNCHANGED gen, pending' \subseteq pending,
           \A r \in Sockets :
               \/ running'[r] \subseteq running[r] /\ toHA'[r] = toHA[r]
               \/ running'[r] = {} /\ toHA'[r] = <<>>
    PROVE  LineInv'
<1> SUFFICES ASSUME NEW r \in Sockets
             PROVE  /\ pending' \cap (running'[r] \cup ToSet(toHA'[r])) \subseteq
                           running[r] \cup ToSet(toHA[r])
                    /\ \A i \in DOMAIN toHA'[r] : toHA'[r][i] \in Calls =>
                          \E k \in DOMAIN toHA[r] : /\ toHA[r][k] \in Calls
                                                    /\ pending' \cap Ahead(r, i)' \subseteq
                                                           Ahead(r, k)
  BY LineLess DEF LineInv
<1>1. CASE running'[r] \subseteq running[r] /\ toHA'[r] = toHA[r]
  <2>1. \A i \in DOMAIN toHA'[r] : Ahead(r, i)' \subseteq Ahead(r, i)
    BY <1>1 DEF Ahead
  <2>2. QED
    BY <1>1, <2>1
<1>2. CASE running'[r] = {} /\ toHA'[r] = <<>>
  BY <1>2 DEF ToSet
<1>3. QED
  BY <1>1, <1>2

(* A socket's own frame is not a call.                                     *)
LEMMA LinePutOwn ==
    ASSUME TypeOK, LineInv, NEW s \in Sockets, toHA' = Put(s, s), KeepsOrder,
           UNCHANGED <<gen, running>>, pending' \subseteq pending
    PROVE  LineInv'
<1>1. s \in Senders /\ s \notin Calls
  BY SocketsAssumption DEF Senders
<1> SUFFICES ASSUME NEW r \in Sockets
             PROVE  /\ pending' \cap (running'[r] \cup ToSet(toHA'[r])) \subseteq
                           running[r] \cup ToSet(toHA[r])
                    /\ \A i \in DOMAIN toHA'[r] : toHA'[r][i] \in Calls =>
                          \E k \in DOMAIN toHA[r] : /\ toHA[r][k] \in Calls
                                                    /\ pending' \cap Ahead(r, i)' \subseteq
                                                           Ahead(r, k)
  BY LineLess DEF LineInv
<1>2. CASE toHA'[r] = toHA[r]
  <2>1. \A i \in DOMAIN toHA'[r] : Ahead(r, i)' = Ahead(r, i)
    BY <1>2 DEF Ahead
  <2>2. QED
    BY <1>2, <2>1
<1>3. CASE toHA'[r] # toHA[r]
  <2>1. /\ r = s /\ Len(toHA[r]) \in Nat /\ DOMAIN toHA[r] = 1 .. Len(toHA[r])
        /\ DOMAIN toHA'[r] = 1 .. Len(toHA[r]) + 1
        /\ toHA'[r][Len(toHA[r]) + 1] = s
        /\ \A i \in 1 .. Len(toHA[r]) : toHA'[r][i] = toHA[r][i]
    BY <1>1, <1>3, PutLast
  <2>2. ASSUME NEW i \in DOMAIN toHA'[r], toHA'[r][i] \in Calls
        PROVE  i \in DOMAIN toHA[r] /\ toHA[r][i] \in Calls /\ Ahead(r, i)' = Ahead(r, i)
    <3>1. i \in 1 .. Len(toHA[r])
      BY <1>1, <2>1, <2>2
    <3>2. \A j \in 1 .. i - 1 : toHA'[r][j] = toHA[r][j]
      BY <2>1, <3>1
    <3>3. QED
      BY <2>1, <2>2, <3>1, <3>2 DEF Ahead
  <2>3. ToSet(toHA'[r]) \subseteq ToSet(toHA[r]) \cup {s}
    BY <2>1 DEF ToSet
  <2>4. s \notin pending'
    BY <1>1 DEF TypeOK
  <2>5. QED
    BY <2>2, <2>3, <2>4
<1>4. QED
  BY <1>2, <1>3

(* The component reads a frame: a call moves from the wire to the calls    *)
(* that run, or is forgotten.                                              *)
LEMMA LineRead ==
    ASSUME TypeOK, LineInv, NEW s \in Sockets, toHA[s] # <<>>,
           toHA' = [toHA EXCEPT ![s] = Tail(@)],
           running'[s] \subseteq running[s] \cup {Head(toHA[s])},
           \A r \in Sockets : r # s => running'[r] = running[r],
           UNCHANGED <<gen, pending, sendQueue, written>>
    PROVE  LineInv'
<1>1. KeepsOrder
  BY SameKeeps
<1> SUFFICES ASSUME NEW r \in Sockets
             PROVE  /\ running'[r] \cup ToSet(toHA'[r]) \subseteq
                           running[r] \cup ToSet(toHA[r])
                    /\ \A i \in DOMAIN toHA'[r] : toHA'[r][i] \in Calls =>
                          \E k \in DOMAIN toHA[r] : /\ toHA[r][k] \in Calls
                                                    /\ Ahead(r, i)' \subseteq Ahead(r, k)
  BY <1>1, LineLess DEF LineInv
<1>2. CASE r = s
  <2> DEFINE q == toHA[s]
             t == Tail(toHA[s])
  <2>1. q \in Seq(Senders) /\ q # <<>>
    BY DEF TypeOK
  <2>2. /\ Len(q) \in Nat \ {0} /\ DOMAIN q = 1 .. Len(q) /\ DOMAIN t = 1 .. Len(q) - 1
        /\ Head(q) = q[1] /\ \A i \in 1 .. Len(q) - 1 : t[i] = q[i + 1]
    BY <2>1
  <2>3. toHA'[s] = t
    BY DEF TypeOK
  <2>4. ToSet(q) = ToSet(t) \cup {Head(q)}
    BY <2>1, TailSet
  <2> HIDE DEF t
  <2> DEFINE old(i) == i + 1
  <2>5. ASSUME NEW i \in DOMAIN t
        PROVE  /\ old(i) \in DOMAIN q /\ t[i] = q[old(i)]
               /\ \A j \in 1 .. i - 1 : old(j) \in 1 .. old(i) - 1 /\ t[j] = q[old(j)]
               /\ 1 \in 1 .. old(i) - 1
    BY <2>2
  <2> HIDE DEF old
  <2>6. ASSUME NEW i \in DOMAIN t
        PROVE  running'[s] \cup {t[j] : j \in 1 .. i - 1} \subseteq Ahead(s, old(i))
    <3>1. Head(q) \in {q[j] : j \in 1 .. old(i) - 1}
      BY <2>2, <2>5
    <3>2. {t[j] : j \in 1 .. i - 1} \subseteq {q[j] : j \in 1 .. old(i) - 1}
      BY <2>5
    <3>3. QED
      BY <3>1, <3>2 DEF Ahead
  <2>7. ASSUME NEW i \in DOMAIN t
        PROVE  Ahead(s, i)' \subseteq Ahead(s, old(i))
    BY <2>3, <2>6 DEF Ahead
  <2>8. QED
    BY ZenonT(40), <1>2, <2>3, <2>4, <2>5, <2>7
<1>3. CASE r # s
  <2>1. toHA'[r] = toHA[r]
    BY <1>3 DEF TypeOK
  <2>2. \A i \in DOMAIN toHA'[r] : Ahead(r, i)' = Ahead(r, i)
    BY <1>3, <2>1 DEF Ahead
  <2>3. QED
    BY <1>3, <2>1, <2>2
<1>4. QED
  BY <1>2, <1>3

(* A call that was first in the queue is the last on the wire.             *)
LEMMA LineWritten ==
    ASSUME TypeOK, LineInv, QueueInv, NEW c \in Calls, NEW s \in Sockets, gen[c] = s,
           Holds(c), ~written, written' = TRUE, toHA' = Put(c, s),
           UNCHANGED <<gen, pending, sendQueue, running>>
    PROVE  LineInv'
<1>1. c \in Senders /\ 1 \in DOMAIN sendQueue /\ sendQueue[1] = c
  BY Queued DEF Senders
<1>2. pending \subseteq Calls /\ MaxPending \in Int
  BY LimitsAssumption DEF TypeOK
<1>3. Cardinality(pending \cap Before(s, 1)) < MaxPending
  BY <1>1 DEF LineInv, Unwritten
<1>4. KeepsOrder
  BY SameKeeps
<1>5. CASE toHA'[s] = toHA[s]
  BY <1>1, <1>4, <1>5, PutLast, LineKept
<1>6. CASE toHA'[s] # toHA[s]
  <2>1. /\ Len(toHA[s]) \in Nat /\ DOMAIN toHA[s] = 1 .. Len(toHA[s])
        /\ \A r \in Sockets : r # s => toHA'[r] = toHA[r]
    BY <1>1, PutLast
  <2>2. /\ DOMAIN toHA'[s] = 1 .. Len(toHA[s]) + 1
        /\ toHA'[s][Len(toHA[s]) + 1] = c
        /\ \A i \in 1 .. Len(toHA[s]) : toHA'[s][i] = toHA[s][i]
    BY <1>1, <1>6, PutLast
  <2>3. ASSUME NEW r \in Sockets, NEW i \in DOMAIN toHA'[r], toHA'[r][i] \in Calls
        PROVE  Cardinality(pending \cap Ahead(r, i)') < MaxPending
    <3>1. CASE i \in DOMAIN toHA[r] /\ toHA'[r][i] = toHA[r][i] /\ Ahead(r, i)' = Ahead(r, i)
      BY <2>3, <3>1 DEF LineInv
    <3>2. CASE r # s
      <4>1. toHA'[r] = toHA[r]
        BY <2>1, <3>2
      <4>2. QED
        BY <2>3, <3>1, <4>1 DEF Ahead
    <3>3. CASE r = s /\ i \in 1 .. Len(toHA[s])
      <4>1. \A j \in 1 .. i - 1 : toHA'[s][j] = toHA[s][j]
        BY <2>2, <3>3
      <4>2. QED
        <5>1. Ahead(s, i)' = Ahead(s, i)
          BY <4>1 DEF Ahead
        <5>2. QED
          BY <2>1, <2>2, <3>1, <3>3, <5>1
    <3>4. CASE r = s /\ i = Len(toHA[s]) + 1
      <4>1. \A j \in 1 .. i - 1 : j \in DOMAIN toHA[s] /\ toHA'[s][j] = toHA[s][j]
        BY <2>1, <2>2, <3>4
      <4>2. Ahead(s, i)' \subseteq Before(s, 1)
        BY <4>1 DEF Ahead, Before, ToSet
      <4>3. pending \cap Ahead(s, i)' \subseteq pending \cap Before(s, 1)
        BY <4>2
      <4>4. pending \cap Before(s, 1) \subseteq Calls
        BY <1>2
      <4>5. QED
        BY <1>2, <1>3, <3>4, <4>3, <4>4, Fewer
    <3>5. QED
      BY <2>2, <2>3, <3>2, <3>3, <3>4
  <2>4. ASSUME NEW r \in Sockets, NEW i \in DOMAIN sendQueue', Unwritten(r, i)'
        PROVE  Cardinality(pending \cap Before(r, i)') < MaxPending
    <3>1. Unwritten(r, i) /\ i # 1 /\ i \in DOMAIN sendQueue
      BY <2>4 DEF Unwritten
    <3>2. c \in {sendQueue[j] : j \in 1 .. i - 1}
      <4>1. Len(sendQueue) \in Nat /\ DOMAIN sendQueue = 1 .. Len(sendQueue)
        BY DEF TypeOK
      <4>2. 1 \in 1 .. i - 1
        BY <3>1, <4>1
      <4>3. QED
        BY <1>1, <4>2
    <3>3. ToSet(toHA'[r]) \subseteq ToSet(toHA[r]) \cup {c}
      BY <2>1, <2>2 DEF ToSet
    <3>4. Before(r, i)' \subseteq Before(r, i)
      BY <3>2, <3>3 DEF Before
    <3>5. Cardinality(pending \cap Before(r, i)) < MaxPending
      BY <3>1 DEF LineInv
    <3>6. pending \cap Before(r, i)' \subseteq pending \cap Before(r, i)
      BY <3>4
    <3>7. pending \cap Before(r, i) \subseteq Calls
      BY <1>2
    <3>8. QED
      BY <1>2, <3>5, <3>6, <3>7, Fewer
  <2>5. QED
    BY <2>3, <2>4 DEF LineInv
<1>7. QED
  BY <1>5, <1>6

(* A call starts while there is room: fewer than MaxPending are pending,   *)
(* wherever they are.                                                      *)
LEMMA LineStart ==
    ASSUME TypeOK, LineInv, CallsInv, QueueInv, WireInv, OwnCallsInv,
           NEW c \in Calls, NEW s \in Sockets, CallStart(c, s)
    PROVE  LineInv'
<1>1. /\ pending \subseteq Calls /\ MaxPending \in Int
      /\ Cardinality(pending) < MaxPending /\ pending' = pending \cup {c}
  BY LimitsAssumption DEF TypeOK, CallStart, HasRoom
<1>2. /\ \A r \in Sockets : c \notin running[r] /\ c \notin ToSet(toHA[r])
      /\ \A i \in DOMAIN sendQueue : sendQueue[i] # c
      /\ \A d \in Calls : gen'[d] = IF d = c THEN s ELSE gen[d]
      /\ UNCHANGED running
  <2>1. gen[c] = None /\ c \notin onWire
    BY DEF CallStart, CallsInv
  <2>2. \A r \in Sockets : c \notin running[r]
    BY <2>1, SocketsAssumption DEF OwnCallsInv
  <2>3. \A r \in Sockets : c \notin ToSet(toHA[r])
    BY <2>1 DEF WireInv, ToSet
  <2>4. QED
    BY <2>2, <2>3 DEF CallStart, QueueInv, TypeOK, haVars
<1>3. c \in Senders /\ Enqueue(c)
  BY DEF CallStart, Senders
<1>4. /\ Len(sendQueue) \in Nat /\ DOMAIN sendQueue = 1 .. Len(sendQueue)
      /\ DOMAIN sendQueue' = 1 .. Len(sendQueue) + 1
      /\ \A i \in 1 .. Len(sendQueue) : sendQueue'[i] = sendQueue[i]
      /\ sendQueue'[Len(sendQueue) + 1] = c
  BY <1>3 DEF Enqueue, TypeOK
<1>5. ASSUME NEW X, X \cap {c} = {} PROVE Cardinality(pending' \cap X) < MaxPending
  <2>1. pending' \cap X \subseteq pending
    BY <1>1, <1>5
  <2>2. QED
    BY <1>1, <2>1, Fewer
<1>6. /\ Len(toHA[s]) \in Nat /\ DOMAIN toHA[s] = 1 .. Len(toHA[s])
      /\ \A r \in Sockets : r # s => toHA'[r] = toHA[r]
      /\ \/ toHA'[s] = toHA[s]
         \/ /\ DOMAIN toHA'[s] = 1 .. Len(toHA[s]) + 1
            /\ \A i \in 1 .. Len(toHA[s]) : toHA'[s][i] = toHA[s][i]
  <2>1. CASE toHA' = Put(c, s)
    BY <1>3, <2>1, PutLast
  <2>2. CASE UNCHANGED toHA
    BY <2>2 DEF TypeOK
  <2>3. QED
    BY <2>1, <2>2 DEF CallStart
<1>7. ASSUME NEW r \in Sockets, NEW i \in DOMAIN toHA'[r]
      PROVE  Cardinality(pending' \cap Ahead(r, i)') < MaxPending
  <2>1. Len(toHA[r]) \in Nat /\ DOMAIN toHA[r] = 1 .. Len(toHA[r])
    BY DEF TypeOK
  <2>2. \A j \in 1 .. i - 1 : j \in DOMAIN toHA[r] /\ toHA'[r][j] = toHA[r][j]
    BY <1>6, <1>7, <2>1
  <2>3. c \notin Ahead(r, i)'
    BY <1>2, <2>2 DEF Ahead, ToSet
  <2>4. QED
    BY <1>5, <2>3
<1>8. ASSUME NEW r \in Sockets, NEW i \in DOMAIN sendQueue', Unwritten(r, i)'
      PROVE  Cardinality(pending' \cap Before(r, i)') < MaxPending
  <2>1. sendQueue # <<>>
    <3>1. sendQueue = <<>> => written' /\ Len(sendQueue) = 0
      BY <1>3 DEF Enqueue
    <3>2. QED
      BY <1>4, <1>8, <3>1 DEF Unwritten
  <2>2. UNCHANGED toHA
    BY <2>1 DEF CallStart
  <2>3. \A j \in 1 .. i - 1 : j \in DOMAIN sendQueue /\ sendQueue'[j] = sendQueue[j]
    BY <1>4, <1>8
  <2>4. c \notin Before(r, i)'
    BY <1>2, <2>2, <2>3 DEF Before
  <2>5. QED
    BY <1>5, <2>4
<1>9. QED
  BY <1>7, <1>8 DEF LineInv

(* Whoever is interrupted, ends or fails only leaves the line.             *)
LEMMA LineStep ==
    TypeOK /\ CallsInv /\ QueueInv /\ WireInv /\ OwnCallsInv /\ LineInv /\ [Next]_vars
        => LineInv'
<1> SUFFICES ASSUME TypeOK, CallsInv, QueueInv, WireInv, OwnCallsInv, LineInv, [Next]_vars
             PROVE  LineInv'
  OBVIOUS
<1> USE DEF bridgeVars, sendVars, callVars, tableVars, haVars
<1>1. ASSUME UNCHANGED <<sendQueue, written, gen, toHA>>, pending' \subseteq pending,
             \A r \in Sockets : running'[r] \subseteq running[r]
      PROVE  LineInv'
  BY <1>1, SameKeeps, LineKept
<1>2. ASSUME KeepsOrder, UNCHANGED <<gen, toHA, running>>, pending' \subseteq pending
      PROVE  LineInv'
  BY <1>2, LineKept
<1>3. ASSUME NEW c \in Calls, NEW end, Settle(c, end) PROVE pending' \subseteq pending
  BY <1>3 DEF Settle
<1>4. ASSUME NEW s \in Sockets, HaEnds(s), UNCHANGED <<sendQueue, written, gen, pending>>
      PROVE  LineInv'
  <2>1. \A r \in Sockets : \/ running'[r] = running[r] /\ toHA'[r] = toHA[r]
                           \/ running'[r] = {} /\ toHA'[r] = <<>>
    BY <1>4 DEF HaEnds, TypeOK
  <2>2. QED
    BY <1>4, <2>1, SameKeeps, LineKept
<1>5. ASSUME NEW s \in Sockets, Register(s) PROVE LineInv'
  <2>1. KeepsOrder
    BY <1>5, SocketsAssumption, EnqueueKeeps DEF Register, Senders
  <2>2. pending' \subseteq pending
    BY <1>5 DEF Register, FailPending
  <2>3. CASE toHA' = Put(s, s)
    BY <1>5, <2>1, <2>2, <2>3, LinePutOwn DEF Register
  <2>4. CASE UNCHANGED toHA
    BY <1>2, <1>5, <2>1, <2>2, <2>4 DEF Register
  <2>5. QED
    BY <1>5, <2>3, <2>4 DEF Register
<1>6. ASSUME NEW s \in Sockets, Unregister(s) PROVE LineInv'
  BY <1>1, <1>6 DEF Unregister, Detach, FailPending
<1>7. ASSUME NEW s \in Sockets, HandlePing(s) PROVE LineInv'
  <2>1. KeepsOrder
    BY <1>7, SocketsAssumption, EnqueueKeeps DEF HandlePing, Senders
  <2>2. QED
    BY <1>2, <1>7, <2>1 DEF HandlePing
<1>8. ASSUME NEW s \in Sockets, HaRegistered(s) PROVE LineInv'
  BY <1>8, LineRead DEF HaRegistered
<1>9. ASSUME NEW s \in Sockets, NEW c \in Calls, HaToolCall(s, c) PROVE LineInv'
  <2>1. \A r \in Sockets : IF r = s THEN running'[r] \subseteq running[r] \cup {c}
                           ELSE running'[r] = running[r]
    BY <1>9 DEF HaToolCall, TypeOK
  <2>2. QED
    BY <1>9, <2>1, LineRead DEF HaToolCall
<1>10. ASSUME NEW s \in Sockets, NEW c \in Calls, HaTaskDone(s, c) PROVE LineInv'
  BY <1>1, <1>10 DEF HaTaskDone, TypeOK
<1>11. ASSUME NEW s \in Sockets, NEW c \in Calls, HandleResult(s, c) PROVE LineInv'
  BY <1>1, <1>11 DEF HandleResult
<1>12. ASSUME NEW s \in Sockets, HaGone(s) PROVE LineInv'
  BY <1>4, <1>12 DEF HaGone
<1>13. ASSUME NEW s \in Sockets, NEW c \in Calls, HaRefuses(s, c) PROVE LineInv'
  BY <1>4, <1>13 DEF HaRefuses
<1>14. ASSUME NEW c \in Calls, CallReturn(c) PROVE LineInv'
  BY <1>1, <1>3, <1>14 DEF CallReturn
<1>15. ASSUME NEW c \in Calls, CallUnwind(c) PROVE LineInv'
  <2>1. pending' \subseteq pending
    BY <1>3, <1>15 DEF CallUnwind
  <2>2. CASE Holds(c)
    BY <1>2, <1>15, <2>1, <2>2, ReleaseKeeps DEF CallUnwind, Holds
  <2>3. CASE ~Holds(c)
    BY <1>1, <1>15, <2>1, <2>3 DEF CallUnwind
  <2>4. QED
    BY <2>2, <2>3
<1>16. ASSUME NEW c \in Calls, NEW why, Interrupt(c, why) PROVE LineInv'
  BY <1>2, <1>16, LeaveKeeps DEF Interrupt
<1>17. ASSUME NEW who \in Senders, Drained(who) PROVE LineInv'
  BY <1>2, <1>17, ReleaseKeeps DEF Drained, Holds
<1>18. ASSUME NEW who \in Senders, SendFails(who) PROVE LineInv'
  <2>1. pending' \subseteq pending
    BY <1>3, <1>18 DEF SendFails
  <2>2. QED
    BY <1>2, <1>18, <2>1, ReleaseKeeps DEF SendFails, Holds
<1>19. ASSUME NEW who \in Senders, TakeLock(who) PROVE LineInv'
  <2>1. KeepsOrder
    BY <1>19, SameKeeps DEF TakeLock
  <2>2. CASE UNCHANGED toHA
    BY <1>2, <1>19, <2>1, <2>2 DEF TakeLock
  <2>3. CASE who \in Calls /\ toHA' = Put(who, Target(who))
    <3>1. Target(who) = gen[who] /\ gen[who] \in Sockets
      BY <1>19, <2>3, SocketsAssumption, TargetSocket DEF TakeLock, Target
    <3>2. QED
      BY <1>19, <2>3, <3>1, LineWritten DEF TakeLock
  <2>4. CASE who \notin Calls /\ toHA' = Put(who, Target(who))
    BY <1>19, <2>1, <2>4, LinePutOwn DEF TakeLock, Target, Senders
  <2>5. QED
    BY <1>19, <2>2, <2>3, <2>4 DEF TakeLock
<1>20. ASSUME NEW s \in Sockets, NEW c \in Calls, CallStart(c, s) PROVE LineInv'
  BY <1>20, LineStart
<1>21. ASSUME NEW s \in Sockets,
              HaConnect(s) \/ SocketClosed(s) \/ RegisterBusy(s) \/ SeesClose(s)
                  \/ BadMessage(s)
       PROVE  LineInv'
  BY <1>1, <1>21 DEF HaConnect, SocketClosed, RegisterBusy, SeesClose, BadMessage
<1>22. ASSUME NEW s \in Sockets, NEW c \in Calls, NEW answer, HaAnswer(s, c, answer)
       PROVE  LineInv'
  BY <1>1, <1>22 DEF HaAnswer
<1>23. CASE UNCHANGED vars
  BY <1>1, <1>23 DEF vars
<1>24. QED
  BY <1>5, <1>6, <1>7, <1>8, <1>9, <1>10, <1>11, <1>12, <1>13, <1>14, <1>15, <1>16, <1>17,
     <1>18, <1>19, <1>20, <1>21, <1>22, <1>23
     DEF Next, AuthorityStep, CallStep, Correlate, SendStep

-----------------------------------------------------------------------------
(* The registered event comes first.                                       *)

(* Once it is on the wire, the rest does not matter.                       *)
LEMMA FirstAnnounced ==
    ASSUME NEW s \in Sockets, Announced(s)'
    PROVE  First(s)'
  BY DEF First, Announced

(* Nothing but the holder of the lock changes for a socket.                *)
LEMMA FirstSame ==
    ASSUME TypeOK, FirstInv, UNCHANGED <<sendQueue, written, gen>>, closed \subseteq closed',
           authority' \in {authority, None},
           \A s \in Sockets : handler[s] = "registering" => handler'[s] = handler[s],
           \A s \in Sockets : haState'[s] = "connecting" =>
               haState[s] = "connecting" /\ toHA'[s] = toHA[s]
    PROVE  FirstInv'
<1> SUFFICES ASSUME NEW s \in Sockets, haState'[s] = "connecting"
             PROVE  First(s)'
  BY DEF FirstInv
<1>1. First(s) /\ toHA'[s] = toHA[s]
  BY DEF FirstInv
<1>2. \A i \in DOMAIN sendQueue : Unwritten(s, i)' <=> Unwritten(s, i)
  BY DEF Unwritten
<1>3. authority' = s => authority = s
  BY SocketsAssumption
<1>4. QED
  BY <1>1, <1>2, <1>3 DEF First, Announced

(* The holder of the lock leaves; a socket that has written its own frame  *)
(* is announced.                                                           *)
LEMMA FirstRelease ==
    ASSUME TypeOK, FirstInv, NEW who, Holds(who), Release,
           UNCHANGED <<gen, closed, authority, haState, toHA>>,
           \A s \in Sockets \ {who} : handler'[s] = handler[s],
           who \in Sockets /\ haState[who] = "connecting" => who \in closed \/ Announced(who)
    PROVE  FirstInv'
<1> SUFFICES ASSUME NEW s \in Sockets, haState[s] = "connecting"
             PROVE  First(s)'
  BY DEF FirstInv
<1>1. First(s)
  BY DEF FirstInv
<1>2. CASE Announced(s)
  <2>1. Announced(s)'
    BY <1>2 DEF Announced
  <2>2. QED
    BY <2>1, FirstAnnounced
<1>3. CASE s \in closed
  BY <1>1, <1>3 DEF First
<1>4. CASE ~Announced(s) /\ s \notin closed
  <2>1. s # who /\ handler'[s] = handler[s]
    BY <1>4
  <2>2. /\ sendQueue[1] = who /\ written' = FALSE
        /\ Len(sendQueue) \in Nat \ {0} /\ DOMAIN sendQueue = 1 .. Len(sendQueue)
        /\ DOMAIN sendQueue' = 1 .. Len(sendQueue) - 1
        /\ \A i \in 1 .. Len(sendQueue) - 1 : sendQueue'[i] = sendQueue[i + 1]
    BY DEF TypeOK, Holds, Release
  <2>3. ASSUME NEW k \in 1 .. Len(sendQueue), sendQueue[k] = s
        PROVE  k - 1 \in 1 .. Len(sendQueue) - 1 /\ sendQueue'[k - 1] = s
    BY <2>1, <2>2, <2>3
  <2>4. authority = s => handler[s] = "registering" /\ s \in ToSet(sendQueue')
    BY <1>1, <1>4, <2>2, <2>3 DEF First, ToSet
  <2>5. ASSUME NEW i \in DOMAIN sendQueue', Unwritten(s, i)'
        PROVE  handler[s] = "registering" /\ \E j \in 1 .. i - 1 : sendQueue'[j] = s
    <3>1. i + 1 \in DOMAIN sendQueue /\ Unwritten(s, i + 1)
      BY <2>2, <2>5 DEF Unwritten
    <3>2. /\ handler[s] = "registering"
          /\ \E k \in 1 .. (i + 1) - 1 : sendQueue[k] = s
      BY <1>1, <1>4, <3>1 DEF First
    <3>3. PICK k \in 1 .. i : sendQueue[k] = s
      BY <2>2, <3>2
    <3>4. k - 1 \in 1 .. i - 1 /\ sendQueue'[k - 1] = s
      BY <2>2, <2>3, <3>1, <3>3
    <3>5. QED
      BY <3>2, <3>4
  <2>6. QED
    BY <1>1, <2>1, <2>2, <2>4, <2>5 DEF First
<1>5. QED
  BY <1>2, <1>3, <1>4

(* A waiter that is a call leaves the queue.                               *)
LEMMA FirstLeave ==
    ASSUME TypeOK, FirstInv, NEW c \in Calls, LeaveQueue(c),
           UNCHANGED <<written, gen, closed, authority, haState, toHA, handler>>
    PROVE  FirstInv'
<1>1. CASE UNCHANGED sendQueue
  BY <1>1, FirstSame
<1>2. CASE ~ UNCHANGED sendQueue
  <2>1. PICK n \in DOMAIN sendQueue : /\ sendQueue[n] = c
                                      /\ sendQueue' = RemoveAt(sendQueue, n)
    BY <1>2 DEF LeaveQueue
  <2>2. ~(Holds(c) /\ written)
    BY <1>2 DEF LeaveQueue
  <2>3. /\ Len(sendQueue) \in Nat /\ DOMAIN sendQueue = 1 .. Len(sendQueue)
        /\ DOMAIN sendQueue' = 1 .. Len(sendQueue) - 1
        /\ \A j \in 1 .. Len(sendQueue) - 1 :
              sendQueue'[j] = IF j < n THEN sendQueue[j] ELSE sendQueue[j + 1]
    BY <2>1, RemoveAtLemma DEF TypeOK
  <2>4. n = 1 => ~written
    BY <2>1, <2>2, <2>3 DEF Holds
  <2> SUFFICES ASSUME NEW s \in Sockets, haState[s] = "connecting"
               PROVE  First(s)'
    BY DEF FirstInv
  <2>5. First(s) /\ s # c
    BY SocketsAssumption DEF FirstInv
  <2> DEFINE new(k) == IF k < n THEN k ELSE k - 1
             old(i) == IF i < n THEN i ELSE i + 1
  <2>6. ASSUME NEW k \in DOMAIN sendQueue, sendQueue[k] = s
        PROVE  new(k) \in DOMAIN sendQueue' /\ sendQueue'[new(k)] = s
    BY <2>1, <2>3, <2>5, <2>6
  <2>7. ASSUME NEW i \in DOMAIN sendQueue'
        PROVE  /\ old(i) \in DOMAIN sendQueue /\ sendQueue'[i] = sendQueue[old(i)]
               /\ old(i) = 1 /\ written => i = 1
               /\ \A k \in 1 .. old(i) - 1 : k # n => new(k) \in 1 .. i - 1
               /\ i = 1 /\ written => old(i) = 1
               /\ old(i) - 1 < Len(sendQueue)
    BY <2>3, <2>4
  <2> HIDE DEF new, old
  <2>8. s \in ToSet(sendQueue) => s \in ToSet(sendQueue')
    BY <2>6 DEF ToSet
  <2>9. ASSUME NEW i \in DOMAIN sendQueue', Unwritten(s, i)'
        PROVE  \/ Announced(s)'
               \/ s \in closed
               \/ handler[s] = "registering" /\ \E j \in 1 .. i - 1 : sendQueue'[j] = s
    <3>1. old(i) \in DOMAIN sendQueue /\ Unwritten(s, old(i))
      BY <2>7, <2>9 DEF Unwritten
    <3>2. CASE Announced(s) \/ s \in closed
      BY <3>2 DEF Announced
    <3>3. CASE ~(Announced(s) \/ s \in closed)
      <4>1. handler[s] = "registering" /\ \E k \in 1 .. old(i) - 1 : sendQueue[k] = s
        BY <2>5, <3>1, <3>3 DEF First
      <4>2. PICK k \in 1 .. old(i) - 1 : sendQueue[k] = s
        BY <4>1
      <4>3. k \in DOMAIN sendQueue /\ k # n
        BY <2>1, <2>3, <2>5, <3>1, <4>2
      <4>4. new(k) \in 1 .. i - 1 /\ sendQueue'[new(k)] = s
        BY <2>6, <2>7, <2>9, <4>2, <4>3
      <4>5. QED
        BY <4>1, <4>4
    <3>4. QED
      BY <3>2, <3>3
  <2>10. sendQueue' # <<>> /\ sendQueue'[1] = s /\ written => sendQueue # <<>> /\ sendQueue[1] = s
    <3>1. sendQueue' # <<>> => 1 \in DOMAIN sendQueue'
      BY <2>1, <2>3, RemoveAtLemma DEF TypeOK
    <3>2. QED
      BY <2>3, <2>7, <3>1
  <2>11. QED
    BY <2>5, <2>8, <2>9, <2>10 DEF First, Announced
<1>3. QED
  BY <1>1, <1>2

(* Somebody else joins the queue.                                          *)
LEMMA FirstJoin ==
    ASSUME TypeOK, NEW s \in Sockets, First(s), NEW who \in Senders, who # s, Enqueue(who),
           UNCHANGED closed, toHA'[s] = toHA[s], handler'[s] = handler[s],
           authority' = s => authority = s,
           \A d \in Calls \ {who} : gen'[d] = gen[d],
           who \in Calls => gen'[who] # s
    PROVE  First(s)'
<1>1. /\ \A i \in DOMAIN sendQueue' :
            \/ i \in DOMAIN sendQueue /\ sendQueue'[i] = sendQueue[i]
            \/ i = Len(sendQueue) + 1 /\ sendQueue'[i] = who
      /\ (1 \in DOMAIN sendQueue /\ written) => written'
      /\ sendQueue = <<>> => written'
      /\ Len(sendQueue) \in Nat /\ DOMAIN sendQueue = 1 .. Len(sendQueue)
  BY EnqueueShape
<1>2. /\ DOMAIN sendQueue' = 1 .. Len(sendQueue) + 1
      /\ \A i \in DOMAIN sendQueue : i \in DOMAIN sendQueue' /\ sendQueue'[i] = sendQueue[i]
  BY <1>1 DEF Enqueue, TypeOK
<1>3. s \in ToSet(sendQueue) => s \in ToSet(sendQueue')
  BY <1>2 DEF ToSet
<1>4. ASSUME NEW i \in DOMAIN sendQueue', Unwritten(s, i)'
      PROVE  /\ i \in DOMAIN sendQueue /\ Unwritten(s, i)
             /\ \A j \in 1 .. i - 1 : sendQueue'[j] = sendQueue[j]
  <2>1. sendQueue'[i] # who
    BY <1>4 DEF Unwritten
  <2>2. i \in DOMAIN sendQueue /\ sendQueue'[i] = sendQueue[i]
    BY <1>1, <1>4, <2>1
  <2>3. \A j \in 1 .. i - 1 : j \in DOMAIN sendQueue
    BY <1>1, <2>2
  <2>4. gen'[sendQueue'[i]] = gen[sendQueue[i]]
    BY <1>4, <2>1, <2>2 DEF Unwritten
  <2>5. ~(i = 1 /\ written)
    BY <1>1, <1>4, <2>2 DEF Unwritten
  <2>6. QED
    BY <1>2, <1>4, <2>1, <2>2, <2>3, <2>4, <2>5 DEF Unwritten
<1>5. ASSUME sendQueue' # <<>>, sendQueue'[1] = s, written'
      PROVE  sendQueue # <<>> /\ sendQueue[1] = s /\ written
  <2>1. 1 \in DOMAIN sendQueue'
    BY <1>1, <1>2
  <2>2. 1 \in DOMAIN sendQueue /\ sendQueue[1] = s
    BY <1>1, <1>5, <2>1
  <2>3. sendQueue # <<>>
    BY <2>2
  <2>4. written
    BY <1>5, <2>3 DEF Enqueue
  <2>5. QED
    BY <2>2, <2>3, <2>4
<1>6. QED
  BY <1>3, <1>4, <1>5 DEF First, Announced

(* What is written after the announcement does not precede it.             *)
LEMMA PutAnnounces ==
    ASSUME TypeOK, OwnCallsInv, NEW s \in Sockets, NEW who \in Senders, haState[s] # "gone",
           First(s), who = s \/ Announced(s), toHA' = Put(who, s)
    PROVE  Announced(s)'
<1>1. toHA[s] \in Seq(Senders) /\ toHA'[s] = Append(toHA[s], who)
  BY DEF TypeOK, Put
<1>2. toHA[s] = <<>> \/ Announced(s)
  <2> SUFFICES ASSUME toHA[s] # <<>>, who = s PROVE toHA[s][1] = s
    BY DEF Announced
  <2>1. 1 \in DOMAIN toHA[s] /\ toHA[s][1] \in Senders
    BY <1>1
  <2>2. CASE toHA[s][1] \in Sockets
    BY <2>1, <2>2 DEF OwnCallsInv
  <2>3. CASE toHA[s][1] \in Calls
    BY <2>1, <2>3 DEF First
  <2>4. QED
    BY <2>1, <2>2, <2>3 DEF Senders
<1>3. CASE toHA[s] = <<>>
  <2>1. who = s
    BY <1>3 DEF Announced
  <2>2. toHA'[s] = <<s>>
    BY <1>1, <1>3, <2>1
  <2>3. QED
    BY <2>2 DEF Announced
<1>4. CASE Announced(s)
  <2>1. toHA'[s] # <<>> /\ toHA'[s][1] = toHA[s][1]
    BY <1>1, <1>4 DEF Announced
  <2>2. QED
    BY <1>4, <2>1 DEF Announced
<1>5. QED
  BY <1>2, <1>3, <1>4

(* A wire that is not written to.                                          *)
LEMMA PutOthers ==
    ASSUME TypeOK, NEW r, NEW who, toHA' = Put(who, r), NEW s \in Sockets, s # r
    PROVE  toHA'[s] = toHA[s]
  BY DEF Put, TypeOK

(* A socket that registers is new: it queues its announcement, or writes   *)
(* it at once.                                                             *)
LEMMA FirstRegister ==
    ASSUME TypeOK, QueueInv, FreshInv, OwnCallsInv, FirstInv,
           NEW s \in Sockets, Register(s), haState[s] = "connecting"
    PROVE  First(s)'
<1>1. /\ toHA[s] = <<>> /\ (\A c \in Calls : gen[c] # s)
      /\ s \in Senders /\ s \notin Calls /\ Enqueue(s) /\ gen' = gen /\ First(s)
  BY SocketsAssumption DEF Register, FreshInv, Senders, FirstInv
<1>2. CASE sendQueue = <<>>
  <2>1. toHA' = Put(s, s)
    BY <1>2 DEF Register
  <2>2. Announced(s)'
    BY <1>1, <2>1, PutAnnounces
  <2>3. QED
    BY <2>2, FirstAnnounced
<1>3. CASE sendQueue # <<>>
  <2>1. toHA'[s] = <<>> /\ handler'[s] = "registering"
    BY <1>1, <1>3 DEF Register, TypeOK
  <2>2. s \in ToSet(sendQueue')
    BY <1>1, AppendSet DEF Enqueue, TypeOK
  <2>3. \A i \in DOMAIN sendQueue' : ~Unwritten(s, i)'
    BY <1>1 DEF Unwritten
  <2>4. sendQueue'[1] # s
    <3>1. 1 \in DOMAIN sendQueue /\ sendQueue'[1] = sendQueue[1]
      BY <1>1, <1>3 DEF Enqueue, TypeOK
    <3>2. handler[s] = "idle"
      BY DEF Register
    <3>3. QED
      BY <3>1, <3>2 DEF QueueInv
  <2>5. QED
    BY <2>1, <2>2, <2>3, <2>4 DEF First
<1>4. QED
  BY <1>2, <1>3

(* A call that starts queues behind the announcement of its socket.        *)
LEMMA FirstStart ==
    ASSUME TypeOK, QueueInv, OwnCallsInv, FirstInv,
           NEW c \in Calls, NEW s \in Sockets, CallStart(c, s), haState[s] = "connecting"
    PROVE  First(s)'
<1>1. /\ c \in Senders /\ c \notin Sockets /\ Enqueue(c) /\ First(s) /\ authority = s
      /\ s \notin closed /\ UNCHANGED <<handler, closed>>
      /\ \A d \in Calls \ {c} : gen'[d] = gen[d]
      /\ \A i \in DOMAIN sendQueue : sendQueue[i] # c
  BY SocketsAssumption DEF CallStart, Senders, FirstInv, QueueInv, TypeOK, bridgeVars
<1>2. CASE Announced(s)
  <2>1. toHA' = Put(c, s) \/ toHA' = toHA
    BY DEF CallStart
  <2>2. Announced(s)'
    BY <1>1, <1>2, <2>1, PutAnnounces DEF Announced
  <2>3. QED
    BY <2>2, FirstAnnounced
<1>3. CASE ~Announced(s)
  <2>1. handler[s] = "registering" /\ s \in ToSet(sendQueue)
    BY <1>1, <1>3 DEF First
  <2>2. sendQueue # <<>>
    BY <2>1 DEF ToSet
  <2>3. toHA' = toHA /\ written' = written
    BY <1>1, <2>2 DEF CallStart, Enqueue, TypeOK
  <2>4. /\ Len(sendQueue) \in Nat \ {0} /\ DOMAIN sendQueue = 1 .. Len(sendQueue)
        /\ DOMAIN sendQueue' = 1 .. Len(sendQueue) + 1
        /\ \A i \in 1 .. Len(sendQueue) : sendQueue'[i] = sendQueue[i]
        /\ sendQueue'[Len(sendQueue) + 1] = c
    BY <1>1, <2>2 DEF Enqueue, TypeOK
  <2>5. PICK k \in 1 .. Len(sendQueue) : sendQueue[k] = s
    BY <2>1, <2>4 DEF ToSet
  <2>6. s \in ToSet(sendQueue')
    <3>1. k \in DOMAIN sendQueue' /\ sendQueue'[k] = s
      BY <2>4, <2>5
    <3>2. QED
      BY <3>1 DEF ToSet
  <2>7. ASSUME NEW i \in DOMAIN sendQueue', Unwritten(s, i)'
        PROVE  \E j \in 1 .. i - 1 : sendQueue'[j] = s
    <3>1. CASE i = Len(sendQueue) + 1
      BY <2>4, <2>5, <3>1
    <3>2. CASE i \in 1 .. Len(sendQueue)
      <4>1. Unwritten(s, i)
        BY <1>1, <2>3, <2>4, <2>7, <3>2 DEF Unwritten
      <4>2. PICK j \in 1 .. i - 1 : sendQueue[j] = s
        BY <1>1, <1>3, <2>4, <3>2, <4>1 DEF First
      <4>3. j \in 1 .. Len(sendQueue)
        BY <2>4, <3>2
      <4>4. QED
        BY <2>4, <4>2, <4>3
    <3>3. QED
      BY <2>4, <3>1, <3>2
  <2>8. ~(sendQueue[1] = s /\ written)
    BY <1>1, <1>3, <2>2 DEF First
  <2>9. QED
    BY <1>1, <2>1, <2>3, <2>4, <2>6, <2>7, <2>8 DEF First
<1>4. QED
  BY <1>2, <1>3

(* Every action keeps the announcement first.                              *)
LEMMA FirstStep ==
    TypeOK /\ QueueInv /\ CallsInv /\ FreshInv /\ OneAuthority /\ OwnCallsInv /\ FirstInv
    /\ [Next]_vars => FirstInv'
<1> SUFFICES ASSUME TypeOK, QueueInv, CallsInv, FreshInv, OneAuthority, OwnCallsInv,
                    FirstInv, [Next]_vars
             PROVE  FirstInv'
  OBVIOUS
<1> USE DEF bridgeVars, sendVars, callVars, tableVars, haVars
<1>1. ASSUME NEW s \in Sockets, HaConnect(s) PROVE FirstInv'
  <2> SUFFICES ASSUME NEW r \in Sockets, haState'[r] = "connecting"
               PROVE  First(r)'
    BY DEF FirstInv
  <2>1. UNCHANGED <<toHA, closed, authority, handler, sendQueue, written, gen>>
    BY <1>1 DEF HaConnect
  <2>2. \A i : Unwritten(r, i)' <=> Unwritten(r, i)
    BY <2>1 DEF Unwritten
  <2>3. First(r) => First(r)'
    BY <2>1, <2>2 DEF First, Announced
  <2>4. CASE r = s
    <3>1. /\ toHA[r] = <<>> /\ authority # r /\ handler[r] = "idle"
          /\ \A c \in Calls : gen[c] # r
      BY <1>1, <2>4 DEF HaConnect, FreshInv
    <3>2. sendQueue # <<>> => sendQueue[1] # r
      <4>1. sendQueue # <<>> => 1 \in DOMAIN sendQueue
        BY DEF TypeOK
      <4>2. QED
        BY <3>1, <4>1 DEF QueueInv
    <3>3. \A i \in DOMAIN sendQueue : ~Unwritten(r, i)
      BY <3>1 DEF Unwritten
    <3>4. First(r)
      BY <3>1, <3>2, <3>3 DEF First
    <3>5. QED
      BY <2>3, <3>4
  <2>5. CASE r # s
    BY <1>1, <2>3, <2>5 DEF HaConnect, FirstInv, TypeOK
  <2>6. QED
    BY <2>4, <2>5
<1>2. ASSUME NEW s \in Sockets,
             SocketClosed(s) \/ RegisterBusy(s) \/ SeesClose(s) \/ BadMessage(s)
      PROVE  FirstInv'
  <2>1. /\ UNCHANGED <<sendQueue, written, gen, authority, toHA, haState>>
        /\ closed \subseteq closed'
    BY <1>2 DEF SocketClosed, RegisterBusy, SeesClose, BadMessage
  <2>2. \A r \in Sockets : handler[r] = "registering" => handler'[r] = handler[r]
    BY <1>2 DEF SocketClosed, RegisterBusy, SeesClose, BadMessage, TypeOK
  <2>3. QED
    BY <2>1, <2>2, FirstSame
<1>3. ASSUME NEW s \in Sockets, Unregister(s) PROVE FirstInv'
  <2>1. /\ UNCHANGED <<sendQueue, written, gen, toHA, haState>>
        /\ closed \subseteq closed' /\ authority' \in {authority, None}
    BY <1>3 DEF Unregister, Detach
  <2>2. \A r \in Sockets : handler[r] = "registering" => handler'[r] = handler[r]
    BY <1>3 DEF Unregister, TypeOK
  <2>3. QED
    BY <2>1, <2>2, FirstSame
<1>4. ASSUME NEW s \in Sockets, Register(s) PROVE FirstInv'
  <2> SUFFICES ASSUME NEW r \in Sockets, haState[r] = "connecting"
               PROVE  First(r)'
    BY <1>4 DEF FirstInv, Register
  <2>1. CASE r = s
    BY <1>4, <2>1, FirstRegister
  <2>2. CASE r # s
    <3>1. /\ s \in Senders /\ s \notin Calls /\ Enqueue(s) /\ UNCHANGED <<closed, gen>>
          /\ authority' = s /\ handler'[r] = handler[r] /\ First(r)
      BY <1>4, <2>2, SocketsAssumption DEF Register, Senders, TypeOK, FirstInv
    <3>2. toHA'[r] = toHA[r]
      BY <1>4, <2>2, PutOthers DEF Register
    <3>3. QED
      BY <2>2, <3>1, <3>2, FirstJoin
  <2>3. QED
    BY <2>1, <2>2
<1>5. ASSUME NEW s \in Sockets, HandlePing(s) PROVE FirstInv'
  <2> SUFFICES ASSUME NEW r \in Sockets, haState[r] = "connecting"
               PROVE  First(r)'
    BY <1>5 DEF FirstInv, HandlePing
  <2>1. First(r) /\ UNCHANGED <<toHA, authority, closed, gen>> /\ Enqueue(s)
    BY <1>5 DEF FirstInv, HandlePing
  <2>2. CASE r = s
    <3>1. Announced(r)
      BY <1>5, <2>1, <2>2 DEF HandlePing, First
    <3>2. Announced(r)'
      BY <2>1, <3>1 DEF Announced
    <3>3. QED
      BY <3>2, FirstAnnounced
  <2>3. CASE r # s
    <3>1. s \in Senders /\ s \notin Calls /\ handler'[r] = handler[r]
      BY <1>5, <2>3, SocketsAssumption DEF HandlePing, Senders, TypeOK
    <3>2. QED
      BY <2>1, <2>3, <3>1, FirstJoin
  <2>4. QED
    BY <2>2, <2>3
<1>6. ASSUME NEW s \in Sockets, HaGone(s) \/ HaRegistered(s) PROVE FirstInv'
  <2>1. UNCHANGED <<sendQueue, written, gen, authority, closed, handler>>
    BY <1>6 DEF HaGone, HaEnds, HaRegistered
  <2>2. \A r \in Sockets : haState'[r] = "connecting" =>
           haState[r] = "connecting" /\ toHA'[r] = toHA[r]
    BY <1>6 DEF HaGone, HaEnds, HaRegistered, TypeOK
  <2>3. QED
    BY <2>1, <2>2, FirstSame
<1>7. ASSUME NEW s \in Sockets, NEW c \in Calls, HaToolCall(s, c) \/ HaRefuses(s, c)
      PROVE  FirstInv'
  <2>1. UNCHANGED <<sendQueue, written, gen, authority, closed, handler>>
    BY <1>7 DEF HaToolCall, HaRefuses, HaEnds
  <2>2. \A r \in Sockets : haState'[r] = "connecting" =>
           haState[r] = "connecting" /\ toHA'[r] = toHA[r]
    BY <1>7 DEF HaToolCall, HaRefuses, HaEnds, TypeOK
  <2>3. QED
    BY <2>1, <2>2, FirstSame
<1>8. ASSUME NEW s \in Sockets, NEW c \in Calls, NEW answer,
             HaAnswer(s, c, answer) \/ HaTaskDone(s, c)
      PROVE  FirstInv'
  BY <1>8, FirstSame DEF HaAnswer, HaTaskDone
<1>9. ASSUME NEW s \in Sockets, NEW c \in Calls, HandleResult(s, c) PROVE FirstInv'
  <2>1. UNCHANGED <<sendQueue, written, gen, authority, closed, haState, toHA>>
    BY <1>9 DEF HandleResult
  <2>2. \A r \in Sockets : handler[r] = "registering" => handler'[r] = handler[r]
    BY <1>9 DEF HandleResult, TypeOK
  <2>3. QED
    BY <2>1, <2>2, FirstSame
<1>10. ASSUME NEW s \in Sockets, NEW c \in Calls, CallStart(c, s) PROVE FirstInv'
  <2> SUFFICES ASSUME NEW r \in Sockets, haState[r] = "connecting"
               PROVE  First(r)'
    BY <1>10 DEF FirstInv, CallStart
  <2>1. CASE r = s
    BY <1>10, <2>1, FirstStart
  <2>2. CASE r # s
    <3>1. /\ c \in Senders /\ Enqueue(c) /\ UNCHANGED <<closed, authority, handler>>
          /\ First(r) /\ (\A d \in Calls \ {c} : gen'[d] = gen[d]) /\ gen'[c] = s
      BY <1>10 DEF CallStart, Senders, TypeOK, FirstInv
    <3>2. toHA'[r] = toHA[r]
      BY <1>10, <2>2, PutOthers DEF CallStart
    <3>3. c # r
      BY SocketsAssumption
    <3>4. QED
      BY <2>2, <3>1, <3>2, <3>3, FirstJoin
  <2>3. QED
    BY <2>1, <2>2
<1>11. ASSUME NEW c \in Calls, CallUnwind(c) PROVE FirstInv'
  <2>1. UNCHANGED <<gen, closed, authority, haState, toHA, handler>>
    BY <1>11 DEF CallUnwind
  <2>2. CASE Holds(c)
    BY <1>11, <2>1, <2>2, SocketsAssumption, FirstRelease DEF CallUnwind
  <2>3. CASE ~Holds(c)
    BY <1>11, <2>1, <2>3, FirstSame DEF CallUnwind
  <2>4. QED
    BY <2>2, <2>3
<1>12. ASSUME NEW c \in Calls, NEW why, Interrupt(c, why) PROVE FirstInv'
  BY <1>12, FirstLeave DEF Interrupt
<1>13. ASSUME NEW who \in Senders, Drained(who) PROVE FirstInv'
  <2>1. /\ Holds(who) /\ written /\ Release
        /\ UNCHANGED <<gen, closed, authority, haState, toHA>>
    BY <1>13 DEF Drained
  <2>2. \A s \in Sockets \ {who} : handler'[s] = handler[s]
    BY <1>13 DEF Drained, TypeOK
  <2>3. who \in Sockets /\ haState[who] = "connecting" => who \in closed \/ Announced(who)
    BY <2>1, Queued DEF FirstInv, First, Holds
  <2>4. QED
    BY <2>1, <2>2, <2>3, FirstRelease
<1>14. ASSUME NEW who \in Senders, SendFails(who) PROVE FirstInv'
  <2>1. /\ Holds(who) /\ Release /\ Target(who) \in closed
        /\ UNCHANGED <<gen, closed, authority, haState, toHA>>
    BY <1>14 DEF SendFails
  <2>2. \A s \in Sockets \ {who} : handler'[s] = handler[s]
    BY <1>14 DEF SendFails, TypeOK
  <2>3. who \in Sockets => who \in closed
    BY <2>1 DEF Target
  <2>4. QED
    BY <2>1, <2>2, <2>3, FirstRelease
<1>15. ASSUME NEW who \in Senders, TakeLock(who) PROVE FirstInv'
  <2> SUFFICES ASSUME NEW r \in Sockets, haState[r] = "connecting"
               PROVE  First(r)'
    BY <1>15 DEF FirstInv, TakeLock
  <2>1. /\ First(r) /\ Target(who) \in Sockets /\ (who \in Sockets => who = Target(who))
        /\ 1 \in DOMAIN sendQueue /\ sendQueue[1] = who /\ ~written /\ Target(who) \notin closed
        /\ UNCHANGED <<gen, closed, authority, haState, handler, sendQueue>>
    BY <1>15, TargetSocket, Queued DEF TakeLock, FirstInv
  <2>2. toHA' \in {toHA, Put(who, Target(who))}
    BY <1>15 DEF TakeLock
  <2>3. CASE r = Target(who)
    <3>1. CASE Announced(r)
      <4>1. Announced(r)'
        BY <2>1, <2>2, <2>3, <3>1, PutAnnounces DEF Announced
      <4>2. QED
        BY <4>1, FirstAnnounced
    <3>2. CASE ~Announced(r)
      <4>1. who \notin Calls
        <5>1. SUFFICES ASSUME who \in Calls PROVE FALSE
          OBVIOUS
        <5>2. gen[who] = r
          BY <2>3, <5>1, SocketsAssumption DEF Target
        <5>3. Unwritten(r, 1)
          BY <2>1, <5>1, <5>2 DEF Unwritten
        <5>4. \E j \in 1 .. 1 - 1 : sendQueue[j] = r
          BY <2>1, <2>3, <3>2, <5>3 DEF First
        <5>5. QED
          BY <5>4
      <4>2. who = r
        BY <2>1, <2>3, <4>1 DEF Senders
      <4>3. handler[r] \in {"registering", "ponging"}
        BY <2>1, <4>2 DEF QueueInv
      <4>4. handler[r] # "ponging"
        BY <2>1, <2>3, <3>2 DEF OneAuthority, First
      <4>5. toHA' = Put(r, r)
        BY <1>15, <2>3, <4>2, <4>3, <4>4 DEF TakeLock
      <4>6. Announced(r)'
        BY <2>1, <4>2, <4>5, PutAnnounces
      <4>7. QED
        BY <4>6, FirstAnnounced
    <3>3. QED
      BY <3>1, <3>2
  <2>4. CASE r # Target(who)
    <3>1. toHA'[r] = toHA[r] /\ who # r
      BY <2>1, <2>2, <2>4, PutOthers
    <3>2. \A i \in DOMAIN sendQueue : Unwritten(r, i)' => Unwritten(r, i)
      BY <2>1 DEF Unwritten
    <3>3. QED
      BY <2>1, <3>1, <3>2 DEF First, Announced
  <2>5. QED
    BY <2>3, <2>4
<1>16. ASSUME NEW c \in Calls, CallReturn(c) PROVE FirstInv'
  BY <1>16, FirstSame DEF CallReturn
<1>17. CASE UNCHANGED vars
  BY <1>17, FirstSame DEF vars
<1>18. QED
  BY <1>1, <1>2, <1>3, <1>4, <1>5, <1>6, <1>7, <1>8, <1>9, <1>10, <1>11, <1>12, <1>13, <1>14,
     <1>15, <1>16, <1>17 DEF Next, AuthorityStep, CallStep, Correlate, SendStep

-----------------------------------------------------------------------------
(* The whole invariant.                                                    *)

WholeInv ==
    /\ IInv
    /\ FreshInv
    /\ ExpectInv
    /\ EvictedInv
    /\ OwnCallsInv
    /\ LineInv
    /\ FirstInv
    /\ HonestAuthorityIsKept

LEMMA WholeInit == Init => WholeInv
<1> SUFFICES ASSUME Init PROVE WholeInv
  OBVIOUS
<1>1. IInv
  BY InvInit
<1>2. FreshInv /\ OwnCallsInv
  BY SocketsAssumption DEF Init, FreshInv, OwnCallsInv
<1>3. ExpectInv
  BY DEF Init, ExpectInv, Active, Abandoned, Answers
<1>4. EvictedInv
  BY DEF Init, EvictedInv, IsInjective
<1>5. LineInv /\ FirstInv
  BY DEF Init, LineInv, FirstInv
<1>6. HonestAuthorityIsKept
  BY DEF Init, HonestAuthorityIsKept
<1>7. QED
  BY <1>1, <1>2, <1>3, <1>4, <1>5, <1>6 DEF WholeInv

LEMMA WholeStep == WholeInv /\ [Next]_vars => WholeInv'
<1> SUFFICES ASSUME WholeInv, [Next]_vars PROVE WholeInv'
  OBVIOUS
<1>1. IInv'
  BY InvStep DEF WholeInv
<1>2. FreshInv'
  BY FreshStep DEF WholeInv, IInv
<1>3. ExpectInv'
  BY ExpectStep DEF WholeInv, IInv
<1>4. EvictedInv'
  BY EvictedStep DEF WholeInv, IInv
<1>5. OwnCallsInv'
  BY OwnCallsStep DEF WholeInv, IInv
<1>6. LineInv'
  BY LineStep DEF WholeInv, IInv
<1>7. FirstInv'
  BY FirstStep DEF WholeInv, IInv
<1>8. HonestAuthorityIsKept'
  BY KeptStep DEF WholeInv, IInv
<1>9. QED
  BY <1>1, <1>2, <1>3, <1>4, <1>5, <1>6, <1>7, <1>8 DEF WholeInv

THEOREM WholeInvariant == Spec => []WholeInv
  BY WholeInit, WholeStep, PTL DEF Spec

(* An authority that answers each call once is not disconnected for an     *)
(* answer: handle_message refuses one only after more calls of that        *)
(* generation were given up on than _retired holds.                        *)
THEOREM HonestKept == Spec => []HonestAuthorityIsKept
<1>1. WholeInv => HonestAuthorityIsKept
  BY DEF WholeInv
<1>2. QED
  BY <1>1, WholeInvariant, PTL

(* Where the component accepts as many pending calls as the bridge holds   *)
(* open (both limits are sixteen in the code), it closes a connection over *)
(* its pending limit only while it runs a call that the bridge gave up on. *)
THEOREM LiveCallsFit ==
    ASSUME MaxPending <= HaMaxPending
    PROVE  Spec => LiveCallsNeverOverrun
<1>1. ASSUME WholeInv, NEW s \in Sockets, NEW c \in Calls, HaRefuses(s, c),
             Cardinality(seen[s]) < HaMaxCalls
      PROVE  \E d \in running[s] : d \notin pending
  <2>1. /\ TypeOK /\ LineInv /\ FirstInv
        /\ \/ haState[s] = "connecting"
           \/ Cardinality(running[s]) >= HaMaxPending
           \/ Cardinality(seen[s]) >= HaMaxCalls
    BY <1>1 DEF WholeInv, IInv, HaRefuses
  <2>2. 1 \in DOMAIN toHA[s] /\ toHA[s][1] = c
    BY <1>1, <2>1 DEF HaRefuses, TypeOK
  <2>3. haState[s] # "connecting"
    BY <2>1, <2>2, SocketsAssumption DEF FirstInv, First
  <2>4. running[s] \subseteq Calls /\ IsFiniteSet(running[s]) /\ IsFiniteSet(seen[s])
    BY <2>1, SocketsAssumption, FS_Subset DEF TypeOK
  <2>5. Cardinality(running[s]) \in Nat /\ Cardinality(seen[s]) \in Nat
    BY <2>4, FS_CardinalityType
  <2>6. Cardinality(running[s]) >= HaMaxPending
    BY <1>1, <2>1, <2>3, <2>5, LimitsAssumption
  <2>7. Cardinality(pending \cap Ahead(s, 1)) < MaxPending
    BY <2>1, <2>2 DEF LineInv
  <2>8. running[s] \subseteq pending => pending \cap Ahead(s, 1) = running[s]
    BY DEF Ahead
  <2>9. ~(running[s] \subseteq pending)
    BY <2>5, <2>6, <2>7, <2>8, LimitsAssumption
  <2>10. QED
    BY <2>9
<1>2. ASSUME Next, overrun' # overrun
      PROVE  \E s \in Sockets, c \in Calls : HaRefuses(s, c) /\ overrun' = overrun \cup {s}
  <2> USE DEF bridgeVars, sendVars, callVars, tableVars, haVars
  <2>1. ASSUME NEW s \in Sockets, AuthorityStep(s) PROVE UNCHANGED overrun
    BY <2>1 DEF AuthorityStep, HaConnect, SocketClosed, Register, RegisterBusy, SeesClose,
       BadMessage, Unregister, HandlePing, HaGone, HaRegistered
  <2>2. ASSUME NEW s \in Sockets, NEW c \in Calls, Correlate(s, c), ~HaRefuses(s, c)
        PROVE  UNCHANGED overrun
    BY <2>2 DEF Correlate, CallStart, HandleResult, HaToolCall, HaAnswer, HaTaskDone
  <2>3. ASSUME NEW c \in Calls, NEW why, CallStep(c) \/ Interrupt(c, why)
        PROVE  UNCHANGED overrun
    BY <2>3 DEF CallStep, CallReturn, CallUnwind, Interrupt
  <2>4. ASSUME NEW who \in Senders, SendStep(who) PROVE UNCHANGED overrun
    BY <2>4 DEF SendStep, TakeLock, Drained, SendFails
  <2>5. PICK s \in Sockets, c \in Calls : HaRefuses(s, c)
    BY <1>2, <2>1, <2>2, <2>3, <2>4 DEF Next
  <2>6. overrun' = overrun \cup {s}
    BY <2>5 DEF HaRefuses
  <2>7. QED
    BY <2>5, <2>6
<1>3. WholeInv /\ [Next]_vars =>
         [\A s \in Sockets :
             /\ s \notin overrun /\ s \in overrun'
             /\ Cardinality(seen[s]) < HaMaxCalls
             => \E c \in running[s] : c \notin pending]_vars
  <2> SUFFICES ASSUME WholeInv, Next, NEW s \in Sockets, s \notin overrun, s \in overrun',
                      Cardinality(seen[s]) < HaMaxCalls
               PROVE  \E c \in running[s] : c \notin pending
    OBVIOUS
  <2>1. PICK r \in Sockets, c \in Calls : HaRefuses(r, c) /\ overrun' = overrun \cup {r}
    BY <1>2
  <2>2. r = s
    BY <2>1
  <2>3. QED
    BY <1>1, <2>1, <2>2
<1>4. QED
  BY <1>3, WholeInvariant, PTL DEF Spec, LiveCallsNeverOverrun
=============================================================================
