-------------------------- MODULE DeviceSessionProofs --------------------------
(***************************************************************************)
(* Proofs about DeviceSession for any bounds.                              *)
(***************************************************************************)
EXTENDS DeviceSession, QueueProofs

(***************************************************************************)
(* The inductive invariant, in parts.                                      *)
(***************************************************************************)

(* The network thread may still read.                                      *)
Live == net \notin {"ending", "closing", "done"}

OfEpoch(message) == message.kind \in {"begin", "frame", "end"}

Sent(kind, e) == \E i \in DOMAIN down : down[i].kind = kind /\ down[i].epoch = e

(* What is on the wire of an epoch continues what the device knows: no     *)
(* epoch before the last, begun before it speaks, silent after its end,    *)
(* one after the other.                                                    *)
Continues ==
    /\ \A i \in DOMAIN down : OfEpoch(down[i]) =>
          /\ down[i].epoch \in last..epoch /\ down[i].epoch # 0
          /\ down[i].kind = "begin" => down[i].epoch # last
    /\ \A i, j \in DOMAIN down : i < j /\ OfEpoch(down[i]) /\ OfEpoch(down[j]) =>
          /\ down[i].epoch <= down[j].epoch
          /\ down[j].kind = "begin" \/ down[i].kind = "end" => down[i].epoch # down[j].epoch
    /\ \A e \in (last + 1)..epoch : Sent("begin", e)

(* What was begun is spoken or ended.                                      *)
Open(e) == e > last \/ (e = last /\ (output # 0 \/ net = "beginning"))

Ends ==
    /\ \A e \in 1..epoch : Open(e) => (speaking /\ e = epoch) \/ Sent("end", e)
    /\ speaking => epoch # 0 /\ ~Sent("end", epoch)

(* Frames that come are of the epoch that is open or suppressed, but for   *)
(* those of epochs that are still to be begun; after the answer to an      *)
(* interrupt these are all.                                                *)
Covered == output = last \/ suppressed = last \/ net = "beginning"

BegunAfter(i, e) == \E k \in DOMAIN down : i < k /\ down[k].kind = "begin" /\ down[k].epoch = e

FramesBegunAfter(i) ==
    \A j \in DOMAIN down : i < j /\ down[j].kind = "frame" => BegunAfter(i, down[j].epoch)

Covers ==
    /\ Sent("frame", last) => Covered
    /\ Serves /\ speaking /\ epoch = last => Covered
    /\ \A i \in DOMAIN down : down[i].kind = "resumed" =>
          FramesBegunAfter(i) /\ (speaking => BegunAfter(i, epoch))
    /\ net = "resuming" => output = 0 /\ suppressed = 0

(* All of this matters while the device reads; the last only as long as    *)
(* the bridge answered every interrupt between two epochs.                 *)
WireInv == Live => Continues

EndInv == Live => Ends

CoverInv == Live /\ ~early => Covers

(* The bridge says nothing after its last word, and starts once.           *)
VoiceInv ==
    /\ bridge = "idle" => ~speaking
    /\ \A i \in DOMAIN down : down[i].kind \in {"fresh", "stopped"} =>
          bridge = "over" /\ \A j \in DOMAIN down : j <= i
    /\ \A i \in DOMAIN up : up[i] = "start" => i = 1 /\ bridge = "idle"
    /\ net \in {"new", "connecting"} => up = <<>> /\ bridge = "idle"

(* The player plays the epoch that is open, or the tail of an older one.   *)
PlayerInv ==
    /\ output # 0 => player.epoch \in {0, output}
    /\ silenced \subseteq 1..last
    /\ net = "beginning" => last \notin silenced
    /\ player.epoch \notin silenced /\ player.pending \subseteq {player.epoch}
    /\ local = 0 /\ player.epoch # 0 => net \in {"beginning", "ending"}
    /\ net = "resuming" => player.epoch = 0

(* Speech counts for the epoch in which it was heard.                      *)
MicInv ==
    /\ count # 0 => local # 0
    /\ count # 0 /\ mic = "speech" => local \in talked
    /\ asked # 0 => asked = local /\ asked \in talked

(* While an interrupt is pending nothing is admitted.                      *)
Ready == {"promoting"} \cup Running

RequestInv ==
    /\ state = "NEW" <=> net = "new"
    /\ interruptSent => interruptAsked
    /\ net = "resuming" => interruptSent
    /\ era + (IF interruptAsked THEN 1 ELSE 0) <= 2 * interrupts
    /\ interruptAsked /\ net \in Ready =>
          state \notin {"CONNECTING", "READY"} /\ queue = <<>>
    /\ \A i \in DOMAIN queue : queue[i] = era

(* A frame is admitted while nothing is to be heard.                       *)
Admits == Len(queue') > Len(queue) =>
              duplex \/ ~Active(player) \/ net \in {"beginning", "ending"}

IInv == /\ TypeOK /\ WireInv /\ EndInv /\ CoverInv /\ VoiceInv /\ PlayerInv /\ MicInv
        /\ RequestInv /\ EpochsFit

-----------------------------------------------------------------------------
(* The types, in parts.                                                    *)

Nets == {"new", "connecting", "handshake", "promoting"} \cup Running
          \cup {"ending", "closing", "done"}

FlagType ==
    /\ duplex \in BOOLEAN /\ stopAsked \in BOOLEAN /\ interruptAsked \in BOOLEAN
    /\ preserve \in BOOLEAN /\ interruptSent \in BOOLEAN /\ late \in BOOLEAN
    /\ failed \in BOOLEAN /\ broken \in BOOLEAN
    /\ speaking \in BOOLEAN /\ early \in BOOLEAN

PlaceType ==
    /\ state \in {"NEW", "CONNECTING", "READY", "STOPPING", "STOPPED", "FAILED"}
    /\ mic \in {"idle", "quiet", "speech"}
    /\ net \in Nets
    /\ bridge \in {"idle", "open", "cancelling", "confirmed", "over"}

QueueType ==
    /\ queue \in Seq(0..2 * MaxInterrupts) /\ Len(queue) <= MaxQueue
    /\ interrupts \in 0..MaxInterrupts /\ era \in 0..2 * MaxInterrupts

EpochType ==
    /\ epoch \in 0..MaxEpochs /\ last \in 0..epoch /\ output \in {0, last}
    /\ suppressed \in 0..last
    /\ local \in {0, last} /\ asked \in {0, local} /\ count \in 0..BargeInFrames - 1

Players(top) == [epoch : 0..top, pending : SUBSET Epochs, finishing : BOOLEAN]

PlayerType ==
    /\ player \in Players(last)
    /\ talked \subseteq Epochs /\ silenced \subseteq Epochs

UpType == up \in Seq({"start", "interrupt", "stop"})

DownType == down \in Seq(Message) /\ Len(down) <= MaxWire + 1

LEMMA TypeParts ==
    TypeOK <=> /\ FlagType /\ PlaceType /\ QueueType /\ EpochType /\ PlayerType
               /\ UpType /\ DownType
  BY DEF TypeOK, FlagType, PlaceType, Nets, QueueType, EpochType, PlayerType, Players,
         UpType, DownType

(* The fields of the player, and its typed forms.                          *)
LEMMA PlayerFields ==
    ASSUME PlayerType
    PROVE  /\ player.epoch \in 0..last /\ player.pending \subseteq Epochs
           /\ player.finishing \in BOOLEAN
  BY DEF PlayerType, Players

(* The epochs are numbers.                                                 *)
LEMMA EpochFacts ==
    ASSUME EpochType
    PROVE  /\ MaxEpochs \in Nat /\ epoch \in Nat /\ last \in Nat /\ last <= epoch
           /\ epoch <= MaxEpochs /\ output \in Nat /\ suppressed \in Nat
           /\ local \in Nat /\ Epochs = 1..MaxEpochs
  BY BoundsAssumption DEF EpochType, Epochs

(* What becomes of the player.                                             *)
LEMMA PlayerForms ==
    ASSUME EpochType, NEW p \in Players(last)
    PROVE  /\ NoPlayer \in Players(last) /\ Finished(p) \in Players(last)
           /\ \A e \in Epochs : Enqueued(p, e) \in Players(last)
           /\ Serviced(p) \subseteq Players(last)
<1>1. p.epoch \in 0..last /\ p.pending \subseteq Epochs /\ p.finishing \in BOOLEAN
  BY DEF Players
<1>2. NoPlayer \in Players(last)
  BY EpochFacts DEF NoPlayer, Players
<1>3. \A e \in Epochs : Enqueued(p, e) \in Players(last)
  BY <1>1 DEF Enqueued, Players
<1>4. Finished(p) \in Players(last)
  BY <1>1 DEF Finished, Active, Players
<1>5. Serviced(p) \subseteq Players(last)
  BY <1>1, <1>2 DEF Serviced, Players
<1>6. QED
  BY <1>2, <1>3, <1>4, <1>5

(* Epochs are cut short.                                                   *)
LEMMA CutType ==
    ASSUME PlayerType, EpochType, UNCHANGED <<last, talked>>, player' \in Players(last),
           NEW epochs \in SUBSET (0..last), Cuts(epochs)
    PROVE  PlayerType'
<1>1. epochs \ {0} \subseteq Epochs
  BY EpochFacts
<1>2. QED
  BY <1>1 DEF PlayerType, Cuts

(* Only epochs that began are cut short.                                   *)
LEMMA CutRange ==
    ASSUME EpochType, silenced \subseteq 1..last, last' = last,
           NEW a \in 0..last, NEW b \in 0..last, Cuts({a, b})
    PROVE  silenced' \subseteq 1..last'
  BY EpochFacts DEF Cuts

(* The fields of a message.                                                *)
LEMMA MessageFields ==
    ASSUME NEW m \in Message
    PROVE  /\ m.epoch \in 0..MaxEpochs
           /\ m.kind \in {"started", "begin", "frame", "end", "speech", "resumed", "fresh",
                          "stopped"}
  BY DEF Message

-----------------------------------------------------------------------------
(* A queue whose head is read, or that is written to, place by place.      *)

LEMMA TailPlaces ==
    ASSUME NEW S, NEW q \in Seq(S), q # <<>>, NEW rest, rest = Tail(q)
    PROVE  /\ rest \in Seq(S) /\ Len(rest) = Len(q) - 1
           /\ 1 \in DOMAIN q /\ Head(q) = q[1] /\ q[1] \in S
           /\ \A i \in DOMAIN rest :
                 i \in Nat /\ 1 < i + 1 /\ i + 1 \in DOMAIN q /\ rest[i] = q[i + 1]
           /\ \A i \in DOMAIN q :
                 /\ i \in Nat /\ 1 <= i
                 /\ i # 1 => i - 1 \in DOMAIN rest /\ rest[i - 1] = q[i]
  OBVIOUS

LEMMA AppendPlaces ==
    ASSUME NEW S, NEW q \in Seq(S), NEW x \in S, NEW longer, longer = Append(q, x)
    PROVE  /\ longer \in Seq(S) /\ Len(longer) = Len(q) + 1 /\ Len(q) \in Nat
           /\ Len(q) + 1 \in DOMAIN longer /\ longer[Len(q) + 1] = x
           /\ \A i \in DOMAIN q :
                 i \in Nat /\ 1 <= i /\ i <= Len(q) /\ i \in DOMAIN longer /\ longer[i] = q[i]
           /\ \A i \in DOMAIN longer : i \in Nat /\ (i \in DOMAIN q \/ i = Len(q) + 1)
  OBVIOUS

LEMMA ReadType ==
    ASSUME DownType, down # <<>>, down' = Tail(down)
    PROVE  DownType'
<1>1. /\ down' \in Seq(Message) /\ Len(down') = Len(down) - 1 /\ Len(down) \in Nat
  BY TailPlaces DEF DownType
<1>2. QED
  BY <1>1, BoundsAssumption DEF DownType

LEMMA WriteType ==
    ASSUME DownType, NEW m \in Message, down' = Append(down, m), Len(down) < MaxWire
    PROVE  DownType'
<1>1. /\ down' \in Seq(Message) /\ Len(down') = Len(down) + 1 /\ Len(down) \in Nat
  BY AppendPlaces DEF DownType
<1>2. QED
  BY <1>1, BoundsAssumption DEF DownType

-----------------------------------------------------------------------------
(* What a step of the bridge, and one that reads, does to the wire.        *)

(* The bridge wrote one message, and no other frame than of the epoch that *)
(* is open.                                                                *)
Wrote(m) ==
    /\ m \in Message /\ down' = Append(down, m)
    /\ CASE m.kind = "begin" ->
                ~speaking /\ speaking' /\ epoch' = epoch + 1 /\ m.epoch = epoch'
         [] m.kind = "frame" ->
                Serves /\ speaking /\ speaking' /\ epoch' = epoch /\ m.epoch = epoch
         [] m.kind = "end" ->
                speaking /\ ~speaking' /\ epoch' = epoch /\ m.epoch = epoch
         [] OTHER -> UNCHANGED <<epoch, speaking>>
    /\ m.kind = "resumed" => early' = (early \/ speaking)

LEMMA BridgeMoves ==
    Bridge => UNCHANGED deviceVars /\ (UNCHANGED down \/ Len(down) < MaxWire)
  BY DEF Bridge, BridgeStarts, BridgeBegins, BridgeSpeaks, BridgeEnds, BridgeHears,
         BridgeIsInterrupted, BridgeCancelled, BridgeResumes, BridgeGivesUp, BridgeIsStopped,
         BridgeLeaves, EndsEpoch, Writes

(* What every step of the bridge does.                                     *)
LEMMA BridgeStep ==
    ASSUME TypeOK, VoiceInv, Bridge
    PROVE  /\ UNCHANGED deviceVars
           /\ early => early'
           /\ Serves' => Serves \/ ~speaking'
           /\ UNCHANGED <<down, epoch, speaking>> \/ \E m \in Message : Wrote(m)
<1>0. EpochType /\ FlagType /\ UpType
  BY TypeParts
<1>1. MaxEpochs \in Nat /\ epoch \in 0..MaxEpochs /\ 0 \in 0..MaxEpochs
  BY <1>0, BoundsAssumption DEF EpochType
<1>2. \A e \in 0..MaxEpochs :
         \A kind \in {"started", "begin", "frame", "end", "speech", "resumed", "fresh",
                      "stopped"} : [kind |-> kind, epoch |-> e] \in Message
  BY DEF Message
<1>3. CASE BridgeStarts
  <2>1. Head(up) = "start" /\ up # <<>>
    BY <1>3 DEF BridgeStarts, Told
  <2>2. ~speaking
    BY <1>0, <2>1 DEF VoiceInv, UpType
  <2>3. Wrote([kind |-> "started", epoch |-> 0])
    BY <1>1, <1>2, <1>3 DEF BridgeStarts, Wrote, Writes
  <2>4. QED
    BY <1>1, <1>2, <1>3, <2>2, <2>3 DEF BridgeStarts, Writes
<1>4. CASE BridgeBegins
  <2>1. epoch + 1 \in 0..MaxEpochs
    BY <1>1, <1>4 DEF BridgeBegins
  <2>2. Wrote([kind |-> "begin", epoch |-> epoch + 1])
    BY <1>2, <1>4, <2>1 DEF BridgeBegins, Wrote, Writes
  <2>3. QED
    BY <1>2, <1>4, <2>1, <2>2 DEF BridgeBegins, Writes, Serves
<1>5. CASE BridgeSpeaks
  <2>1. Wrote([kind |-> "frame", epoch |-> epoch])
    BY <1>1, <1>2, <1>5 DEF BridgeSpeaks, Wrote, Writes, bridgeVars
  <2>2. QED
    BY <1>1, <1>2, <1>5, <2>1 DEF BridgeSpeaks, Writes, bridgeVars, Serves
<1>6. CASE BridgeEnds
  <2>1. Wrote([kind |-> "end", epoch |-> epoch])
    BY <1>1, <1>2, <1>6 DEF BridgeEnds, Wrote, Writes
  <2>2. QED
    BY <1>1, <1>2, <1>6, <2>1 DEF BridgeEnds, Writes, Serves
<1>7. CASE BridgeHears
  <2>1. Wrote([kind |-> "speech", epoch |-> 0])
    BY <1>1, <1>2, <1>7 DEF BridgeHears, Wrote, Writes, bridgeVars
  <2>2. QED
    BY <1>1, <1>2, <1>7, <2>1 DEF BridgeHears, Writes, bridgeVars, Serves
<1>8. CASE BridgeIsInterrupted \/ BridgeCancelled
  <2>1. PICK next \in {"cancelling", "confirmed"} : EndsEpoch(next) /\ Serves
    BY <1>8 DEF BridgeIsInterrupted, BridgeCancelled, Serves
  <2>2. CASE speaking
    <3>1. \E m \in Message : Wrote(m)
      BY <1>1, <1>2, <2>1, <2>2 DEF EndsEpoch, Wrote, Writes
    <3>2. UNCHANGED <<deviceVars, early>>
      BY <2>1, <2>2 DEF EndsEpoch, Writes
    <3>3. QED
      BY <2>1, <3>1, <3>2
  <2>3. CASE ~speaking
    BY <2>1, <2>3 DEF EndsEpoch
  <2>4. QED
    BY <2>2, <2>3
<1>9. CASE BridgeResumes
  <2>1. Wrote([kind |-> "resumed", epoch |-> 0])
    BY <1>1, <1>2, <1>9 DEF BridgeResumes, Wrote, Writes
  <2>2. QED
    BY <1>1, <1>2, <1>9, <2>1 DEF BridgeResumes, Writes, Serves
<1>10. CASE BridgeGivesUp
  <2>1. Wrote([kind |-> "fresh", epoch |-> 0])
    BY <1>1, <1>2, <1>10 DEF BridgeGivesUp, Wrote, Writes
  <2>2. QED
    BY <1>1, <1>2, <1>10, <2>1 DEF BridgeGivesUp, Writes, Serves
<1>11. CASE BridgeIsStopped
  BY <1>11 DEF BridgeIsStopped, Serves
<1>12. CASE BridgeLeaves
  <2>1. Wrote([kind |-> "stopped", epoch |-> 0])
    BY <1>1, <1>2, <1>12 DEF BridgeLeaves, Wrote, Writes
  <2>2. QED
    BY <1>1, <1>2, <1>12, <2>1 DEF BridgeLeaves, Writes, Serves
<1>13. QED
  BY <1>3, <1>4, <1>5, <1>6, <1>7, <1>8, <1>9, <1>10, <1>11, <1>12 DEF Bridge

(* A message of an epoch that is read is of the last one, or begins a new  *)
(* one.                                                                    *)
LEMMA HeadOfEpoch ==
    ASSUME TypeOK, Continues, down # <<>>, OfEpoch(Head(down))
    PROVE  /\ Head(down).epoch \in last..epoch /\ Head(down).epoch \in Epochs
           /\ Head(down).kind # "begin" => Head(down).epoch = last
           /\ Head(down).kind = "begin" => Head(down).epoch > last
<1>0. EpochType /\ DownType
  BY TypeParts
<1> DEFINE h == Head(down)
<1>1. /\ 1 \in DOMAIN down /\ h = down[1]
      /\ \A i \in DOMAIN down : i \in Nat /\ 1 <= i
  BY <1>0, TailPlaces DEF DownType
<1>2. h.epoch \in last..epoch /\ h.epoch # 0 /\ (h.kind = "begin" => h.epoch # last)
  BY <1>1 DEF Continues
<1>3. h.epoch \in Epochs
  BY <1>0, <1>2, EpochFacts
<1>4. h.kind # "begin" => h.epoch = last
  <2>1. SUFFICES ASSUME h.kind # "begin", h.epoch \in (last + 1)..epoch PROVE FALSE
    BY <1>0, <1>2, EpochFacts
  <2>2. PICK j \in DOMAIN down : down[j].kind = "begin" /\ down[j].epoch = h.epoch
    BY <2>1 DEF Continues, Sent
  <2>3. 1 < j /\ OfEpoch(down[j]) /\ OfEpoch(down[1])
    BY <1>1, <2>1, <2>2 DEF OfEpoch
  <2>4. QED
    BY <1>1, <2>2, <2>3 DEF Continues
<1>5. QED
  BY <1>0, <1>2, <1>3, <1>4, EpochFacts

(* Reading leaves the wire in order.                                       *)
ReadOne ==
    /\ down # <<>> /\ down' = Tail(down) /\ UNCHANGED bridgeVars
    /\ last' = IF Head(down).kind = "begin" THEN Head(down).epoch ELSE last

LEMMA ReadContinues ==
    ASSUME TypeOK, Continues, ReadOne
    PROVE  Continues'
<1>0. EpochType /\ DownType /\ last \in Nat /\ epoch \in Nat
  BY TypeParts, EpochFacts
<1> DEFINE h == Head(down)
<1>1. /\ 1 \in DOMAIN down /\ h = down[1] /\ h \in Message
      /\ \A i \in DOMAIN down' :
            i \in Nat /\ 1 < i + 1 /\ i + 1 \in DOMAIN down /\ down'[i] = down[i + 1]
      /\ \A i \in DOMAIN down :
            i \in Nat /\ 1 <= i /\ (i # 1 => i - 1 \in DOMAIN down' /\ down'[i - 1] = down[i])
  BY <1>0, TailPlaces DEF ReadOne, DownType
<1>2. /\ epoch' = epoch /\ last' = IF h.kind = "begin" THEN h.epoch ELSE last
      /\ h.kind = "begin" => h.epoch \in last..epoch /\ OfEpoch(h)
  BY <1>1 DEF ReadOne, bridgeVars, Continues, OfEpoch
<1>3. last' \in Nat /\ last <= last'
  BY <1>0, <1>2
<1>4. ASSUME NEW i \in DOMAIN down', OfEpoch(down'[i])
      PROVE  /\ down'[i].epoch \in last'..epoch' /\ down'[i].epoch # 0
             /\ down'[i].kind = "begin" => down'[i].epoch # last'
  <2>1. /\ 1 < i + 1 /\ i + 1 \in DOMAIN down /\ down'[i] = down[i + 1]
        /\ OfEpoch(down[i + 1])
    BY <1>1, <1>4
  <2>2. /\ down[i + 1].epoch \in last..epoch /\ down[i + 1].epoch # 0
        /\ down[i + 1].kind = "begin" => down[i + 1].epoch # last
    BY <2>1 DEF Continues
  <2>3. h.kind = "begin" =>
            /\ h.epoch <= down[i + 1].epoch
            /\ down[i + 1].kind = "begin" => h.epoch # down[i + 1].epoch
    BY <1>1, <1>2, <2>1 DEF Continues
  <2>4. QED
    BY <1>0, <1>2, <2>1, <2>2, <2>3
<1>5. ASSUME NEW i \in DOMAIN down', NEW j \in DOMAIN down', i < j,
             OfEpoch(down'[i]), OfEpoch(down'[j])
      PROVE  /\ down'[i].epoch <= down'[j].epoch
             /\ down'[j].kind = "begin" \/ down'[i].kind = "end" =>
                    down'[i].epoch # down'[j].epoch
  <2>1. /\ i + 1 \in DOMAIN down /\ j + 1 \in DOMAIN down /\ i + 1 < j + 1
        /\ down'[i] = down[i + 1] /\ down'[j] = down[j + 1]
    BY <1>1, <1>5
  <2>2. QED
    BY <1>5, <2>1 DEF Continues
<1>6. ASSUME NEW e \in (last' + 1)..epoch' PROVE Sent("begin", e)'
  <2>1. e \in (last + 1)..epoch
    BY <1>0, <1>2, <1>3
  <2>2. PICK k \in DOMAIN down : down[k].kind = "begin" /\ down[k].epoch = e
    BY <2>1 DEF Continues, Sent
  <2>3. k # 1
    BY <1>1, <1>2, <1>3, <2>2
  <2>4. QED
    BY <1>1, <2>2, <2>3 DEF Sent
<1>7. QED
  BY <1>4, <1>5, <1>6 DEF Continues, OfEpoch

(* So does writing.                                                        *)
LEMMA WriteContinues ==
    ASSUME TypeOK, Continues, Ends, NEW m \in Message, Wrote(m), last' = last
    PROVE  Continues'
<1>0. EpochType /\ DownType /\ last \in Nat /\ epoch \in Nat /\ last <= epoch
  BY TypeParts, EpochFacts
<1> DEFINE N == Len(down) + 1
<1>1. /\ N \in DOMAIN down' /\ down'[N] = m /\ N \in Nat
      /\ \A i \in DOMAIN down : i \in Nat /\ i < N /\ i \in DOMAIN down' /\ down'[i] = down[i]
      /\ \A i \in DOMAIN down' : i \in Nat /\ (i \in DOMAIN down \/ i = N)
  BY <1>0, AppendPlaces DEF Wrote, DownType
<1> HIDE DEF N
<1>2. /\ OfEpoch(m) => m.epoch = epoch' /\ epoch' # 0
      /\ m.kind = "begin" => epoch' = epoch + 1
      /\ m.kind # "begin" => epoch' = epoch
      /\ m.kind \in {"frame", "end"} => ~Sent("end", epoch)
  BY <1>0 DEF Wrote, OfEpoch, Ends
<1>3. epoch' \in Nat /\ epoch <= epoch'
  BY <1>0, <1>2
<1>4. \A i \in DOMAIN down : OfEpoch(down[i]) =>
         /\ down[i].epoch \in last..epoch /\ down[i].epoch # 0
         /\ down[i].kind = "begin" => down[i].epoch # last
  BY DEF Continues
<1>5. ASSUME NEW i \in DOMAIN down', OfEpoch(down'[i])
      PROVE  /\ down'[i].epoch \in last'..epoch' /\ down'[i].epoch # 0
             /\ down'[i].kind = "begin" => down'[i].epoch # last'
  <2>1. CASE i \in DOMAIN down
    BY <1>0, <1>1, <1>3, <1>4, <1>5, <2>1
  <2>2. CASE i = N
    BY <1>0, <1>1, <1>2, <1>3, <1>5, <2>2
  <2>3. QED
    BY <1>1, <2>1, <2>2
<1>6. ASSUME NEW i \in DOMAIN down', NEW j \in DOMAIN down', i < j,
             OfEpoch(down'[i]), OfEpoch(down'[j])
      PROVE  /\ down'[i].epoch <= down'[j].epoch
             /\ down'[j].kind = "begin" \/ down'[i].kind = "end" =>
                    down'[i].epoch # down'[j].epoch
  <2>1. i \in DOMAIN down /\ down'[i] = down[i]
    BY <1>1, <1>6
  <2>2. CASE j \in DOMAIN down
    BY <1>1, <1>6, <2>1, <2>2 DEF Continues
  <2>3. CASE j = N
    <3>1. down[i].epoch \in last..epoch /\ down'[j] = m /\ OfEpoch(m)
      BY <1>1, <1>4, <1>6, <2>1, <2>3
    <3>2. down[i].epoch <= m.epoch /\ (m.kind = "begin" => down[i].epoch # m.epoch)
      BY <1>0, <1>2, <1>3, <3>1
    <3>3. m.kind # "begin" /\ down[i].kind = "end" => down[i].epoch # m.epoch
      BY <1>2, <2>1, <3>1 DEF Sent, OfEpoch
    <3>4. QED
      BY <2>1, <3>1, <3>2, <3>3
  <2>4. QED
    BY <1>1, <2>2, <2>3
<1>7. ASSUME NEW e \in (last' + 1)..epoch' PROVE Sent("begin", e)'
  <2>1. CASE e \in (last + 1)..epoch
    <3>1. PICK k \in DOMAIN down : down[k].kind = "begin" /\ down[k].epoch = e
      BY <2>1 DEF Continues, Sent
    <3>2. QED
      BY <1>1, <3>1 DEF Sent
  <2>2. CASE e = epoch' /\ m.kind = "begin"
    BY <1>1, <1>2, <2>2 DEF Sent, OfEpoch
  <2>3. QED
    BY <1>0, <1>2, <2>1, <2>2
<1>8. QED
  BY <1>5, <1>6, <1>7 DEF Continues, OfEpoch

(* A new epoch is begun when the last was ended: it is never refused.      *)
LEMMA BeginIsTaken ==
    ASSUME TypeOK, Continues, Ends, ReadBegin
    PROVE  /\ ReadOne /\ Head(down).kind = "begin"
           /\ output = 0 /\ net' = "beginning" /\ UNCHANGED <<output, broken>>
<1>0. EpochType /\ DownType /\ last \in Nat /\ epoch \in Nat /\ last <= epoch
  BY TypeParts, EpochFacts
<1>1. /\ down # <<>> /\ down' = Tail(down) /\ Head(down).kind = "begin"
      /\ At("reading") /\ UNCHANGED <<bridgeVars, output>>
  BY DEF ReadBegin, Reads
<1>2. Head(down).epoch \in last..epoch /\ Head(down).epoch > last
  BY <1>1, HeadOfEpoch DEF OfEpoch
<1>3. output = 0
  <2>1. SUFFICES ASSUME output # 0 PROVE FALSE
    OBVIOUS
  <2>2. last \in 1..epoch /\ last # epoch /\ Open(last)
    BY <1>0, <1>2, <2>1 DEF EpochType, Open
  <2>3. PICK j \in DOMAIN down : down[j].kind = "end" /\ down[j].epoch = last
    BY <2>2 DEF Ends, Sent
  <2>4. 1 \in DOMAIN down /\ Head(down) = down[1] /\ 1 <= j /\ j \in Nat
    BY <1>0, <1>1, TailPlaces DEF DownType
  <2>5. j # 1
    BY <1>1, <2>3, <2>4
  <2>6. Head(down).epoch <= last
    BY <1>1, <2>3, <2>4, <2>5 DEF Continues, OfEpoch
  <2>7. QED
    BY <1>0, <1>2, <2>6
<1>4. last' = Head(down).epoch /\ Accepts("beginning")
  BY <1>0, <1>2, <1>3 DEF ReadBegin
<1>5. QED
  BY <1>1, <1>3, <1>4 DEF ReadOne, Accepts, Survives, Goes

(* While an epoch is open, its end is to come; nothing else closes it.     *)
LEMMA ReadEnds ==
    ASSUME TypeOK, Continues, Ends, ReadOne,
           output' # 0 \/ net' = "beginning" =>
               output # 0 \/ net = "beginning" \/ Head(down).kind = "begin",
           Head(down).kind = "end" => output' = 0 /\ net' # "beginning"
    PROVE  Ends'
<1>0. EpochType /\ DownType /\ last \in Nat /\ epoch \in Nat /\ last <= epoch
  BY TypeParts, EpochFacts
<1> DEFINE h == Head(down)
<1>1. /\ 1 \in DOMAIN down /\ h = down[1] /\ h \in Message
      /\ \A i \in DOMAIN down' : i \in Nat /\ i + 1 \in DOMAIN down /\ down'[i] = down[i + 1]
      /\ \A i \in DOMAIN down :
            i \in Nat /\ 1 <= i /\ (i # 1 => i - 1 \in DOMAIN down' /\ down'[i - 1] = down[i])
  BY <1>0, TailPlaces DEF ReadOne, DownType
<1>2. /\ UNCHANGED <<epoch, speaking>>
      /\ last' = IF h.kind = "begin" THEN h.epoch ELSE last
  BY DEF ReadOne, bridgeVars
<1>3. /\ h.kind = "begin" => h.epoch \in last..epoch /\ h.epoch > last
      /\ h.kind = "end" => h.epoch = last
  BY HeadOfEpoch DEF ReadOne, OfEpoch
<1>4. ASSUME NEW e \in 1..epoch', Open(e)'
      PROVE  (speaking' /\ e = epoch') \/ Sent("end", e)'
  <2>1. e \in 1..epoch /\ Open(e)
    BY <1>0, <1>2, <1>3, <1>4 DEF Open
  <2>2. CASE speaking /\ e = epoch
    BY <1>2, <2>2
  <2>3. ASSUME NEW k \in DOMAIN down, down[k].kind = "end", down[k].epoch = e
        PROVE  Sent("end", e)'
    <3>1. k # 1
      BY <1>0, <1>1, <1>2, <1>3, <1>4, <2>3 DEF Open
    <3>2. QED
      BY <1>1, <2>3, <3>1 DEF Sent
  <2>4. QED
    BY <2>1, <2>2, <2>3 DEF Ends, Sent
<1>5. speaking' => epoch' # 0 /\ ~Sent("end", epoch)'
  BY <1>1, <1>2 DEF Ends, Sent
<1>6. QED
  BY <1>4, <1>5 DEF Ends, Open

LEMMA WriteEnds ==
    ASSUME TypeOK, Continues, Ends, NEW m \in Message, Wrote(m), UNCHANGED deviceVars
    PROVE  Ends'
<1>0. EpochType /\ DownType /\ last \in Nat /\ epoch \in Nat /\ last <= epoch
  BY TypeParts, EpochFacts
<1> DEFINE N == Len(down) + 1
<1>1. /\ N \in DOMAIN down' /\ down'[N] = m
      /\ \A i \in DOMAIN down : i \in DOMAIN down' /\ down'[i] = down[i]
      /\ \A i \in DOMAIN down' : i \in DOMAIN down \/ i = N
  BY <1>0, AppendPlaces DEF Wrote, DownType
<1> HIDE DEF N
<1>2. UNCHANGED <<last, output, net>>
  BY DEF deviceVars, outputVars, threadVars
<1>3. \A e : Sent("end", e)' <=> Sent("end", e) \/ (m.kind = "end" /\ e = m.epoch)
  BY <1>1 DEF Sent
<1>4. \A e : Open(e)' <=> Open(e)
  BY <1>2 DEF Open
<1>5. ~Sent("end", epoch + 1)
  <2>1. SUFFICES ASSUME NEW k \in DOMAIN down, down[k].kind = "end", down[k].epoch = epoch + 1
                 PROVE  FALSE
    BY DEF Sent
  <2>2. down[k].epoch \in last..epoch
    BY <2>1 DEF Continues, OfEpoch
  <2>3. QED
    BY <1>0, <2>1, <2>2
<1>6. CASE m.kind = "begin"
  <2>1. ~speaking /\ speaking' /\ epoch' = epoch + 1
    BY <1>6 DEF Wrote
  <2>2. QED
    BY <1>0, <1>3, <1>4, <1>5, <1>6, <2>1 DEF Ends
<1>7. CASE m.kind = "end"
  <2>1. speaking /\ ~speaking' /\ epoch' = epoch /\ m.epoch = epoch
    BY <1>7 DEF Wrote
  <2>2. QED
    BY <1>3, <1>4, <1>7, <2>1 DEF Ends
<1>8. CASE m.kind \notin {"begin", "end"}
  <2>1. (speaking' <=> speaking) /\ epoch' = epoch
    BY <1>8 DEF Wrote
  <2>2. QED
    BY <1>3, <1>4, <1>8, <2>1 DEF Ends
<1>9. QED
  BY <1>6, <1>7, <1>8

LEMMA CalmEnds ==
    ASSUME Ends, UNCHANGED <<down, last, epoch, speaking>>,
           output' # 0 \/ net' = "beginning" => output # 0 \/ net = "beginning"
    PROVE  Ends'
<1>1. /\ \A e : Open(e)' => Open(e)
      /\ \A e : Sent("end", e)' <=> Sent("end", e)
  BY DEF Open, Sent
<1>2. QED
  BY <1>1 DEF Ends

(* Frames that are still to come are of an epoch that is open, that is cut *)
(* short, or that is to be begun.                                          *)
LEMMA ReadCovers ==
    ASSUME TypeOK, VoiceInv, Continues, Ends, Covers, ReadOne,
           Head(down).kind = "begin" => net' = "beginning",
           Head(down).kind \notin {"begin", "end", "resumed", "fresh"} =>
               (Covered => Covered'),
           net' = "resuming" => output' = 0 /\ suppressed' = 0
    PROVE  Covers'
<1>0. EpochType /\ DownType /\ last \in Nat /\ epoch \in Nat /\ last <= epoch
  BY TypeParts, EpochFacts
<1> DEFINE h == Head(down)
<1>1. /\ 1 \in DOMAIN down /\ h = down[1] /\ h \in Message
      /\ \A i \in DOMAIN down' :
            i \in Nat /\ 1 < i + 1 /\ i + 1 \in DOMAIN down /\ down'[i] = down[i + 1]
      /\ \A i \in DOMAIN down :
            i \in Nat /\ 1 <= i /\ (i # 1 => i - 1 \in DOMAIN down' /\ down'[i - 1] = down[i])
  BY <1>0, TailPlaces DEF ReadOne, DownType
<1>2. /\ UNCHANGED <<epoch, speaking, bridge>>
      /\ last' = IF h.kind = "begin" THEN h.epoch ELSE last
  BY DEF ReadOne, bridgeVars
<1>4. ASSUME NEW i \in DOMAIN down', down'[i].kind = "resumed"
      PROVE  FramesBegunAfter(i)' /\ (speaking' => BegunAfter(i, epoch)')
  <2>1. i + 1 \in DOMAIN down /\ down[i + 1].kind = "resumed"
    BY <1>1, <1>4
  <2>2. FramesBegunAfter(i + 1) /\ (speaking => BegunAfter(i + 1, epoch))
    BY <2>1 DEF Covers
  <2>3. ASSUME NEW j \in DOMAIN down', i < j, down'[j].kind = "frame"
        PROVE  \E k \in DOMAIN down' :
                   i < k /\ down'[k].kind = "begin" /\ down'[k].epoch = down'[j].epoch
    <3>1. /\ j + 1 \in DOMAIN down /\ i + 1 < j + 1 /\ down'[j] = down[j + 1]
          /\ down[j + 1].kind = "frame"
      BY <1>1, <2>3
    <3>2. BegunAfter(i + 1, down[j + 1].epoch)
      BY <2>2, <3>1 DEF FramesBegunAfter
    <3>3. PICK k \in DOMAIN down :
              i + 1 < k /\ down[k].kind = "begin" /\ down[k].epoch = down[j + 1].epoch
      BY <3>2 DEF BegunAfter
    <3>4. k - 1 \in DOMAIN down' /\ down'[k - 1] = down[k] /\ i < k - 1
      BY <1>1, <3>3
    <3>5. QED
      BY <3>1, <3>3, <3>4
  <2>4. FramesBegunAfter(i)'
    BY <2>3 DEF FramesBegunAfter, BegunAfter
  <2>5. speaking' => BegunAfter(i, epoch)'
    <3>1. SUFFICES ASSUME speaking' PROVE BegunAfter(i, epoch)'
      OBVIOUS
    <3>2. BegunAfter(i + 1, epoch)
      BY <1>2, <2>2, <3>1
    <3>3. PICK k \in DOMAIN down : i + 1 < k /\ down[k].kind = "begin" /\ down[k].epoch = epoch
      BY <3>2 DEF BegunAfter
    <3>4. k - 1 \in DOMAIN down' /\ down'[k - 1] = down[k] /\ i < k - 1
      BY <1>1, <3>3
    <3>5. QED
      BY <1>2, <3>3, <3>4 DEF BegunAfter
  <2>6. QED
    BY <2>4, <2>5
<1>5. (Sent("frame", last)' => Covered') /\ (Serves' /\ speaking' /\ epoch' = last' => Covered')
  <2>1. CASE h.kind = "begin"
    BY <2>1 DEF Covered
  <2>2. ASSUME h.kind # "begin"
        PROVE  /\ last' = last
               /\ Sent("frame", last)' =>
                      \E j \in DOMAIN down :
                          1 < j /\ down[j].kind = "frame" /\ down[j].epoch = last
    <3>1. last' = last
      BY <1>2, <2>2
    <3>2. QED
      BY <1>1, <3>1 DEF Sent
  <2>3. CASE h.kind = "end"
    <3>1. h.epoch = last /\ OfEpoch(down[1])
      BY <1>1, <2>3, HeadOfEpoch DEF ReadOne, OfEpoch
    <3>2. ~Sent("frame", last)'
      BY <1>1, <2>2, <2>3, <3>1 DEF Continues, OfEpoch
    <3>3. ~(speaking /\ epoch = last)
      BY <1>1, <2>3, <3>1 DEF Ends, Sent
    <3>4. QED
      BY <1>2, <2>2, <2>3, <3>2, <3>3
  <2>4. CASE h.kind = "resumed"
    <3>1. \A e : BegunAfter(1, e) => e # last
      BY DEF BegunAfter, Continues, OfEpoch
    <3>2. /\ \A j \in DOMAIN down :
                 1 < j /\ down[j].kind = "frame" => BegunAfter(1, down[j].epoch)
          /\ speaking => BegunAfter(1, epoch)
      BY <1>1, <2>4 DEF Covers, FramesBegunAfter
    <3>3. QED
      BY <1>2, <2>2, <2>4, <3>1, <3>2
  <2>5. CASE h.kind = "fresh"
    <3>1. bridge = "over" /\ \A j \in DOMAIN down : j <= 1
      BY <1>1, <2>5 DEF VoiceInv
    <3>2. QED
      BY <1>1, <1>2, <2>2, <2>5, <3>1 DEF Serves
  <2>6. CASE h.kind \notin {"begin", "end", "resumed", "fresh"}
    <3>1. Covered => Covered'
      BY <2>6
    <3>2. Sent("frame", last)' => Sent("frame", last)
      BY <2>2, <2>6 DEF Sent
    <3>3. Serves' /\ speaking' /\ epoch' = last' => Serves /\ speaking /\ epoch = last
      BY <1>2, <2>2, <2>6 DEF Serves
    <3>4. QED
      BY <3>1, <3>2, <3>3 DEF Covers
  <2>7. QED
    BY <2>1, <2>3, <2>4, <2>5, <2>6
<1>6. QED
  BY <1>4, <1>5 DEF Covers

LEMMA WriteCovers ==
    ASSUME TypeOK, Continues, Covers, NEW m \in Message, Wrote(m), UNCHANGED deviceVars,
           ~early', Serves' => Serves \/ ~speaking'
    PROVE  Covers'
<1>0. EpochType /\ DownType /\ FlagType /\ last \in Nat /\ epoch \in Nat /\ last <= epoch
  BY TypeParts, EpochFacts
<1> DEFINE N == Len(down) + 1
<1>1. /\ N \in DOMAIN down' /\ down'[N] = m
      /\ \A i \in DOMAIN down : i \in Nat /\ i < N /\ i \in DOMAIN down' /\ down'[i] = down[i]
      /\ \A i \in DOMAIN down' : i \in Nat /\ (i \in DOMAIN down \/ i = N)
      /\ N \in Nat
  BY <1>0, AppendPlaces DEF Wrote, DownType
<1> HIDE DEF N
<1>2. UNCHANGED <<last, output, suppressed, net>>
  BY DEF deviceVars, outputVars, threadVars
<1>3. Covered' <=> Covered
  BY <1>2 DEF Covered
<1>5. /\ m.kind = "begin" => speaking' /\ epoch' = epoch + 1 /\ m.epoch = epoch'
      /\ m.kind = "frame" =>
            Serves /\ speaking /\ speaking' /\ epoch' = epoch /\ m.epoch = epoch
      /\ m.kind = "end" => ~speaking'
      /\ m.kind \notin {"begin", "frame", "end"} => UNCHANGED <<epoch, speaking>>
  BY DEF Wrote
<1>6. Sent("frame", last)' => Covered'
  <2>1. CASE Sent("frame", last)
    BY <1>3, <2>1 DEF Covers
  <2>2. CASE m.kind = "frame" /\ m.epoch = last
    BY <1>3, <1>5, <2>2 DEF Covers
  <2>3. QED
    BY <1>1, <1>2, <2>1, <2>2 DEF Sent
<1>7. Serves' /\ speaking' /\ epoch' = last' => Covered'
  <2>1. SUFFICES ASSUME Serves', speaking', epoch' = last' PROVE Covered'
    OBVIOUS
  <2>2. m.kind \notin {"begin", "end"}
    BY <1>0, <1>2, <1>5, <2>1
  <2>3. Serves /\ speaking /\ epoch = last
    BY <1>2, <1>5, <2>1, <2>2
  <2>4. QED
    BY <1>3, <2>3 DEF Covers
<1>8. ASSUME NEW i \in DOMAIN down', down'[i].kind = "resumed"
      PROVE  FramesBegunAfter(i)' /\ (speaking' => BegunAfter(i, epoch)')
  <2>1. CASE i = N
    <3>1. m.kind = "resumed"
      BY <1>1, <1>8, <2>1
    <3>2. early' = (early \/ speaking) /\ (speaking' <=> speaking)
      BY <3>1 DEF Wrote
    <3>3. ~speaking'
      BY <1>0, <3>2
    <3>4. \A j \in DOMAIN down' : ~(i < j)
      BY <1>1, <2>1
    <3>5. QED
      BY <3>3, <3>4 DEF FramesBegunAfter
  <2>2. CASE i \in DOMAIN down
    <3>1. FramesBegunAfter(i) /\ (speaking => BegunAfter(i, epoch))
      BY <1>1, <1>8, <2>2 DEF Covers
    <3>2. ASSUME NEW e, BegunAfter(i, e)
          PROVE  \E k \in DOMAIN down' : i < k /\ down'[k].kind = "begin" /\ down'[k].epoch = e
      BY <1>1, <3>2 DEF BegunAfter
    <3>3. speaking' => BegunAfter(i, epoch)'
      <4>1. CASE m.kind = "begin"
        BY <1>1, <1>5, <2>2, <4>1 DEF BegunAfter
      <4>2. CASE m.kind # "begin"
        <5>1. speaking' => speaking /\ epoch' = epoch
          BY <1>5, <4>2
        <5>2. speaking' => \E k \in DOMAIN down' :
                  i < k /\ down'[k].kind = "begin" /\ down'[k].epoch = epoch
          BY <3>1, <3>2, <5>1
        <5>3. QED
          BY <5>1, <5>2 DEF BegunAfter
      <4>3. QED
        BY <4>1, <4>2
    <3>4. ASSUME NEW j \in DOMAIN down', i < j, down'[j].kind = "frame"
          PROVE  \E k \in DOMAIN down' :
                     i < k /\ down'[k].kind = "begin" /\ down'[k].epoch = down'[j].epoch
      <4>1. CASE j \in DOMAIN down
        <5>1. down'[j] = down[j] /\ BegunAfter(i, down[j].epoch)
          BY <1>1, <3>1, <3>4, <4>1 DEF FramesBegunAfter
        <5>2. QED
          BY <3>2, <5>1
      <4>2. CASE j = N
        <5>1. down'[j] = m /\ m.kind = "frame"
          BY <1>1, <3>4, <4>2
        <5>2. m.epoch = epoch /\ BegunAfter(i, epoch)
          BY <1>5, <3>1, <5>1
        <5>3. QED
          BY <3>2, <5>1, <5>2
      <4>3. QED
        BY <1>1, <4>1, <4>2
    <3>5. FramesBegunAfter(i)'
      BY <3>4 DEF FramesBegunAfter, BegunAfter
    <3>6. QED
      BY <3>3, <3>5
  <2>3. QED
    BY <1>1, <2>1, <2>2
<1>9. net' = "resuming" => output' = 0 /\ suppressed' = 0
  BY <1>2 DEF Covers
<1>10. QED
  BY <1>6, <1>7, <1>8, <1>9 DEF Covers

LEMMA StillCovers ==
    ASSUME Covers, UNCHANGED <<down, epoch, speaking>>, UNCHANGED deviceVars,
           Serves' => Serves \/ ~speaking'
    PROVE  Covers'
<1>1. UNCHANGED <<last, output, suppressed, net>>
  BY DEF deviceVars, outputVars, threadVars
<1>2. /\ Sent("frame", last)' <=> Sent("frame", last)
      /\ Covered' <=> Covered
  BY <1>1 DEF Sent, Covered
<1>3. ASSUME NEW i \in DOMAIN down, down[i].kind = "resumed"
      PROVE  FramesBegunAfter(i)' /\ (speaking' => BegunAfter(i, epoch)')
  BY <1>3 DEF Covers, FramesBegunAfter, BegunAfter
<1>4. QED
  BY <1>1, <1>2, <1>3 DEF Covers

LEMMA CalmCovers ==
    ASSUME Covers, UNCHANGED <<down, last, epoch, speaking, bridge>>,
           Covered => Covered',
           net' = "resuming" => output' = 0 /\ suppressed' = 0
    PROVE  Covers'
<1>1. /\ Sent("frame", last)' <=> Sent("frame", last)
      /\ Serves' <=> Serves
  BY DEF Sent, Serves
<1>2. ASSUME NEW i \in DOMAIN down, down[i].kind = "resumed"
      PROVE  FramesBegunAfter(i)' /\ (speaking' => BegunAfter(i, epoch)')
  BY <1>2 DEF Covers, FramesBegunAfter, BegunAfter
<1>3. QED
  BY <1>1, <1>2 DEF Covers

(* Nothing follows the last word.                                          *)
LEMMA ReadVoice ==
    ASSUME DownType, VoiceInv, down # <<>>, down' = Tail(down), UNCHANGED <<up, bridgeVars>>,
           net' \notin {"new", "connecting"}
    PROVE  VoiceInv'
<1>1. \A i \in DOMAIN down' : i \in Nat /\ i + 1 \in DOMAIN down /\ down'[i] = down[i + 1]
  BY TailPlaces DEF DownType
<1>2. UNCHANGED <<up, bridge, speaking>>
  BY DEF bridgeVars
<1>3. ASSUME NEW i \in DOMAIN down', down'[i].kind \in {"fresh", "stopped"}
      PROVE  bridge' = "over" /\ \A j \in DOMAIN down' : j <= i
  <2>1. bridge = "over" /\ \A j \in DOMAIN down : j <= i + 1
    BY <1>1, <1>3 DEF VoiceInv
  <2>2. QED
    BY <1>1, <1>2, <2>1
<1>4. QED
  BY <1>2, <1>3 DEF VoiceInv

(* Most steps only take from the queue and leave the requests alone.       *)
LEMMA CalmRequests ==
    ASSUME QueueType, RequestInv, UNCHANGED requestVars,
           interruptSent' => interruptAsked,
           net' = "resuming" => interruptSent',
           state' = "NEW" <=> net' = "new",
           interruptAsked /\ net' \in Ready =>
               /\ net \in Ready
               /\ state' \in {"CONNECTING", "READY"} => state \in {"CONNECTING", "READY"},
           queue' \in {queue, <<>>} \/ (queue # <<>> /\ queue' = Tail(queue))
    PROVE  RequestInv'
<1>1. UNCHANGED <<interruptAsked, era, interrupts>>
  BY DEF requestVars
<1>2. \A i \in DOMAIN queue' : queue'[i] = era
  <2>1. CASE queue' = queue
    BY <2>1 DEF RequestInv
  <2>2. CASE queue' = <<>>
    BY <2>2
  <2>3. CASE queue # <<>> /\ queue' = Tail(queue)
    <3>1. \A i \in DOMAIN queue' : i + 1 \in DOMAIN queue /\ queue'[i] = queue[i + 1]
      BY <2>3, TailPlaces DEF QueueType
    <3>2. QED
      BY <3>1 DEF RequestInv
  <2>4. QED
    BY <2>1, <2>2, <2>3
<1>3. interruptAsked /\ net' \in Ready =>
         state' \notin {"CONNECTING", "READY"} /\ queue' = <<>>
  BY DEF RequestInv
<1>4. QED
  BY <1>1, <1>2, <1>3 DEF RequestInv

(* What ended stays so.                                                    *)
LEMMA DeadStep ==
    TypeOK /\ RequestInv /\ VoiceInv /\ [Next]_vars => (Live' => Live) /\ (early => early')
<1> SUFFICES ASSUME TypeOK, RequestInv, VoiceInv, [Next]_vars
             PROVE  (Live' => Live) /\ (early => early')
  OBVIOUS
<1>1. ASSUME NEW frame \in {"quiet", "speech"}, Submit(frame)
      PROVE  (Live' => Live) /\ (early => early')
  <2>1. UNCHANGED <<net, early>>
    BY <1>1
       DEF Submit, micVars, requestVars, bargeVars, outputVars, threadVars, bridgeVars,
           deviceVars
  <2>2. QED
    BY <2>1 DEF Live
<1>2. ASSUME Detect \/ Stop \/ DeadlinePasses
      PROVE  (Live' => Live) /\ (early => early')
  <2>1. UNCHANGED <<net, early>>
    BY <1>2
       DEF Detect, Stop, DeadlinePasses, micVars, requestVars, bargeVars, outputVars,
           threadVars, bridgeVars, deviceVars
  <2>2. QED
    BY <2>1 DEF Live
<1>3. ASSUME NEW keep \in BOOLEAN, Interrupt(keep)
      PROVE  (Live' => Live) /\ (early => early')
  <2>1. UNCHANGED <<net, early>>
    BY <1>3
       DEF Interrupt, micVars, requestVars, bargeVars, outputVars, threadVars, bridgeVars,
           deviceVars
  <2>2. QED
    BY <2>1 DEF Live
<1>4. ASSUME Start PROVE (Live' => Live) /\ (early => early')
  BY <1>4 DEF Start, bridgeVars, Live, RequestInv
<1>5. ASSUME Connect PROVE (Live' => Live) /\ (early => early')
  BY <1>5 DEF Connect, At, bridgeVars, Live
<1>6. ASSUME Handshake PROVE (Live' => Live) /\ (early => early')
  BY <1>6 DEF Handshake, At, bridgeVars, Live
<1>7. ASSUME Promote PROVE (Live' => Live) /\ (early => early')
  BY <1>7 DEF Promote, At, bridgeVars, Live
<1>8. ASSUME AttendInterrupt PROVE (Live' => Live) /\ (early => early')
  BY <1>8 DEF AttendInterrupt, At, bridgeVars, Live
<1>9. ASSUME AttendStop PROVE (Live' => Live) /\ (early => early')
  BY <1>9 DEF AttendStop, At, bridgeVars, Live
<1>10. ASSUME AttendBargeIn PROVE (Live' => Live) /\ (early => early')
  BY <1>10 DEF AttendBargeIn, At, bridgeVars, Live
<1>11. ASSUME Serve PROVE (Live' => Live) /\ (early => early')
  BY <1>11 DEF Serve, At, bridgeVars, Live
<1>12. ASSUME ReadNothing PROVE (Live' => Live) /\ (early => early')
  BY <1>12 DEF ReadNothing, At, bridgeVars, Live
<1>13. ASSUME ReadFrame PROVE (Live' => Live) /\ (early => early')
  BY <1>13 DEF ReadFrame, Reads, At, bridgeVars, Live
<1>14. ASSUME ReadBegin PROVE (Live' => Live) /\ (early => early')
  BY <1>14 DEF ReadBegin, Reads, At, bridgeVars, Live
<1>15. ASSUME ReadEnd PROVE (Live' => Live) /\ (early => early')
  BY <1>15 DEF ReadEnd, Reads, At, bridgeVars, Live
<1>16. ASSUME ReadSpeech PROVE (Live' => Live) /\ (early => early')
  BY <1>16 DEF ReadSpeech, Reads, At, bridgeVars, Live
<1>17. ASSUME NEW kind \in {"resumed", "fresh", "stopped"}, ReadStopped(kind)
      PROVE  (Live' => Live) /\ (early => early')
  BY <1>17 DEF ReadStopped, Reads, At, bridgeVars, Live
<1>18. ASSUME Begin PROVE (Live' => Live) /\ (early => early')
  BY <1>18 DEF Begin, At, bridgeVars, Live
<1>19. ASSUME Resume PROVE (Live' => Live) /\ (early => early')
  BY <1>19 DEF Resume, At, bridgeVars, Live
<1>20. ASSUME Unverified PROVE (Live' => Live) /\ (early => early')
  BY <1>20 DEF Unverified, At, bridgeVars, Live
<1>21. ASSUME Incompatible PROVE (Live' => Live) /\ (early => early')
  BY <1>21 DEF Incompatible, At, bridgeVars, Live
<1>22. ASSUME Breaks PROVE (Live' => Live) /\ (early => early')
  BY <1>22 DEF Breaks, Running, bridgeVars, Live
<1>23. ASSUME CleanUp PROVE (Live' => Live) /\ (early => early')
  BY <1>23 DEF CleanUp, Goes, bridgeVars, Live
<1>24. ASSUME Close PROVE (Live' => Live) /\ (early => early')
  BY <1>24 DEF Close, Goes, bridgeVars, Live
<1>25. ASSUME Bridge PROVE (Live' => Live) /\ (early => early')
  BY <1>25, BridgeMoves, BridgeStep DEF deviceVars, threadVars, Live
<1>26. CASE UNCHANGED vars
  BY <1>26 DEF vars, micVars, requestVars, bargeVars, outputVars, threadVars, bridgeVars, Live
<1> QED
  BY <1>1, <1>2, <1>3, <1>4, <1>5, <1>6, <1>7, <1>8, <1>9, <1>10, <1>11, <1>12, <1>13, <1>14,
     <1>15, <1>16, <1>17, <1>18, <1>19, <1>20, <1>21, <1>22, <1>23, <1>24, <1>25, <1>26
     DEF Next, Network, Startup, Attend, Read, Ending

(* The types: of the flags,                                                *)
LEMMA FlagTypeStep ==
    TypeOK /\ [Next]_vars => FlagType'
<1> SUFFICES ASSUME TypeOK, [Next]_vars PROVE FlagType'
  OBVIOUS
<1>types. FlagType
  BY TypeParts
<1>1. ASSUME NEW frame \in {"quiet", "speech"}, Submit(frame)
      PROVE  FlagType'
  <2>1. UNCHANGED <<duplex, stopAsked, interruptAsked, preserve, interruptSent, late, failed,
                   broken, speaking, early>>
    BY <1>1
       DEF Submit, micVars, requestVars, bargeVars, outputVars, threadVars, bridgeVars,
           deviceVars
  <2>2. QED
    BY <2>1, <1>types DEF FlagType
<1>2. ASSUME Detect \/ Start \/ Connect \/ Handshake \/ Promote \/ AttendStop \/ AttendBargeIn
                \/ Serve \/ ReadNothing \/ Begin \/ CleanUp \/ Close \/ BridgeStarts \/
                BridgeSpeaks \/ BridgeHears \/ BridgeGivesUp \/ BridgeIsStopped \/
                BridgeLeaves
      PROVE  FlagType'
  <2>1. UNCHANGED <<duplex, stopAsked, interruptAsked, preserve, interruptSent, late, failed,
                   broken, speaking, early>>
    BY <1>2
       DEF Detect, Start, Connect, Handshake, Promote, AttendStop, AttendBargeIn, Serve,
           ReadNothing, Begin, CleanUp, Close, BridgeStarts, BridgeSpeaks, BridgeHears,
           BridgeGivesUp, BridgeIsStopped, BridgeLeaves, Writes, micVars, requestVars,
           bargeVars, outputVars, threadVars, bridgeVars, deviceVars
  <2>2. QED
    BY <2>1, <1>types DEF FlagType
<1>3. ASSUME NEW keep \in BOOLEAN, Interrupt(keep) PROVE FlagType'
  BY <1>3, <1>types DEF Interrupt, Remembers, threadVars, bridgeVars, FlagType
<1>4. ASSUME Stop PROVE FlagType'
  BY <1>4, <1>types DEF Stop, threadVars, bridgeVars, FlagType
<1>5. ASSUME AttendInterrupt PROVE FlagType'
  BY <1>5, <1>types DEF AttendInterrupt, requestVars, bridgeVars, FlagType
<1>6. ASSUME ReadFrame PROVE FlagType'
  BY <1>6, <1>types
     DEF ReadFrame, Reads, requestVars, bridgeVars, Accepts, Survives, Fails, Refuses,
         FlagType
<1>7. ASSUME ReadBegin PROVE FlagType'
  BY <1>7, <1>types
     DEF ReadBegin, Reads, requestVars, bridgeVars, Accepts, Survives, Refuses, Fails,
         FlagType
<1>8. ASSUME ReadEnd PROVE FlagType'
  BY <1>8, <1>types
     DEF ReadEnd, Reads, requestVars, bridgeVars, Accepts, Survives, Refuses, Fails, FlagType
<1>9. ASSUME ReadSpeech PROVE FlagType'
  BY <1>9, <1>types DEF ReadSpeech, Reads, requestVars, bridgeVars, Accepts, Survives, FlagType
<1>10. ASSUME NEW kind \in {"resumed", "fresh", "stopped"}, ReadStopped(kind) PROVE FlagType'
  BY <1>10, <1>types DEF ReadStopped, Reads, requestVars, bridgeVars, Accepts, Survives, FlagType
<1>11. ASSUME Resume PROVE FlagType'
  BY <1>11, <1>types DEF Resume, bridgeVars, FlagType
<1>12. ASSUME Unverified PROVE FlagType'
  BY <1>12, <1>types DEF Unverified, Fails, requestVars, bridgeVars, FlagType
<1>13. ASSUME Incompatible PROVE FlagType'
  BY <1>13, <1>types DEF Incompatible, Fails, requestVars, bridgeVars, FlagType
<1>14. ASSUME Breaks PROVE FlagType'
  BY <1>14, <1>types DEF Breaks, Fails, requestVars, bridgeVars, FlagType
<1>15. ASSUME DeadlinePasses PROVE FlagType'
  BY <1>15, <1>types DEF DeadlinePasses, requestVars, bridgeVars, FlagType
<1>16. ASSUME BridgeBegins PROVE FlagType'
  BY <1>16, <1>types DEF BridgeBegins, Writes, deviceVars, requestVars, threadVars, FlagType
<1>17. ASSUME BridgeEnds PROVE FlagType'
  BY <1>17, <1>types DEF BridgeEnds, Writes, deviceVars, requestVars, threadVars, FlagType
<1>18. ASSUME BridgeIsInterrupted PROVE FlagType'
  BY <1>18, <1>types
     DEF BridgeIsInterrupted, EndsEpoch, Writes, deviceVars, requestVars, threadVars, FlagType
<1>19. ASSUME BridgeCancelled PROVE FlagType'
  BY <1>19, <1>types
     DEF BridgeCancelled, EndsEpoch, Writes, deviceVars, requestVars, threadVars, FlagType
<1>20. ASSUME BridgeResumes PROVE FlagType'
  BY <1>20, <1>types DEF BridgeResumes, Writes, deviceVars, requestVars, threadVars, FlagType
<1>21. CASE UNCHANGED vars
  BY <1>21, <1>types
     DEF vars, micVars, requestVars, bargeVars, outputVars, threadVars, bridgeVars, FlagType
<1> QED
  BY <1>1, <1>2, <1>3, <1>4, <1>5, <1>6, <1>7, <1>8, <1>9, <1>10, <1>11, <1>12, <1>13, <1>14,
     <1>15, <1>16, <1>17, <1>18, <1>19, <1>20, <1>21
     DEF Next, Network, Startup, Attend, Read, Ending, Bridge

(* of where everybody is,                                                  *)
LEMMA PlaceTypeStep ==
    TypeOK /\ [Next]_vars => PlaceType'
<1> SUFFICES ASSUME TypeOK, [Next]_vars PROVE PlaceType'
  OBVIOUS
<1>types. PlaceType
  BY TypeParts
<1>1. ASSUME DeadlinePasses \/ BridgeBegins \/ BridgeSpeaks \/ BridgeEnds \/ BridgeHears
      PROVE  PlaceType'
  <2>1. UNCHANGED <<state, mic, net, bridge>>
    BY <1>1
       DEF DeadlinePasses, BridgeBegins, BridgeSpeaks, BridgeEnds, BridgeHears, Writes,
           micVars, requestVars, bargeVars, outputVars, threadVars, bridgeVars, deviceVars
  <2>2. QED
    BY <2>1, <1>types DEF PlaceType
<1>2. ASSUME NEW frame \in {"quiet", "speech"}, Submit(frame) PROVE PlaceType'
  BY <1>2, <1>types DEF Submit, threadVars, bridgeVars, PlaceType
<1>3. ASSUME Detect PROVE PlaceType'
  BY <1>3, <1>types DEF Detect, threadVars, bridgeVars, PlaceType
<1>4. ASSUME NEW keep \in BOOLEAN, Interrupt(keep) PROVE PlaceType'
  BY <1>4, <1>types DEF Interrupt, StopsAdmission, threadVars, bridgeVars, PlaceType
<1>5. ASSUME Stop PROVE PlaceType'
  BY <1>5, <1>types DEF Stop, StopsAdmission, threadVars, bridgeVars, PlaceType
<1>6. ASSUME Start PROVE PlaceType'
  BY <1>6, <1>types DEF Start, micVars, bridgeVars, PlaceType, Nets, StopsAdmission
<1>7. ASSUME Connect PROVE PlaceType'
  BY <1>7, <1>types DEF Connect, Goes, micVars, bridgeVars, PlaceType, Nets, StopsAdmission
<1>8. ASSUME Handshake PROVE PlaceType'
  BY <1>8, <1>types DEF Handshake, Goes, micVars, bridgeVars, PlaceType, Nets, StopsAdmission
<1>9. ASSUME Promote PROVE PlaceType'
  BY <1>9, <1>types
     DEF Promote, Goes, micVars, bridgeVars, PlaceType, Accepts, Survives, Refuses, Fails,
         Nets, Running, StopsAdmission
<1>10. ASSUME AttendInterrupt PROVE PlaceType'
  BY <1>10, <1>types
     DEF AttendInterrupt, Goes, bridgeVars, PlaceType, Accepts, Survives, Refuses, Fails,
         Nets, Running, StopsAdmission
<1>11. ASSUME AttendStop PROVE PlaceType'
  BY <1>11, <1>types DEF AttendStop, Goes, bridgeVars, PlaceType, Nets, StopsAdmission
<1>12. ASSUME AttendBargeIn PROVE PlaceType'
  BY <1>12, <1>types
     DEF AttendBargeIn, Goes, micVars, bridgeVars, PlaceType, Accepts, Survives, Refuses,
         Fails, Nets, Running, StopsAdmission
<1>13. ASSUME Serve PROVE PlaceType'
  BY <1>13, <1>types
     DEF Serve, Goes, bridgeVars, PlaceType, Accepts, Survives, Refuses, Fails, Nets, Running,
         StopsAdmission
<1>14. ASSUME ReadNothing PROVE PlaceType'
  BY <1>14, <1>types
     DEF ReadNothing, Goes, micVars, bridgeVars, PlaceType, Accepts, Survives, Refuses, Fails,
         Nets, Running, StopsAdmission
<1>15. ASSUME ReadFrame PROVE PlaceType'
  BY <1>15, <1>types
     DEF ReadFrame, Reads, micVars, bridgeVars, Accepts, Survives, Goes, Fails, Refuses,
         PlaceType, Nets, Running, StopsAdmission
<1>16. ASSUME ReadBegin PROVE PlaceType'
  BY <1>16, <1>types
     DEF ReadBegin, Reads, micVars, bridgeVars, Accepts, Survives, Goes, Refuses, Fails,
         PlaceType, Nets, Running, StopsAdmission
<1>17. ASSUME ReadEnd PROVE PlaceType'
  BY <1>17, <1>types
     DEF ReadEnd, Reads, micVars, bridgeVars, Accepts, Survives, Goes, Refuses, Fails,
         PlaceType, Nets, Running, StopsAdmission
<1>18. ASSUME ReadSpeech PROVE PlaceType'
  BY <1>18, <1>types
     DEF ReadSpeech, Reads, micVars, bridgeVars, Accepts, Survives, Goes, PlaceType, Refuses,
         Fails, Nets, Running, StopsAdmission
<1>19. ASSUME NEW kind \in {"resumed", "fresh", "stopped"}, ReadStopped(kind) PROVE PlaceType'
  BY <1>19, <1>types
     DEF ReadStopped, Reads, micVars, bridgeVars, Accepts, Survives, Goes, PlaceType, Refuses,
         Fails, Nets, Running, StopsAdmission
<1>20. ASSUME Begin PROVE PlaceType'
  BY <1>20, <1>types
     DEF Begin, Goes, micVars, bridgeVars, PlaceType, Accepts, Survives, Refuses, Fails, Nets,
         Running, StopsAdmission
<1>21. ASSUME Resume PROVE PlaceType'
  BY <1>21, <1>types
     DEF Resume, Goes, micVars, bridgeVars, PlaceType, Accepts, Survives, Refuses, Fails,
         Nets, Running, StopsAdmission
<1>22. ASSUME Unverified PROVE PlaceType'
  BY <1>22, <1>types
     DEF Unverified, Fails, Goes, micVars, bridgeVars, PlaceType, Nets, StopsAdmission
<1>23. ASSUME Incompatible PROVE PlaceType'
  BY <1>23, <1>types
     DEF Incompatible, Fails, Goes, micVars, bridgeVars, PlaceType, Nets, StopsAdmission
<1>24. ASSUME Breaks PROVE PlaceType'
  BY <1>24, <1>types
     DEF Breaks, Fails, Goes, micVars, bridgeVars, PlaceType, Accepts, Survives, Refuses, At,
         Nets, StopsAdmission
<1>25. ASSUME CleanUp PROVE PlaceType'
  BY <1>25, <1>types DEF CleanUp, Goes, bridgeVars, PlaceType, Nets, StopsAdmission
<1>26. ASSUME Close PROVE PlaceType'
  BY <1>26, <1>types DEF Close, Goes, micVars, bridgeVars, PlaceType, Nets, StopsAdmission
<1>27. ASSUME BridgeStarts PROVE PlaceType'
  BY <1>27, <1>types DEF BridgeStarts, Writes, deviceVars, micVars, threadVars, PlaceType
<1>28. ASSUME BridgeIsInterrupted PROVE PlaceType'
  BY <1>28, <1>types
     DEF BridgeIsInterrupted, EndsEpoch, Writes, deviceVars, micVars, threadVars, PlaceType
<1>29. ASSUME BridgeCancelled PROVE PlaceType'
  BY <1>29, <1>types
     DEF BridgeCancelled, EndsEpoch, Writes, deviceVars, micVars, threadVars, PlaceType
<1>30. ASSUME BridgeResumes PROVE PlaceType'
  BY <1>30, <1>types DEF BridgeResumes, Writes, deviceVars, micVars, threadVars, PlaceType
<1>31. ASSUME BridgeGivesUp PROVE PlaceType'
  BY <1>31, <1>types DEF BridgeGivesUp, Writes, deviceVars, micVars, threadVars, PlaceType
<1>32. ASSUME BridgeIsStopped PROVE PlaceType'
  BY <1>32, <1>types DEF BridgeIsStopped, deviceVars, micVars, threadVars, PlaceType
<1>33. ASSUME BridgeLeaves PROVE PlaceType'
  BY <1>33, <1>types DEF BridgeLeaves, Writes, deviceVars, micVars, threadVars, PlaceType
<1>34. CASE UNCHANGED vars
  BY <1>34, <1>types
     DEF vars, micVars, requestVars, bargeVars, outputVars, threadVars, bridgeVars, PlaceType
<1> QED
  BY <1>1, <1>2, <1>3, <1>4, <1>5, <1>6, <1>7, <1>8, <1>9, <1>10, <1>11, <1>12, <1>13, <1>14,
     <1>15, <1>16, <1>17, <1>18, <1>19, <1>20, <1>21, <1>22, <1>23, <1>24, <1>25, <1>26,
     <1>27, <1>28, <1>29, <1>30, <1>31, <1>32, <1>33, <1>34
     DEF Next, Network, Startup, Attend, Read, Ending, Bridge

(* of the queue,                                                           *)
LEMMA QueueTypeStep ==
    TypeOK /\ RequestInv /\ [Next]_vars => QueueType'
<1> SUFFICES ASSUME TypeOK, RequestInv, [Next]_vars PROVE QueueType'
  OBVIOUS
<1>types. QueueType
  BY TypeParts
<1>1. ASSUME Detect \/ Start \/ Connect \/ Handshake \/ Promote \/ AttendBargeIn \/
                ReadNothing \/ ReadFrame \/ ReadBegin \/ ReadEnd \/ ReadSpeech \/ Begin \/
                Unverified \/ Incompatible \/ Breaks \/ Close \/ DeadlinePasses \/ Bridge
      PROVE  QueueType'
  <2>1. UNCHANGED <<queue, interrupts, era>>
    BY <1>1, BridgeMoves
       DEF Detect, Start, Connect, Handshake, Promote, AttendBargeIn, ReadNothing, ReadFrame,
           ReadBegin, ReadEnd, ReadSpeech, Begin, Unverified, Incompatible, Breaks, Close,
           DeadlinePasses, Reads, micVars, requestVars, bargeVars, outputVars, threadVars,
           bridgeVars, deviceVars
  <2>2. QED
    BY <2>1, <1>types DEF QueueType
<1>2. ASSUME NEW kind \in {"resumed", "fresh", "stopped"}, ReadStopped(kind)
      PROVE  QueueType'
  <2>1. UNCHANGED <<queue, interrupts, era>>
    BY <1>2
       DEF ReadStopped, Reads, micVars, requestVars, bargeVars, outputVars, threadVars,
           bridgeVars, deviceVars
  <2>2. QED
    BY <2>1, <1>types DEF QueueType
<1>3. ASSUME NEW frame \in {"quiet", "speech"}, Submit(frame) PROVE QueueType'
  BY <1>3, <1>types, BoundsAssumption DEF Submit, HasRoom, requestVars, QueueType
<1>4. ASSUME NEW keep \in BOOLEAN, Interrupt(keep) PROVE QueueType'
  BY <1>4, <1>types, BoundsAssumption DEF Interrupt, QueueType, RequestInv
<1>5. ASSUME Stop PROVE QueueType'
  BY <1>5, <1>types, BoundsAssumption DEF Stop, QueueType
<1>6. ASSUME AttendInterrupt PROVE QueueType'
  BY <1>6, <1>types, BoundsAssumption DEF AttendInterrupt, requestVars, QueueType
<1>7. ASSUME AttendStop PROVE QueueType'
  BY <1>7, <1>types, BoundsAssumption DEF AttendStop, requestVars, QueueType
<1>8. ASSUME Serve PROVE QueueType'
  <2>1. /\ UNCHANGED <<interrupts, era>>
        /\ queue' \in {queue} \cup {Tail(q) : q \in {queue} \ {<<>>}}
    BY <1>8 DEF Serve, requestVars
  <2>2. CASE queue # <<>> /\ queue' = Tail(queue)
    <3>1. queue' \in Seq(0..2 * MaxInterrupts) /\ Len(queue') <= Len(queue) /\ Len(queue) \in Nat
      BY <1>types, <2>2, TailPlaces DEF QueueType
    <3>2. QED
      BY <1>types, <2>1, <3>1, BoundsAssumption DEF QueueType
  <2>3. QED
    BY <1>types, <2>1, <2>2 DEF QueueType
<1>9. ASSUME Resume PROVE QueueType'
  <2>1. UNCHANGED <<interrupts, queue>> /\ At("resuming") /\ era' \in {era, era + 1}
    BY <1>9 DEF Resume, micVars
  <2>2. interruptAsked
    BY <2>1 DEF RequestInv, At
  <2>3. era + 1 <= 2 * interrupts /\ interrupts \in 0..MaxInterrupts /\ era \in Nat
    BY <1>types, <2>2 DEF RequestInv, QueueType
  <2>4. era' \in 0..2 * MaxInterrupts
    BY <2>1, <2>3, <1>types, BoundsAssumption DEF QueueType
  <2>5. QED
    BY <1>types, <2>1, <2>4 DEF QueueType
<1>10. ASSUME CleanUp PROVE QueueType'
  BY <1>10, <1>types, BoundsAssumption DEF CleanUp, requestVars, QueueType
<1>11. CASE UNCHANGED vars
  BY <1>11, <1>types
     DEF vars, micVars, requestVars, bargeVars, outputVars, threadVars, bridgeVars, QueueType
<1> QED
  BY <1>1, <1>2, <1>3, <1>4, <1>5, <1>6, <1>7, <1>8, <1>9, <1>10, <1>11
     DEF Next, Network, Startup, Attend, Read, Ending

(* of the epochs,                                                          *)
LEMMA EpochTypeStep ==
    TypeOK /\ WireInv /\ [Next]_vars => EpochType'
<1> SUFFICES ASSUME TypeOK, WireInv, [Next]_vars PROVE EpochType'
  OBVIOUS
<1>types. EpochType
  BY TypeParts
<1>1. ASSUME NEW frame \in {"quiet", "speech"}, Submit(frame)
      PROVE  EpochType'
  <2>1. UNCHANGED <<epoch, last, output, suppressed, local, asked, count>>
    BY <1>1
       DEF Submit, micVars, requestVars, bargeVars, outputVars, threadVars, bridgeVars,
           deviceVars
  <2>2. QED
    BY <2>1, <1>types DEF EpochType
<1>2. ASSUME Start \/ Connect \/ Handshake \/ Promote \/ ReadNothing \/ ReadFrame \/
                Unverified \/ Incompatible \/ Breaks \/ Close \/ DeadlinePasses \/
                BridgeStarts \/ BridgeSpeaks \/ BridgeEnds \/ BridgeHears \/ BridgeResumes \/
                BridgeGivesUp \/ BridgeIsStopped \/ BridgeLeaves
      PROVE  EpochType'
  <2>1. UNCHANGED <<epoch, last, output, suppressed, local, asked, count>>
    BY <1>2
       DEF Start, Connect, Handshake, Promote, ReadNothing, ReadFrame, Unverified,
           Incompatible, Breaks, Close, DeadlinePasses, BridgeStarts, BridgeSpeaks,
           BridgeEnds, BridgeHears, BridgeResumes, BridgeGivesUp, BridgeIsStopped,
           BridgeLeaves, Reads, Writes, micVars, requestVars, bargeVars, outputVars,
           threadVars, bridgeVars, deviceVars
  <2>2. QED
    BY <2>1, <1>types DEF EpochType
<1>3. ASSUME Detect PROVE EpochType'
  BY <1>3, <1>types DEF Detect, BargeInFrames, outputVars, bridgeVars, EpochType
<1>4. ASSUME NEW keep \in BOOLEAN, Interrupt(keep) PROVE EpochType'
  BY <1>4, <1>types
     DEF Interrupt, ResetsDetection, outputVars, bridgeVars, EpochType, BargeInFrames
<1>5. ASSUME Stop PROVE EpochType'
  BY <1>5, <1>types DEF Stop, ResetsDetection, outputVars, bridgeVars, EpochType, BargeInFrames
<1>6. ASSUME AttendInterrupt PROVE EpochType'
  BY <1>6, <1>types DEF AttendInterrupt, SetsLocal, bridgeVars, EpochType, BargeInFrames
<1>7. ASSUME AttendStop PROVE EpochType'
  BY <1>7, <1>types DEF AttendStop, SetsLocal, bridgeVars, EpochType, BargeInFrames
<1>8. ASSUME AttendBargeIn PROVE EpochType'
  BY <1>8, <1>types DEF AttendBargeIn, Suppresses, bridgeVars, EpochType, BargeInFrames
<1>9. ASSUME Serve PROVE EpochType'
  BY <1>9, <1>types DEF Serve, SetsLocal, bargeVars, bridgeVars, EpochType, BargeInFrames
<1>10. ASSUME ReadBegin PROVE EpochType'
  <2>1. Live /\ down # <<>> /\ Head(down).kind = "begin"
    BY <1>10 DEF ReadBegin, Reads, At, Live
  <2>2. Head(down).epoch \in last..epoch
    BY <2>1, HeadOfEpoch DEF WireInv, OfEpoch
  <2>3. /\ UNCHANGED <<output, epoch>>
        /\ \/ UNCHANGED <<last, suppressed, local, asked, count>>
           \/ /\ last' = Head(down).epoch /\ output = 0
              /\ suppressed' = 0 /\ local' = 0 /\ asked' = 0 /\ count' = 0
    BY <1>10, <1>types, <2>2, EpochFacts DEF ReadBegin, Reads, SetsLocal, bargeVars, bridgeVars
  <2>4. QED
    BY <1>types, <2>2, <2>3, EpochFacts DEF EpochType, BargeInFrames
<1>11. ASSUME ReadEnd PROVE EpochType'
  BY <1>11, <1>types DEF ReadEnd, Reads, bridgeVars, bargeVars, EpochType
<1>12. ASSUME ReadSpeech PROVE EpochType'
  BY <1>12, <1>types
     DEF ReadSpeech, Reads, bridgeVars, SetsLocal, Suppresses, bargeVars, EpochType,
         BargeInFrames
<1>13. ASSUME NEW kind \in {"resumed", "fresh", "stopped"}, ReadStopped(kind) PROVE EpochType'
  BY <1>13, <1>types DEF ReadStopped, Reads, bridgeVars, SetsLocal, EpochType, BargeInFrames
<1>14. ASSUME Begin PROVE EpochType'
  BY <1>14, <1>types DEF Begin, SetsLocal, bridgeVars, EpochType, BargeInFrames
<1>15. ASSUME Resume PROVE EpochType'
  BY <1>15, <1>types DEF Resume, SetsLocal, bridgeVars, EpochType, BargeInFrames
<1>16. ASSUME CleanUp PROVE EpochType'
  BY <1>16, <1>types DEF CleanUp, SetsLocal, bridgeVars, EpochType, BargeInFrames
<1>17. ASSUME BridgeBegins PROVE EpochType'
  BY <1>17, <1>types, EpochFacts
     DEF BridgeBegins, Writes, deviceVars, bargeVars, outputVars, EpochType
<1>18. ASSUME BridgeIsInterrupted PROVE EpochType'
  BY <1>18, <1>types
     DEF BridgeIsInterrupted, EndsEpoch, Writes, deviceVars, bargeVars, outputVars, EpochType
<1>19. ASSUME BridgeCancelled PROVE EpochType'
  BY <1>19, <1>types
     DEF BridgeCancelled, EndsEpoch, Writes, deviceVars, bargeVars, outputVars, EpochType
<1>20. CASE UNCHANGED vars
  BY <1>20, <1>types
     DEF vars, micVars, requestVars, bargeVars, outputVars, threadVars, bridgeVars, EpochType
<1> QED
  BY <1>1, <1>2, <1>3, <1>4, <1>5, <1>6, <1>7, <1>8, <1>9, <1>10, <1>11, <1>12, <1>13, <1>14,
     <1>15, <1>16, <1>17, <1>18, <1>19, <1>20
     DEF Next, Network, Startup, Attend, Read, Ending, Bridge

(* of the player,                                                          *)
LEMMA PlayerTypeStep ==
    TypeOK /\ WireInv /\ [Next]_vars => PlayerType'
<1> SUFFICES ASSUME TypeOK, WireInv, [Next]_vars PROVE PlayerType'
  OBVIOUS
<1>types. PlayerType
  BY TypeParts
<1>1. ASSUME Detect \/ Stop \/ Start \/ Connect \/ Handshake \/ Promote \/ ReadNothing \/
                Resume \/ Unverified \/ Incompatible \/ Breaks \/ Close \/ DeadlinePasses \/
                Bridge
      PROVE  PlayerType'
  <2>1. UNCHANGED <<player, talked, silenced, last>>
    BY <1>1, BridgeMoves
       DEF Detect, Stop, Start, Connect, Handshake, Promote, ReadNothing, Resume, Unverified,
           Incompatible, Breaks, Close, DeadlinePasses, micVars, requestVars, bargeVars,
           outputVars, threadVars, bridgeVars, deviceVars
  <2>2. QED
    BY <2>1, <1>types DEF PlayerType
<1>2. ASSUME NEW keep \in BOOLEAN, Interrupt(keep)
      PROVE  PlayerType'
  <2>1. UNCHANGED <<player, talked, silenced, last>>
    BY <1>2
       DEF Interrupt, micVars, requestVars, bargeVars, outputVars, threadVars, bridgeVars,
           deviceVars
  <2>2. QED
    BY <2>1, <1>types DEF PlayerType
<1>3. ASSUME NEW frame \in {"quiet", "speech"}, Submit(frame) PROVE PlayerType'
  <2>0. EpochType /\ player.epoch \in 0..last /\ output \in 0..last /\ last \in 0..last
    BY <1>types, TypeParts, PlayerFields, EpochFacts DEF EpochType
  <2>1. UNCHANGED <<last, player, silenced>> /\ talked' \in {talked, talked \cup {local}}
        /\ (talked' # talked => local # 0)
    BY <1>3 DEF Submit, outputVars
  <2>2. local # 0 => local \in Epochs
    BY <2>0, EpochFacts DEF EpochType
  <2>3. QED
    BY <1>types, <2>1, <2>2 DEF PlayerType
<1>4. ASSUME AttendInterrupt PROVE PlayerType'
  <2>0. EpochType /\ player.epoch \in 0..last /\ output \in 0..last /\ last \in 0..last
    BY <1>types, TypeParts, PlayerFields, EpochFacts DEF EpochType
  <2>1. /\ UNCHANGED <<last, talked>> /\ player' = NoPlayer
        /\ Cuts({output, player.epoch})
    BY <1>4 DEF AttendInterrupt
  <2>2. QED
    BY <1>types, <2>0, <2>1, CutType, PlayerForms DEF PlayerType
<1>5. ASSUME AttendStop PROVE PlayerType'
  <2>0. EpochType /\ player.epoch \in 0..last /\ output \in 0..last /\ last \in 0..last
    BY <1>types, TypeParts, PlayerFields, EpochFacts DEF EpochType
  <2>1. /\ UNCHANGED <<last, talked>> /\ player' = NoPlayer
        /\ Cuts({output, player.epoch})
    BY <1>5 DEF AttendStop
  <2>2. QED
    BY <1>types, <2>0, <2>1, CutType, PlayerForms DEF PlayerType
<1>6. ASSUME AttendBargeIn PROVE PlayerType'
  <2>0. EpochType /\ player.epoch \in 0..last /\ output \in 0..last /\ last \in 0..last
    BY <1>types, TypeParts, PlayerFields, EpochFacts DEF EpochType
  <2>1. CASE BargesIn
    <3>1. /\ UNCHANGED <<last, talked>> /\ player' = NoPlayer /\ Cuts({asked})
          /\ asked \in 0..last
      BY <1>6, <2>0, <2>1 DEF AttendBargeIn, BargesIn
    <3>2. QED
      BY <1>types, <2>0, <3>1, CutType, PlayerForms DEF PlayerType
  <2>2. CASE ~BargesIn
    BY <1>6, <1>types, <2>2 DEF AttendBargeIn, PlayerType
  <2>3. QED
    BY <2>1, <2>2
<1>7. ASSUME Serve PROVE PlayerType'
  <2>0. EpochType /\ player.epoch \in 0..last /\ output \in 0..last /\ last \in 0..last
    BY <1>types, TypeParts, PlayerFields, EpochFacts DEF EpochType
  <2>1. UNCHANGED <<last, talked, silenced>> /\ player' \in Serviced(player)
    BY <1>7 DEF Serve
  <2>2. QED
    BY <1>types, <2>0, <2>1, PlayerForms DEF PlayerType
<1>8. ASSUME ReadFrame PROVE PlayerType'
  <2>0. EpochType /\ player.epoch \in 0..last /\ output \in 0..last /\ last \in 0..last
    BY <1>types, TypeParts, PlayerFields, EpochFacts DEF EpochType
  <2>1. Live /\ down # <<>> /\ OfEpoch(Head(down))
    BY <1>8 DEF ReadFrame, Reads, At, Live, OfEpoch
  <2>2. Head(down).epoch \in Epochs
    BY <2>1, HeadOfEpoch DEF WireInv
  <2>3. /\ UNCHANGED <<last, talked, silenced>>
        /\ player' \in {player, Enqueued(player, Head(down).epoch)}
    BY <1>8 DEF ReadFrame, Reads
  <2>4. QED
    BY <1>types, <2>0, <2>2, <2>3, PlayerForms DEF PlayerType
<1>9. ASSUME ReadBegin PROVE PlayerType'
  <2>0. EpochType /\ player.epoch \in 0..last /\ output \in 0..last /\ last \in 0..last
    BY <1>types, TypeParts, PlayerFields, EpochFacts DEF EpochType
  <2>1. Live /\ down # <<>> /\ OfEpoch(Head(down))
    BY <1>9 DEF ReadBegin, Reads, At, Live, OfEpoch
  <2>2. Head(down).epoch \in last..epoch
    BY <2>1, HeadOfEpoch DEF WireInv
  <2>3. UNCHANGED <<player, talked, silenced>> /\ last' \in {last, Head(down).epoch}
    BY <1>9 DEF ReadBegin, Reads
  <2>4. 0..last \subseteq 0..last'
    BY <2>0, <2>2, <2>3, EpochFacts
  <2>5. Players(last) \subseteq Players(last')
    BY <2>4 DEF Players
  <2>6. QED
    BY <1>types, <2>3, <2>5 DEF PlayerType
<1>10. ASSUME ReadEnd PROVE PlayerType'
  <2>0. EpochType /\ player.epoch \in 0..last /\ output \in 0..last /\ last \in 0..last
    BY <1>types, TypeParts, PlayerFields, EpochFacts DEF EpochType
  <2>1. /\ UNCHANGED <<last, talked, silenced>>
        /\ player' = player \/ player' \in Serviced(Finished(player))
    BY <1>10 DEF ReadEnd, Reads
  <2>2. QED
    BY <1>types, <2>0, <2>1, PlayerForms DEF PlayerType
<1>11. ASSUME ReadSpeech PROVE PlayerType'
  <2>0. EpochType /\ player.epoch \in 0..last /\ output \in 0..last /\ last \in 0..last
    BY <1>types, TypeParts, PlayerFields, EpochFacts DEF EpochType
  <2>1. CASE duplex /\ (output # 0 \/ Active(player))
    <3>1. /\ UNCHANGED <<last, talked>> /\ player' = NoPlayer
          /\ Cuts({IF output # 0 THEN output ELSE last})
      BY <1>11, <2>1 DEF ReadSpeech, Reads
    <3>2. QED
      BY <1>types, <2>0, <3>1, CutType, PlayerForms DEF PlayerType
  <2>2. CASE ~(duplex /\ (output # 0 \/ Active(player)))
    BY <1>11, <1>types, <2>2 DEF ReadSpeech, Reads, PlayerType
  <2>3. QED
    BY <2>1, <2>2
<1>12. ASSUME NEW kind \in {"resumed", "fresh", "stopped"}, ReadStopped(kind)
      PROVE  PlayerType'
  <2>0. EpochType /\ player.epoch \in 0..last /\ output \in 0..last /\ last \in 0..last
    BY <1>types, TypeParts, PlayerFields, EpochFacts DEF EpochType
  <2>1. /\ UNCHANGED <<last, talked>> /\ player' = NoPlayer
        /\ Cuts({output, player.epoch})
    BY <1>12 DEF ReadStopped, Reads
  <2>2. QED
    BY <1>types, <2>0, <2>1, CutType, PlayerForms DEF PlayerType
<1>13. ASSUME Begin PROVE PlayerType'
  <2>0. EpochType /\ player.epoch \in 0..last /\ output \in 0..last /\ last \in 0..last
    BY <1>types, TypeParts, PlayerFields, EpochFacts DEF EpochType
  <2>1. UNCHANGED <<last, talked, silenced>> /\ player' = Restarted(player)
    BY <1>13 DEF Begin
  <2>2. Restarted(player) \in Players(last)
    BY <2>0 DEF Restarted, NoPlayer, Players
  <2>3. QED
    BY <1>types, <2>1, <2>2 DEF PlayerType
<1>14. ASSUME CleanUp PROVE PlayerType'
  <2>0. EpochType /\ player.epoch \in 0..last /\ output \in 0..last /\ last \in 0..last
    BY <1>types, TypeParts, PlayerFields, EpochFacts DEF EpochType
  <2>1. UNCHANGED <<last, talked, silenced>> /\ player' = NoPlayer
    BY <1>14 DEF CleanUp
  <2>2. QED
    BY <1>types, <2>0, <2>1, PlayerForms DEF PlayerType
<1>15. CASE UNCHANGED vars
  BY <1>15, <1>types
     DEF vars, micVars, requestVars, bargeVars, outputVars, threadVars, bridgeVars, PlayerType
<1> QED
  BY <1>1, <1>2, <1>3, <1>4, <1>5, <1>6, <1>7, <1>8, <1>9, <1>10, <1>11, <1>12, <1>13, <1>14,
     <1>15
     DEF Next, Network, Startup, Attend, Read, Ending

(* of what the device sent,                                                *)
LEMMA UpTypeStep ==
    TypeOK /\ [Next]_vars => UpType'
<1> SUFFICES ASSUME TypeOK, [Next]_vars PROVE UpType'
  OBVIOUS
<1>types. UpType
  BY TypeParts
<1>1. ASSUME NEW frame \in {"quiet", "speech"}, Submit(frame)
      PROVE  UpType'
  <2>1. UNCHANGED up
    BY <1>1
       DEF Submit, micVars, requestVars, bargeVars, outputVars, threadVars, bridgeVars,
           deviceVars
  <2>2. QED
    BY <2>1, <1>types DEF UpType
<1>2. ASSUME Detect \/ Stop \/ Start \/ Handshake \/ Promote \/ AttendBargeIn \/ Serve \/
                ReadNothing \/ ReadFrame \/ ReadBegin \/ ReadEnd \/ ReadSpeech \/ Begin \/
                Unverified \/ Incompatible \/ Breaks \/ CleanUp \/ Close \/ DeadlinePasses \/
                BridgeBegins \/ BridgeSpeaks \/ BridgeEnds \/ BridgeHears \/ BridgeCancelled
                \/ BridgeResumes \/ BridgeGivesUp \/ BridgeLeaves
      PROVE  UpType'
  <2>1. UNCHANGED up
    BY <1>2
       DEF Detect, Stop, Start, Handshake, Promote, AttendBargeIn, Serve, ReadNothing,
           ReadFrame, ReadBegin, ReadEnd, ReadSpeech, Begin, Unverified, Incompatible, Breaks,
           CleanUp, Close, DeadlinePasses, BridgeBegins, BridgeSpeaks, BridgeEnds,
           BridgeHears, BridgeCancelled, BridgeResumes, BridgeGivesUp, BridgeLeaves, Reads,
           Writes, micVars, requestVars, bargeVars, outputVars, threadVars, bridgeVars,
           deviceVars
  <2>2. QED
    BY <2>1, <1>types DEF UpType
<1>3. ASSUME NEW keep \in BOOLEAN, Interrupt(keep)
      PROVE  UpType'
  <2>1. UNCHANGED up
    BY <1>3
       DEF Interrupt, micVars, requestVars, bargeVars, outputVars, threadVars, bridgeVars,
           deviceVars
  <2>2. QED
    BY <2>1, <1>types DEF UpType
<1>4. ASSUME NEW kind \in {"resumed", "fresh", "stopped"}, ReadStopped(kind)
      PROVE  UpType'
  <2>1. UNCHANGED up
    BY <1>4
       DEF ReadStopped, Reads, micVars, requestVars, bargeVars, outputVars, threadVars,
           bridgeVars, deviceVars
  <2>2. QED
    BY <2>1, <1>types DEF UpType
<1>5. ASSUME Connect PROVE UpType'
  BY <1>5, <1>types DEF Connect, At, Sends, UpType
<1>6. ASSUME AttendInterrupt PROVE UpType'
  BY <1>6, <1>types DEF AttendInterrupt, At, Sends, UpType
<1>7. ASSUME AttendStop PROVE UpType'
  BY <1>7, <1>types DEF AttendStop, At, Sends, UpType
<1>8. ASSUME Resume PROVE UpType'
  BY <1>8, <1>types DEF Resume, At, Sends, UpType
<1>9. ASSUME BridgeStarts PROVE UpType'
  BY <1>9, <1>types DEF BridgeStarts, Told, micVars, UpType
<1>10. ASSUME BridgeIsInterrupted PROVE UpType'
  BY <1>10, <1>types DEF BridgeIsInterrupted, Told, micVars, UpType
<1>11. ASSUME BridgeIsStopped PROVE UpType'
  BY <1>11, <1>types DEF BridgeIsStopped, Told, micVars, UpType
<1>12. CASE UNCHANGED vars
  BY <1>12, <1>types
     DEF vars, micVars, requestVars, bargeVars, outputVars, threadVars, bridgeVars, UpType
<1> QED
  BY <1>1, <1>2, <1>3, <1>4, <1>5, <1>6, <1>7, <1>8, <1>9, <1>10, <1>11, <1>12
     DEF Next, Network, Startup, Attend, Read, Ending, Bridge

(* and of what the bridge sent.                                            *)
LEMMA DownTypeStep ==
    TypeOK /\ VoiceInv /\ [Next]_vars => DownType'
<1> SUFFICES ASSUME TypeOK, VoiceInv, [Next]_vars PROVE DownType'
  OBVIOUS
<1>types. DownType
  BY TypeParts
<1>1. ASSUME NEW frame \in {"quiet", "speech"}, Submit(frame)
      PROVE  DownType'
  <2>1. UNCHANGED down
    BY <1>1
       DEF Submit, micVars, requestVars, bargeVars, outputVars, threadVars, bridgeVars,
           deviceVars
  <2>2. QED
    BY <2>1, <1>types DEF DownType
<1>2. ASSUME Detect \/ Stop \/ Start \/ Connect \/ Promote \/ AttendInterrupt \/ AttendStop \/
                AttendBargeIn \/ Serve \/ ReadNothing \/ Begin \/ Resume \/ Unverified \/
                Breaks \/ CleanUp \/ Close \/ DeadlinePasses
      PROVE  DownType'
  <2>1. UNCHANGED down
    BY <1>2
       DEF Detect, Stop, Start, Connect, Promote, AttendInterrupt, AttendStop, AttendBargeIn,
           Serve, ReadNothing, Begin, Resume, Unverified, Breaks, CleanUp, Close,
           DeadlinePasses, micVars, requestVars, bargeVars, outputVars, threadVars,
           bridgeVars, deviceVars
  <2>2. QED
    BY <2>1, <1>types DEF DownType
<1>3. ASSUME NEW keep \in BOOLEAN, Interrupt(keep)
      PROVE  DownType'
  <2>1. UNCHANGED down
    BY <1>3
       DEF Interrupt, micVars, requestVars, bargeVars, outputVars, threadVars, bridgeVars,
           deviceVars
  <2>2. QED
    BY <2>1, <1>types DEF DownType
<1>4. ASSUME Handshake PROVE DownType'
  BY <1>4, <1>types, ReadType DEF Handshake, DownType
<1>5. ASSUME ReadFrame PROVE DownType'
  BY <1>5, <1>types, ReadType DEF ReadFrame, Reads
<1>6. ASSUME ReadBegin PROVE DownType'
  BY <1>6, <1>types, ReadType DEF ReadBegin, Reads
<1>7. ASSUME ReadEnd PROVE DownType'
  BY <1>7, <1>types, ReadType DEF ReadEnd, Reads
<1>8. ASSUME ReadSpeech PROVE DownType'
  BY <1>8, <1>types, ReadType DEF ReadSpeech, Reads
<1>9. ASSUME NEW kind \in {"resumed", "fresh", "stopped"}, ReadStopped(kind) PROVE DownType'
  BY <1>9, <1>types, ReadType DEF ReadStopped, Reads
<1>10. ASSUME Incompatible PROVE DownType'
  BY <1>10, <1>types, ReadType DEF Incompatible
<1>11. ASSUME Bridge PROVE DownType'
  <2>1. CASE UNCHANGED down
    BY <1>types, <2>1 DEF DownType
  <2>2. ASSUME NEW m \in Message, Wrote(m), Len(down) < MaxWire PROVE DownType'
    BY <1>types, <2>2, WriteType DEF Wrote
  <2>3. QED
    BY <1>11, <2>1, <2>2, BridgeMoves, BridgeStep
<1>12. CASE UNCHANGED vars
  BY <1>12, <1>types
     DEF vars, micVars, requestVars, bargeVars, outputVars, threadVars, bridgeVars, DownType
<1> QED
  BY <1>1, <1>2, <1>3, <1>4, <1>5, <1>6, <1>7, <1>8, <1>9, <1>10, <1>11, <1>12
     DEF Next, Network, Startup, Attend, Read, Ending

(* What is on the wire continues what the device knows.                    *)
LEMMA WireStep ==
    TypeOK /\ Ends /\ VoiceInv /\ Continues /\ [Next]_vars => (Live' => Continues')
<1> SUFFICES ASSUME TypeOK, Ends, VoiceInv, Continues, [Next]_vars PROVE (Live' => Continues')
  OBVIOUS
<1>1. ASSUME NEW frame \in {"quiet", "speech"}, Submit(frame)
      PROVE  (Live' => Continues')
  <2>1. UNCHANGED <<down, last, epoch>>
    BY <1>1
       DEF Submit, micVars, requestVars, bargeVars, outputVars, threadVars, bridgeVars,
           deviceVars
  <2>2. QED
    BY <2>1 DEF Continues, OfEpoch, Sent
<1>2. ASSUME Detect \/ Stop \/ Start \/ Connect \/ Promote \/ AttendInterrupt \/ AttendStop \/
                AttendBargeIn \/ Serve \/ ReadNothing \/ Begin \/ Resume \/ Unverified \/
                Breaks \/ CleanUp \/ Close \/ DeadlinePasses
      PROVE  (Live' => Continues')
  <2>1. UNCHANGED <<down, last, epoch>>
    BY <1>2
       DEF Detect, Stop, Start, Connect, Promote, AttendInterrupt, AttendStop, AttendBargeIn,
           Serve, ReadNothing, Begin, Resume, Unverified, Breaks, CleanUp, Close,
           DeadlinePasses, micVars, requestVars, bargeVars, outputVars, threadVars,
           bridgeVars, deviceVars
  <2>2. QED
    BY <2>1 DEF Continues, OfEpoch, Sent
<1>3. ASSUME NEW keep \in BOOLEAN, Interrupt(keep)
      PROVE  (Live' => Continues')
  <2>1. UNCHANGED <<down, last, epoch>>
    BY <1>3
       DEF Interrupt, micVars, requestVars, bargeVars, outputVars, threadVars, bridgeVars,
           deviceVars
  <2>2. QED
    BY <2>1 DEF Continues, OfEpoch, Sent
<1>4. ASSUME Handshake PROVE (Live' => Continues')
  <2>1. SUFFICES ASSUME Live' PROVE Continues'
    OBVIOUS
  <2>2. down # <<>> /\ down' = Tail(down) /\ Head(down).kind = "started"
    BY <1>4, <2>1 DEF Handshake, Goes, Live
  <2>3. ReadOne
    BY <1>4, <2>2 DEF Handshake, ReadOne, outputVars
  <2>4. QED
    BY <1>4, <2>2, <2>3, ReadContinues
<1>5. ASSUME ReadFrame PROVE (Live' => Continues')
  <2>1. ReadOne
    BY <1>5 DEF ReadFrame, ReadOne, Reads
  <2>2. QED
    BY <2>1, ReadContinues
<1>6. ASSUME ReadBegin PROVE (Live' => Continues')
  BY <1>6, BeginIsTaken, ReadContinues
<1>7. ASSUME ReadEnd PROVE (Live' => Continues')
  <2>1. ReadOne
    BY <1>7 DEF ReadEnd, ReadOne, Reads
  <2>2. QED
    BY <2>1, ReadContinues
<1>8. ASSUME ReadSpeech PROVE (Live' => Continues')
  <2>1. ReadOne
    BY <1>8 DEF ReadSpeech, ReadOne, Reads
  <2>2. QED
    BY <2>1, ReadContinues
<1>9. ASSUME NEW kind \in {"resumed", "fresh", "stopped"}, ReadStopped(kind)
      PROVE  (Live' => Continues')
  <2>1. ReadOne
    BY <1>9 DEF ReadStopped, ReadOne, Reads
  <2>2. QED
    BY <2>1, ReadContinues
<1>10. ASSUME Incompatible PROVE (Live' => Continues')
  BY <1>10 DEF Incompatible, Fails, Goes, Live
<1>11. ASSUME Bridge PROVE (Live' => Continues')
  <2>1. last' = last
    BY <1>11, BridgeMoves DEF deviceVars, outputVars
  <2>2. CASE UNCHANGED <<down, epoch, speaking>>
    BY <2>1, <2>2 DEF Continues, Sent
  <2>3. ASSUME NEW m \in Message, Wrote(m) PROVE Continues'
    BY <2>1, <2>3, WriteContinues
  <2>4. QED
    BY <1>11, <2>2, <2>3, BridgeStep
<1>12. CASE UNCHANGED vars
  BY <1>12
     DEF vars, micVars, requestVars, bargeVars, outputVars, threadVars, bridgeVars, Continues,
         OfEpoch, Sent
<1> QED
  BY <1>1, <1>2, <1>3, <1>4, <1>5, <1>6, <1>7, <1>8, <1>9, <1>10, <1>11, <1>12
     DEF Next, Network, Startup, Attend, Read, Ending

(* What was begun is spoken or ended.                                      *)
LEMMA EndStep ==
    TypeOK /\ Continues /\ VoiceInv /\ Ends /\ [Next]_vars => (Live' => Ends')
<1> SUFFICES ASSUME TypeOK, Continues, VoiceInv, Ends, [Next]_vars PROVE (Live' => Ends')
  OBVIOUS
<1>1. ASSUME NEW frame \in {"quiet", "speech"}, Submit(frame)
      PROVE  (Live' => Ends')
  <2>1. UNCHANGED <<down, last, epoch, output, speaking, net>>
    BY <1>1
       DEF Submit, micVars, requestVars, bargeVars, outputVars, threadVars, bridgeVars,
           deviceVars
  <2>2. QED
    BY <2>1 DEF Ends, Open, Sent
<1>2. ASSUME Detect \/ Stop \/ DeadlinePasses
      PROVE  (Live' => Ends')
  <2>1. UNCHANGED <<down, last, epoch, output, speaking, net>>
    BY <1>2
       DEF Detect, Stop, DeadlinePasses, micVars, requestVars, bargeVars, outputVars,
           threadVars, bridgeVars, deviceVars
  <2>2. QED
    BY <2>1 DEF Ends, Open, Sent
<1>3. ASSUME NEW keep \in BOOLEAN, Interrupt(keep)
      PROVE  (Live' => Ends')
  <2>1. UNCHANGED <<down, last, epoch, output, speaking, net>>
    BY <1>3
       DEF Interrupt, micVars, requestVars, bargeVars, outputVars, threadVars, bridgeVars,
           deviceVars
  <2>2. QED
    BY <2>1 DEF Ends, Open, Sent
<1>4. ASSUME Start PROVE (Live' => Ends')
  BY <1>4 DEF Start, outputVars, bridgeVars, Ends, Open, Sent
<1>5. ASSUME Connect PROVE (Live' => Ends')
  BY <1>5 DEF Connect, Goes, outputVars, bridgeVars, Ends, Open, Sent
<1>6. ASSUME Handshake PROVE (Live' => Ends')
  <2>1. SUFFICES ASSUME Live' PROVE Ends'
    OBVIOUS
  <2>2. down # <<>> /\ down' = Tail(down) /\ Head(down).kind = "started"
    BY <1>6, <2>1 DEF Handshake, Goes, Live
  <2>3. ReadOne
    BY <1>6, <2>2 DEF Handshake, ReadOne, outputVars
  <2>4. QED
    BY <1>6, <2>2, <2>3, ReadEnds DEF Handshake, Goes, outputVars
<1>7. ASSUME Promote PROVE (Live' => Ends')
  BY <1>7 DEF Promote, Goes, outputVars, bridgeVars, Ends, Open, Sent
<1>8. ASSUME AttendInterrupt PROVE (Live' => Ends')
  BY <1>8 DEF AttendInterrupt, Goes, bridgeVars, Ends, Open, Sent
<1>9. ASSUME AttendStop PROVE (Live' => Ends')
  BY <1>9 DEF AttendStop, Goes, bridgeVars, Ends, Open, Sent
<1>10. ASSUME AttendBargeIn PROVE (Live' => Ends')
  BY <1>10 DEF AttendBargeIn, Goes, bridgeVars, Ends, Open, Sent
<1>11. ASSUME Serve PROVE (Live' => Ends')
  BY <1>11 DEF Serve, Goes, bridgeVars, Ends, Open, Sent
<1>12. ASSUME ReadNothing PROVE (Live' => Ends')
  BY <1>12 DEF ReadNothing, Goes, outputVars, bridgeVars, Ends, Open, Sent
<1>13. ASSUME ReadFrame PROVE (Live' => Ends')
  <2>1. ReadOne
    BY <1>13 DEF ReadFrame, ReadOne, Reads
  <2>2. UNCHANGED output /\ net' # "beginning" /\ Head(down).kind = "frame"
    BY <1>13 DEF ReadFrame, Reads, Accepts, Survives, Refuses, Fails, Goes
  <2>3. QED
    BY <2>1, <2>2, ReadEnds
<1>14. ASSUME ReadBegin PROVE (Live' => Ends')
  BY <1>14, BeginIsTaken, ReadEnds
<1>15. ASSUME ReadEnd PROVE (Live' => Ends')
  <2>1. ReadOne
    BY <1>15 DEF ReadEnd, ReadOne, Reads
  <2>2. Head(down).epoch = last /\ Head(down).kind = "end"
    BY <1>15, HeadOfEpoch DEF ReadEnd, Reads, OfEpoch
  <2>3. output \in {0, last} /\ last \in Nat
    BY TypeParts, EpochFacts DEF EpochType
  <2>4. output' = 0 /\ net' # "beginning"
    BY <1>15, <2>2, <2>3 DEF ReadEnd, Accepts, Survives, Refuses, Fails, Goes
  <2>5. QED
    BY <2>1, <2>2, <2>4, ReadEnds
<1>16. ASSUME ReadSpeech PROVE (Live' => Ends')
  <2>1. ReadOne
    BY <1>16 DEF ReadSpeech, ReadOne, Reads
  <2>2. output' \in {0, output} /\ net' # "beginning" /\ Head(down).kind = "speech"
    BY <1>16 DEF ReadSpeech, Reads, Accepts, Survives, Goes
  <2>3. QED
    BY <2>1, <2>2, ReadEnds
<1>17. ASSUME NEW kind \in {"resumed", "fresh", "stopped"}, ReadStopped(kind)
      PROVE  (Live' => Ends')
  <2>1. ReadOne
    BY <1>17 DEF ReadStopped, ReadOne, Reads
  <2>2. output' = 0 /\ net' # "beginning" /\ Head(down).kind = kind
    BY <1>17 DEF ReadStopped, Reads, Accepts, Survives, Goes
  <2>3. QED
    BY <2>1, <2>2, ReadEnds
<1>18. ASSUME Begin PROVE (Live' => Ends')
  BY <1>18 DEF Begin, At, bridgeVars, Ends, Open, Sent
<1>19. ASSUME Resume PROVE (Live' => Ends')
  BY <1>19 DEF Resume, Goes, bridgeVars, Ends, Open, Sent
<1>20. ASSUME Unverified PROVE (Live' => Ends')
  BY <1>20 DEF Unverified, Fails, Goes, outputVars, bridgeVars, Ends, Open, Sent
<1>21. ASSUME Incompatible PROVE (Live' => Ends')
  BY <1>21 DEF Incompatible, Fails, Goes, Live
<1>22. ASSUME Breaks PROVE (Live' => Ends')
  BY <1>22 DEF Breaks, Fails, Goes, outputVars, bridgeVars, Ends, Open, Sent
<1>23. ASSUME CleanUp PROVE (Live' => Ends')
  BY <1>23 DEF CleanUp, Goes, bridgeVars, Ends, Open, Sent
<1>24. ASSUME Close PROVE (Live' => Ends')
  BY <1>24 DEF Close, Goes, outputVars, bridgeVars, Ends, Open, Sent
<1>25. ASSUME Bridge PROVE (Live' => Ends')
  <2>1. UNCHANGED deviceVars
    BY <1>25, BridgeMoves
  <2>2. CASE UNCHANGED <<down, epoch, speaking>>
    BY <2>1, <2>2, CalmEnds DEF deviceVars, outputVars, threadVars
  <2>3. ASSUME NEW m \in Message, Wrote(m) PROVE Ends'
    BY <2>1, <2>3, WriteEnds
  <2>4. QED
    BY <1>25, <2>2, <2>3, BridgeStep
<1>26. CASE UNCHANGED vars
  BY <1>26
     DEF vars, micVars, requestVars, bargeVars, outputVars, threadVars, bridgeVars, Ends,
         Open, Sent
<1> QED
  BY <1>1, <1>2, <1>3, <1>4, <1>5, <1>6, <1>7, <1>8, <1>9, <1>10, <1>11, <1>12, <1>13, <1>14,
     <1>15, <1>16, <1>17, <1>18, <1>19, <1>20, <1>21, <1>22, <1>23, <1>24, <1>25, <1>26
     DEF Next, Network, Startup, Attend, Read, Ending

(* Frames that come are of the epoch that is open or suppressed.           *)
LEMMA CoverStep ==
    TypeOK /\ Continues /\ Ends /\ VoiceInv /\ RequestInv /\ Covers /\ [Next]_vars => (Live'
       /\ ~early' => Covers')
<1> SUFFICES ASSUME TypeOK, Continues, Ends, VoiceInv, RequestInv, Covers, [Next]_vars
             PROVE  (Live' /\ ~early' => Covers')
  OBVIOUS
<1>1. ASSUME NEW frame \in {"quiet", "speech"}, Submit(frame)
      PROVE  (Live' /\ ~early' => Covers')
  <2>1. UNCHANGED <<down, last, epoch, output, speaking, net, suppressed, bridge, early>>
    BY <1>1
       DEF Submit, micVars, requestVars, bargeVars, outputVars, threadVars, bridgeVars,
           deviceVars
  <2>2. QED
    BY <2>1 DEF Covers, Covered, Sent, FramesBegunAfter, BegunAfter, Serves
<1>2. ASSUME Detect \/ Stop \/ DeadlinePasses
      PROVE  (Live' /\ ~early' => Covers')
  <2>1. UNCHANGED <<down, last, epoch, output, speaking, net, suppressed, bridge, early>>
    BY <1>2
       DEF Detect, Stop, DeadlinePasses, micVars, requestVars, bargeVars, outputVars,
           threadVars, bridgeVars, deviceVars
  <2>2. QED
    BY <2>1 DEF Covers, Covered, Sent, FramesBegunAfter, BegunAfter, Serves
<1>3. ASSUME NEW keep \in BOOLEAN, Interrupt(keep)
      PROVE  (Live' /\ ~early' => Covers')
  <2>1. UNCHANGED <<down, last, epoch, output, speaking, net, suppressed, bridge, early>>
    BY <1>3
       DEF Interrupt, micVars, requestVars, bargeVars, outputVars, threadVars, bridgeVars,
           deviceVars
  <2>2. QED
    BY <2>1 DEF Covers, Covered, Sent, FramesBegunAfter, BegunAfter, Serves
<1>4. ASSUME Start PROVE (Live' /\ ~early' => Covers')
  <2>1. /\ UNCHANGED <<down, last, epoch, speaking, bridge, output, suppressed>>
        /\ net = "new" /\ net' = "connecting"
    BY <1>4 DEF Start, RequestInv, outputVars, bridgeVars
  <2>2. Covered => Covered'
    BY <2>1 DEF Covered
  <2>3. QED
    BY <2>1, <2>2, CalmCovers
<1>5. ASSUME Connect PROVE (Live' /\ ~early' => Covers')
  BY <1>5
     DEF Connect, At, Goes, outputVars, bridgeVars, Covers, Covered, Sent, FramesBegunAfter,
         BegunAfter, Serves
<1>6. ASSUME Handshake PROVE (Live' /\ ~early' => Covers')
  <2>1. SUFFICES ASSUME Live' PROVE Covers'
    OBVIOUS
  <2>2. /\ down # <<>> /\ down' = Tail(down) /\ Head(down).kind = "started"
        /\ net = "handshake" /\ net' = "promoting"
    BY <1>6, <2>1 DEF Handshake, At, Goes, Live
  <2>3. ReadOne
    BY <1>6, <2>2 DEF Handshake, ReadOne, outputVars
  <2>4. Covered => Covered'
    BY <1>6, <2>2 DEF Handshake, Covered, outputVars
  <2>5. QED
    BY <2>2, <2>3, <2>4, ReadCovers
<1>7. ASSUME Promote PROVE (Live' /\ ~early' => Covers')
  BY <1>7
     DEF Promote, At, Goes, outputVars, bridgeVars, Covers, Covered, Sent, FramesBegunAfter,
         BegunAfter, Serves
<1>8. ASSUME AttendInterrupt PROVE (Live' /\ ~early' => Covers')
  BY <1>8
     DEF AttendInterrupt, At, Goes, bridgeVars, Covers, Covered, Sent, FramesBegunAfter,
         BegunAfter, Serves, TypeOK
<1>9. ASSUME AttendStop PROVE (Live' /\ ~early' => Covers')
  BY <1>9
     DEF AttendStop, At, Goes, bridgeVars, Covers, Covered, Sent, FramesBegunAfter,
         BegunAfter, Serves
<1>10. ASSUME AttendBargeIn PROVE (Live' /\ ~early' => Covers')
  BY <1>10
     DEF AttendBargeIn, At, Goes, BargesIn, Suppresses, bridgeVars, Covers, Covered, Sent,
         FramesBegunAfter, BegunAfter, Serves, TypeOK
<1>11. ASSUME Serve PROVE (Live' /\ ~early' => Covers')
  BY <1>11
     DEF Serve, At, Goes, bridgeVars, Covers, Covered, Sent, FramesBegunAfter, BegunAfter,
         Serves
<1>12. ASSUME ReadNothing PROVE (Live' /\ ~early' => Covers')
  BY <1>12
     DEF ReadNothing, At, Goes, outputVars, bridgeVars, Covers, Covered, Sent,
         FramesBegunAfter, BegunAfter, Serves
<1>13. ASSUME ReadFrame PROVE (Live' /\ ~early' => Covers')
  <2>1. ReadOne
    BY <1>13 DEF ReadFrame, ReadOne, Reads
  <2>2. UNCHANGED <<output, last, suppressed>> /\ net = "reading" /\ net' \in {"top", "ending"}
        /\ Head(down).kind = "frame"
    BY <1>13 DEF ReadFrame, Reads, At, Accepts, Survives, Refuses, Fails, Goes
  <2>3. Covered => Covered'
    BY <2>2 DEF Covered
  <2>4. QED
    BY <2>1, <2>2, <2>3, ReadCovers
<1>14. ASSUME ReadBegin PROVE (Live' /\ ~early' => Covers')
  BY <1>14, BeginIsTaken, ReadCovers
<1>15. ASSUME ReadEnd PROVE (Live' /\ ~early' => Covers')
  <2>1. ReadOne
    BY <1>15 DEF ReadEnd, ReadOne, Reads
  <2>2. Head(down).kind = "end" /\ net' # "resuming"
    BY <1>15 DEF ReadEnd, Reads, Accepts, Survives, Refuses, Fails, Goes
  <2>3. QED
    BY <2>1, <2>2, ReadCovers
<1>16. ASSUME ReadSpeech PROVE (Live' /\ ~early' => Covers')
  <2>1. ReadOne
    BY <1>16 DEF ReadSpeech, ReadOne, Reads
  <2>2. last' = last /\ net = "reading" /\ net' = "top" /\ Head(down).kind = "speech"
    BY <1>16 DEF ReadSpeech, Reads, At, Accepts, Survives, Goes
  <2>3. output \in {0, last}
    BY TypeParts DEF EpochType
  <2>4. Covered => Covered'
    BY <1>16, <2>2, <2>3 DEF ReadSpeech, Covered, Suppresses
  <2>5. QED
    BY <2>1, <2>2, <2>4, ReadCovers
<1>17. ASSUME NEW kind \in {"resumed", "fresh", "stopped"}, ReadStopped(kind)
      PROVE  (Live' /\ ~early' => Covers')
  <2>0. SUFFICES ASSUME Live' PROVE Covers'
    OBVIOUS
  <2>1. ReadOne
    BY <1>17 DEF ReadStopped, ReadOne, Reads
  <2>2. /\ Head(down).kind = kind /\ kind # "stopped"
        /\ output' = 0 /\ suppressed' = 0
    BY <1>17, <2>0 DEF ReadStopped, Reads, Accepts, Survives, Goes, Live
  <2>3. QED
    BY <2>1, <2>2, ReadCovers
<1>18. ASSUME Begin PROVE (Live' /\ ~early' => Covers')
  BY <1>18 DEF Begin, Goes, bridgeVars, Covers, Covered, FramesBegunAfter, BegunAfter
<1>19. ASSUME Resume PROVE (Live' /\ ~early' => Covers')
  BY <1>19 DEF Resume, At, bridgeVars, Covers, Covered, Sent, FramesBegunAfter, BegunAfter, Serves
<1>20. ASSUME Unverified PROVE (Live' /\ ~early' => Covers')
  BY <1>20
     DEF Unverified, At, Fails, Goes, outputVars, bridgeVars, Covers, Covered, Sent,
         FramesBegunAfter, BegunAfter, Serves
<1>21. ASSUME Incompatible PROVE (Live' /\ ~early' => Covers')
  BY <1>21 DEF Incompatible, Fails, Goes, Live
<1>22. ASSUME Breaks PROVE (Live' /\ ~early' => Covers')
  BY <1>22 DEF Breaks, Fails, Goes, Live
<1>23. ASSUME CleanUp PROVE (Live' /\ ~early' => Covers')
  BY <1>23
     DEF CleanUp, At, Goes, bridgeVars, Covers, Covered, Sent, FramesBegunAfter, BegunAfter,
         Serves
<1>24. ASSUME Close PROVE (Live' /\ ~early' => Covers')
  BY <1>24
     DEF Close, At, Goes, outputVars, bridgeVars, Covers, Covered, Sent, FramesBegunAfter,
         BegunAfter, Serves
<1>25. ASSUME Bridge PROVE (Live' /\ ~early' => Covers')
  <2>1. SUFFICES ASSUME ~early' PROVE Covers'
    OBVIOUS
  <2>2. /\ UNCHANGED deviceVars /\ ~early
        /\ Serves' => Serves \/ ~speaking'
    BY <1>25, <2>1, BridgeStep
  <2>3. CASE UNCHANGED <<down, epoch, speaking>>
    BY <2>2, <2>3, StillCovers
  <2>4. ASSUME NEW m \in Message, Wrote(m) PROVE Covers'
    BY <2>1, <2>2, <2>4, WriteCovers
  <2>5. QED
    BY <1>25, <2>3, <2>4, BridgeStep
<1>26. CASE UNCHANGED vars
  BY <1>26
     DEF vars, micVars, requestVars, bargeVars, outputVars, threadVars, bridgeVars, Covers,
         Covered, Sent, FramesBegunAfter, BegunAfter, Serves
<1> QED
  BY <1>1, <1>2, <1>3, <1>4, <1>5, <1>6, <1>7, <1>8, <1>9, <1>10, <1>11, <1>12, <1>13, <1>14,
     <1>15, <1>16, <1>17, <1>18, <1>19, <1>20, <1>21, <1>22, <1>23, <1>24, <1>25, <1>26
     DEF Next, Network, Startup, Attend, Read, Ending

(* The bridge says nothing after its last word.                            *)
LEMMA VoiceStep ==
    TypeOK /\ RequestInv /\ VoiceInv /\ [Next]_vars => VoiceInv'
<1> SUFFICES ASSUME TypeOK, RequestInv, VoiceInv, [Next]_vars PROVE VoiceInv'
  OBVIOUS
<1>types. PlaceType /\ FlagType /\ UpType /\ DownType
  BY TypeParts
<1>1. ASSUME NEW frame \in {"quiet", "speech"}, Submit(frame)
      PROVE  VoiceInv'
  <2>1. UNCHANGED <<speaking, down, bridge, up, net>>
    BY <1>1
       DEF Submit, micVars, requestVars, bargeVars, outputVars, threadVars, bridgeVars,
           deviceVars
  <2>2. QED
    BY <2>1 DEF VoiceInv
<1>2. ASSUME Detect \/ Stop \/ DeadlinePasses
      PROVE  VoiceInv'
  <2>1. UNCHANGED <<speaking, down, bridge, up, net>>
    BY <1>2
       DEF Detect, Stop, DeadlinePasses, micVars, requestVars, bargeVars, outputVars,
           threadVars, bridgeVars, deviceVars
  <2>2. QED
    BY <2>1 DEF VoiceInv
<1>3. ASSUME NEW keep \in BOOLEAN, Interrupt(keep)
      PROVE  VoiceInv'
  <2>1. UNCHANGED <<speaking, down, bridge, up, net>>
    BY <1>3
       DEF Interrupt, micVars, requestVars, bargeVars, outputVars, threadVars, bridgeVars,
           deviceVars
  <2>2. QED
    BY <2>1 DEF VoiceInv
<1>4. ASSUME Start PROVE VoiceInv'
  BY <1>4 DEF Start, bridgeVars, VoiceInv, RequestInv
<1>5. ASSUME Connect PROVE VoiceInv'
  BY <1>5 DEF Connect, At, Goes, Sends, bridgeVars, VoiceInv
<1>6. ASSUME Handshake PROVE VoiceInv'
  <2>1. net = "handshake" /\ net' \in {"ending", "promoting"} /\ UNCHANGED <<up, bridgeVars>>
    BY <1>6 DEF Handshake, At, Goes
  <2>2. CASE UNCHANGED down
    BY <2>1, <2>2 DEF VoiceInv, bridgeVars
  <2>3. CASE down # <<>> /\ down' = Tail(down)
    BY <1>types, <2>1, <2>3, ReadVoice
  <2>4. QED
    BY <1>6, <2>2, <2>3 DEF Handshake
<1>7. ASSUME Promote PROVE VoiceInv'
  BY <1>7 DEF Promote, Goes, bridgeVars, VoiceInv
<1>8. ASSUME AttendInterrupt PROVE VoiceInv'
  BY <1>8 DEF AttendInterrupt, Goes, Sends, bridgeVars, VoiceInv
<1>9. ASSUME AttendStop PROVE VoiceInv'
  BY <1>9 DEF AttendStop, Sends, Goes, bridgeVars, VoiceInv
<1>10. ASSUME AttendBargeIn PROVE VoiceInv'
  BY <1>10 DEF AttendBargeIn, Goes, bridgeVars, VoiceInv
<1>11. ASSUME Serve PROVE VoiceInv'
  BY <1>11 DEF Serve, Goes, bridgeVars, VoiceInv
<1>12. ASSUME ReadNothing PROVE VoiceInv'
  BY <1>12 DEF ReadNothing, Goes, bridgeVars, VoiceInv
<1>13. ASSUME ReadFrame PROVE VoiceInv'
  <2>1. ASSUME down # <<>>, down' = Tail(down) PROVE VoiceInv'
    BY <1>13, <1>types, <2>1, ReadVoice
       DEF ReadFrame, Reads, At, Accepts, Survives, Goes, Fails, Refuses
  <2>2. QED
    BY <1>13, <2>1 DEF ReadFrame, Reads
<1>14. ASSUME ReadBegin PROVE VoiceInv'
  <2>1. ASSUME down # <<>>, down' = Tail(down) PROVE VoiceInv'
    BY <1>14, <1>types, <2>1, ReadVoice
       DEF ReadBegin, Reads, At, Accepts, Survives, Goes, Refuses, Fails
  <2>2. QED
    BY <1>14, <2>1 DEF ReadBegin, Reads
<1>15. ASSUME ReadEnd PROVE VoiceInv'
  <2>1. ASSUME down # <<>>, down' = Tail(down) PROVE VoiceInv'
    BY <1>15, <1>types, <2>1, ReadVoice
       DEF ReadEnd, Reads, At, Accepts, Survives, Goes, Refuses, Fails
  <2>2. QED
    BY <1>15, <2>1 DEF ReadEnd, Reads
<1>16. ASSUME ReadSpeech PROVE VoiceInv'
  <2>1. ASSUME down # <<>>, down' = Tail(down) PROVE VoiceInv'
    BY <1>16, <1>types, <2>1, ReadVoice DEF ReadSpeech, Reads, At, Accepts, Survives, Goes
  <2>2. QED
    BY <1>16, <2>1 DEF ReadSpeech, Reads
<1>17. ASSUME NEW kind \in {"resumed", "fresh", "stopped"}, ReadStopped(kind) PROVE VoiceInv'
  <2>1. ASSUME down # <<>>, down' = Tail(down) PROVE VoiceInv'
    BY <1>17, <1>types, <2>1, ReadVoice DEF ReadStopped, Reads, At, Accepts, Survives, Goes
  <2>2. QED
    BY <1>17, <2>1 DEF ReadStopped, Reads
<1>18. ASSUME Begin PROVE VoiceInv'
  BY <1>18 DEF Begin, Goes, bridgeVars, VoiceInv
<1>19. ASSUME Resume PROVE VoiceInv'
  BY <1>19 DEF Resume, Goes, Sends, bridgeVars, VoiceInv
<1>20. ASSUME Unverified PROVE VoiceInv'
  BY <1>20 DEF Unverified, At, bridgeVars, VoiceInv
<1>21. ASSUME Incompatible PROVE VoiceInv'
  <2>1. ASSUME down # <<>>, down' = Tail(down) PROVE VoiceInv'
    BY <1>21, <1>types, <2>1, ReadVoice DEF Incompatible, At, Fails, Goes
  <2>2. QED
    BY <1>21, <2>1 DEF Incompatible, VoiceInv, At, Goes
<1>22. ASSUME Breaks PROVE VoiceInv'
  BY <1>22 DEF Breaks, Fails, Goes, bridgeVars, VoiceInv
<1>23. ASSUME CleanUp PROVE VoiceInv'
  BY <1>23 DEF CleanUp, Goes, bridgeVars, VoiceInv
<1>24. ASSUME Close PROVE VoiceInv'
  BY <1>24 DEF Close, Goes, bridgeVars, VoiceInv
<1>25. ASSUME BridgeStarts PROVE VoiceInv'
  BY SMTT(30), <1>25
     DEF BridgeStarts, Told, Writes, deviceVars, micVars, requestVars, bargeVars, outputVars,
         threadVars, VoiceInv
<1>26. ASSUME BridgeBegins PROVE VoiceInv'
  BY <1>26 DEF BridgeBegins, Serves, Writes, deviceVars, threadVars, VoiceInv
<1>27. ASSUME BridgeSpeaks PROVE VoiceInv'
  BY <1>27 DEF BridgeSpeaks, Serves, Writes, deviceVars, threadVars, bridgeVars, VoiceInv
<1>28. ASSUME BridgeEnds PROVE VoiceInv'
  BY <1>28 DEF BridgeEnds, Serves, Writes, deviceVars, threadVars, VoiceInv
<1>29. ASSUME BridgeHears PROVE VoiceInv'
  BY <1>29 DEF BridgeHears, Serves, Writes, deviceVars, threadVars, bridgeVars, VoiceInv
<1>30. ASSUME BridgeIsInterrupted PROVE VoiceInv'
  <2>1. /\ bridge = "open" /\ bridge' = "cancelling"
        /\ up # <<>> /\ up' = Tail(up) /\ UNCHANGED net
        /\ UNCHANGED down \/ down' = Append(down, [kind |-> "end", epoch |-> epoch])
    BY <1>30 DEF BridgeIsInterrupted, EndsEpoch, Writes, Told, deviceVars, threadVars
  <2>2. /\ \A i \in DOMAIN down : down[i].kind \notin {"fresh", "stopped"}
        /\ \A i \in DOMAIN up : up[i] # "start"
    BY <2>1 DEF VoiceInv
  <2>3. net' \notin {"new", "connecting"}
    BY <2>1 DEF VoiceInv
  <2>4. \A i \in DOMAIN down' : down'[i].kind \notin {"fresh", "stopped"}
    BY <1>types, <2>1, <2>2 DEF DownType
  <2>5. \A i \in DOMAIN up' : up'[i] # "start"
    BY <1>types, <2>1, <2>2, TailPlaces DEF UpType
  <2>6. QED
    BY <2>1, <2>3, <2>4, <2>5 DEF VoiceInv
<1>31. ASSUME BridgeCancelled PROVE VoiceInv'
  BY <1>31 DEF BridgeCancelled, EndsEpoch, Writes, deviceVars, threadVars, VoiceInv
<1>32. ASSUME BridgeResumes PROVE VoiceInv'
  BY <1>32 DEF BridgeResumes, Writes, deviceVars, threadVars, VoiceInv
<1>33. ASSUME BridgeGivesUp PROVE VoiceInv'
  BY <1>33 DEF BridgeGivesUp, Writes, deviceVars, threadVars, VoiceInv
<1>34. ASSUME BridgeIsStopped PROVE VoiceInv'
  BY <1>34 DEF BridgeIsStopped, Told, deviceVars, threadVars, VoiceInv
<1>35. ASSUME BridgeLeaves PROVE VoiceInv'
  BY <1>35 DEF BridgeLeaves, Serves, Writes, deviceVars, threadVars, VoiceInv
<1>36. CASE UNCHANGED vars
  BY <1>36
     DEF vars, micVars, requestVars, bargeVars, outputVars, threadVars, bridgeVars, VoiceInv
<1> QED
  BY <1>1, <1>2, <1>3, <1>4, <1>5, <1>6, <1>7, <1>8, <1>9, <1>10, <1>11, <1>12, <1>13, <1>14,
     <1>15, <1>16, <1>17, <1>18, <1>19, <1>20, <1>21, <1>22, <1>23, <1>24, <1>25, <1>26,
     <1>27, <1>28, <1>29, <1>30, <1>31, <1>32, <1>33, <1>34, <1>35, <1>36
     DEF Next, Network, Startup, Attend, Read, Ending, Bridge

(* The player plays the epoch that is open, or a tail.                     *)
LEMMA PlayerStep ==
    TypeOK /\ WireInv /\ RequestInv /\ PlayerInv /\ [Next]_vars => PlayerInv'
<1> SUFFICES ASSUME TypeOK, WireInv, RequestInv, PlayerInv, [Next]_vars PROVE PlayerInv'
  OBVIOUS
<1>types. EpochType /\ PlayerType /\ PlaceType
  BY TypeParts
<1>1. ASSUME NEW frame \in {"quiet", "speech"}, Submit(frame)
      PROVE  PlayerInv'
  <2>1. UNCHANGED <<output, player, silenced, net, last, local>>
    BY <1>1
       DEF Submit, micVars, requestVars, bargeVars, outputVars, threadVars, bridgeVars,
           deviceVars
  <2>2. QED
    BY <2>1 DEF PlayerInv
<1>2. ASSUME Detect \/ DeadlinePasses \/ Bridge
      PROVE  PlayerInv'
  <2>1. UNCHANGED <<output, player, silenced, net, last, local>>
    BY <1>2, BridgeMoves
       DEF Detect, DeadlinePasses, micVars, requestVars, bargeVars, outputVars, threadVars,
           bridgeVars, deviceVars
  <2>2. QED
    BY <2>1 DEF PlayerInv
<1>3. ASSUME NEW keep \in BOOLEAN, Interrupt(keep) PROVE PlayerInv'
  BY <1>3 DEF Interrupt, ResetsDetection, outputVars, threadVars, PlayerInv
<1>4. ASSUME Stop PROVE PlayerInv'
  BY <1>4 DEF Stop, ResetsDetection, outputVars, threadVars, PlayerInv
<1>5. ASSUME Start PROVE PlayerInv'
  BY <1>5 DEF Start, bargeVars, outputVars, PlayerInv, RequestInv
<1>6. ASSUME Connect PROVE PlayerInv'
  BY <1>6 DEF Connect, At, Goes, bargeVars, outputVars, PlayerInv
<1>7. ASSUME Handshake PROVE PlayerInv'
  BY <1>7 DEF Handshake, At, Goes, bargeVars, outputVars, PlayerInv
<1>8. ASSUME Promote PROVE PlayerInv'
  BY <1>8 DEF Promote, At, Goes, bargeVars, outputVars, PlayerInv
<1>9. ASSUME AttendInterrupt PROVE PlayerInv'
  <2>1. /\ output' = 0 /\ player' = NoPlayer /\ last' = last
        /\ Cuts({output, player.epoch})
        /\ net' \notin {"beginning", "resuming"}
    BY <1>9 DEF AttendInterrupt, Goes
  <2>2. output \in 0..last /\ player.epoch \in 0..last
    BY <1>types, EpochFacts, PlayerFields DEF EpochType
  <2>3. silenced' \subseteq 1..last'
    BY <1>types, <2>1, <2>2, CutRange DEF PlayerInv
  <2>4. QED
    BY <2>1, <2>3 DEF PlayerInv, NoPlayer
<1>10. ASSUME AttendStop PROVE PlayerInv'
  <2>1. /\ UNCHANGED <<output, last>> /\ player' = NoPlayer
        /\ Cuts({output, player.epoch})
        /\ net' \notin {"beginning", "resuming"}
    BY <1>10 DEF AttendStop, Goes
  <2>2. output \in 0..last /\ player.epoch \in 0..last
    BY <1>types, EpochFacts, PlayerFields DEF EpochType
  <2>3. silenced' \subseteq 1..last'
    BY <1>types, <2>1, <2>2, CutRange DEF PlayerInv
  <2>4. QED
    BY <2>1, <2>3 DEF PlayerInv, NoPlayer
<1>11. ASSUME AttendBargeIn PROVE PlayerInv'
  <2>1. last' = last /\ net = "top" /\ net' = "serving"
    BY <1>11 DEF AttendBargeIn, At, Goes
  <2>2. CASE BargesIn
    <3>1. /\ output' = 0 /\ player' = NoPlayer
          /\ silenced' = silenced \cup ({asked} \ {0})
      BY <1>11, <2>2 DEF AttendBargeIn, Cuts
    <3>2. silenced' \subseteq 1..last'
      BY <1>types, <2>1, <2>2, <3>1, EpochFacts DEF PlayerInv, BargesIn, EpochType
    <3>3. QED
      BY <2>1, <3>1, <3>2 DEF PlayerInv, NoPlayer
  <2>3. CASE ~BargesIn
    <3>1. UNCHANGED <<output, local, player, silenced>>
      BY <1>11, <2>3 DEF AttendBargeIn
    <3>2. QED
      BY <2>1, <3>1 DEF PlayerInv
  <2>4. QED
    BY <2>2, <2>3
<1>12. ASSUME Serve PROVE PlayerInv'
  <2>1. /\ UNCHANGED <<output, last, silenced>> /\ net = "serving" /\ net' = "reading"
        /\ player' \in Serviced(player)
        /\ local' = local \/ ~Active(player')
    BY <1>12 DEF Serve, SetsLocal, bargeVars, At, Goes
  <2>2. \/ player' = NoPlayer
        \/ player'.epoch = player.epoch /\ player'.pending \subseteq player.pending
    BY <1>types, <2>1 DEF Serviced, PlayerType, Players
  <2>3. NoPlayer.epoch = 0 /\ NoPlayer.pending = {}
    BY DEF NoPlayer
  <2>4. QED
    BY <2>1, <2>2, <2>3 DEF PlayerInv, Active
<1>13. ASSUME ReadNothing PROVE PlayerInv'
  BY <1>13 DEF ReadNothing, At, Goes, bargeVars, outputVars, PlayerInv
<1>14. ASSUME ReadFrame PROVE PlayerInv'
  <2>1. Live /\ down # <<>> /\ OfEpoch(Head(down)) /\ Head(down).kind # "begin"
    BY <1>14 DEF ReadFrame, Reads, At, Live, OfEpoch
  <2>2. Head(down).epoch = last
    BY <2>1, HeadOfEpoch DEF WireInv
  <2>3. /\ UNCHANGED <<output, local, last, silenced>>
        /\ net = "reading" /\ net' \in {"top", "ending"}
        /\ \/ UNCHANGED player
           \/ output # 0 /\ player.epoch # 0 /\ player' = Enqueued(player, Head(down).epoch)
    BY <1>14 DEF ReadFrame, Reads, bargeVars, At, Goes, Accepts, Survives, Refuses, Fails, Active
  <2>4. CASE UNCHANGED player
    BY <2>3, <2>4 DEF PlayerInv
  <2>5. CASE output # 0 /\ player.epoch # 0 /\ player' = Enqueued(player, last)
    <3>1. player'.epoch = player.epoch /\ player'.pending = player.pending \cup {last}
      BY <1>types, <2>5 DEF PlayerType, Players, Enqueued
    <3>2. player.epoch = last
      BY <1>types, <2>5 DEF PlayerInv, EpochType
    <3>3. QED
      BY <2>3, <3>1, <3>2 DEF PlayerInv
  <2>6. QED
    BY <2>2, <2>3, <2>4, <2>5
<1>15. ASSUME ReadBegin PROVE PlayerInv'
  <2>1. Live /\ down # <<>> /\ OfEpoch(Head(down)) /\ Head(down).kind = "begin" /\ net = "reading"
    BY <1>15 DEF ReadBegin, Reads, At, Live, OfEpoch
  <2>2. Head(down).epoch \in last..epoch /\ Head(down).epoch > last
    BY <2>1, HeadOfEpoch DEF WireInv
  <2>3. UNCHANGED <<output, player, silenced>>
    BY <1>15 DEF ReadBegin
  <2>4. \/ UNCHANGED <<local, last>> /\ net' = "ending"
        \/ last' = Head(down).epoch /\ net' = "beginning" /\ output = 0
    BY <1>15, <1>types, <2>2, EpochFacts
       DEF ReadBegin, bargeVars, Accepts, Refuses, Survives, Fails, Goes
  <2>5. CASE UNCHANGED <<local, last>> /\ net' = "ending"
    BY <2>1, <2>3, <2>5 DEF PlayerInv
  <2>6. CASE last' = Head(down).epoch /\ net' = "beginning" /\ output = 0
    <3>1. silenced' \subseteq 1..last' /\ last' \notin silenced'
      BY <1>types, <2>2, <2>3, <2>6, EpochFacts DEF PlayerInv
    <3>2. QED
      BY <2>3, <2>6, <3>1 DEF PlayerInv
  <2>7. QED
    BY <2>4, <2>5, <2>6
<1>16. ASSUME ReadEnd PROVE PlayerInv'
  <2>1. /\ UNCHANGED <<local, last, silenced>> /\ net = "reading" /\ net' \in {"top", "ending"}
        /\ output' = output \/ output' = 0
        /\ player' \in {player} \cup Serviced(Finished(player))
    BY <1>16 DEF ReadEnd, Reads, bargeVars, At, Goes, Accepts, Survives, Refuses, Fails
  <2>2. Finished(player) \in Players(last) /\ Finished(player).epoch = player.epoch
        /\ Finished(player).pending = player.pending
    BY <1>types, PlayerForms DEF PlayerType, Players, Finished
  <2>3. \/ player' = NoPlayer
        \/ player'.epoch = player.epoch /\ player'.pending \subseteq player.pending
    BY <1>types, <2>1, <2>2 DEF Serviced, Players
  <2>4. NoPlayer.epoch = 0 /\ NoPlayer.pending = {}
    BY DEF NoPlayer
  <2>5. QED
    BY <2>1, <2>3, <2>4 DEF PlayerInv
<1>17. ASSUME ReadSpeech PROVE PlayerInv'
  <2>1. /\ last' = last /\ net = "reading" /\ net' = "top"
        /\ \/ /\ output' = 0 /\ player' = NoPlayer
              /\ silenced' = silenced \cup ({IF output # 0 THEN output ELSE last} \ {0})
           \/ UNCHANGED <<output, local, player, silenced>>
    BY <1>17 DEF ReadSpeech, Reads, bargeVars, Cuts, At, Goes, Accepts, Survives
  <2>2. CASE UNCHANGED <<output, local, player, silenced>>
    BY <2>1, <2>2 DEF PlayerInv
  <2>3. CASE /\ output' = 0 /\ player' = NoPlayer
             /\ silenced' = silenced \cup ({IF output # 0 THEN output ELSE last} \ {0})
    <3>1. silenced' \subseteq 1..last'
      BY <1>types, <2>1, <2>3, EpochFacts DEF PlayerInv, EpochType
    <3>2. QED
      BY <2>1, <2>3, <3>1 DEF PlayerInv, NoPlayer
  <2>4. QED
    BY <2>1, <2>2, <2>3
<1>18. ASSUME NEW kind \in {"resumed", "fresh", "stopped"}, ReadStopped(kind) PROVE PlayerInv'
  <2>1. /\ output' = 0 /\ player' = NoPlayer /\ last' = last
        /\ Cuts({output, player.epoch})
        /\ net' # "beginning"
    BY <1>18 DEF ReadStopped, Goes, Accepts, Survives
  <2>2. output \in 0..last /\ player.epoch \in 0..last
    BY <1>types, EpochFacts, PlayerFields DEF EpochType
  <2>3. silenced' \subseteq 1..last'
    BY <1>types, <2>1, <2>2, CutRange DEF PlayerInv
  <2>4. QED
    BY <2>1, <2>3 DEF PlayerInv, NoPlayer
<1>19. ASSUME Begin PROVE PlayerInv'
  BY <1>19 DEF Begin, At, Goes, Restarted, NoPlayer, SetsLocal, PlayerInv
<1>20. ASSUME Resume PROVE PlayerInv'
  BY <1>20 DEF Resume, At, Goes, PlayerInv
<1>21. ASSUME Unverified PROVE PlayerInv'
  BY <1>21 DEF Unverified, Fails, Goes, outputVars, PlayerInv
<1>22. ASSUME Incompatible PROVE PlayerInv'
  BY <1>22 DEF Incompatible, Fails, Goes, outputVars, PlayerInv
<1>23. ASSUME Breaks PROVE PlayerInv'
  BY <1>23 DEF Breaks, Fails, Goes, outputVars, PlayerInv
<1>24. ASSUME CleanUp PROVE PlayerInv'
  BY <1>24 DEF CleanUp, Goes, NoPlayer, PlayerInv
<1>25. ASSUME Close PROVE PlayerInv'
  BY <1>25 DEF Close, At, Goes, bargeVars, outputVars, PlayerInv
<1>26. CASE UNCHANGED vars
  BY <1>26
     DEF vars, micVars, requestVars, bargeVars, outputVars, threadVars, bridgeVars, PlayerInv
<1> QED
  BY <1>1, <1>2, <1>3, <1>4, <1>5, <1>6, <1>7, <1>8, <1>9, <1>10, <1>11, <1>12, <1>13, <1>14,
     <1>15, <1>16, <1>17, <1>18, <1>19, <1>20, <1>21, <1>22, <1>23, <1>24, <1>25, <1>26
     DEF Next, Network, Startup, Attend, Read, Ending

(* Speech counts for the epoch in which it was heard.                      *)
LEMMA MicStep ==
    TypeOK /\ MicInv /\ [Next]_vars => MicInv'
<1> SUFFICES ASSUME TypeOK, MicInv, [Next]_vars PROVE MicInv'
  OBVIOUS
<1>1. ASSUME Start \/ Connect \/ Handshake \/ Promote \/ ReadNothing \/ ReadFrame \/ ReadEnd
                \/ Unverified \/ Incompatible \/ Breaks \/ Close \/ DeadlinePasses \/ Bridge
      PROVE  MicInv'
  <2>1. UNCHANGED <<count, local, mic, talked, asked>>
    BY <1>1, BridgeMoves
       DEF Start, Connect, Handshake, Promote, ReadNothing, ReadFrame, ReadEnd, Unverified,
           Incompatible, Breaks, Close, DeadlinePasses, Reads, micVars, requestVars,
           bargeVars, outputVars, threadVars, bridgeVars, deviceVars
  <2>2. QED
    BY <2>1 DEF MicInv
<1>2. ASSUME NEW frame \in {"quiet", "speech"}, Submit(frame) PROVE MicInv'
  BY <1>2 DEF Submit, bargeVars, MicInv
<1>3. ASSUME Detect PROVE MicInv'
  BY <1>3 DEF Detect, BargeInFrames, MicInv, TypeOK
<1>4. ASSUME NEW keep \in BOOLEAN, Interrupt(keep) PROVE MicInv'
  BY <1>4 DEF Interrupt, ResetsDetection, MicInv
<1>5. ASSUME Stop PROVE MicInv'
  BY <1>5 DEF Stop, ResetsDetection, MicInv
<1>6. ASSUME AttendInterrupt PROVE MicInv'
  BY <1>6 DEF AttendInterrupt, SetsLocal, MicInv
<1>7. ASSUME AttendStop PROVE MicInv'
  BY <1>7 DEF AttendStop, SetsLocal, MicInv
<1>8. ASSUME AttendBargeIn PROVE MicInv'
  BY <1>8 DEF AttendBargeIn, BargesIn, micVars, MicInv
<1>9. ASSUME Serve PROVE MicInv'
  BY <1>9 DEF Serve, SetsLocal, bargeVars, MicInv
<1>10. ASSUME ReadBegin PROVE MicInv'
  BY <1>10 DEF ReadBegin, Reads, micVars, bargeVars, SetsLocal, MicInv
<1>11. ASSUME ReadSpeech PROVE MicInv'
  BY <1>11 DEF ReadSpeech, Reads, micVars, SetsLocal, bargeVars, MicInv
<1>12. ASSUME NEW kind \in {"resumed", "fresh", "stopped"}, ReadStopped(kind) PROVE MicInv'
  BY <1>12 DEF ReadStopped, SetsLocal, MicInv
<1>13. ASSUME Begin PROVE MicInv'
  BY <1>13 DEF Begin, SetsLocal, MicInv
<1>14. ASSUME Resume PROVE MicInv'
  BY <1>14 DEF Resume, SetsLocal, MicInv
<1>15. ASSUME CleanUp PROVE MicInv'
  BY <1>15 DEF CleanUp, SetsLocal, MicInv
<1>16. CASE UNCHANGED vars
  BY <1>16
     DEF vars, micVars, requestVars, bargeVars, outputVars, threadVars, bridgeVars, MicInv
<1> QED
  BY <1>1, <1>2, <1>3, <1>4, <1>5, <1>6, <1>7, <1>8, <1>9, <1>10, <1>11, <1>12, <1>13, <1>14,
     <1>15, <1>16
     DEF Next, Network, Startup, Attend, Read, Ending

(* While an interrupt is pending nothing is admitted.                      *)
LEMMA RequestStep ==
    TypeOK /\ RequestInv /\ [Next]_vars => RequestInv'
<1> SUFFICES ASSUME TypeOK, RequestInv, [Next]_vars PROVE RequestInv'
  OBVIOUS
<1>types. FlagType /\ PlaceType /\ QueueType
  BY TypeParts
<1>1. ASSUME Detect \/ DeadlinePasses \/ Bridge
      PROVE  RequestInv'
  <2>1. UNCHANGED <<state, net, interruptSent, interruptAsked, era, interrupts, queue>>
    BY <1>1, BridgeMoves
       DEF Detect, DeadlinePasses, micVars, requestVars, bargeVars, outputVars, threadVars,
           bridgeVars, deviceVars
  <2>2. QED
    BY <2>1 DEF RequestInv
<1>2. ASSUME NEW frame \in {"quiet", "speech"}, Submit(frame) PROVE RequestInv'
  BY <1>2 DEF Submit, requestVars, threadVars, RequestInv
<1>3. ASSUME NEW keep \in BOOLEAN, Interrupt(keep) PROVE RequestInv'
  <2>1. /\ UNCHANGED <<net, interruptSent>> /\ queue' = <<>>
        /\ interruptAsked' = TRUE /\ interrupts' = interrupts + 1 /\ era' = era + 1
        /\ state' = IF state \in {"CONNECTING", "READY"} THEN "STOPPING" ELSE state
    BY <1>3 DEF Interrupt, StopsAdmission, threadVars
  <2>2. /\ state' = "NEW" <=> net' = "new"
        /\ interruptAsked' /\ net' \in Ready =>
              state' \notin {"CONNECTING", "READY"} /\ queue' = <<>>
        /\ \A i \in DOMAIN queue' : queue'[i] = era'
    BY <2>1 DEF RequestInv
  <2>3. era' + (IF interruptAsked' THEN 1 ELSE 0) <= 2 * interrupts'
    <3>1. era \in Nat /\ interrupts \in Nat /\ era <= 2 * interrupts
      BY <1>types, BoundsAssumption DEF QueueType, RequestInv
    <3>2. QED
      BY <2>1, <3>1
  <2>4. (interruptSent' => interruptAsked') /\ (net' = "resuming" => interruptSent')
    BY <2>1 DEF RequestInv
  <2>5. QED
    BY <2>2, <2>3, <2>4 DEF RequestInv
<1>4. ASSUME Stop PROVE RequestInv'
  BY <1>4 DEF Stop, StopsAdmission, threadVars, RequestInv
<1>5. ASSUME Start PROVE RequestInv'
  <2>1. /\ UNCHANGED <<requestVars, interruptSent, queue>>
        /\ state' = "CONNECTING" /\ net' = "connecting"
    BY <1>5 DEF Start, micVars
  <2>2. (interruptSent' => interruptAsked) /\ net' \notin Ready
    BY <2>1 DEF RequestInv, Ready, Running
  <2>3. QED
    BY <1>types, <2>1, <2>2, CalmRequests
<1>6. ASSUME Connect PROVE RequestInv'
  <2>1. /\ UNCHANGED requestVars
        /\ state' = state \/ state' \notin {"NEW", "CONNECTING", "READY"}
        /\ queue' \in {queue, <<>>} \/ (queue # <<>> /\ queue' = Tail(queue))
    BY <1>6 DEF Connect, micVars, requestVars
  <2>2. /\ interruptSent' => interruptAsked
        /\ net' = "resuming" => interruptSent'
        /\ state' = "NEW" <=> net' = "new"
        /\ interruptAsked /\ net' \in Ready => net \in Ready
    BY <1>6, <1>types DEF Connect, At, Goes, requestVars, RequestInv, Ready, Running, PlaceType
  <2>3. QED
    BY <1>types, <2>1, <2>2, CalmRequests
<1>7. ASSUME Handshake PROVE RequestInv'
  <2>1. /\ UNCHANGED requestVars
        /\ state' = state \/ state' \notin {"NEW", "CONNECTING", "READY"}
        /\ queue' \in {queue, <<>>} \/ (queue # <<>> /\ queue' = Tail(queue))
    BY <1>7 DEF Handshake, micVars, requestVars
  <2>2. /\ interruptSent' => interruptAsked
        /\ net' = "resuming" => interruptSent'
        /\ state' = "NEW" <=> net' = "new"
        /\ interruptAsked /\ net' \in Ready => net \in Ready
    BY <1>7, <1>types DEF Handshake, At, Goes, requestVars, RequestInv, Ready, Running, PlaceType
  <2>3. QED
    BY <1>types, <2>1, <2>2, CalmRequests
<1>8. ASSUME Promote PROVE RequestInv'
  <2>1. /\ UNCHANGED <<requestVars, interruptSent, queue>> /\ net = "promoting" /\ net' = "top"
        /\ state' = IF state = "CONNECTING" THEN "READY" ELSE state
    BY <1>8 DEF Promote, micVars, At, Goes
  <2>2. /\ interruptSent' => interruptAsked
        /\ state' = "NEW" <=> net' = "new"
        /\ state' \in {"CONNECTING", "READY"} => state \in {"CONNECTING", "READY"}
        /\ net \in Ready
    BY <1>types, <2>1 DEF RequestInv, Ready
  <2>3. QED
    BY <1>types, <2>1, <2>2, CalmRequests
<1>9. ASSUME AttendInterrupt PROVE RequestInv'
  <2>1. /\ UNCHANGED requestVars
        /\ state' = state \/ state' \notin {"NEW", "CONNECTING", "READY"}
        /\ queue' \in {queue, <<>>} \/ (queue # <<>> /\ queue' = Tail(queue))
    BY <1>9 DEF AttendInterrupt, micVars, requestVars
  <2>2. /\ interruptSent' => interruptAsked
        /\ net' = "resuming" => interruptSent'
        /\ state' = "NEW" <=> net' = "new"
        /\ interruptAsked /\ net' \in Ready => net \in Ready
    BY <1>9, <1>types
       DEF AttendInterrupt, At, Goes, requestVars, RequestInv, Ready, Running, PlaceType
  <2>3. QED
    BY <1>types, <2>1, <2>2, CalmRequests
<1>10. ASSUME AttendStop PROVE RequestInv'
  <2>1. /\ UNCHANGED requestVars
        /\ state' = state \/ state' \notin {"NEW", "CONNECTING", "READY"}
        /\ queue' \in {queue, <<>>} \/ (queue # <<>> /\ queue' = Tail(queue))
    BY <1>10 DEF AttendStop, micVars, requestVars
  <2>2. /\ interruptSent' => interruptAsked
        /\ net' = "resuming" => interruptSent'
        /\ state' = "NEW" <=> net' = "new"
        /\ interruptAsked /\ net' \in Ready => net \in Ready
    BY <1>10, <1>types
       DEF AttendStop, At, Goes, requestVars, RequestInv, Ready, Running, PlaceType
  <2>3. QED
    BY <1>types, <2>1, <2>2, CalmRequests
<1>11. ASSUME AttendBargeIn PROVE RequestInv'
  <2>1. /\ UNCHANGED requestVars
        /\ state' = state \/ state' \notin {"NEW", "CONNECTING", "READY"}
        /\ queue' \in {queue, <<>>} \/ (queue # <<>> /\ queue' = Tail(queue))
    BY <1>11 DEF AttendBargeIn, micVars, requestVars
  <2>2. /\ interruptSent' => interruptAsked
        /\ net' = "resuming" => interruptSent'
        /\ state' = "NEW" <=> net' = "new"
        /\ interruptAsked /\ net' \in Ready => net \in Ready
    BY <1>11, <1>types
       DEF AttendBargeIn, At, Goes, requestVars, RequestInv, Ready, Running, PlaceType
  <2>3. QED
    BY <1>types, <2>1, <2>2, CalmRequests
<1>12. ASSUME Serve PROVE RequestInv'
  <2>1. /\ UNCHANGED requestVars
        /\ state' = state \/ state' \notin {"NEW", "CONNECTING", "READY"}
        /\ queue' \in {queue, <<>>} \/ (queue # <<>> /\ queue' = Tail(queue))
    BY <1>12 DEF Serve, micVars, requestVars
  <2>2. /\ interruptSent' => interruptAsked
        /\ net' = "resuming" => interruptSent'
        /\ state' = "NEW" <=> net' = "new"
        /\ interruptAsked /\ net' \in Ready => net \in Ready
    BY <1>12, <1>types DEF Serve, At, Goes, requestVars, RequestInv, Ready, Running, PlaceType
  <2>3. QED
    BY <1>types, <2>1, <2>2, CalmRequests
<1>13. ASSUME ReadNothing PROVE RequestInv'
  <2>1. /\ UNCHANGED requestVars
        /\ state' = state \/ state' \notin {"NEW", "CONNECTING", "READY"}
        /\ queue' \in {queue, <<>>} \/ (queue # <<>> /\ queue' = Tail(queue))
    BY <1>13 DEF ReadNothing, micVars, requestVars
  <2>2. /\ interruptSent' => interruptAsked
        /\ net' = "resuming" => interruptSent'
        /\ state' = "NEW" <=> net' = "new"
        /\ interruptAsked /\ net' \in Ready => net \in Ready
    BY <1>13, <1>types
       DEF ReadNothing, At, Goes, requestVars, RequestInv, Ready, Running, PlaceType
  <2>3. QED
    BY <1>types, <2>1, <2>2, CalmRequests
<1>14. ASSUME ReadFrame PROVE RequestInv'
  <2>1. /\ UNCHANGED requestVars
        /\ state' = state \/ state' \notin {"NEW", "CONNECTING", "READY"}
        /\ queue' \in {queue, <<>>} \/ (queue # <<>> /\ queue' = Tail(queue))
    BY <1>14 DEF ReadFrame, Reads, micVars, requestVars
  <2>2. /\ interruptSent' => interruptAsked
        /\ net' = "resuming" => interruptSent'
        /\ state' = "NEW" <=> net' = "new"
        /\ interruptAsked /\ net' \in Ready => net \in Ready
    BY <1>14, <1>types
       DEF ReadFrame, Reads, At, Accepts, Survives, Goes, Fails, Refuses, requestVars,
           RequestInv, Ready, Running, PlaceType
  <2>3. QED
    BY <1>types, <2>1, <2>2, CalmRequests
<1>15. ASSUME ReadBegin PROVE RequestInv'
  <2>1. /\ UNCHANGED requestVars
        /\ state' = state \/ state' \notin {"NEW", "CONNECTING", "READY"}
        /\ queue' \in {queue, <<>>} \/ (queue # <<>> /\ queue' = Tail(queue))
    BY <1>15 DEF ReadBegin, Reads, micVars, requestVars
  <2>2. /\ interruptSent' => interruptAsked
        /\ net' = "resuming" => interruptSent'
        /\ state' = "NEW" <=> net' = "new"
        /\ interruptAsked /\ net' \in Ready => net \in Ready
    BY <1>15, <1>types
       DEF ReadBegin, Reads, At, Accepts, Survives, Goes, Refuses, Fails, requestVars,
           RequestInv, Ready, Running, PlaceType
  <2>3. QED
    BY <1>types, <2>1, <2>2, CalmRequests
<1>16. ASSUME ReadEnd PROVE RequestInv'
  <2>1. /\ UNCHANGED requestVars
        /\ state' = state \/ state' \notin {"NEW", "CONNECTING", "READY"}
        /\ queue' \in {queue, <<>>} \/ (queue # <<>> /\ queue' = Tail(queue))
    BY <1>16 DEF ReadEnd, Reads, micVars, requestVars
  <2>2. /\ interruptSent' => interruptAsked
        /\ net' = "resuming" => interruptSent'
        /\ state' = "NEW" <=> net' = "new"
        /\ interruptAsked /\ net' \in Ready => net \in Ready
    BY <1>16, <1>types
       DEF ReadEnd, Reads, At, Accepts, Survives, Goes, Refuses, Fails, requestVars,
           RequestInv, Ready, Running, PlaceType
  <2>3. QED
    BY <1>types, <2>1, <2>2, CalmRequests
<1>17. ASSUME ReadSpeech PROVE RequestInv'
  <2>1. /\ UNCHANGED requestVars
        /\ state' = state \/ state' \notin {"NEW", "CONNECTING", "READY"}
        /\ queue' \in {queue, <<>>} \/ (queue # <<>> /\ queue' = Tail(queue))
    BY <1>17 DEF ReadSpeech, Reads, micVars, requestVars
  <2>2. /\ interruptSent' => interruptAsked
        /\ net' = "resuming" => interruptSent'
        /\ state' = "NEW" <=> net' = "new"
        /\ interruptAsked /\ net' \in Ready => net \in Ready
    BY <1>17, <1>types
       DEF ReadSpeech, Reads, At, Accepts, Survives, Goes, requestVars, RequestInv, Ready,
           Running, PlaceType
  <2>3. QED
    BY <1>types, <2>1, <2>2, CalmRequests
<1>18. ASSUME NEW kind \in {"resumed", "fresh", "stopped"}, ReadStopped(kind)
      PROVE  RequestInv'
  <2>1. /\ UNCHANGED requestVars
        /\ state' = state \/ state' \notin {"NEW", "CONNECTING", "READY"}
        /\ queue' \in {queue, <<>>} \/ (queue # <<>> /\ queue' = Tail(queue))
    BY <1>18 DEF ReadStopped, Reads, micVars, requestVars
  <2>2. /\ interruptSent' => interruptAsked
        /\ net' = "resuming" => interruptSent'
        /\ state' = "NEW" <=> net' = "new"
        /\ interruptAsked /\ net' \in Ready => net \in Ready
    BY <1>18, <1>types
       DEF ReadStopped, Reads, At, Accepts, Survives, Goes, requestVars, RequestInv, Ready,
           Running, PlaceType
  <2>3. QED
    BY <1>types, <2>1, <2>2, CalmRequests
<1>19. ASSUME Begin PROVE RequestInv'
  <2>1. /\ UNCHANGED requestVars
        /\ state' = state \/ state' \notin {"NEW", "CONNECTING", "READY"}
        /\ queue' \in {queue, <<>>} \/ (queue # <<>> /\ queue' = Tail(queue))
    BY <1>19 DEF Begin, micVars, requestVars
  <2>2. /\ interruptSent' => interruptAsked
        /\ net' = "resuming" => interruptSent'
        /\ state' = "NEW" <=> net' = "new"
        /\ interruptAsked /\ net' \in Ready => net \in Ready
    BY <1>19, <1>types DEF Begin, At, Goes, requestVars, RequestInv, Ready, Running, PlaceType
  <2>3. QED
    BY <1>types, <2>1, <2>2, CalmRequests
<1>20. ASSUME Resume PROVE RequestInv'
  <2>1. net = "resuming" /\ interruptSent /\ interruptAsked /\ queue = <<>>
    BY <1>20 DEF Resume, At, RequestInv, Ready, Running
  <2>2. CASE preserve
    <3>1. /\ UNCHANGED <<queue, interrupts>> /\ net' = "top"
          /\ ~interruptAsked' /\ ~interruptSent'
          /\ era' = era + 1
          /\ state' \in {state, "READY"}
      BY <1>20, <2>2 DEF Resume, MayResume, micVars, Goes
    <3>2. era' <= 2 * interrupts'
      BY <1>types, <2>1, <3>1, BoundsAssumption DEF QueueType, RequestInv
    <3>3. state' = "NEW" <=> net' = "new"
      BY <2>1, <3>1 DEF RequestInv
    <3>4. QED
      BY <1>types, <2>1, <3>1, <3>2, <3>3 DEF RequestInv, QueueType
  <2>3. CASE ~preserve
    <3>1. UNCHANGED <<requestVars, interruptSent, state, queue>> /\ net' = "ending"
      BY <1>20, <2>3 DEF Resume, MayResume, micVars, requestVars, Goes
    <3>2. net' \notin Ready /\ (state' = "NEW" <=> net' = "new")
      BY <2>1, <3>1 DEF RequestInv, Ready, Running
    <3>3. QED
      BY <1>types, <2>1, <3>1, <3>2, CalmRequests
  <2>4. QED
    BY <1>types, <2>2, <2>3 DEF FlagType
<1>21. ASSUME Unverified PROVE RequestInv'
  <2>1. /\ UNCHANGED requestVars
        /\ state' = state \/ state' \notin {"NEW", "CONNECTING", "READY"}
        /\ queue' \in {queue, <<>>} \/ (queue # <<>> /\ queue' = Tail(queue))
    BY <1>21 DEF Unverified, micVars, requestVars
  <2>2. /\ interruptSent' => interruptAsked
        /\ net' = "resuming" => interruptSent'
        /\ state' = "NEW" <=> net' = "new"
        /\ interruptAsked /\ net' \in Ready => net \in Ready
    BY <1>21, <1>types
       DEF Unverified, At, Fails, Goes, requestVars, RequestInv, Ready, Running, PlaceType
  <2>3. QED
    BY <1>types, <2>1, <2>2, CalmRequests
<1>22. ASSUME Incompatible PROVE RequestInv'
  <2>1. /\ UNCHANGED requestVars
        /\ state' = state \/ state' \notin {"NEW", "CONNECTING", "READY"}
        /\ queue' \in {queue, <<>>} \/ (queue # <<>> /\ queue' = Tail(queue))
    BY <1>22 DEF Incompatible, micVars, requestVars
  <2>2. /\ interruptSent' => interruptAsked
        /\ net' = "resuming" => interruptSent'
        /\ state' = "NEW" <=> net' = "new"
        /\ interruptAsked /\ net' \in Ready => net \in Ready
    BY <1>22, <1>types
       DEF Incompatible, At, Fails, Goes, requestVars, RequestInv, Ready, Running, PlaceType
  <2>3. QED
    BY <1>types, <2>1, <2>2, CalmRequests
<1>23. ASSUME Breaks PROVE RequestInv'
  <2>1. /\ UNCHANGED requestVars
        /\ state' = state \/ state' \notin {"NEW", "CONNECTING", "READY"}
        /\ queue' \in {queue, <<>>} \/ (queue # <<>> /\ queue' = Tail(queue))
    BY <1>23 DEF Breaks, micVars, requestVars
  <2>2. /\ interruptSent' => interruptAsked
        /\ net' = "resuming" => interruptSent'
        /\ state' = "NEW" <=> net' = "new"
        /\ interruptAsked /\ net' \in Ready => net \in Ready
    BY <1>23, <1>types DEF Breaks, Fails, Goes, requestVars, RequestInv, Ready, Running, PlaceType
  <2>3. QED
    BY <1>types, <2>1, <2>2, CalmRequests
<1>24. ASSUME CleanUp PROVE RequestInv'
  <2>1. /\ UNCHANGED requestVars
        /\ state' = state \/ state' \notin {"NEW", "CONNECTING", "READY"}
        /\ queue' \in {queue, <<>>} \/ (queue # <<>> /\ queue' = Tail(queue))
    BY <1>24 DEF CleanUp, micVars, requestVars
  <2>2. /\ interruptSent' => interruptAsked
        /\ net' = "resuming" => interruptSent'
        /\ state' = "NEW" <=> net' = "new"
        /\ interruptAsked /\ net' \in Ready => net \in Ready
    BY <1>24, <1>types DEF CleanUp, At, Goes, requestVars, RequestInv, Ready, Running, PlaceType
  <2>3. QED
    BY <1>types, <2>1, <2>2, CalmRequests
<1>25. ASSUME Close PROVE RequestInv'
  <2>1. /\ UNCHANGED requestVars
        /\ state' = state \/ state' \notin {"NEW", "CONNECTING", "READY"}
        /\ queue' \in {queue, <<>>} \/ (queue # <<>> /\ queue' = Tail(queue))
    BY <1>25 DEF Close, micVars, requestVars
  <2>2. /\ interruptSent' => interruptAsked
        /\ net' = "resuming" => interruptSent'
        /\ state' = "NEW" <=> net' = "new"
        /\ interruptAsked /\ net' \in Ready => net \in Ready
    BY <1>25, <1>types
       DEF Close, At, StateLockIsFree, Goes, requestVars, RequestInv, Ready, Running,
           PlaceType
  <2>3. QED
    BY <1>types, <2>1, <2>2, CalmRequests
<1>26. CASE UNCHANGED vars
  BY <1>26
     DEF vars, micVars, requestVars, bargeVars, outputVars, threadVars, bridgeVars, RequestInv
<1> QED
  BY <1>1, <1>2, <1>3, <1>4, <1>5, <1>6, <1>7, <1>8, <1>9, <1>10, <1>11, <1>12, <1>13, <1>14,
     <1>15, <1>16, <1>17, <1>18, <1>19, <1>20, <1>21, <1>22, <1>23, <1>24, <1>25, <1>26
     DEF Next, Network, Startup, Attend, Read, Ending

(* An epoch message always fits.                                           *)
LEMMA FitStep ==
    TypeOK /\ WireInv /\ EndInv /\ CoverInv /\ VoiceInv /\ EpochsFit /\ [Next]_vars =>
       EpochsFit'
<1> SUFFICES ASSUME TypeOK, WireInv, EndInv, CoverInv, VoiceInv, EpochsFit, [Next]_vars
             PROVE  EpochsFit'
  OBVIOUS
<1>1. ASSUME NEW frame \in {"quiet", "speech"}, Submit(frame)
      PROVE  EpochsFit'
  <2>1. UNCHANGED <<broken, early>>
    BY <1>1
       DEF Submit, micVars, requestVars, bargeVars, outputVars, threadVars, bridgeVars,
           deviceVars
  <2>2. QED
    BY <2>1 DEF EpochsFit
<1>2. ASSUME Detect \/ Stop \/ Start \/ Connect \/ Handshake \/ Promote \/ AttendInterrupt \/
                AttendStop \/ AttendBargeIn \/ Serve \/ ReadNothing \/ Begin \/ Resume \/
                Unverified \/ Incompatible \/ Breaks \/ CleanUp \/ Close \/ DeadlinePasses
      PROVE  EpochsFit'
  <2>1. UNCHANGED <<broken, early>>
    BY <1>2
       DEF Detect, Stop, Start, Connect, Handshake, Promote, AttendInterrupt, AttendStop,
           AttendBargeIn, Serve, ReadNothing, Begin, Resume, Unverified, Incompatible, Breaks,
           CleanUp, Close, DeadlinePasses, micVars, requestVars, bargeVars, outputVars,
           threadVars, bridgeVars, deviceVars
  <2>2. QED
    BY <2>1 DEF EpochsFit
<1>3. ASSUME NEW keep \in BOOLEAN, Interrupt(keep)
      PROVE  EpochsFit'
  <2>1. UNCHANGED <<broken, early>>
    BY <1>3
       DEF Interrupt, micVars, requestVars, bargeVars, outputVars, threadVars, bridgeVars,
           deviceVars
  <2>2. QED
    BY <2>1 DEF EpochsFit
<1>4. ASSUME ReadFrame PROVE EpochsFit'
  <2>1. /\ down # <<>> /\ Continues /\ Ends /\ (~early => Covers)
        /\ Head(down).kind = "frame" /\ net = "reading" /\ early' = early
    BY <1>4 DEF ReadFrame, Reads, At, Live, WireInv, EndInv, CoverInv, bridgeVars
  <2>2. Head(down).epoch = last /\ last # 0 /\ output \in {0, last}
    BY <2>1, HeadOfEpoch, TypeParts, EpochFacts DEF OfEpoch, EpochType, Epochs
  <2>3. 1 \in DOMAIN down /\ Head(down) = down[1]
    BY <2>1, TypeParts, TailPlaces DEF DownType
  <2>4. ~early => output # 0 \/ suppressed # 0
    BY <2>1, <2>2, <2>3 DEF Covers, Sent, Covered
  <2>5. ~early => broken' = broken
    BY <1>4, <2>4 DEF ReadFrame, Accepts
  <2>6. QED
    BY <2>1, <2>5 DEF EpochsFit
<1>5. ASSUME ReadBegin PROVE EpochsFit'
  <2>1. /\ down # <<>> /\ Continues /\ Ends /\ (~early => Covers)
        /\ Head(down).kind = "begin" /\ net = "reading" /\ early' = early
    BY <1>5 DEF ReadBegin, Reads, At, Live, WireInv, EndInv, CoverInv, bridgeVars
  <2>2. QED
    BY <1>5, <2>1, BeginIsTaken DEF EpochsFit
<1>6. ASSUME ReadEnd PROVE EpochsFit'
  <2>1. /\ down # <<>> /\ Continues /\ Ends /\ (~early => Covers)
        /\ Head(down).kind = "end" /\ net = "reading" /\ early' = early
    BY <1>6 DEF ReadEnd, Reads, At, Live, WireInv, EndInv, CoverInv, bridgeVars
  <2>2. /\ Head(down).epoch = last /\ last \in Nat /\ last # 0
        /\ output \in {0, last} /\ suppressed \in Nat
    BY <2>1, HeadOfEpoch, TypeParts, EpochFacts DEF OfEpoch, EpochType, Epochs
  <2>3. broken' = broken
    BY <1>6, <2>2 DEF ReadEnd, Accepts
  <2>4. QED
    BY <2>1, <2>3 DEF EpochsFit
<1>7. ASSUME ReadSpeech PROVE EpochsFit'
  BY <1>7 DEF ReadSpeech, Reads, bridgeVars, Accepts, EpochsFit
<1>8. ASSUME NEW kind \in {"resumed", "fresh", "stopped"}, ReadStopped(kind) PROVE EpochsFit'
  BY <1>8 DEF ReadStopped, Reads, bridgeVars, Accepts, EpochsFit
<1>9. ASSUME Bridge PROVE EpochsFit'
  BY <1>9, BridgeMoves, BridgeStep DEF deviceVars, threadVars, EpochsFit
<1>10. CASE UNCHANGED vars
  BY <1>10
     DEF vars, micVars, requestVars, bargeVars, outputVars, threadVars, bridgeVars, EpochsFit
<1> QED
  BY <1>1, <1>2, <1>3, <1>4, <1>5, <1>6, <1>7, <1>8, <1>9, <1>10
     DEF Next, Network, Startup, Attend, Read, Ending

(* A frame is admitted while nothing is to be heard.                       *)
LEMMA AdmitStep ==
    TypeOK /\ PlayerInv /\ [Next]_vars => Admits
<1> SUFFICES ASSUME TypeOK, PlayerInv, [Next]_vars PROVE Admits
  OBVIOUS
<1>types. QueueType
  BY TypeParts
<1>1. ASSUME Detect \/ Start \/ Connect \/ Handshake \/ Promote \/ AttendBargeIn \/
                ReadNothing \/ ReadFrame \/ ReadBegin \/ ReadEnd \/ ReadSpeech \/ Begin \/
                Resume \/ Unverified \/ Incompatible \/ Breaks \/ Close \/ DeadlinePasses \/
                Bridge
      PROVE  Admits
  <2>1. UNCHANGED queue
    BY <1>1, BridgeMoves
       DEF Detect, Start, Connect, Handshake, Promote, AttendBargeIn, ReadNothing, ReadFrame,
           ReadBegin, ReadEnd, ReadSpeech, Begin, Resume, Unverified, Incompatible, Breaks,
           Close, DeadlinePasses, Reads, micVars, requestVars, bargeVars, outputVars,
           threadVars, bridgeVars, deviceVars
  <2>2. QED
    BY <2>1, <1>types DEF PlayerInv, Admits
<1>2. ASSUME NEW kind \in {"resumed", "fresh", "stopped"}, ReadStopped(kind)
      PROVE  Admits
  <2>1. UNCHANGED queue
    BY <1>2
       DEF ReadStopped, Reads, micVars, requestVars, bargeVars, outputVars, threadVars,
           bridgeVars, deviceVars
  <2>2. QED
    BY <2>1, <1>types DEF PlayerInv, Admits
<1>3. ASSUME NEW frame \in {"quiet", "speech"}, Submit(frame) PROVE Admits
  BY <1>3 DEF Submit, PlayerInv, Admits, Active
<1>4. ASSUME NEW keep \in BOOLEAN, Interrupt(keep) PROVE Admits
  <2>1. Len(queue') = 0 /\ Len(queue) \in Nat
    BY <1>4, <1>types DEF Interrupt, QueueType
  <2>2. QED
    BY <2>1 DEF Admits
<1>5. ASSUME Stop PROVE Admits
  <2>1. Len(queue') = 0 /\ Len(queue) \in Nat
    BY <1>5, <1>types DEF Stop, QueueType
  <2>2. QED
    BY <2>1 DEF Admits
<1>6. ASSUME AttendInterrupt PROVE Admits
  <2>1. Len(queue') = 0 /\ Len(queue) \in Nat
    BY <1>6, <1>types DEF AttendInterrupt, QueueType
  <2>2. QED
    BY <2>1 DEF Admits
<1>7. ASSUME AttendStop PROVE Admits
  <2>1. Len(queue') = 0 /\ Len(queue) \in Nat
    BY <1>7, <1>types DEF AttendStop, QueueType
  <2>2. QED
    BY <2>1 DEF Admits
<1>8. ASSUME Serve PROVE Admits
  <2>1. queue' \in {queue} \cup {Tail(q) : q \in {queue} \ {<<>>}}
    BY <1>8 DEF Serve
  <2>2. queue' = queue \/ (queue # <<>> /\ queue' = Tail(queue))
    BY <2>1
  <2>3. queue # <<>> => Len(Tail(queue)) = Len(queue) - 1
    BY <1>types, TailPlaces DEF QueueType
  <2>4. Len(queue) \in Nat /\ Len(queue') <= Len(queue)
    BY <1>types, <2>2, <2>3 DEF QueueType
  <2>5. QED
    BY <2>4 DEF Admits
<1>9. ASSUME CleanUp PROVE Admits
  <2>1. Len(queue') = 0 /\ Len(queue) \in Nat
    BY <1>9, <1>types DEF CleanUp, QueueType
  <2>2. QED
    BY <2>1 DEF Admits
<1>10. CASE UNCHANGED vars
  BY <1>10, <1>types
     DEF vars, micVars, requestVars, bargeVars, outputVars, threadVars, bridgeVars, PlayerInv,
         Admits
<1> QED
  BY <1>1, <1>2, <1>3, <1>4, <1>5, <1>6, <1>7, <1>8, <1>9, <1>10
     DEF Next, Network, Startup, Attend, Read, Ending

-----------------------------------------------------------------------------
(* What follows.                                                           *)

(* Nothing was said, and nobody is heard.                                  *)
LEMMA InitIInv == Init => IInv
<1> SUFFICES ASSUME Init PROVE IInv
  OBVIOUS
<1>1. /\ last = 0 /\ output = 0 /\ suppressed = 0 /\ local = 0 /\ asked = 0 /\ count = 0
      /\ epoch = 0 /\ era = 0 /\ interrupts = 0
      /\ queue = <<>> /\ up = <<>> /\ down = <<>> /\ silenced = {} /\ talked = {}
      /\ player.epoch = 0 /\ player.pending = {} /\ player.finishing = FALSE
      /\ ~speaking /\ ~early /\ ~broken /\ ~interruptSent /\ ~interruptAsked
      /\ state = "NEW" /\ net = "new" /\ mic = "idle" /\ bridge = "idle"
  BY DEF Init, NoPlayer
<1>2. FlagType
  BY DEF Init, FlagType
<1>3. PlaceType
  BY <1>1 DEF PlaceType, Nets
<1>4. EpochType
  BY <1>1, BoundsAssumption DEF EpochType, BargeInFrames
<1>5. PlayerType
  BY <1>1, <1>4, EpochFacts DEF Init, PlayerType, Players, NoPlayer
<1>6. QueueType
  BY <1>1, BoundsAssumption DEF QueueType
<1>7. UpType /\ DownType
  BY <1>1, BoundsAssumption DEF UpType, DownType
<1>8. TypeOK
  BY <1>2, <1>3, <1>4, <1>5, <1>6, <1>7, TypeParts
<1>9. DOMAIN down = {} /\ DOMAIN up = {} /\ DOMAIN queue = {}
  BY <1>1
<1>10. Continues /\ Ends /\ Covers
  <2>1. Continues
    BY <1>1, <1>9 DEF Continues
  <2>2. Ends
    BY <1>1 DEF Ends
  <2>3. Covers
    BY <1>1, <1>9 DEF Covers, Sent, Serves
  <2>4. QED
    BY <2>1, <2>2, <2>3
<1>11. VoiceInv /\ PlayerInv /\ MicInv /\ RequestInv
  BY <1>1, <1>9 DEF VoiceInv, PlayerInv, MicInv, RequestInv, Ready, Running
<1>12. QED
  BY <1>1, <1>8, <1>10, <1>11 DEF IInv, WireInv, EndInv, CoverInv, EpochsFit

LEMMA TypeStep == IInv /\ [Next]_vars => TypeOK'
<1> SUFFICES ASSUME IInv, [Next]_vars PROVE TypeOK'
  OBVIOUS
<1>1. /\ FlagType' /\ PlaceType' /\ QueueType' /\ EpochType' /\ PlayerType'
      /\ UpType' /\ DownType'
  BY FlagTypeStep, PlaceTypeStep, QueueTypeStep, EpochTypeStep, PlayerTypeStep, UpTypeStep,
     DownTypeStep DEF IInv
<1>2. QED
  BY <1>1
     DEF TypeOK, FlagType, PlaceType, Nets, QueueType, EpochType, PlayerType, Players,
         UpType, DownType

(* Every step keeps the invariant.                                         *)
LEMMA StepIInv == IInv /\ [Next]_vars => IInv'
<1> SUFFICES ASSUME IInv, [Next]_vars PROVE IInv'
  OBVIOUS
<1>1. /\ TypeOK /\ WireInv /\ EndInv /\ CoverInv /\ VoiceInv /\ PlayerInv /\ MicInv
      /\ RequestInv /\ EpochsFit
  BY DEF IInv
<1>2. (Live' => Live) /\ (early => early')
  BY <1>1, DeadStep
<1>3. WireInv' /\ EndInv' /\ CoverInv'
  <2>1. CASE ~Live'
    BY <2>1 DEF WireInv, EndInv, CoverInv
  <2>2. CASE Live'
    <3>1. Continues /\ Ends /\ (~early => Covers)
      BY <1>1, <1>2, <2>2 DEF WireInv, EndInv, CoverInv
    <3>2. Continues' /\ Ends'
      BY <1>1, <2>2, <3>1, WireStep, EndStep
    <3>3. ~early' => Covers'
      BY <1>1, <1>2, <2>2, <3>1, CoverStep
    <3>4. QED
      BY <3>2, <3>3 DEF WireInv, EndInv, CoverInv
  <2>3. QED
    BY <2>1, <2>2
<1>4. VoiceInv' /\ PlayerInv' /\ MicInv' /\ RequestInv' /\ EpochsFit'
  BY <1>1, VoiceStep, PlayerStep, MicStep, RequestStep, FitStep
<1>5. QED
  BY <1>3, <1>4, TypeStep DEF IInv

(* The invariant, for any bounds of the queue, the wire and the requests.  *)
THEOREM Invariant == Spec => []IInv
  BY InitIInv, StepIInv, PTL DEF Spec

(* Every variable keeps its type: the input queue keeps to its bound, and  *)
(* the epochs the device knows are ones the bridge opened.                 *)
THEOREM TypeCorrect == Spec => []TypeOK
<1>1. IInv => TypeOK
  BY DEF IInv
<1>2. QED
  BY <1>1, Invariant, PTL

(* The device has a place for every epoch message, unless the bridge       *)
(* answered an interrupt inside an epoch: what comes of an epoch continues *)
(* what the device knows, and it knows which frames to drop.               *)
THEOREM EpochsAlwaysFit == Spec => []EpochsFit
<1>1. IInv => EpochsFit
  BY DEF IInv
<1>2. QED
  BY <1>1, Invariant, PTL

(* An epoch that was cut short stays silent: frames are taken only for the *)
(* epoch that is open, which is never one that was cut.                    *)
THEOREM SilenceKept == Spec => []SilencedStaysSilent
<1>1. IInv => SilencedStaysSilent
  BY DEF IInv, PlayerInv, MicInv, SilencedStaysSilent
<1>2. QED
  BY <1>1, Invariant, PTL

(* What waits to be sent was spoken since the last interruption or         *)
(* resumption, and no frame is taken while the player is to be heard.      *)
THEOREM MicrophoneOurs == Spec => MicrophoneIsOurs
<1>1. IInv /\ IInv' /\ [Next]_vars =>
         [ /\ \A i \in DOMAIN queue' : queue'[i] = era'
           /\ Len(queue') > Len(queue) =>
                  duplex \/ ~Active(player) \/ net \in {"beginning", "ending"} ]_vars
  BY AdmitStep DEF IInv, RequestInv, Admits
<1>2. QED
  BY <1>1, Invariant, PTL DEF Spec, MicrophoneIsOurs
=============================================================================
