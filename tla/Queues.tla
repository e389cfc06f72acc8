-------------------------------- MODULE Queues --------------------------------
(***************************************************************************)
(* What the queues and tables of the bridge have in common.                *)
(***************************************************************************)
EXTENDS Integers, Sequences

(* The queue without those in gone, the others in their order.  It is      *)
(* SelectSeq for that test, written as a function because TLAPS knows      *)
(* nothing of SelectSeq.                                                   *)
Dropping(queue, gone) ==
    LET kept[i \in 0..Len(queue)] ==
            IF i = 0 THEN <<>>
            ELSE IF queue[i] \in gone THEN kept[i - 1] ELSE Append(kept[i - 1], queue[i])
    IN  kept[Len(queue)]
=============================================================================
