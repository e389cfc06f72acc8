---------------------------- MODULE MCConversations ----------------------------
(***************************************************************************)
(* Small instances of Conversations.                                       *)
(***************************************************************************)
EXTENDS Conversations, TLC

CONSTANTS s1, s2, s3, a, b, th1, th2, t1, t2, t3, plain, home

Two == {s1, s2}
Three == {s1, s2, s3}
TwoConvs == {a, b}
TwoThreads == {th1, th2}
OneTurn == {t1}
ThreeTurns == {t1, t2, t3}
OneTool == {plain}
TwoTools == {plain, home}

Others == Permutations({a, b}) \cup Permutations({th1, th2})
          \cup Permutations({plain, home})
SymmetryOfTwo == Permutations(Two) \cup Permutations(ThreeTurns) \cup Others
SymmetryOfThree == Permutations(Three) \cup Others
=============================================================================
