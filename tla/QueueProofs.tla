------------------------------ MODULE QueueProofs ------------------------------
(***************************************************************************)
(* What Dropping does to a queue of any length.  The induction is on the   *)
(* length, by the least prefix that would be a counterexample.             *)
(***************************************************************************)
EXTENDS Queues, SequencesExt, WellFoundedInduction, TLAPS

(* A set of natural numbers with a member has a least one.                 *)
LEMMA Least ==
    ASSUME NEW K, K \subseteq Nat, K # {}
    PROVE  \E m \in K : \A n \in K : m <= n
<1>1. PICK m \in K : \A n \in K : ~ (<<n, m>> \in OpToRel(<, Nat))
  BY NatLessThanWellFounded, WFMin
<1>2. \A n \in K : ~ (n < m)
  BY <1>1, Zenon DEF OpToRel
<1>3. QED
  BY <1>2

(* What f says of the first i of a queue, when f[i - 1] is what is kept of *)
(* those before.                                                           *)
KeptOf(f, queue, gone, i) ==
    IF i = 0 THEN <<>>
    ELSE IF queue[i] \in gone THEN f[i - 1] ELSE Append(f[i - 1], queue[i])

(* The recursive definition of Dropping has a solution.                    *)
HasKept(N, queue, gone) == \E f : f = [i \in 0..N |-> KeptOf(f, queue, gone, i)]

(* It has one, for a queue of any length.                                  *)
LEMMA KeptExists ==
    ASSUME NEW N \in Nat, NEW q, NEW gone
    PROVE  HasKept(N, q, gone)
<1> DEFINE K == {n \in 0..N : ~HasKept(n, q, gone)}
<1>1. SUFFICES ASSUME K # {} PROVE FALSE
  OBVIOUS
<1>2. PICK m \in K : \A n \in K : m <= n
  <2>1. K \subseteq Nat
    OBVIOUS
  <2> HIDE DEF K
  <2>2. QED
    BY <1>1, <2>1, Least
<1>3. m # 0
  <2> DEFINE e == [i \in 0..0 |-> <<>>]
  <2>1. e = [i \in 0..0 |-> KeptOf(e, q, gone, i)]
    BY DEF KeptOf
  <2> HIDE DEF e
  <2>2. HasKept(0, q, gone)
    BY <2>1 DEF HasKept
  <2>3. QED
    BY <2>2
<1>4. m \in 1..N /\ m - 1 \in 0..N /\ m - 1 \notin K
  BY <1>2, <1>3
<1>5. HasKept(m - 1, q, gone)
  BY <1>4
<1>6. PICK f : f = [i \in 0..(m - 1) |-> KeptOf(f, q, gone, i)]
  BY <1>5 DEF HasKept
<1> DEFINE g == [i \in 0..m |-> IF i < m THEN f[i] ELSE KeptOf(f, q, gone, m)]
<1>7. ASSUME NEW i \in 0..m PROVE g[i] = KeptOf(g, q, gone, i)
  <2>1. i # 0 => g[i - 1] = f[i - 1]
    BY <1>4
  <2>2. KeptOf(g, q, gone, i) = KeptOf(f, q, gone, i)
    BY <2>1 DEF KeptOf
  <2>3. CASE i < m
    <3>1. i \in 0..(m - 1)
      BY <2>3, <1>4
    <3>2. f[i] = KeptOf(f, q, gone, i)
      BY <3>1, <1>6
    <3>3. QED
      BY <2>2, <2>3, <3>2
  <2>4. CASE i = m
    BY <2>2, <2>4
  <2>5. QED
    BY <2>3, <2>4, <1>4
<1>8. g = [i \in 0..m |-> KeptOf(g, q, gone, i)]
  BY <1>7
<1> HIDE DEF g
<1>9. HasKept(m, q, gone)
  BY <1>8 DEF HasKept
<1>10. QED
  BY <1>9, <1>2

(* Dropping is what the function built prefix by prefix ends with.         *)
LEMMA DroppingUnfolds ==
    ASSUME NEW S, NEW q \in Seq(S), NEW gone, NEW N \in Nat, N = Len(q)
    PROVE  \E f : /\ \A i \in 0..N : f[i] = KeptOf(f, q, gone, i)
                  /\ Dropping(q, gone) = f[N]
<1> DEFINE D(f) == [i \in 0..N |->
                      IF i = 0 THEN <<>>
                      ELSE IF q[i] \in gone THEN f[i - 1] ELSE Append(f[i - 1], q[i])]
           kept == CHOOSE f : f = D(f)
<1>1. Dropping(q, gone) = kept[N]
  BY DEF Dropping
<1>2. HasKept(N, q, gone)
  BY KeptExists
<1>3. \E f : f = D(f)
  BY <1>2 DEF KeptOf, HasKept
<1> HIDE DEF D
<1>4. kept = D(kept)
  BY <1>3
<1> HIDE DEF kept
<1>5. \A i \in 0..N : kept[i] = KeptOf(kept, q, gone, i)
  BY <1>4 DEF D, KeptOf
<1>6. QED
  BY <1>1, <1>5

(* A queue is a function on its places.                                    *)
LEMMA SeqFacts ==
    ASSUME NEW S, NEW q \in Seq(S)
    PROVE  /\ Len(q) \in Nat /\ DOMAIN q = 1..Len(q)
           /\ \A i \in 1..Len(q) : q[i] \in S
  OBVIOUS

(* Who joins a queue is in it, behind the others.                          *)
LEMMA AppendSet ==
    ASSUME NEW S, NEW q \in Seq(S), NEW x \in S
    PROVE  /\ Append(q, x) \in Seq(S) /\ Append(q, x) # <<>>
           /\ ToSet(Append(q, x)) = ToSet(q) \cup {x}
           /\ Head(Append(q, x)) = IF q = <<>> THEN x ELSE Head(q)
<1> DEFINE a == Append(q, x)
<1>1. /\ Len(a) = Len(q) + 1
      /\ \A i \in 1..Len(a) : a[i] = IF i = Len(q) + 1 THEN x ELSE q[i]
  OBVIOUS
<1>2. 1..(Len(q) + 1) = (1..Len(q)) \cup {Len(q) + 1} /\ Len(q) \in Nat
  OBVIOUS
<1>3. a \in Seq(S) /\ a # <<>>
  <2>1. a \in Seq(S)
    OBVIOUS
  <2>2. Len(a) # 0 /\ Len(<<>>) = 0
    BY <1>1, <1>2
  <2> HIDE DEF a
  <2>3. a # <<>>
    BY <2>2
  <2>4. QED
    BY <2>1, <2>3
<1>4. Head(a) = IF q = <<>> THEN x ELSE Head(q)
  OBVIOUS
<1> HIDE DEF a
<1>5. ToSet(a) = ToSet(q) \cup {x}
  BY <1>1, <1>2 DEF ToSet
<1>6. QED
  BY <1>3, <1>4, <1>5 DEF a

(* Who leaves a queue from its head leaves all others in it.               *)
LEMMA TailSet ==
    ASSUME NEW S, NEW q \in Seq(S), q # <<>>
    PROVE  /\ Tail(q) \in Seq(S) /\ Head(q) \in S
           /\ ToSet(q) = ToSet(Tail(q)) \cup {Head(q)}
<1>1. Tail(q) \in Seq(S) /\ Head(q) \in S
  OBVIOUS
<1>2. /\ Len(Tail(q)) = Len(q) - 1 /\ Len(q) \in Nat \ {0}
      /\ DOMAIN Tail(q) = 1..(Len(q) - 1) /\ DOMAIN q = 1..Len(q)
      /\ \A i \in 1..(Len(q) - 1) : Tail(q)[i] = q[i + 1]
      /\ Head(q) = q[1]
  OBVIOUS
<1>3. ASSUME NEW i \in 1..Len(q) PROVE q[i] \in ToSet(Tail(q)) \cup {Head(q)}
  <2>1. CASE i = 1
    BY <1>2, <2>1
  <2>2. CASE i # 1
    <3>1. i - 1 \in 1..(Len(q) - 1) /\ Tail(q)[i - 1] = q[i]
      BY <1>2, <2>2
    <3>2. QED
      <4>1. Tail(q)[i - 1] \in ToSet(Tail(q))
        BY <1>2, <3>1 DEF ToSet
      <4>2. QED
        BY <3>1, <4>1
  <2>3. QED
    BY <2>1, <2>2
<1>4. ASSUME NEW i \in 1..(Len(q) - 1) PROVE Tail(q)[i] \in ToSet(q)
  <2>1. i + 1 \in 1..Len(q)
    BY <1>2
  <2>2. QED
    BY <1>2, <2>1 DEF ToSet
<1>5. 1 \in 1..Len(q)
  BY <1>2
<1>6. QED
  BY <1>1, <1>2, <1>3, <1>4, <1>5 DEF ToSet

(* Who joins a queue that he is not in is in it once.                      *)
LEMMA JoinsOnce ==
    ASSUME NEW S, NEW q \in Seq(S), NEW x \in S, IsInjective(q), x \notin ToSet(q)
    PROVE  IsInjective(Append(q, x))
<1> DEFINE longer == Append(q, x)
<1>1. /\ DOMAIN longer = 1..(Len(q) + 1) /\ DOMAIN q = 1..Len(q) /\ Len(q) \in Nat
      /\ \A i \in 1..(Len(q) + 1) : longer[i] = IF i = Len(q) + 1 THEN x ELSE q[i]
  OBVIOUS
<1> HIDE DEF longer
<1>2. \A i \in 1..Len(q) : q[i] # x
  BY <1>1 DEF ToSet
<1>3. \A i, j \in 1..Len(q) : q[i] = q[j] => i = j
  BY <1>1 DEF IsInjective
<1>4. ASSUME NEW i \in 1..(Len(q) + 1), NEW j \in 1..(Len(q) + 1), longer[i] = longer[j]
      PROVE  i = j
  BY <1>1, <1>2, <1>3, <1>4
<1>5. IsInjective(longer)
  BY <1>1, <1>4 DEF IsInjective
<1>6. QED
  BY <1>5 DEF longer

(* Two queues without a common member, one behind the other.               *)
LEMMA ConcatSet ==
    ASSUME NEW S, NEW q \in Seq(S), NEW r \in Seq(S)
    PROVE  /\ q \o r \in Seq(S)
           /\ ToSet(q \o r) = ToSet(q) \cup ToSet(r)
           /\ IsInjective(q) /\ IsInjective(r) /\ ToSet(q) \cap ToSet(r) = {} =>
                IsInjective(q \o r)
<1> DEFINE both == q \o r
           M == Len(q)
           N == Len(r)
<1>1. /\ M \in Nat /\ N \in Nat
      /\ DOMAIN both = 1..(M + N) /\ DOMAIN q = 1..M /\ DOMAIN r = 1..N
      /\ \A i \in 1..(M + N) : both[i] = IF i <= M THEN q[i] ELSE r[i - M]
  OBVIOUS
<1>2. both \in Seq(S)
  OBVIOUS
<1> HIDE DEF both, M, N
<1>3. ASSUME NEW i \in 1..(M + N) PROVE i \in 1..M \/ i - M \in 1..N
  BY <1>1
<1>4. \A i \in 1..M : both[i] = q[i] /\ i \in 1..(M + N)
  BY <1>1
<1>5. \A i \in 1..N : both[M + i] = r[i] /\ M + i \in 1..(M + N)
  BY <1>1
<1>6. ToSet(both) = ToSet(q) \cup ToSet(r)
  <2>1. ASSUME NEW i \in 1..(M + N) PROVE both[i] \in ToSet(q) \cup ToSet(r)
    BY <1>1, <1>3 DEF ToSet
  <2>2. \A i \in 1..M : q[i] \in ToSet(both)
    BY <1>1, <1>4 DEF ToSet
  <2>3. \A i \in 1..N : r[i] \in ToSet(both)
    BY <1>1, <1>5 DEF ToSet
  <2>4. QED
    BY <1>1, <2>1, <2>2, <2>3 DEF ToSet
<1>7. ASSUME IsInjective(q), IsInjective(r), ToSet(q) \cap ToSet(r) = {}
      PROVE  IsInjective(both)
  <2>1. \A i \in 1..M, j \in 1..N : q[i] # r[j]
    BY <1>1, <1>7 DEF ToSet
  <2>2. \A i, j \in 1..M : q[i] = q[j] => i = j
    BY <1>1, <1>7 DEF IsInjective
  <2>3. \A i, j \in 1..N : r[i] = r[j] => i = j
    BY <1>1, <1>7 DEF IsInjective
  <2>4. ASSUME NEW i \in 1..(M + N), NEW j \in 1..(M + N), both[i] = both[j] PROVE i = j
    BY <1>1, <2>1, <2>2, <2>3, <2>4
  <2>5. QED
    BY <1>1, <2>4 DEF IsInjective
<1>8. QED
  BY <1>2, <1>6, <1>7 DEF both

(* The first of a queue.                                                   *)
LEMMA FirstOf ==
    ASSUME NEW S, NEW q \in Seq(S), NEW k \in Int, k <= Len(q)
    PROVE  /\ SubSeq(q, 1, k) \in Seq(S)
           /\ ToSet(SubSeq(q, 1, k)) \subseteq ToSet(q)
           /\ IsInjective(q) => IsInjective(SubSeq(q, 1, k))
<1> DEFINE first == SubSeq(q, 1, k)
           N == Len(q)
<1>1. first \in Seq(S)
  OBVIOUS
<1>2. /\ N \in Nat /\ DOMAIN q = 1..N /\ DOMAIN first = 1..k /\ k <= N
      /\ \A i \in 1..k : first[i] = q[i] /\ i \in 1..N
  OBVIOUS
<1> HIDE DEF first, N
<1>3. ToSet(first) \subseteq ToSet(q)
  BY <1>2 DEF ToSet
<1>4. IsInjective(q) => IsInjective(first)
  BY <1>2 DEF IsInjective
<1>5. QED
  BY <1>1, <1>3, <1>4 DEF first

(* Who leaves a queue from its head is not in it any more, if he was there *)
(* once.                                                                   *)
LEMMA TailOnce ==
    ASSUME NEW S, NEW q \in Seq(S), q # <<>>, IsInjective(q)
    PROVE  IsInjective(Tail(q)) /\ Head(q) \notin ToSet(Tail(q))
<1> DEFINE rest == Tail(q)
           N == Len(q)
<1>1. /\ N \in Nat \ {0} /\ DOMAIN q = 1..N /\ DOMAIN rest = 1..(N - 1) /\ Head(q) = q[1]
      /\ \A i \in 1..(N - 1) : rest[i] = q[i + 1] /\ i + 1 \in 1..N
  OBVIOUS
<1> HIDE DEF rest, N
<1>2. \A i, j \in 1..N : q[i] = q[j] => i = j
  BY <1>1 DEF IsInjective
<1>3. IsInjective(rest)
  BY <1>1, <1>2 DEF IsInjective
<1>4. \A i \in 1..(N - 1) : rest[i] # Head(q)
  BY <1>1, <1>2
<1>5. Head(q) \notin ToSet(rest)
  BY <1>1, <1>4 DEF ToSet
<1>6. QED
  BY <1>3, <1>5 DEF rest

(* Dropping keeps exactly those that do not go, each as often as he was    *)
(* there; a head that does not go stays the head.                          *)
LEMMA DroppingKeeps ==
    ASSUME NEW S, NEW q \in Seq(S), NEW gone
    PROVE  /\ Dropping(q, gone) \in Seq(S)
           /\ ToSet(Dropping(q, gone)) = ToSet(q) \ gone
           /\ IsInjective(q) => IsInjective(Dropping(q, gone))
           /\ Len(Dropping(q, gone)) <= Len(q)
           /\ ToSet(q) \cap gone # {} => Len(Dropping(q, gone)) < Len(q)
           /\ q = <<>> => Dropping(q, gone) = <<>>
           /\ q # <<>> /\ Head(q) \notin gone =>
                Dropping(q, gone) # <<>> /\ Head(Dropping(q, gone)) = Head(q)
<1> DEFINE N == Len(q)
<1>1. /\ N \in Nat /\ \A i \in 1..N : q[i] \in S
      /\ (q # <<>> <=> N # 0) /\ Head(q) = q[1] /\ DOMAIN q = 1..N
  OBVIOUS
<1>2. ToSet(q) = {q[i] : i \in 1..N}
  BY DEF ToSet
<1>3. PICK f : /\ \A i \in 0..N : f[i] = KeptOf(f, q, gone, i)
               /\ Dropping(q, gone) = f[N]
  BY <1>1, DroppingUnfolds
<1> HIDE DEF N
<1> DEFINE P(n) == /\ f[n] \in Seq(S)
                   /\ ToSet(f[n]) = {q[i] : i \in 1..n} \ gone
                   /\ IsInjective(q) => IsInjective(f[n])
                   /\ Len(f[n]) <= n
                   /\ {q[i] : i \in 1..n} \cap gone # {} => Len(f[n]) < n
                   /\ n = 0 => f[n] = <<>>
                   /\ n # 0 /\ q[1] \notin gone => f[n] # <<>> /\ Head(f[n]) = q[1]
           K == {n \in 0..N : ~P(n)}
<1> HIDE DEF P
<1>4. SUFFICES ASSUME K # {} PROVE FALSE
  <2>1. P(N)
    BY <1>1
  <2>2. QED
    BY <2>1, <1>1, <1>2, <1>3 DEF P
<1>5. PICK m \in K : \A n \in K : m <= n
  <2>1. K \subseteq Nat
    BY <1>1
  <2> HIDE DEF K
  <2>2. QED
    BY <1>4, <2>1, Least
<1>6. m # 0
  <2>1. f[0] = <<>>
    BY <1>3, <1>1 DEF KeptOf
  <2>2. P(0)
    BY <2>1 DEF P, ToSet, IsInjective
  <2>3. QED
    BY <2>2
<1>7. m \in 1..N /\ m - 1 \in 0..N /\ m - 1 \notin K
  BY <1>1, <1>5, <1>6
<1>8. P(m - 1)
  BY <1>7
<1>9. f[m] = IF q[m] \in gone THEN f[m - 1] ELSE Append(f[m - 1], q[m])
  BY <1>7, <1>3 DEF KeptOf
<1>10. {q[i] : i \in 1..m} = {q[i] : i \in 1..(m - 1)} \cup {q[m]}
  <2>1. 1..m = (1..(m - 1)) \cup {m}
    BY <1>7
  <2>2. QED
    BY <2>1
<1>11. Len(f[m - 1]) \in Nat /\ m - 1 \in Nat /\ m \in Nat
  BY <1>7, <1>8 DEF P
<1>12. CASE q[m] \in gone
  <2>1. f[m] = f[m - 1]
    BY <1>9, <1>12
  <2>2. m - 1 = 0 => q[1] \in gone
    BY <1>12, <1>7
  <2>3. Len(f[m]) <= m - 1
    BY <2>1, <1>8 DEF P
  <2>4. Len(f[m]) < m
    BY <2>1, <2>3, <1>11
  <2>5. P(m)
    BY <2>1, <2>2, <2>4, <1>6, <1>8, <1>10, <1>11, <1>12 DEF P
  <2>6. QED
    BY <2>5
<1>13. CASE q[m] \notin gone
  <2> DEFINE s == f[m - 1]
  <2>1. f[m] = Append(s, q[m])
    BY <1>9, <1>13
  <2>2. s \in Seq(S) /\ q[m] \in S
    BY <1>8, <1>1, <1>7 DEF P
  <2>3. /\ Append(s, q[m]) \in Seq(S) /\ Append(s, q[m]) # <<>>
        /\ ToSet(Append(s, q[m])) = ToSet(s) \cup {q[m]}
        /\ Head(Append(s, q[m])) = IF s = <<>> THEN q[m] ELSE Head(s)
    BY <2>2, AppendSet
  <2>4. m - 1 = 0 => s = <<>>
    BY <1>8 DEF P
  <2>5. Len(Append(s, q[m])) = Len(s) + 1
    BY <2>2
  <2>6. /\ Len(f[m]) <= m
        /\ {q[i] : i \in 1..m} \cap gone # {} => Len(f[m]) < m
    BY <2>1, <2>5, <1>8, <1>10, <1>11, <1>13 DEF P
  <2>7. IsInjective(q) => IsInjective(f[m])
    <3>1. SUFFICES ASSUME IsInjective(q) PROVE IsInjective(f[m])
      OBVIOUS
    <3>2. ASSUME NEW i \in 1..(m - 1) PROVE q[i] # q[m]
      <4>1. i \in 1..N /\ i # m
        BY <1>1, <1>7
      <4>2. QED
        BY <3>1, <4>1, <1>1, <1>7 DEF IsInjective
    <3>3. q[m] \notin ToSet(s) /\ IsInjective(s)
      BY <3>1, <3>2, <1>8 DEF P
    <3> HIDE DEF s
    <3>4. IsInjective(Append(s, q[m]))
      BY <2>2, <3>3, JoinsOnce
    <3>5. QED
      BY <2>1, <3>4, Zenon
  <2>8. /\ f[m] \in Seq(S) /\ ToSet(f[m]) = {q[i] : i \in 1..m} \ gone
        /\ q[1] \notin gone => f[m] # <<>> /\ Head(f[m]) = q[1]
    BY <2>1, <2>3, <2>4, <1>8, <1>10, <1>13, <1>7 DEF P
  <2>9. P(m)
    BY <2>6, <2>7, <2>8, <1>6 DEF P
  <2>10. QED
    BY <2>9
<1>14. QED
  BY <1>12, <1>13
=============================================================================
