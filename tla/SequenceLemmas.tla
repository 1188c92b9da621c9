----------------------------- MODULE SequenceLemmas -----------------------------
(***************************************************************************)
(* Queues, mailboxes and stacks: what taking the first, appending one and  *)
(* taking the last away do to the members of a sequence, to how many of    *)
(* them are in a set, and to the number of their positions.                *)
(***************************************************************************)
EXTENDS Integers, Sequences, SequencesExt, FiniteSetTheorems, SequenceTheorems, TLAPS

(* The elements that are left, or added. *)
LEMMA Popped ==
    ASSUME NEW S, NEW seq \in Seq(S), seq # << >>
    PROVE  /\ Head(seq) \in S /\ Head(seq) = seq[1] /\ 1 \in DOMAIN seq
           /\ Tail(seq) \in Seq(S)
           /\ \A i \in DOMAIN Tail(seq) : i + 1 \in DOMAIN seq /\ Tail(seq)[i] = seq[i + 1]
<1>1. /\ Head(seq) \in S /\ Tail(seq) \in Seq(S) /\ Len(Tail(seq)) = Len(seq) - 1
      /\ \A i \in 1..Len(Tail(seq)) : Tail(seq)[i] = seq[i + 1]
    BY HeadTailProperties
<1>2. DOMAIN seq = 1..Len(seq) /\ Len(seq) \in Nat \ {0}
    BY LenProperties, EmptySeq
<1>3. DOMAIN Tail(seq) = 1..Len(Tail(seq)) /\ Len(Tail(seq)) \in Nat
    BY <1>1, LenProperties
<1> QED BY <1>1, <1>2, <1>3

LEMMA Pushed ==
    ASSUME NEW S, NEW seq \in Seq(S), NEW e \in S
    PROVE  /\ Append(seq, e) \in Seq(S)
           /\ Append(seq, e) # << >> /\ Last(Append(seq, e)) = e
           /\ \A i \in DOMAIN Append(seq, e) :
                 Append(seq, e)[i] = e \/ (i \in DOMAIN seq /\ Append(seq, e)[i] = seq[i])
<1>1. /\ Append(seq, e) \in Seq(S) /\ Len(Append(seq, e)) = Len(seq) + 1
      /\ \A i \in 1..Len(seq) : Append(seq, e)[i] = seq[i]
      /\ Append(seq, e)[Len(seq) + 1] = e
    BY AppendProperties
<1>2. /\ DOMAIN seq = 1..Len(seq) /\ Len(seq) \in Nat
      /\ DOMAIN Append(seq, e) = 1..(Len(seq) + 1)
    BY <1>1, LenProperties
<1>3. Append(seq, e) # << >>
    BY <1>1, <1>2, EmptySeq
<1> QED BY <1>1, <1>2, <1>3 DEF Last

LEMMA Unstacked ==
    ASSUME NEW S, NEW seq \in Seq(S), seq # << >>
    PROVE  /\ Last(seq) \in S /\ Len(seq) \in DOMAIN seq /\ Last(seq) = seq[Len(seq)]
           /\ Front(seq) \in Seq(S)
           /\ \A i \in DOMAIN Front(seq) : i \in DOMAIN seq /\ Front(seq)[i] = seq[i]
<1>1. DOMAIN seq = 1..Len(seq) /\ Len(seq) \in Nat \ {0}
    BY LenProperties, EmptySeq
<1>2. \A i \in DOMAIN seq : seq[i] \in S
    BY <1>1, ElementOfSeq
<1>3. /\ Front(seq) \in Seq(S) /\ Len(Front(seq)) = Len(seq) - 1
      /\ \A i \in 1..(Len(seq) - 1) : Front(seq)[i] = seq[i]
  <2>1. \A i \in 1..(Len(seq) - 1) : seq[i] \in S
    BY <1>1, <1>2
  <2>2. /\ SubSeq(seq, 1, Len(seq) - 1) \in Seq(S)
        /\ Len(SubSeq(seq, 1, Len(seq) - 1)) = Len(seq) - 1
        /\ \A i \in 1..(Len(seq) - 1) : SubSeq(seq, 1, Len(seq) - 1)[i] = seq[i]
    BY <1>1, <2>1, SubSeqProperties
  <2> QED BY <2>2 DEF Front
<1>4. DOMAIN Front(seq) = 1..(Len(seq) - 1)
    BY <1>1, <1>3, LenProperties
<1> QED BY <1>1, <1>2, <1>3, <1>4 DEF Last
-----------------------------------------------------------------------------
(* Members of X in a sequence: there is one, there are not two. *)
Has(seq, X) == \E i \in DOMAIN seq : seq[i] \in X
Once(seq, X) == \A i, j \in DOMAIN seq : seq[i] \in X /\ seq[j] \in X => i = j

LEMMA OfNone == ASSUME NEW X PROVE ~Has(<< >>, X) /\ Once(<< >>, X)
BY EmptySeq DEF Has, Once

LEMMA OfPopped ==
    ASSUME NEW S, NEW seq \in Seq(S), seq # << >>, NEW X
    PROVE  /\ Has(seq, X) <=> Head(seq) \in X \/ Has(Tail(seq), X)
           /\ Once(seq, X) <=> Once(Tail(seq), X) /\ ~(Head(seq) \in X /\ Has(Tail(seq), X))
<1> DEFINE n == Len(seq)  T == Tail(seq)
<1>1. /\ Head(seq) = seq[1] /\ T \in Seq(S) /\ Len(T) = n - 1
      /\ \A i \in 1..Len(T) : T[i] = seq[i + 1]
    BY HeadTailProperties, Popped
<1>2. DOMAIN seq = 1..n /\ n \in Nat \ {0}
    BY LenProperties, EmptySeq
<1>3. DOMAIN T = 1..(n - 1)
    BY <1>1, LenProperties
<1> HIDE DEF n, T
<1>4. /\ \A i \in DOMAIN T : i \in Nat /\ i + 1 \in DOMAIN seq /\ i + 1 # 1 /\ T[i] = seq[i + 1]
      /\ \A i \in DOMAIN seq : i = 1 \/ (i - 1 \in DOMAIN T /\ i = (i - 1) + 1 /\ T[i - 1] = seq[i])
      /\ 1 \in DOMAIN seq
    BY <1>1, <1>2, <1>3
<1>5. Has(seq, X) <=> Head(seq) \in X \/ Has(T, X)
    BY <1>1, <1>4 DEF Has
<1>6. ASSUME Once(seq, X) PROVE Once(T, X) /\ ~(Head(seq) \in X /\ Has(T, X))
  <2>1. ASSUME NEW i \in DOMAIN T, NEW j \in DOMAIN T, T[i] \in X, T[j] \in X PROVE i = j
    <3>1. i + 1 = j + 1 BY <1>4, <1>6, <2>1 DEF Once
    <3> QED BY <1>4, <3>1
  <2>2. ~(Head(seq) \in X /\ Has(T, X))
    BY <1>1, <1>4, <1>6 DEF Once, Has
  <2> QED BY <2>1, <2>2 DEF Once
<1>7. ASSUME Once(T, X), ~(Head(seq) \in X /\ Has(T, X)) PROVE Once(seq, X)
  <2>1. ASSUME NEW i \in DOMAIN seq, NEW j \in DOMAIN seq, seq[i] \in X, seq[j] \in X, i # j
        PROVE  FALSE
    <3>1. CASE i = 1 \/ j = 1 BY <1>1, <1>4, <1>7, <2>1, <3>1 DEF Has
    <3>2. CASE i # 1 /\ j # 1
      <4>1. i - 1 = j - 1 BY <1>4, <1>7, <2>1, <3>2 DEF Once
      <4> QED BY <1>4, <2>1, <3>2, <4>1
    <3> QED BY <3>1, <3>2
  <2> QED BY <2>1 DEF Once
<1> QED BY <1>5, <1>6, <1>7 DEF T

LEMMA OfPushed ==
    ASSUME NEW S, NEW seq \in Seq(S), NEW e \in S, NEW X
    PROVE  /\ Has(Append(seq, e), X) <=> Has(seq, X) \/ e \in X
           /\ Once(Append(seq, e), X) <=> Once(seq, X) /\ ~(e \in X /\ Has(seq, X))
<1> DEFINE n == Len(seq)  A == Append(seq, e)
<1>1. /\ A \in Seq(S) /\ Len(A) = n + 1
      /\ \A i \in 1..n : A[i] = seq[i]
      /\ A[n + 1] = e
    BY AppendProperties
<1>2. DOMAIN seq = 1..n /\ n \in Nat
    BY LenProperties
<1>3. DOMAIN A = 1..(n + 1)
    BY <1>1, LenProperties
<1> HIDE DEF n, A
<1>4. /\ \A i \in DOMAIN A : i = n + 1 \/ (i \in DOMAIN seq /\ A[i] = seq[i])
      /\ \A i \in DOMAIN seq : i \in DOMAIN A /\ A[i] = seq[i] /\ i # n + 1
      /\ n + 1 \in DOMAIN A /\ A[n + 1] = e
    BY <1>1, <1>2, <1>3
<1>5. Has(A, X) <=> Has(seq, X) \/ e \in X
    BY <1>4 DEF Has
<1>6. Once(A, X) <=> Once(seq, X) /\ ~(e \in X /\ Has(seq, X))
    BY <1>4 DEF Has, Once
<1> QED BY <1>5, <1>6 DEF A

LEMMA OfUnstacked ==
    ASSUME NEW S, NEW seq \in Seq(S), seq # << >>, NEW X
    PROVE  /\ Has(seq, X) <=> Last(seq) \in X \/ Has(Front(seq), X)
           /\ Once(seq, X) <=> Once(Front(seq), X) /\ ~(Last(seq) \in X /\ Has(Front(seq), X))
<1>1. /\ Last(seq) \in S /\ Front(seq) \in Seq(S)
    BY Unstacked
<1>2. Append(Front(seq), Last(seq)) = seq
  <2>1. DOMAIN seq = 1..Len(seq) /\ Len(seq) \in Nat \ {0}
    BY LenProperties, EmptySeq
  <2>2. \A i \in DOMAIN seq : seq[i] \in S
    BY <2>1, ElementOfSeq
  <2>3. /\ Len(Front(seq)) = Len(seq) - 1
        /\ \A i \in 1..(Len(seq) - 1) : Front(seq)[i] = seq[i]
    <3>1. \A i \in 1..(Len(seq) - 1) : seq[i] \in S
      BY <2>1, <2>2
    <3> QED BY <2>1, <3>1, SubSeqProperties DEF Front
  <2>4. /\ Append(Front(seq), Last(seq)) \in Seq(S)
        /\ Len(Append(Front(seq), Last(seq))) = Len(seq)
        /\ \A i \in 1..Len(seq) : Append(Front(seq), Last(seq))[i] = seq[i]
    <3>1. /\ Append(Front(seq), Last(seq)) \in Seq(S)
          /\ Len(Append(Front(seq), Last(seq))) = Len(Front(seq)) + 1
          /\ \A i \in 1..Len(Front(seq)) : Append(Front(seq), Last(seq))[i] = Front(seq)[i]
          /\ Append(Front(seq), Last(seq))[Len(Front(seq)) + 1] = Last(seq)
      BY <1>1, AppendProperties
    <3>2. Last(seq) = seq[Len(seq)] BY DEF Last
    <3> QED BY <2>1, <2>3, <3>1, <3>2
  <2> QED BY <2>4, SeqEqual
<1> DEFINE rest == Front(seq)  top == Last(seq)
<1>3. rest \in Seq(S) /\ top \in S /\ Append(rest, top) = seq BY <1>1, <1>2
<1> HIDE DEF rest, top
<1>4. /\ Has(Append(rest, top), X) <=> Has(rest, X) \/ top \in X
      /\ Once(Append(rest, top), X) <=> Once(rest, X) /\ ~(top \in X /\ Has(rest, X))
    BY <1>3, OfPushed
<1> QED BY <1>3, <1>4 DEF rest, top

(* At how many positions. *)
Positions(seq, X) == {i \in DOMAIN seq : seq[i] \in X}

LEMMA Counted ==
    ASSUME NEW S, NEW seq \in Seq(S), NEW X
    PROVE  /\ Cardinality(Positions(seq, X)) \in Nat
           /\ Cardinality(Positions(seq, X)) = 0 <=> ~Has(seq, X)
           /\ Once(seq, X) => Cardinality(Positions(seq, X)) \leq 1
<1> DEFINE P == Positions(seq, X)
<1>1. IsFiniteSet(DOMAIN seq)
  <2>1. DOMAIN seq = 1..Len(seq) /\ Len(seq) \in Nat BY LenProperties
  <2> QED BY <2>1, FS_Interval
<1>2. IsFiniteSet(P) /\ Cardinality(P) \in Nat
    BY <1>1, FS_Subset, FS_CardinalityType DEF Positions
<1>3. Cardinality(P) = 0 <=> ~Has(seq, X)
    BY <1>2, FS_EmptySet DEF Positions, Has
<1>4. ASSUME Once(seq, X) PROVE Cardinality(P) \leq 1
  <2>1. CASE P = {} BY <2>1, FS_EmptySet
  <2>2. CASE P # {}
    <3>1. PICK i : i \in P BY <2>2
    <3>2. P = {i} BY <1>4, <3>1 DEF Positions, Once
    <3>3. Cardinality({i}) = 1 BY FS_Singleton
    <3> HIDE DEF P
    <3> QED BY <3>2, <3>3
  <2> QED BY <2>1, <2>2
<1> QED BY <1>2, <1>3, <1>4
-----------------------------------------------------------------------------
(* How many members of X a sequence has. *)
Count(seq, X) == Cardinality(Positions(seq, X))
Bit(b) == IF b THEN 1 ELSE 0

LEMMA CountIsNat ==
    ASSUME NEW S, NEW seq \in Seq(S), NEW X
    PROVE  /\ IsFiniteSet(Positions(seq, X)) /\ Count(seq, X) \in Nat
           /\ Count(seq, X) = 0 <=> \A i \in DOMAIN seq : seq[i] \notin X
<1>1. DOMAIN seq = 1..Len(seq) /\ Len(seq) \in Nat
  BY LenProperties
<1>2. IsFiniteSet(Positions(seq, X))
  <2>1. IsFiniteSet(DOMAIN seq) /\ Positions(seq, X) \in SUBSET DOMAIN seq
    BY <1>1, FS_Interval DEF Positions
  <2> QED
    BY <2>1, FS_Subset
<1> QED
  BY <1>2, Counted DEF Count, Has

(* With one of them at most, two places that hold one are the same place. *)
LEMMA AtMostOne ==
    ASSUME NEW S, NEW seq \in Seq(S), NEW X, Count(seq, X) <= 1,
           NEW i \in DOMAIN seq, NEW j \in DOMAIN seq, seq[i] \in X, seq[j] \in X
    PROVE  i = j
<1> SUFFICES ASSUME i # j PROVE FALSE
  OBVIOUS
<1>1. IsFiniteSet({i}) /\ Cardinality({i}) = 1
  BY FS_Singleton
<1>2. Cardinality({i} \cup {j}) = 2
  <2>1. Cardinality({i} \cup {j}) = IF j \in {i} THEN Cardinality({i}) ELSE Cardinality({i}) + 1
    BY <1>1, FS_AddElement, Zenon
  <2>2. j \notin {i}
    OBVIOUS
  <2> DEFINE one == Cardinality({i})
             two == Cardinality({i} \cup {j})
  <2>3. two = one + 1 /\ one = 1
    BY <1>1, <2>1, <2>2, Zenon
  <2> HIDE DEF one, two
  <2>4. two = 2
    BY <2>3
  <2> QED BY <2>4 DEF two
<1>3. {i} \cup {j} \in SUBSET Positions(seq, X)
  BY DEF Positions
<1>4. IsFiniteSet(Positions(seq, X)) /\ Count(seq, X) \in Nat
  BY CountIsNat
<1>5. Cardinality({i} \cup {j}) <= Cardinality(Positions(seq, X))
  BY <1>3, <1>4, FS_Subset
<1> DEFINE two == Cardinality({i} \cup {j})
<1>6. two = 2 /\ two <= Count(seq, X)
  BY <1>2, <1>5, Zenon DEF Count
<1> HIDE DEF two
<1> QED
  BY <1>4, <1>6

LEMMA CountConcat ==
    ASSUME NEW S, NEW s \in Seq(S), NEW t \in Seq(S), NEW X
    PROVE  Count(s \o t, X) = Count(s, X) + Count(t, X)
<1> DEFINE n == Len(s)
           P == Positions(s, X)
           Q == Positions(t, X)
           R == {i + n : i \in Q}
           f == [i \in Q |-> i + n]
<1>1. /\ DOMAIN s = 1..n /\ n \in Nat /\ DOMAIN t = 1..Len(t) /\ Len(t) \in Nat
      /\ DOMAIN (s \o t) = 1..(n + Len(t))
      /\ \A i \in 1..(n + Len(t)) : (s \o t)[i] = IF i <= n THEN s[i] ELSE t[i - n]
  BY LenProperties, ConcatProperties
<1>2. Positions(s \o t, X) = P \cup R
  <2> HIDE DEF n
  <2>1. ASSUME NEW i \in Positions(s \o t, X)
        PROVE  i \in P \cup R
    <3>1. CASE i <= n
      BY <1>1, <2>1, <3>1 DEF Positions
    <3>2. CASE ~(i <= n)
      <4>1. i - n \in Q /\ i = (i - n) + n
        BY <1>1, <2>1, <3>2 DEF Positions
      <4> QED
        BY <4>1
    <3> QED
      BY <3>1, <3>2
  <2>2. P \subseteq Positions(s \o t, X)
    BY <1>1 DEF Positions
  <2>3. ASSUME NEW i \in Q
        PROVE  i + n \in Positions(s \o t, X)
    <3>1. i \in 1..Len(t) /\ t[i] \in X
      BY <1>1, <2>3 DEF Positions
    <3>2. i + n \in 1..(n + Len(t)) /\ ~(i + n <= n) /\ (i + n) - n = i
      BY <1>1, <3>1
    <3> QED
      BY <1>1, <3>1, <3>2 DEF Positions
  <2> QED
    BY <2>1, <2>2, <2>3
<1>3. P \cap R = {} /\ Q \subseteq Nat
  BY <1>1 DEF Positions
<1>4. IsFiniteSet(P) /\ IsFiniteSet(Q) /\ Cardinality(P) \in Nat /\ Cardinality(Q) \in Nat
  BY CountIsNat DEF Count
<1>5. IsFiniteSet(R) /\ Cardinality(R) = Cardinality(Q)
  <2>1. f \in Bijection(Q, R)
    <3>1. \A i, j \in Q : f[i] = f[j] => i = j
      BY <1>1, <1>3
    <3> QED
      BY <3>1 DEF Bijection, Injection, Surjection, IsInjective
  <2> HIDE DEF f, Q, R
  <2> QED
    BY <1>4, <2>1, FS_Bijection DEF ExistsBijection
<1> HIDE DEF P, Q, R
<1>6. Cardinality(P \cup R) = Cardinality(P) + Cardinality(Q)
  <2>1. Cardinality(P \cup R) = Cardinality(P) + Cardinality(R) - Cardinality(P \cap R)
    BY <1>4, <1>5, FS_Union
  <2>2. Cardinality(P \cap R) = 0
    BY <1>3, FS_EmptySet
  <2> QED
    BY <1>4, <1>5, <2>1, <2>2
<1> QED
  BY <1>2, <1>6 DEF Count, P, Q

LEMMA CountOne ==
    ASSUME NEW X, NEW e
    PROVE  Count(<<e>>, X) = Bit(e \in X)
<1>1. DOMAIN <<e>> = {1} /\ <<e>>[1] = e
  OBVIOUS
<1>2. CASE e \in X
  <2>1. Positions(<<e>>, X) = {1}
    BY <1>1, <1>2 DEF Positions
  <2>2. Cardinality({1}) = 1
    BY FS_Singleton
  <2> QED
    BY <1>2, <2>1, <2>2 DEF Count, Bit
<1>3. CASE e \notin X
  <2>1. Positions(<<e>>, X) = {}
    BY <1>1, <1>3 DEF Positions
  <2>2. Cardinality({}) = 0
    BY FS_EmptySet
  <2> QED
    BY <1>3, <2>1, <2>2 DEF Count, Bit
<1> QED
  BY <1>2, <1>3

LEMMA CountNone == ASSUME NEW X PROVE Count(<< >>, X) = 0
<1>1. Positions(<< >>, X) = {}
  BY EmptySeq DEF Positions
<1> QED
  BY <1>1, FS_EmptySet DEF Count

LEMMA CountPushed ==
    ASSUME NEW S, NEW seq \in Seq(S), NEW e \in S, NEW X
    PROVE  /\ Count(Append(seq, e), X) = Count(seq, X) + Bit(e \in X)
           /\ Count(<<e>> \o seq, X) = Count(seq, X) + Bit(e \in X)
<1>1. <<e>> \in Seq(S) /\ Append(seq, e) = seq \o <<e>>
  BY AppendIsConcat
<1>2. /\ Count(seq \o <<e>>, X) = Count(seq, X) + Count(<<e>>, X)
      /\ Count(<<e>> \o seq, X) = Count(<<e>>, X) + Count(seq, X)
      /\ Count(seq, X) \in Nat
  <2> DEFINE one == <<e>>
  <2>1. one \in Seq(S)
    BY <1>1
  <2> HIDE DEF one
  <2>2. /\ Count(seq \o one, X) = Count(seq, X) + Count(one, X)
        /\ Count(one \o seq, X) = Count(one, X) + Count(seq, X)
        /\ Count(seq, X) \in Nat
    BY <2>1, CountConcat, CountIsNat
  <2> QED
    BY <2>2 DEF one
<1>3. Count(<<e>>, X) = Bit(e \in X) /\ Bit(e \in X) \in Nat
  BY CountOne DEF Bit
<1> QED
  BY <1>1, <1>2, <1>3

LEMMA CountPopped ==
    ASSUME NEW S, NEW seq \in Seq(S), seq # << >>, NEW X
    PROVE  /\ Head(seq) \in S /\ Tail(seq) \in Seq(S)
           /\ Count(seq, X) = Count(Tail(seq), X) + Bit(Head(seq) \in X)
<1>1. Head(seq) \in S /\ Tail(seq) \in Seq(S)
  BY HeadTailProperties
<1>2. <<Head(seq)>> \o Tail(seq) = seq
  BY ConcatSimplifications, HeadTailProperties
<1>3. Count(<<Head(seq)>> \o Tail(seq), X) = Count(Tail(seq), X) + Bit(Head(seq) \in X)
  BY <1>1, CountPushed
<1> QED
  BY <1>1, <1>2, <1>3
-----------------------------------------------------------------------------
(* Whether something is in a sequence. *)
In(seq, e) == \E i \in DOMAIN seq : seq[i] = e

LEMMA AppendIn ==
    ASSUME NEW S, NEW seq \in Seq(S), NEW e \in S, NEW f
    PROVE  /\ Append(seq, e) \in Seq(S)
           /\ In(Append(seq, e), f) <=> In(seq, f) \/ e = f
<1>1. \A s : In(s, f) <=> Has(s, {f}) BY DEF In, Has
<1>2. Has(Append(seq, e), {f}) <=> Has(seq, {f}) \/ e \in {f} BY OfPushed
<1> QED BY <1>1, <1>2, Pushed

LEMMA TailIn ==
    ASSUME NEW S, NEW seq \in Seq(S), seq # << >>, NEW f
    PROVE  /\ Tail(seq) \in Seq(S) /\ Head(seq) \in S
           /\ In(seq, f) <=> Head(seq) = f \/ In(Tail(seq), f)
           /\ \A i \in DOMAIN Tail(seq) : i + 1 \in DOMAIN seq /\ Tail(seq)[i] = seq[i + 1]
<1>1. \A s : In(s, f) <=> Has(s, {f}) BY DEF In, Has
<1>2. Has(seq, {f}) <=> Head(seq) \in {f} \/ Has(Tail(seq), {f}) BY OfPopped
<1> QED BY <1>1, <1>2, Popped
=============================================================================
