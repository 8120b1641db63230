----------------------------- MODULE Pool_proof -----------------------------
(* Proofs about module Pool.                                               *)
EXTENDS Pool, FiniteSetTheorems, SequenceTheorems, WellFoundedInduction, TLAPS

(***************************************************************************)
(* Induction over the natural numbers, stated for a set.                   *)
(***************************************************************************)

Below == {ss \in Nat \X Nat : ss[1] < ss[2]}

\* A set of numbers that is not empty has a least element.
LEMMA Least ==
    ASSUME NEW T \in SUBSET Nat, T # {}
    PROVE  \E x \in T : \A y \in T : x <= y
<1>1. IsWellFoundedOn(Below, Nat)
  BY NatLessThanWellFounded, Zenon DEF Below, OpToRel
<1>2. \E x \in T : \A y \in T : <<y, x>> \notin Below
  BY <1>1, WFMin
<1>3. ASSUME NEW x \in T, NEW y \in T, <<y, x>> \notin Below PROVE x <= y
  <2>1. ~(y < x)
    BY <1>3 DEF Below
  <2> QED
    BY <2>1
<1> QED
  BY <1>2, <1>3

\* A set that holds 0, and with a number the next one, holds them all.
LEMMA Induction ==
    ASSUME NEW T, 0 \in T, \A n \in Nat : n \in T => n + 1 \in T
    PROVE  Nat \subseteq T
<1> DEFINE B == {n \in Nat : n \notin T}
<1>1. SUFFICES ASSUME B # {} PROVE FALSE
  OBVIOUS
<1>2. PICK x \in B : \A y \in B : x <= y
  BY <1>1, Least
<1>3. x \in Nat /\ x # 0 /\ x \notin T
  BY <1>2
<1>4. x - 1 \in Nat /\ x - 1 \notin B
  BY <1>2, <1>3
<1>5. (x - 1) + 1 \in T
  BY <1>4
<1> QED
  BY <1>3, <1>5

-----------------------------------------------------------------------------
(***************************************************************************)
(* Lists: what Kept and Retain leave of one, and its members and beginnings.*)
(***************************************************************************)

\* The equations of Kept: a recursive function is whatever satisfies them, so that
\* something does has to be shown first, for longer and longer parts of the list.
LEMMA KeptDef ==
    ASSUME NEW X, NEW seq \in Seq(X), NEW S
    PROVE  /\ Kept(seq, S)[0] = <<>>
           /\ \A i \in 1..Len(seq) :
                 Kept(seq, S)[i] = IF seq[i] \in S THEN Append(Kept(seq, S)[i - 1], seq[i])
                                   ELSE Kept(seq, S)[i - 1]
<1> DEFINE Val(f, i) == IF seq[i] \in S THEN Append(f[i - 1], seq[i]) ELSE f[i - 1]
           Upto(f, n) == f[0] = <<>> /\ \A i \in 1..n : f[i] = Val(f, i)
           T == {n \in Nat : n <= Len(seq) => \E f : Upto(f, n)}
<1>1. 0 \in T
  <2> DEFINE f == [i \in {0} |-> <<>>]
  <2>1. Upto(f, 0)
    OBVIOUS
  <2> QED
    BY <2>1
<1>2. ASSUME NEW n \in Nat, n \in T PROVE n + 1 \in T
  <2> SUFFICES ASSUME n + 1 <= Len(seq) PROVE \E f : Upto(f, n + 1)
    OBVIOUS
  <2>1. PICK f : Upto(f, n)
    BY <1>2
  <2> DEFINE g == [i \in 0..(n + 1) |-> IF i = n + 1 THEN Val(f, n + 1) ELSE f[i]]
  <2>2. \A i \in 0..n : g[i] = f[i]
    OBVIOUS
  <2>3. g[n + 1] = Val(f, n + 1)
    OBVIOUS
  <2> HIDE DEF g, T
  <2>4. ASSUME NEW i \in 1..(n + 1) PROVE g[i] = Val(g, i)
    <3>1. g[i - 1] = f[i - 1]
      BY <2>2
    <3>2. CASE i = n + 1
      BY <2>3, <3>1, <3>2
    <3>3. CASE i \in 1..n
      BY <2>1, <2>2, <3>1, <3>3
    <3> QED
      BY <3>2, <3>3
  <2>5. g[0] = <<>>
    BY <2>1, <2>2
  <2>6. Upto(g, n + 1)
    BY <2>4, <2>5
  <2> QED
    BY <2>6
<1>3. Len(seq) \in T
  <2> HIDE DEF T
  <2>1. Nat \subseteq T
    BY <1>1, <1>2, Induction
  <2> QED
    BY <2>1
<1> DEFINE Fix(k) == k = [i \in 0..Len(seq) |-> IF i = 0 THEN <<>> ELSE Val(k, i)]
<1>4. \E k : Fix(k)
  <2>1. PICK f : Upto(f, Len(seq))
    BY <1>3
  <2> DEFINE k == [i \in 0..Len(seq) |-> f[i]]
             m == [i \in 0..Len(seq) |-> IF i = 0 THEN <<>> ELSE Val(k, i)]
  <2>2. \A i \in 0..Len(seq) : k[i] = f[i]
    OBVIOUS
  <2>3. ASSUME NEW i \in 0..Len(seq) PROVE f[i] = IF i = 0 THEN <<>> ELSE Val(k, i)
    <3>1. i # 0 => k[i - 1] = f[i - 1]
      BY <2>2
    <3> HIDE DEF k
    <3> QED
      BY <2>1, <3>1
  <2>4. k = m
    BY <2>3
  <2> QED
    BY <2>4
<1> DEFINE K == CHOOSE k : Fix(k)
<1>5. Fix(K)
  BY <1>4
<1>6. Kept(seq, S) = K
  BY DEF Kept
<1> HIDE DEF K, Val
<1>7. \A i \in 0..Len(seq) : K[i] = IF i = 0 THEN <<>> ELSE Val(K, i)
  BY <1>5
<1>8. K[0] = <<>> /\ \A i \in 1..Len(seq) : K[i] = Val(K, i)
  BY <1>7
<1> QED
  BY <1>6, <1>8 DEF Val
Injective(seq) == \A i, j \in 1..Len(seq) : seq[i] = seq[j] => i = j

\* What is true of the part that is kept of the first n members.
KeptOK(X, seq, S, n) ==
    LET k == Kept(seq, S)[n] IN
    /\ k \in Seq(X)
    /\ \A i \in 1..Len(k) : k[i] \in S /\ \E j \in 1..n : seq[j] = k[i]
    /\ \A j \in 1..n : seq[j] \in S => \E i \in 1..Len(k) : k[i] = seq[j]
    /\ Injective(seq) => Injective(k)

\* One more member: it is left out, or it is put at the end.
LEMMA KeptStep ==
    ASSUME NEW X, NEW seq \in Seq(X), NEW S, NEW n \in Nat, n + 1 <= Len(seq),
           KeptOK(X, seq, S, n)
    PROVE  KeptOK(X, seq, S, n + 1)
<1> DEFINE k == Kept(seq, S)[n]
           l == Kept(seq, S)[n + 1]
           x == seq[n + 1]
<1>1. n + 1 \in 1..Len(seq) /\ (n + 1) - 1 = n /\ Len(seq) \in Nat
  BY LenProperties
<1>2. l = IF x \in S THEN Append(k, x) ELSE k
  BY KeptDef, <1>1
<1>3. x \in X
  BY <1>1, ElementOfSeq
<1>k. /\ k \in Seq(X) /\ Len(k) \in Nat
      /\ \A i \in 1..Len(k) : k[i] \in S /\ \E j \in 1..n : seq[j] = k[i]
      /\ \A j \in 1..n : seq[j] \in S => \E i \in 1..Len(k) : k[i] = seq[j]
      /\ Injective(seq) => Injective(k)
  BY LenProperties DEF KeptOK
<1> SUFFICES /\ l \in Seq(X)
             /\ \A i \in 1..Len(l) : l[i] \in S /\ \E j \in 1..(n + 1) : seq[j] = l[i]
             /\ \A j \in 1..(n + 1) : seq[j] \in S => \E i \in 1..Len(l) : l[i] = seq[j]
             /\ Injective(seq) => Injective(l)
  BY DEF KeptOK
<1> HIDE DEF k, x, l
<1>4. CASE x \notin S
  <2> USE <1>1, <1>2, <1>3, <1>4, <1>k
  <2>0. l = k
    OBVIOUS
  <2>2. ASSUME NEW i \in 1..Len(l) PROVE l[i] \in S /\ \E j \in 1..(n + 1) : seq[j] = l[i]
    <3>1. l[i] \in S /\ \E j \in 1..n : seq[j] = l[i]
      BY <2>0
    <3> QED
      BY <3>1
  <2>3. \A j \in 1..(n + 1) : seq[j] \in S => \E i \in 1..Len(l) : l[i] = seq[j]
    BY <2>0 DEF x
  <2> QED
    BY <2>0, <2>2, <2>3
<1>5. CASE x \in S
  <2>0. l = Append(k, x)
    BY <1>2, <1>5
  <2>a. /\ l \in Seq(X) /\ Len(l) = Len(k) + 1 /\ l[Len(k) + 1] = x
        /\ \A i \in 1..Len(k) : l[i] = k[i]
    BY <2>0, <1>3, <1>k, AppendProperties
  <2> USE <1>1, <1>3, <1>5, <1>k, <2>a
  <2>2. ASSUME NEW i \in 1..Len(l) PROVE l[i] \in S /\ \E j \in 1..(n + 1) : seq[j] = l[i]
    <3>1. CASE i = Len(k) + 1
      <4>1. l[i] = seq[n + 1] /\ n + 1 \in 1..(n + 1)
        BY <3>1 DEF x
      <4> QED
        BY <4>1 DEF x
    <3>2. CASE i \in 1..Len(k)
      <4>1. k[i] \in S /\ \E j \in 1..n : seq[j] = k[i]
        BY <3>2
      <4>2. l[i] = k[i] /\ 1..n \subseteq 1..(n + 1)
        BY <3>2
      <4> QED
        BY <4>1, <4>2
    <3> QED
      BY <3>1, <3>2
  <2>3. ASSUME NEW j \in 1..(n + 1), seq[j] \in S PROVE \E i \in 1..Len(l) : l[i] = seq[j]
    <3>1. CASE j = n + 1
      <4>1. l[Len(k) + 1] = seq[j] /\ Len(k) + 1 \in 1..Len(l)
        BY <3>1 DEF x
      <4> QED
        BY <4>1
    <3>2. CASE j \in 1..n
      <4>1. PICK i \in 1..Len(k) : k[i] = seq[j]
        BY <2>3, <3>2
      <4> QED
        BY <4>1
    <3> QED
      BY <3>1, <3>2
  <2>7. ASSUME Injective(seq) PROVE Injective(l)
    <3>1. ASSUME NEW i \in 1..Len(k) PROVE k[i] # x
      <4>1. PICK j \in 1..n : seq[j] = k[i]
        OBVIOUS
      <4>2. seq[j] # seq[n + 1]
        BY <2>7 DEF Injective
      <4> QED
        BY <4>1, <4>2 DEF x
    <3>2. \A i, j \in 1..Len(k) : k[i] = k[j] => i = j
      BY <2>7 DEF Injective
    <3>3. ASSUME NEW i \in 1..Len(l), NEW j \in 1..Len(l), l[i] = l[j] PROVE i = j
      <4>1. /\ i \in 1..Len(k) \/ i = Len(k) + 1
            /\ j \in 1..Len(k) \/ j = Len(k) + 1
        OBVIOUS
      <4>2. CASE i = Len(k) + 1
        BY <3>1, <3>3, <4>1, <4>2
      <4>3. CASE i \in 1..Len(k) /\ j = Len(k) + 1
        BY <3>1, <3>3, <4>3
      <4>4. CASE i \in 1..Len(k) /\ j \in 1..Len(k)
        <5>1. k[i] = k[j]
          BY <3>3, <4>4
        <5> QED
          BY <3>2, <4>4, <5>1
      <4> QED
        BY <4>1, <4>2, <4>3, <4>4
    <3> QED
      BY <3>3 DEF Injective
  <2> QED
    BY <2>2, <2>3, <2>7
<1> QED
  BY <1>4, <1>5

\* By induction on its length, what is kept of every beginning of a list.
LEMMA KeptHolds ==
    ASSUME NEW X, NEW seq \in Seq(X), NEW S, NEW n \in 0..Len(seq)
    PROVE  KeptOK(X, seq, S, n)
<1> DEFINE T == {m \in Nat : m <= Len(seq) => KeptOK(X, seq, S, m)}
<1>1. 0 \in T
  <2>1. Kept(seq, S)[0] = <<>>
    BY KeptDef
  <2>2. KeptOK(X, seq, S, 0)
    BY <2>1, EmptySeq DEF KeptOK, Injective
  <2> QED
    BY <2>2
<1>2. ASSUME NEW m \in Nat, m \in T PROVE m + 1 \in T
  <2>1. Len(seq) \in Nat
    BY LenProperties
  <2> QED
    BY <1>2, <2>1, KeptStep
<1>3. Nat \subseteq T
  <2> HIDE DEF T
  <2> QED
    BY <1>1, <1>2, Induction
<1> QED
  BY <1>3, LenProperties

\* Retain keeps the members in S, and nothing comes up twice.
LEMMA RetainHolds ==
    ASSUME NEW X, NEW seq \in Seq(X), NEW S
    PROVE  /\ Retain(seq, S) \in Seq(X)
           /\ SetOf(Retain(seq, S)) = SetOf(seq) \cap S
           /\ Injective(seq) => Injective(Retain(seq, S))
<1> DEFINE r == Retain(seq, S)
<1>1. Len(seq) \in Nat /\ KeptOK(X, seq, S, Len(seq))
  BY LenProperties, KeptHolds
<1>2. /\ r \in Seq(X)
      /\ \A i \in 1..Len(r) : r[i] \in S /\ \E j \in 1..Len(seq) : seq[j] = r[i]
      /\ \A j \in 1..Len(seq) : seq[j] \in S => \E i \in 1..Len(r) : r[i] = seq[j]
      /\ Injective(seq) => Injective(r)
  BY <1>1 DEF KeptOK, Retain
<1> HIDE DEF r
<1>4. SetOf(r) = SetOf(seq) \cap S
  <2>1. ASSUME NEW x \in SetOf(r) PROVE x \in SetOf(seq) \cap S
    <3>1. PICK i \in 1..Len(r) : r[i] = x
      BY DEF SetOf
    <3> QED
      BY <1>2, <3>1 DEF SetOf
  <2>2. ASSUME NEW x \in SetOf(seq), x \in S PROVE x \in SetOf(r)
    <3>1. PICK j \in 1..Len(seq) : seq[j] = x
      BY DEF SetOf
    <3> QED
      BY <1>2, <2>2, <3>1 DEF SetOf
  <2> QED
    BY <2>1, <2>2
<1> QED
  BY <1>2, <1>4 DEF r

\* An empty list.
LEMMA EmptyList == SetOf(<<>>) = {} /\ Injective(<<>>) /\ Len(<<>>) = 0
BY DEF SetOf, Injective

\* A list's members are of its type.
LEMMA Members ==
    ASSUME NEW X, NEW seq \in Seq(X)
    PROVE  SetOf(seq) \subseteq X /\ Len(seq) \in Nat
BY ElementOfSeq, LenProperties DEF SetOf

\* A list with one more at its end.
LEMMA Appended ==
    ASSUME NEW X, NEW seq \in Seq(X), NEW x \in X
    PROVE  /\ Append(seq, x) \in Seq(X) /\ SetOf(Append(seq, x)) = SetOf(seq) \cup {x}
           /\ Len(Append(seq, x)) = Len(seq) + 1
           /\ Injective(seq) /\ x \notin SetOf(seq) => Injective(Append(seq, x))
<1> DEFINE l == Append(seq, x)
<1>1. /\ l \in Seq(X) /\ Len(l) = Len(seq) + 1 /\ l[Len(seq) + 1] = x /\ Len(seq) \in Nat
      /\ \A i \in 1..Len(seq) : l[i] = seq[i]
  BY AppendProperties, LenProperties
<1> HIDE DEF l
<1>2. \A i \in 1..Len(l) : i \in 1..Len(seq) \/ i = Len(seq) + 1
  BY <1>1
<1>3. SetOf(l) = SetOf(seq) \cup {x}
  <2>1. ASSUME NEW y \in SetOf(l) PROVE y \in SetOf(seq) \cup {x}
    <3>1. PICK i \in 1..Len(l) : l[i] = y
      BY DEF SetOf
    <3> QED
      BY <1>1, <1>2, <3>1 DEF SetOf
  <2>2. ASSUME NEW y \in SetOf(seq) PROVE y \in SetOf(l)
    <3>1. PICK i \in 1..Len(seq) : seq[i] = y
      BY DEF SetOf
    <3>2. i \in 1..Len(l) /\ l[i] = y
      BY <1>1, <3>1
    <3> QED
      BY <3>2 DEF SetOf
  <2>3. x \in SetOf(l)
    <3>1. Len(seq) + 1 \in 1..Len(l)
      BY <1>1
    <3> QED
      BY <1>1, <3>1 DEF SetOf
  <2> QED
    BY <2>1, <2>2, <2>3
<1>4. ASSUME Injective(seq), x \notin SetOf(seq) PROVE Injective(l)
  <2>1. \A i \in 1..Len(seq) : seq[i] # x
    BY <1>4 DEF SetOf
  <2>2. \A i, j \in 1..Len(seq) : seq[i] = seq[j] => i = j
    BY <1>4 DEF Injective
  <2>3. ASSUME NEW i \in 1..Len(l), NEW j \in 1..Len(l), l[i] = l[j] PROVE i = j
    <3>1. CASE i = Len(seq) + 1
      BY <1>1, <1>2, <2>1, <2>3, <3>1
    <3>2. CASE i \in 1..Len(seq) /\ j = Len(seq) + 1
      BY <1>1, <2>1, <2>3, <3>2
    <3>3. CASE i \in 1..Len(seq) /\ j \in 1..Len(seq)
      <4>1. seq[i] = seq[j]
        BY <1>1, <2>3, <3>3
      <4> QED
        BY <2>2, <3>3, <4>1
    <3> QED
      BY <1>2, <3>1, <3>2, <3>3
  <2> QED
    BY <2>3 DEF Injective
<1> QED
  BY <1>1, <1>3, <1>4 DEF l

\* The first of a list, and the others.
LEMMA HeadAndRest ==
    ASSUME NEW X, NEW seq \in Seq(X), seq # <<>>
    PROVE  /\ Head(seq) \in X /\ Tail(seq) \in Seq(X)
           /\ SetOf(seq) = {Head(seq)} \cup SetOf(Tail(seq))
           /\ Injective(seq) => Injective(Tail(seq)) /\ Head(seq) \notin SetOf(Tail(seq))
<1> DEFINE l == Tail(seq)
           h == Head(seq)
<1>1. /\ l \in Seq(X) /\ Len(l) = Len(seq) - 1 /\ Len(seq) \in Nat \ {0} /\ h \in X
      /\ h = seq[1] /\ \A i \in 1..Len(l) : l[i] = seq[i + 1]
  BY HeadTailProperties, LenProperties, EmptySeq
<1> HIDE DEF l, h
<1>2. SetOf(seq) = {h} \cup SetOf(l)
  <2>1. ASSUME NEW y \in SetOf(l) PROVE y \in SetOf(seq)
    <3>1. PICK i \in 1..Len(l) : l[i] = y
      BY DEF SetOf
    <3>2. i + 1 \in 1..Len(seq) /\ seq[i + 1] = y
      BY <1>1, <3>1
    <3> QED
      BY <3>2 DEF SetOf
  <2>2. h \in SetOf(seq)
    <3>1. 1 \in 1..Len(seq)
      BY <1>1
    <3> QED
      BY <1>1, <3>1 DEF SetOf
  <2>3. ASSUME NEW y \in SetOf(seq), y # h PROVE y \in SetOf(l)
    <3>1. PICK i \in 1..Len(seq) : seq[i] = y
      BY DEF SetOf
    <3>2. i # 1
      BY <1>1, <2>3, <3>1
    <3>3. i - 1 \in 1..Len(l) /\ (i - 1) + 1 = i
      BY <1>1, <3>2
    <3>4. l[i - 1] = y
      BY <1>1, <3>1, <3>3
    <3> QED
      BY <3>3, <3>4 DEF SetOf
  <2> QED
    BY <2>1, <2>2, <2>3
<1>3. ASSUME Injective(seq) PROVE Injective(l) /\ h \notin SetOf(l)
  <2>1. \A i, j \in 1..Len(seq) : seq[i] = seq[j] => i = j
    BY <1>3 DEF Injective
  <2>2. \A i \in 1..Len(l) : i + 1 \in 1..Len(seq) /\ l[i] = seq[i + 1]
    BY <1>1
  <2>3. Injective(l)
    <3>1. ASSUME NEW i \in 1..Len(l), NEW j \in 1..Len(l), l[i] = l[j] PROVE i = j
      <4>1. i + 1 = j + 1
        BY <2>1, <2>2, <3>1
      <4> QED
        BY <4>1
    <3> QED
      BY <3>1 DEF Injective
  <2>4. h \notin SetOf(l)
    <3>1. ASSUME NEW i \in 1..Len(l), l[i] = h PROVE FALSE
      <4>1. 1 \in 1..Len(seq) /\ seq[i + 1] = seq[1] /\ i + 1 \in 1..Len(seq)
        BY <1>1, <2>2, <3>1
      <4>2. i + 1 = 1
        BY <2>1, <4>1
      <4> QED
        BY <4>2
    <3> QED
      BY <3>1 DEF SetOf
  <2> QED
    BY <2>3, <2>4
<1> QED
  BY <1>1, <1>2, <1>3 DEF l, h

\* The first n of a list, and what comes after them.
LEMMA Divided ==
    ASSUME NEW X, NEW seq \in Seq(X), NEW n \in Nat
    PROVE  LET beg == AtMost(seq, n)
               end == SubSeq(seq, Len(beg) + 1, Len(seq))
           IN  /\ beg \in Seq(X) /\ end \in Seq(X)
               /\ Len(beg) = IF Len(seq) <= n THEN Len(seq) ELSE n
               /\ Len(end) = Len(seq) - Len(beg)
               /\ SetOf(seq) = SetOf(beg) \cup SetOf(end)
               /\ Injective(seq) => Injective(beg) /\ Injective(end)
<1> DEFINE m == IF Len(seq) <= n THEN Len(seq) ELSE n
           beg == SubSeq(seq, 1, m)
           end == SubSeq(seq, m + 1, Len(seq))
<1>1. Len(seq) \in Nat /\ m \in 0..Len(seq) /\ \A i \in 1..Len(seq) : seq[i] \in X
  BY LenProperties, ElementOfSeq
<1>2. AtMost(seq, n) = beg
  BY DEF AtMost
<1> HIDE DEF m
<1>3. beg \in Seq(X) /\ Len(beg) = m /\ \A i \in 1..m : beg[i] = seq[i]
  <2>1. /\ SubSeq(seq, 1, m) \in Seq(X)
        /\ Len(SubSeq(seq, 1, m)) = IF 1 <= m THEN m - 1 + 1 ELSE 0
        /\ \A i \in 1 .. m - 1 + 1 : SubSeq(seq, 1, m)[i] = seq[1 + i - 1]
    <3>1. \A i \in 1..m : seq[i] \in X
      BY <1>1
    <3>2. 1 \in Int /\ m \in Int
      BY <1>1
    <3> QED
      BY <3>1, <3>2, SubSeqProperties
  <2> HIDE DEF beg
  <2> QED
    BY <1>1, <2>1 DEF beg
<1>4. end \in Seq(X) /\ Len(end) = Len(seq) - m /\ \A i \in 1..(Len(seq) - m) : end[i] = seq[m + i]
  <2>1. /\ SubSeq(seq, m + 1, Len(seq)) \in Seq(X)
        /\ Len(SubSeq(seq, m + 1, Len(seq))) = IF m + 1 <= Len(seq) THEN Len(seq) - (m + 1) + 1 ELSE 0
        /\ \A i \in 1 .. Len(seq) - (m + 1) + 1 :
               SubSeq(seq, m + 1, Len(seq))[i] = seq[(m + 1) + i - 1]
    <3>1. \A i \in (m + 1)..Len(seq) : seq[i] \in X
      BY <1>1
    <3>2. m + 1 \in Int /\ Len(seq) \in Int
      BY <1>1
    <3> QED
      BY <3>1, <3>2, SubSeqProperties
  <2>2. Len(end) = Len(seq) - m
    BY <1>1, <2>1
  <2>3. ASSUME NEW i \in 1..(Len(seq) - m) PROVE end[i] = seq[m + i]
    <3>1. i \in 1 .. Len(seq) - (m + 1) + 1 /\ (m + 1) + i - 1 = m + i
      BY <1>1
    <3> QED
      BY <2>1, <3>1
  <2> QED
    BY <2>1, <2>2, <2>3
<1> HIDE DEF beg, end
<1>5. SetOf(seq) = SetOf(beg) \cup SetOf(end)
  <2>1. ASSUME NEW y \in SetOf(seq) PROVE y \in SetOf(beg) \cup SetOf(end)
    <3>1. PICK i \in 1..Len(seq) : seq[i] = y
      BY DEF SetOf
    <3>2. CASE i <= m
      <4>1. i \in 1..Len(beg) /\ beg[i] = y
        BY <1>1, <1>3, <3>1, <3>2
      <4> QED
        BY <4>1 DEF SetOf
    <3>3. CASE ~(i <= m)
      <4>1. i - m \in 1..(Len(seq) - m) /\ m + (i - m) = i
        BY <1>1, <3>3
      <4>2. i - m \in 1..Len(end) /\ end[i - m] = y
        BY <1>4, <3>1, <4>1
      <4> QED
        BY <4>2 DEF SetOf
    <3> QED
      BY <3>2, <3>3
  <2>2. ASSUME NEW y \in SetOf(beg) PROVE y \in SetOf(seq)
    <3>1. PICK i \in 1..m : beg[i] = y
      BY <1>3 DEF SetOf
    <3>2. i \in 1..Len(seq) /\ seq[i] = y
      BY <1>1, <1>3, <3>1
    <3> QED
      BY <3>2 DEF SetOf
  <2>3. ASSUME NEW y \in SetOf(end) PROVE y \in SetOf(seq)
    <3>1. PICK i \in 1..(Len(seq) - m) : end[i] = y
      BY <1>4 DEF SetOf
    <3>2. m + i \in 1..Len(seq) /\ seq[m + i] = y
      BY <1>1, <1>4, <3>1
    <3> QED
      BY <3>2 DEF SetOf
  <2> QED
    BY <2>1, <2>2, <2>3
<1>6. ASSUME Injective(seq) PROVE Injective(beg) /\ Injective(end)
  <2>1. \A i, j \in 1..Len(seq) : seq[i] = seq[j] => i = j
    BY <1>6 DEF Injective
  <2>2. ASSUME NEW i \in 1..m, NEW j \in 1..m, beg[i] = beg[j] PROVE i = j
    BY <1>1, <1>3, <2>1, <2>2
  <2>3. ASSUME NEW i \in 1..(Len(seq) - m), NEW j \in 1..(Len(seq) - m), end[i] = end[j] PROVE i = j
    <3>0. m + i \in 1..Len(seq) /\ m + j \in 1..Len(seq)
      BY <1>1
    <3>1. m + i \in 1..Len(seq) /\ m + j \in 1..Len(seq) /\ seq[m + i] = seq[m + j]
      BY <1>4, <2>3, <3>0
    <3>2. m + i = m + j
      BY <2>1, <3>1
    <3> QED
      BY <1>1, <3>2
  <2> QED
    BY <1>3, <1>4, <2>2, <2>3 DEF Injective
<1> QED
  BY <1>2, <1>3, <1>4, <1>5, <1>6 DEF m, end

\* A list without repetition has as many members as places.
LEMMA Counting ==
    ASSUME NEW X, NEW seq \in Seq(X), Injective(seq)
    PROVE  IsFiniteSet(SetOf(seq)) /\ Cardinality(SetOf(seq)) = Len(seq)
<1> DEFINE n == Len(seq)
           f == [i \in 1..n |-> seq[i]]
<1>1. n \in Nat
  BY LenProperties
<1>2. f \in [1..n -> SetOf(seq)]
  BY DEF SetOf
<1>3. \A i, j \in 1..n : f[i] = f[j] => i = j
  BY DEF Injective
<1>4. \A y \in SetOf(seq) : \E i \in 1..n : f[i] = y
  BY DEF SetOf
<1> HIDE DEF f, n
<1>5. f \in Surjection(1..n, SetOf(seq))
  BY <1>2, <1>4 DEF Surjection
<1>6. f \in Injection(1..n, SetOf(seq))
  BY <1>2, <1>3 DEF Injection, IsInjective
<1>7. IsFiniteSet(1..n) /\ Cardinality(1..n) = n
  <2>1. IsFiniteSet(1..n) /\ Cardinality(1..n) = IF 1 > n THEN 0 ELSE n - 1 + 1
    BY <1>1, FS_Interval
  <2> QED
    BY <1>1, <2>1
<1> QED
  BY <1>5, <1>6, <1>7, FS_Surjection DEF n

\* Taking some members out of a list without repetition makes it shorter by as many.
LEMMA TakenOut ==
    ASSUME NEW X, NEW seq \in Seq(X), Injective(seq),
           NEW out \in Seq(X), Injective(out), SetOf(out) \subseteq SetOf(seq)
    PROVE  Len(Retain(seq, X \ SetOf(out))) = Len(seq) - Len(out)
<1> DEFINE r == Retain(seq, X \ SetOf(out))
<1>1. r \in Seq(X) /\ SetOf(r) = SetOf(seq) \cap (X \ SetOf(out)) /\ Injective(r)
  BY RetainHolds
<1> HIDE DEF r
<1>2. SetOf(r) = SetOf(seq) \ SetOf(out) /\ SetOf(seq) \cap SetOf(out) = SetOf(out)
  BY <1>1, Members
<1>3. /\ Len(r) = Cardinality(SetOf(r)) /\ Len(seq) = Cardinality(SetOf(seq))
      /\ Len(out) = Cardinality(SetOf(out)) /\ IsFiniteSet(SetOf(seq))
  BY <1>1, Counting
<1>4. Cardinality(SetOf(seq) \ SetOf(out)) = Cardinality(SetOf(seq)) - Cardinality(SetOf(seq) \cap SetOf(out))
  BY <1>3, FS_Difference
<1> QED
  BY <1>2, <1>3, <1>4 DEF r

-----------------------------------------------------------------------------
(***************************************************************************)
(* The invariant.                                                          *)
(***************************************************************************)

\* No circuit is in a list twice, or in both.
Apart ==
    /\ Injective(circuits) /\ Injective(stubs)
    /\ SetOf(circuits) \cap SetOf(stubs) = {}

\* What a thread builds nobody else has; what it uses has not been a stub since; and
\* otherwise its hands are empty.
Uses(t) == pc[t] \in {"begin", "open", "condemn"}
Hands ==
    \A t \in Threads :
        /\ Building(t) =>
              /\ have[t] \in Circuits
              /\ have[t] \notin SetOf(circuits) /\ have[t] \notin SetOf(stubs)
              /\ \A u \in Threads \ {t} : have[u] # have[t]
        /\ Uses(t) => have[t] \in Circuits /\ have[t] \notin SetOf(stubs)
        /\ ~Building(t) /\ ~Uses(t) => have[t] = None

\* The streams of an open circuit are those of the threads that have one on it.
Openers(c) == {t \in Threads : pc[t] = "open" /\ have[t] = c}
Carries ==
    \A c \in Circuits : streams[c] = IF c \in closed THEN 0 ELSE Cardinality(Openers(c))

\* A pooled circuit that has been counted is flagged, or wavered; one that has not been
\* in the pool yet has not been counted.
Blamed ==
    /\ BlamedOnce
    /\ \A c \in SetOf(circuits) : count[c] > 0 => c \in flagged \/ c \in wavered
    /\ \A c \in SetOf(stubs) : count[c] = 0
    /\ \A t \in Threads : Building(t) => count[have[t]] = 0

Inv == TypeOK /\ Apart /\ Hands /\ Carries /\ Blamed /\ NoneLost

\* While the builder plans, its workers wait.
Planning == pc[Builder] \in {"plan", "more"} => \A w \in Workers : pc[w] = "idle"

-----------------------------------------------------------------------------
(***************************************************************************)
(* Where a thread is, what it has and what it has to close.                *)
(***************************************************************************)

\* A thread goes elsewhere, and the others stay.
LEMMA Moves ==
    ASSUME pc \in [Threads -> Places], NEW t \in Threads, NEW w \in Places, Goto(t, w)
    PROVE  /\ pc' \in [Threads -> Places] /\ pc'[t] = w
           /\ \A u \in Threads \ {t} : pc'[u] = pc[u]
BY DEF Goto

\* A thread takes something into its hands.
LEMMA Takes ==
    ASSUME have \in [Threads -> Circuits \cup {None}], NEW t \in Threads,
           NEW c \in Circuits \cup {None}, Take(t, c)
    PROVE  /\ have' \in [Threads -> Circuits \cup {None}] /\ have'[t] = c
           /\ \A u \in Threads \ {t} : have'[u] = have[u]
BY DEF Take

\* A thread is to close some circuits.
LEMMA WillClose ==
    ASSUME shut \in [Threads -> SUBSET Circuits], NEW t \in Threads,
           NEW cs \in SUBSET Circuits, ToClose(t, cs)
    PROVE  /\ shut' \in [Threads -> SUBSET Circuits] /\ shut'[t] = cs
           /\ \A u \in Threads \ {t} : shut'[u] = shut[u]
BY DEF ToClose

\* Another attempt, or the last one has failed.
LEMMA NextTryHolds ==
    ASSUME TypeOK, NEW t \in Threads, NextTry(t)
    PROVE  /\ pc' \in [Threads -> Places] /\ pc'[t] \in {"idle", "pick"}
           /\ \A u \in Threads \ {t} : pc'[u] = pc[u]
           /\ tries' \in [Threads -> 0..ConnectAttempts - 1]
<1>1. tries[t] \in 0..ConnectAttempts - 1 /\ ConnectAttempts \in Nat \ {0}
  BY PoolAssumption DEF TypeOK, PoolAssumption
<1>2. CASE tries[t] + 1 = ConnectAttempts
  <2>1. Goto(t, "idle") /\ tries' = [tries EXCEPT ![t] = 0]
    BY <1>2 DEF NextTry
  <2> QED
    BY <1>1, <2>1, Moves DEF TypeOK, Places
<1>3. CASE tries[t] + 1 # ConnectAttempts
  <2>1. Goto(t, "pick") /\ tries' = [tries EXCEPT ![t] = tries[t] + 1]
    BY <1>3 DEF NextTry
  <2>2. tries[t] + 1 \in 0..ConnectAttempts - 1
    BY <1>1, <1>3
  <2> QED
    BY <2>1, <2>2, Moves DEF TypeOK, Places
<1> QED
  BY <1>2, <1>3

\* Closing some circuits.
LEMMA ShutType ==
    ASSUME TypeOK, NEW cs \in SUBSET Circuits, Shut(cs)
    PROVE  /\ closed' \subseteq Circuits /\ old' \subseteq Circuits /\ slow' \subseteq Circuits
           /\ fits' \subseteq Circuits /\ used' \subseteq Circuits /\ streams' \in [Circuits -> Nat]
BY DEF TypeOK, Shut

-----------------------------------------------------------------------------
(***************************************************************************)
(* What has to be looked at for each part of the invariant.                *)
(***************************************************************************)

\* The thread does what it did, with what it had.
Still(u) ==
    /\ Building(u)' <=> Building(u)
    /\ Uses(u)' <=> Uses(u)
    /\ have'[u] = have[u]

\* The thread has nothing any more.
Done(u) == ~Building(u)' /\ ~Uses(u)' /\ have'[u] = None

\* The lists become shorter, and threads put away what they had.
LEMMA FrameHands ==
    ASSUME TypeOK, Hands,
           SetOf(circuits)' \subseteq SetOf(circuits), SetOf(stubs)' \subseteq SetOf(stubs),
           \A u \in Threads : Still(u) \/ Done(u)
    PROVE  Hands'
<1> SUFFICES ASSUME NEW t \in Threads
             PROVE  /\ Building(t)' =>
                          /\ have'[t] \in Circuits
                          /\ have'[t] \notin SetOf(circuits)' /\ have'[t] \notin SetOf(stubs)'
                          /\ \A u \in Threads \ {t} : have'[u] # have'[t]
                    /\ Uses(t)' => have'[t] \in Circuits /\ have'[t] \notin SetOf(stubs)'
                    /\ ~Building(t)' /\ ~Uses(t)' => have'[t] = None
  BY DEF Hands
<1>1. CASE Done(t)
  BY <1>1 DEF Done
<1>2. CASE Still(t)
  <2>1. ASSUME Building(t)' PROVE \A u \in Threads \ {t} : have'[u] # have'[t]
    <3>1. Building(t) /\ have'[t] = have[t]
      BY <1>2, <2>1 DEF Still
    <3>2. have[t] \in Circuits /\ \A u \in Threads \ {t} : have[u] # have[t]
      BY <3>1 DEF Hands
    <3>3. \A u \in Threads : have'[u] = have[u] \/ have'[u] = None
      BY DEF Still, Done
    <3> QED
      BY <3>1, <3>2, <3>3, PoolAssumption DEF PoolAssumption
  <2> QED
    BY <1>2, <2>1 DEF Still, Hands
<1> QED
  BY <1>1, <1>2

\* Streams are neither opened nor ended, but for those of circuits that are closed.
LEMMA FrameCarries ==
    ASSUME TypeOK, Carries, NEW cs,
           closed' = closed \cup cs,
           \A c \in Circuits : streams'[c] = IF c \in cs THEN 0 ELSE streams[c],
           \A u \in Threads : /\ pc'[u] = "open" <=> pc[u] = "open"
                              /\ pc[u] = "open" => have'[u] = have[u]
    PROVE  Carries'
<1> SUFFICES ASSUME NEW c \in Circuits
             PROVE  streams'[c] = IF c \in closed' THEN 0 ELSE Cardinality(Openers(c)')
  BY DEF Carries
<1>1. Openers(c)' = Openers(c)
  BY DEF Openers
<1>2. streams[c] = IF c \in closed THEN 0 ELSE Cardinality(Openers(c))
  BY DEF Carries
<1> QED
  BY <1>1, <1>2

\* Nothing is counted, and nothing is put into a list or begun.
LEMMA FrameBlamed ==
    ASSUME Blamed, count' = count, flagged' = flagged, wavered' = wavered,
           SetOf(circuits)' \subseteq SetOf(circuits), SetOf(stubs)' \subseteq SetOf(stubs),
           \A u \in Threads : Still(u) \/ Done(u)
    PROVE  Blamed'
<1>1. \A u \in Threads : Building(u)' => Building(u) /\ have'[u] = have[u]
  BY DEF Still, Done
<1> QED
  BY <1>1 DEF Blamed, BlamedOnce

\* What leaves a list is closed, or somebody will close it, or clear has dropped it; what
\* a thread puts away, or was to close, is closed.
LEMMA FrameLost ==
    ASSUME NoneLost, born' = born, dropped \subseteq dropped', closed \subseteq closed',
           \A c \in SetOf(circuits) \cup SetOf(stubs) :
               \/ c \in closed' \/ c \in dropped'
               \/ c \in SetOf(circuits)' \/ c \in SetOf(stubs)'
               \/ \E t \in Threads : c \in shut'[t] \/ (Building(t)' /\ have'[t] = c),
           \A t \in Threads : \A c \in shut[t] : c \in closed' \/ c \in shut'[t],
           \A t \in Threads : Building(t) =>
               \/ Building(t)' /\ have'[t] = have[t]
               \/ have[t] \in closed' \/ have[t] \in SetOf(circuits)' \/ have[t] \in SetOf(stubs)'
    PROVE  NoneLost'
<1> SUFFICES ASSUME NEW c \in born, c \notin closed', c \notin dropped'
             PROVE  \/ c \in SetOf(circuits)' \/ c \in SetOf(stubs)'
                    \/ \E t \in Threads : c \in shut'[t] \/ (Building(t)' /\ have'[t] = c)
  BY DEF NoneLost
<1>1. \/ c \in SetOf(circuits) \/ c \in SetOf(stubs)
      \/ \E t \in Threads : c \in shut[t] \/ (Building(t) /\ have[t] = c)
  BY DEF NoneLost
<1>2. ASSUME NEW t \in Threads, c \in shut[t] PROVE c \in shut'[t]
  BY <1>2
<1>3. ASSUME NEW t \in Threads, Building(t), have[t] = c
      PROVE  \/ Building(t)' /\ have'[t] = c
             \/ c \in SetOf(circuits)' \/ c \in SetOf(stubs)'
  BY <1>3
<1> QED
  BY <1>1, <1>2, <1>3

-----------------------------------------------------------------------------
(***************************************************************************)
(* Steps that change neither lists nor hands.                              *)
(***************************************************************************)

Rest == Apart /\ Hands /\ Carries /\ Blamed /\ NoneLost

\* Nothing the invariant speaks of changes, but where threads are.
LEMMA Quiet ==
    ASSUME Inv, UNCHANGED <<circuits, stubs, flagged, born, closed, streams, have, shut, count, dropped, wavered>>,
           \A u \in Threads : /\ Building(u)' <=> Building(u)
                              /\ Uses(u)' <=> Uses(u)
                              /\ pc'[u] = "open" <=> pc[u] = "open"
    PROVE  Rest'
<1>1. TypeOK /\ Apart /\ Hands /\ Carries /\ Blamed /\ NoneLost
  BY DEF Inv
<1>2. SetOf(circuits)' = SetOf(circuits) /\ SetOf(stubs)' = SetOf(stubs)
  BY DEF SetOf
<1>3. Apart'
  BY <1>1, <1>2 DEF Apart, Injective
<1>4. \A u \in Threads : Still(u)
  BY DEF Still
<1>5. Hands'
  BY <1>1, <1>2, <1>4, FrameHands
<1>6. Carries'
  <2> DEFINE cs == {}
  <2>1. closed' = closed \cup cs /\ \A c \in Circuits : streams'[c] = IF c \in cs THEN 0 ELSE streams[c]
    OBVIOUS
  <2>2. \A u \in Threads : /\ pc'[u] = "open" <=> pc[u] = "open"
                           /\ pc[u] = "open" => have'[u] = have[u]
    OBVIOUS
  <2> HIDE DEF cs
  <2> QED
    BY ONLY <1>1, <2>1, <2>2, FrameCarries
<1>7. Blamed'
  BY <1>1, <1>2, <1>4, FrameBlamed
<1>8. NoneLost'
  <2>1. \A t \in Threads : \A c \in shut[t] : c \in shut'[t]
    OBVIOUS
  <2>2. \A t \in Threads : Building(t) => Building(t)' /\ have'[t] = have[t]
    BY <1>4 DEF Still
  <2> QED
    BY <1>1, <1>2, <2>1, <2>2, FrameLost
<1> QED
  BY <1>3, <1>5, <1>6, <1>7, <1>8 DEF Rest

\* One thread goes from one place where its hands are empty to another.
LEMMA Walks ==
    ASSUME Inv, NEW t \in Threads, NEW w \in Places,
           pc' \in [Threads -> Places], pc'[t] = w, \A u \in Threads \ {t} : pc'[u] = pc[u],
           ~Building(t), ~Uses(t), w \notin {"extend", "insert", "add", "begin", "open", "condemn"}
    PROVE  \A u \in Threads : /\ Building(u)' <=> Building(u)
                              /\ Uses(u)' <=> Uses(u)
                              /\ pc'[u] = "open" <=> pc[u] = "open"
BY DEF Building, Uses

\* Connect keeps the invariant.
LEMMA ConnectHolds ==
    ASSUME Inv, NEW r \in Threads, Connect(r)
    PROVE  Inv'
<1>1. pc[r] = "idle" /\ Goto(r, "pick")
  BY DEF Connect, At
<1>2. pc' \in [Threads -> Places] /\ pc'[r] = "pick" /\ \A u \in Threads \ {r} : pc'[u] = pc[u]
  BY <1>1, Moves DEF Inv, TypeOK, Places
<1>3. UNCHANGED <<circuits, stubs, flagged, born, closed, streams, have, shut, count, dropped, wavered>>
  BY DEF Connect, pool, health, seen
<1>4. Rest'
  <2>1. ~Building(r) /\ ~Uses(r)
    BY <1>1 DEF Building, Uses
  <2> QED
    BY <1>2, <1>3, <2>1, Walks, Quiet DEF Places
<1>5. TypeOK'
  BY <1>2 DEF Inv, TypeOK, Connect, pool, health, seen
<1> QED
  BY <1>4, <1>5 DEF Inv, Rest

\* A build that fails before there is a circuit.
LEMMA CreateFailsHolds ==
    ASSUME Inv, NEW t \in Threads, CreateFails(t)
    PROVE  Inv'
<1>1. pc[t] \in {"create", "createstub"}
  BY DEF CreateFails, At
<1>2. /\ pc' \in [Threads -> Places] /\ pc'[t] \in {"idle", "pick"}
      /\ \A u \in Threads \ {t} : pc'[u] = pc[u]
      /\ tries' \in [Threads -> 0..ConnectAttempts - 1]
  <2>1. CASE t \in Requesters
    BY <2>1, NextTryHolds DEF CreateFails, Inv
  <2>2. CASE t \notin Requesters
    <3>1. Goto(t, "idle") /\ tries' = tries
      BY <2>2 DEF CreateFails
    <3> QED
      BY <3>1, Moves DEF Inv, TypeOK, Places
  <2> QED
    BY <2>1, <2>2
<1>3. UNCHANGED <<circuits, stubs, flagged, born, closed, streams, have, shut, count, dropped, wavered>>
  BY DEF CreateFails, pool, health, seen
<1>4. Rest'
  <2>1. ~Building(t) /\ ~Uses(t)
    BY <1>1 DEF Building, Uses
  <2> QED
    BY <1>2, <1>3, <2>1, Walks, Quiet DEF Places
<1>5. TypeOK'
  BY <1>2 DEF Inv, TypeOK, CreateFails, pool, health, seen
<1> QED
  BY <1>4, <1>5 DEF Inv, Rest

\* The builder looks at what is missing.
LEMMA NextJobHolds ==
    ASSUME Inv, NextJob
    PROVE  Inv'
<1>0. Builder \in Threads
  BY DEF Threads
<1>1. pc[Builder] = "plan" /\ Goto(Builder, IF first' = "none" THEN "idle" ELSE "more")
  BY DEF NextJob, At
<1>2. /\ pc' \in [Threads -> Places] /\ pc'[Builder] \in {"idle", "more"}
      /\ \A u \in Threads \ {Builder} : pc'[u] = pc[u]
  BY <1>0, <1>1, Moves DEF Inv, TypeOK, Places
<1>3. UNCHANGED <<circuits, stubs, flagged, born, closed, streams, have, shut, count, dropped, wavered>>
  BY DEF NextJob, pool, health, seen
<1>4. Rest'
  <2>1. ~Building(Builder) /\ ~Uses(Builder)
    BY <1>1 DEF Building, Uses
  <2> QED
    BY <1>0, <1>2, <1>3, <2>1, Walks, Quiet DEF Places
<1>5. first' \in {"none", "stub", "clean"}
  BY DEF NextJob, Useful
<1>6. TypeOK'
  BY <1>2, <1>5 DEF Inv, TypeOK, NextJob, pool, health, seen
<1> QED
  BY <1>4, <1>6 DEF Inv, Rest

\* The workers start where they build, with empty hands.
LEMMA NextJobsHolds ==
    ASSUME Inv, Planning, NextJobs
    PROVE  Inv'
<1>1. PICK stubbing \in SUBSET Workers : \E cleaning \in SUBSET (Workers \ stubbing) :
         pc' = [t \in Threads |->
                    IF t = Builder THEN "idle"
                    ELSE IF t \in stubbing THEN "createstub"
                    ELSE IF t \in cleaning THEN "stub" ELSE pc[t]]
  BY DEF NextJobs
<1>2. PICK cleaning \in SUBSET (Workers \ stubbing) :
         pc' = [t \in Threads |->
                    IF t = Builder THEN "idle"
                    ELSE IF t \in stubbing THEN "createstub"
                    ELSE IF t \in cleaning THEN "stub" ELSE pc[t]]
  BY <1>1
<1>3. pc[Builder] = "more" /\ \A w \in Workers : pc[w] = "idle"
  BY DEF NextJobs, At, Planning
<1>4. ASSUME NEW u \in Threads
      PROVE  /\ pc'[u] \in Places
             /\ Building(u)' <=> Building(u)
             /\ Uses(u)' <=> Uses(u)
             /\ pc'[u] = "open" <=> pc[u] = "open"
  <2>1. pc[u] \in Places
    BY DEF Inv, TypeOK
  <2>2. \/ pc'[u] = pc[u]
        \/ pc'[u] \in {"idle", "createstub", "stub"} /\ pc[u] \in {"idle", "more"}
    BY <1>2, <1>3
  <2> QED
    BY <2>1, <2>2 DEF Places, Building, Uses
<1>5. UNCHANGED <<circuits, stubs, flagged, born, closed, streams, have, shut, count, dropped, wavered>>
  BY DEF NextJobs, pool, health, seen
<1>6. Rest'
  BY <1>4, <1>5, Quiet
<1>7. pc' \in [Threads -> Places]
  BY <1>2, <1>4
<1>8. TypeOK'
  BY <1>7 DEF Inv, TypeOK, NextJobs, pool, health, seen
<1> QED
  BY <1>6, <1>8 DEF Inv, Rest

\* A stub is extended: it stays in the hands that had it.
LEMMA ExtendStubHolds ==
    ASSUME Inv, NEW t \in Threads, ExtendStub(t)
    PROVE  Inv'
<1>1. pc[t] = "extend" /\ Goto(t, "insert")
  BY DEF ExtendStub, At
<1>2. pc' \in [Threads -> Places] /\ pc'[t] = "insert" /\ \A u \in Threads \ {t} : pc'[u] = pc[u]
  BY <1>1, Moves DEF Inv, TypeOK, Places
<1>3. UNCHANGED <<circuits, stubs, flagged, born, closed, streams, have, shut, count, dropped, wavered>>
  BY DEF ExtendStub, pool, seen
<1>4. Rest'
  <2>1. \A u \in Threads : /\ Building(u)' <=> Building(u)
                           /\ Uses(u)' <=> Uses(u)
                           /\ pc'[u] = "open" <=> pc[u] = "open"
    BY <1>1, <1>2 DEF Building, Uses
  <2> QED
    BY <1>3, <2>1, Quiet
<1>5. fits' \subseteq Circuits
  <2>1. have[t] \in Circuits
    BY <1>1 DEF Inv, Hands, Building
  <2> QED
    BY <2>1 DEF ExtendStub, Extends, Inv, TypeOK
<1>6. TypeOK'
  BY <1>2, <1>5 DEF Inv, TypeOK, ExtendStub, pool, seen
<1> QED
  BY <1>4, <1>6 DEF Inv, Rest

\* Threads stay where they are, and so does what the invariant says of circuits.
LEMMA Elsewhere ==
    ASSUME Inv, UNCHANGED <<circuits, stubs, flagged, born, closed, streams, pc, have, shut, count, dropped, wavered>>
    PROVE  Rest'
BY Quiet DEF Building, Uses

\* Taking the blame, measuring and ageing change nothing the invariant relates.
LEMMA TakeBlameHolds ==
    ASSUME Inv, TakeBlame
    PROVE  Inv'
<1>1. Rest'
  BY Elsewhere DEF TakeBlame, health, threads, seen
<1>2. pending' = <<>> /\ pending' \in Seq(Circuits) /\ Len(pending') = 0
  BY DEF TakeBlame
<1>3. Len(pending') <= MaxPendingBlame
  BY <1>2, PoolAssumption DEF PoolAssumption
<1>4. TypeOK'
  BY <1>2, <1>3 DEF TakeBlame, health, threads, seen, Inv, TypeOK
<1> QED
  BY <1>1, <1>4 DEF Inv, Rest

\* A circuit measures below the floor, or well again.
LEMMA SlowsHolds ==
    ASSUME Inv, NEW c \in Circuits, Slows(c)
    PROVE  Inv'
<1>1. Rest'
  BY Elsewhere DEF Slows, pool, threads, seen
<1>2. TypeOK'
  BY DEF Slows, pool, threads, seen, Inv, TypeOK
<1> QED
  BY <1>1, <1>2 DEF Inv, Rest

\* A circuit ages.
LEMMA AgesHolds ==
    ASSUME Inv, NEW c \in Circuits, Ages(c)
    PROVE  Inv'
<1>1. Rest'
  BY Elsewhere DEF Ages, pool, threads, seen
<1>2. TypeOK'
  BY DEF Ages, pool, threads, seen, Inv, TypeOK
<1> QED
  BY <1>1, <1>2 DEF Inv, Rest

-----------------------------------------------------------------------------
(***************************************************************************)
(* Steps that close circuits.                                              *)
(***************************************************************************)

\* Some circuits are closed.  They may leave the lists, and the hands of a thread that has
\* no stream; nothing else does, unless it is dropped.
LEMMA Closes ==
    ASSUME Inv, NEW cs \in SUBSET Circuits, Shut(cs), born' = born, dropped \subseteq dropped',
           SetOf(circuits)' \subseteq SetOf(circuits), SetOf(stubs)' \subseteq SetOf(stubs),
           \A c \in SetOf(circuits) \cup SetOf(stubs) :
               c \in closed' \/ c \in dropped' \/ c \in SetOf(circuits)' \/ c \in SetOf(stubs)',
           \A t \in Threads : \A c \in shut[t] : c \in closed' \/ c \in shut'[t],
           \A t \in Threads : /\ Still(t) \/ (Done(t) /\ pc[t] # "open")
                              /\ pc'[t] = "open" <=> pc[t] = "open"
                              /\ Building(t) => Still(t) \/ have[t] \in closed'
    PROVE  Hands' /\ Carries' /\ NoneLost'
<1>1. TypeOK /\ Hands /\ Carries /\ NoneLost
  BY DEF Inv
<1>2. Hands'
  BY <1>1, FrameHands
<1>3. closed' = closed \cup cs /\ \A c \in Circuits : streams'[c] = IF c \in cs THEN 0 ELSE streams[c]
  BY DEF Shut
<1>4. Carries'
  <2>1. \A u \in Threads : /\ pc'[u] = "open" <=> pc[u] = "open"
                           /\ pc[u] = "open" => have'[u] = have[u]
    BY DEF Still
  <2> QED
    BY <1>1, <1>3, <2>1, FrameCarries
<1>5. NoneLost'
  <2>1. closed \subseteq closed'
    BY <1>3
  <2>2. \A t \in Threads : Building(t) =>
               \/ Building(t)' /\ have'[t] = have[t]
               \/ have[t] \in closed'
    BY DEF Still
  <2> QED
    BY <1>1, <2>1, <2>2, FrameLost
<1> QED
  BY <1>2, <1>4, <1>5

\* A circuit's far end, or its guard, has ended it.
LEMMA DiesHolds ==
    ASSUME Inv, NEW c \in Circuits, Dies(c)
    PROVE  Inv'
<1> DEFINE cs == {c}
<1>1. /\ Shut(cs) /\ cs \in SUBSET Circuits
      /\ UNCHANGED <<circuits, stubs, flagged, pending, born, pc, have, tries, shut, first, count, dropped, wavered>>
  BY DEF Dies, Close, pool, threads, seen
<1> HIDE DEF cs
<1>2. SetOf(circuits)' = SetOf(circuits) /\ SetOf(stubs)' = SetOf(stubs)
  BY <1>1 DEF SetOf
<1>3. \A t \in Threads : Still(t) /\ (pc'[t] = "open" <=> pc[t] = "open")
  BY <1>1 DEF Still, Building, Uses
<1>4. Hands' /\ Carries' /\ NoneLost'
  BY <1>1, <1>2, <1>3, Closes
<1>5. Apart'
  BY <1>1, <1>2 DEF Inv, Apart, Injective
<1>6. Blamed'
  BY <1>1, <1>2, <1>3, FrameBlamed DEF Inv
<1>7. TypeOK'
  <2>1. /\ closed' \subseteq Circuits /\ old' \subseteq Circuits /\ slow' \subseteq Circuits
        /\ fits' \subseteq Circuits /\ used' \subseteq Circuits /\ streams' \in [Circuits -> Nat]
    BY <1>1, ShutType DEF Inv
  <2> QED
    BY <1>1, <2>1 DEF Inv, TypeOK
<1> QED
  BY <1>4, <1>5, <1>6, <1>7 DEF Inv

\* One of the circuits that are to be closed is.
LEMMA CloseAllHolds ==
    ASSUME Inv, NEW t \in Threads, CloseAll(t)
    PROVE  Inv'
<1>0. PICK c \in shut[t] :
        /\ Close(c) /\ ToClose(t, shut[t] \ {c})
        /\ UNCHANGED <<pool, born, pc, have, tries, first, count, dropped, wavered, events>>
  BY DEF CloseAll
<1>c. shut[t] \in SUBSET Circuits
  BY DEF Inv, TypeOK
<1> DEFINE cs == {c}
<1>1. /\ Shut(cs) /\ cs \in SUBSET Circuits
      /\ UNCHANGED <<circuits, stubs, flagged, pending, born, pc, have, tries, first, count, dropped, wavered>>
  BY <1>0, <1>c DEF Close, pool
<1>s. /\ shut' \in [Threads -> SUBSET Circuits]
      /\ \A u \in Threads : \A d \in shut[u] : d \in closed' \/ d \in shut'[u]
  <2>1. /\ shut' \in [Threads -> SUBSET Circuits] /\ shut'[t] = shut[t] \ {c}
        /\ \A u \in Threads \ {t} : shut'[u] = shut[u]
    BY <1>0, <1>c, WillClose DEF Inv, TypeOK
  <2>2. c \in closed'
    BY <1>1 DEF Shut
  <2> QED
    BY <2>1, <2>2
<1> HIDE DEF cs
<1>2. SetOf(circuits)' = SetOf(circuits) /\ SetOf(stubs)' = SetOf(stubs)
  BY <1>1 DEF SetOf
<1>3. \A u \in Threads : Still(u) /\ (pc'[u] = "open" <=> pc[u] = "open")
  BY <1>1 DEF Still, Building, Uses
<1>4. Hands' /\ Carries' /\ NoneLost'
  BY <1>1, <1>s, <1>2, <1>3, Closes
<1>5. Apart'
  BY <1>1, <1>2 DEF Inv, Apart, Injective
<1>6. Blamed'
  BY <1>1, <1>2, <1>3, FrameBlamed DEF Inv
<1>7. TypeOK'
  <2>1. /\ closed' \subseteq Circuits /\ old' \subseteq Circuits /\ slow' \subseteq Circuits
        /\ fits' \subseteq Circuits /\ used' \subseteq Circuits /\ streams' \in [Circuits -> Nat]
    BY <1>1, ShutType DEF Inv
  <2> QED
    BY <1>1, <1>s, <2>1 DEF Inv, TypeOK
<1> QED
  BY <1>4, <1>5, <1>6, <1>7 DEF Inv

\* A stub that could not be extended is closed.
LEMMA ExtendFailsHolds ==
    ASSUME Inv, NEW t \in Threads, ExtendFails(t)
    PROVE  Inv'
<1>0. pc[t] = "extend" /\ Close(have[t]) /\ Take(t, None) /\ Goto(t, "create")
  BY DEF ExtendFails, At
<1>c. have[t] \in Circuits
  BY <1>0 DEF Inv, Hands, Building
<1> DEFINE cs == {have[t]}
<1>1. /\ Shut(cs) /\ cs \in SUBSET Circuits
      /\ UNCHANGED <<circuits, stubs, flagged, pending, born, tries, shut, first, count, dropped, wavered>>
  BY <1>0, <1>c DEF ExtendFails, Close, pool, seen
<1>d. have[t] \in closed'
  BY <1>1 DEF Shut
<1> HIDE DEF cs
<1>2. SetOf(circuits)' = SetOf(circuits) /\ SetOf(stubs)' = SetOf(stubs)
  BY <1>1 DEF SetOf
<1>p. /\ pc' \in [Threads -> Places] /\ pc'[t] = "create" /\ \A u \in Threads \ {t} : pc'[u] = pc[u]
      /\ have' \in [Threads -> Circuits \cup {None}] /\ have'[t] = None
      /\ \A u \in Threads \ {t} : have'[u] = have[u]
  BY <1>0, Moves, Takes DEF Inv, TypeOK, Places
<1>3. \A u \in Threads : /\ Still(u) \/ (Done(u) /\ pc[u] # "open")
                         /\ pc'[u] = "open" <=> pc[u] = "open"
                         /\ Building(u) => Still(u) \/ have[u] \in closed'
  BY <1>0, <1>d, <1>p DEF Still, Done, Building, Uses
<1>4. Hands' /\ Carries' /\ NoneLost'
  BY <1>1, <1>2, <1>3, Closes
<1>5. Apart'
  BY <1>1, <1>2 DEF Inv, Apart, Injective
<1>6. Blamed'
  BY <1>1, <1>2, <1>3, FrameBlamed DEF Inv
<1>7. TypeOK'
  <2>1. /\ closed' \subseteq Circuits /\ old' \subseteq Circuits /\ slow' \subseteq Circuits
        /\ fits' \subseteq Circuits /\ used' \subseteq Circuits /\ streams' \in [Circuits -> Nat]
    BY <1>1, ShutType DEF Inv
  <2> QED
    BY <1>1, <1>p, <2>1 DEF Inv, TypeOK
<1> QED
  BY <1>4, <1>5, <1>6, <1>7 DEF Inv

\* One circuit is taken off a list.
LEMMA WithoutHolds ==
    ASSUME NEW seq \in Seq(Circuits), NEW c
    PROVE  /\ Without(seq, c) \in Seq(Circuits) /\ SetOf(Without(seq, c)) = SetOf(seq) \ {c}
           /\ Injective(seq) => Injective(Without(seq, c))
BY RetainHolds, Members DEF Without

\* What is counted is counted once more, up to two.
LEMMA CountedHolds ==
    ASSUME TypeOK, NEW more
    PROVE  /\ Counted(more) \in [Circuits -> 0..2]
           /\ \A c \in Circuits : /\ Counted(more)[c] <= count[c] + 1
                                  /\ c \notin SetOf(more) => Counted(more)[c] = count[c]
<1>1. \A c \in Circuits : count[c] \in 0..2
  BY DEF TypeOK
<1> QED
  BY <1>1 DEF Counted

\* Some circuits leave the lists for a thread that had nothing to close; it, and nobody else,
\* may put away what it had.
LEMMA Leaves ==
    ASSUME Inv, NEW t \in Threads, shut[t] = {}, NEW cs \in SUBSET Circuits, ToClose(t, cs),
           UNCHANGED <<born, closed, streams, dropped>>,
           SetOf(circuits)' \subseteq SetOf(circuits), SetOf(stubs)' \subseteq SetOf(stubs),
           \A c \in SetOf(circuits) \cup SetOf(stubs) :
               c \in cs \/ c \in SetOf(circuits)' \/ c \in SetOf(stubs)',
           pc[t] # "open", ~Building(t), Done(t),
           \A u \in Threads \ {t} : pc'[u] = pc[u] /\ have'[u] = have[u]
    PROVE  /\ Hands' /\ Carries' /\ NoneLost' /\ shut' \in [Threads -> SUBSET Circuits]
           /\ \A u \in Threads : Still(u) \/ Done(u)
<1>1. TypeOK /\ Hands /\ Carries /\ NoneLost
  BY DEF Inv
<1>2. \A u \in Threads : Still(u) \/ Done(u)
  BY DEF Still, Building, Uses
<1>3. Hands'
  BY <1>1, <1>2, FrameHands
<1>4. Carries'
  <2> DEFINE none == {}
  <2>1. closed' = closed \cup none /\ \A c \in Circuits : streams'[c] = IF c \in none THEN 0 ELSE streams[c]
    OBVIOUS
  <2>2. \A u \in Threads : /\ pc'[u] = "open" <=> pc[u] = "open"
                           /\ pc[u] = "open" => have'[u] = have[u]
    BY DEF Done, Uses
  <2> HIDE DEF none
  <2> QED
    BY ONLY <1>1, <2>1, <2>2, FrameCarries
<1>5. /\ shut' \in [Threads -> SUBSET Circuits] /\ shut'[t] = cs
      /\ \A u \in Threads \ {t} : shut'[u] = shut[u]
  BY <1>1, WillClose DEF TypeOK
<1>6. NoneLost'
  <2>1. \A u \in Threads : \A c \in shut[u] : c \in shut'[u]
    BY <1>5
  <2>2. \A u \in Threads : Building(u) => Building(u)' /\ have'[u] = have[u]
    BY DEF Building
  <2>3. \A c \in SetOf(circuits) \cup SetOf(stubs) :
            \/ c \in SetOf(circuits)' \/ c \in SetOf(stubs)'
            \/ \E u \in Threads : c \in shut'[u]
    BY <1>5
  <2> QED
    BY <1>1, <2>1, <2>2, <2>3, FrameLost
<1> QED
  BY <1>2, <1>3, <1>4, <1>5, <1>6

\* The stream did not begin: the circuit is discarded.
LEMMA BeginFailsHolds ==
    ASSUME Inv, NEW r \in Threads, BeginFails(r)
    PROVE  Inv'
<1>0. /\ pc[r] = "begin" /\ shut[r] = {} /\ ToClose(r, {have[r]}) /\ Take(r, None) /\ NextTry(r)
      /\ circuits' = Without(circuits, have[r]) /\ stubs' = Without(stubs, have[r])
  BY DEF BeginFails, At
<1>c. have[r] \in Circuits
  BY <1>0 DEF Inv, Hands, Uses
<1>1. UNCHANGED <<flagged, pending, born, closed, old, slow, fits, streams, used, first, count, dropped, wavered>>
  BY DEF BeginFails, health, seen
<1>2. /\ circuits' \in Seq(Circuits) /\ SetOf(circuits') = SetOf(circuits) \ {have[r]}
      /\ stubs' \in Seq(Circuits) /\ SetOf(stubs') = SetOf(stubs) \ {have[r]}
      /\ Injective(circuits') /\ Injective(stubs')
  BY <1>0, WithoutHolds DEF Inv, TypeOK, Apart
<1>a. SetOf(circuits)' = SetOf(circuits) \ {have[r]} /\ SetOf(stubs)' = SetOf(stubs) \ {have[r]}
  BY <1>2 DEF SetOf
<1>p. /\ pc' \in [Threads -> Places] /\ pc'[r] \in {"idle", "pick"} /\ \A u \in Threads \ {r} : pc'[u] = pc[u]
      /\ have' \in [Threads -> Circuits \cup {None}] /\ have'[r] = None
      /\ \A u \in Threads \ {r} : have'[u] = have[u]
      /\ tries' \in [Threads -> 0..ConnectAttempts - 1]
  <2>1. have \in [Threads -> Circuits \cup {None}] /\ None \in Circuits \cup {None}
    BY DEF Inv, TypeOK
  <2> QED
    BY <1>0, <2>1, NextTryHolds, Takes DEF Inv
<1>3. pc[r] # "open" /\ ~Building(r) /\ Done(r)
  BY <1>0, <1>p DEF Done, Building, Uses
<1>4. /\ Hands' /\ Carries' /\ NoneLost' /\ shut' \in [Threads -> SUBSET Circuits]
      /\ \A u \in Threads : Still(u) \/ Done(u)
  <2> DEFINE cs == {have[r]}
  <2>1. cs \in SUBSET Circuits /\ ToClose(r, cs)
    BY <1>0, <1>c
  <2>2. \A c \in SetOf(circuits) \cup SetOf(stubs) : c \in cs \/ c \in SetOf(circuits)' \/ c \in SetOf(stubs)'
    BY <1>a
  <2> HIDE DEF cs
  <2> QED
    BY <1>0, <1>1, <1>a, <1>p, <1>3, <2>1, <2>2, Leaves
<1>5. Apart'
  BY <1>2, <1>a DEF Inv, Apart, Injective
<1>6. Blamed'
  BY <1>1, <1>a, <1>4, FrameBlamed DEF Inv
<1>7. TypeOK'
  BY <1>1, <1>2, <1>p, <1>4 DEF Inv, TypeOK
<1> QED
  BY <1>4, <1>5, <1>6, <1>7 DEF Inv

\* A circuit that failed its probe is counted, unless it was before, and is to be closed.
LEMMA CondemnHolds ==
    ASSUME Inv, Condemn
    PROVE  Inv'
<1>m. Maintainer \in Threads
  BY DEF Threads
<1>i. pc[Maintainer] = "condemn" /\ shut[Maintainer] = {}
  BY DEF Condemn, At
<1>c. PICK c \in Circuits : c = have[Maintainer]
  BY <1>m, <1>i DEF Inv, Hands, Uses
<1> DEFINE blame == IF c \in SetOf(circuits) \ flagged /\ Len(pending) < MaxPendingBlame
                    THEN <<c>> ELSE <<>>
<1>1. /\ pending' = pending \o blame /\ count' = Counted(blame)
      /\ circuits' = Without(circuits, c)
      /\ ToClose(Maintainer, {c}) /\ Goto(Maintainer, "idle") /\ Take(Maintainer, None)
      /\ UNCHANGED <<stubs, flagged, born, closed, old, slow, fits, streams, used, tries, first, dropped, wavered>>
  BY <1>c DEF Condemn, health
<1>b. /\ blame \in Seq(Circuits) /\ SetOf(blame) \subseteq {c} \cap (SetOf(circuits) \ flagged)
      /\ Len(pending) + Len(blame) <= MaxPendingBlame
  <2>1. Len(pending) \in Nat /\ Len(pending) <= MaxPendingBlame /\ MaxPendingBlame \in Nat
    BY PoolAssumption, Members DEF Inv, TypeOK, PoolAssumption
  <2>2. CASE c \in SetOf(circuits) \ flagged /\ Len(pending) < MaxPendingBlame
    <3>1. blame = <<c>> /\ Len(<<c>>) = 1 /\ <<c>> \in Seq(Circuits) /\ <<c>>[1] = c
      BY <2>2
    <3>2. SetOf(<<c>>) = {c}
      BY DEF SetOf
    <3> HIDE DEF blame
    <3> QED
      BY <2>1, <2>2, <3>1, <3>2
  <2>3. CASE ~(c \in SetOf(circuits) \ flagged /\ Len(pending) < MaxPendingBlame)
    <3>1. blame = <<>> /\ <<>> \in Seq(Circuits)
      BY <2>3
    <3> HIDE DEF blame
    <3> QED
      BY <2>1, <3>1, EmptyList
  <2> QED
    BY <2>2, <2>3
<1> HIDE DEF blame
<1>2. /\ circuits' \in Seq(Circuits) /\ SetOf(circuits') = SetOf(circuits) \ {c} /\ Injective(circuits')
  BY <1>1, WithoutHolds DEF Inv, TypeOK, Apart
<1>a. SetOf(circuits)' = SetOf(circuits) \ {c} /\ SetOf(stubs)' = SetOf(stubs)
  BY <1>1, <1>2 DEF SetOf
<1>p. /\ pc' \in [Threads -> Places] /\ pc'[Maintainer] = "idle"
      /\ \A u \in Threads \ {Maintainer} : pc'[u] = pc[u]
      /\ have' \in [Threads -> Circuits \cup {None}] /\ have'[Maintainer] = None
      /\ \A u \in Threads \ {Maintainer} : have'[u] = have[u]
  BY <1>m, <1>1, Moves, Takes DEF Inv, TypeOK, Places
<1>3. pc[Maintainer] # "open" /\ ~Building(Maintainer) /\ Done(Maintainer)
  BY <1>i, <1>p DEF Done, Building, Uses
<1>4. /\ Hands' /\ Carries' /\ NoneLost' /\ shut' \in [Threads -> SUBSET Circuits]
      /\ \A u \in Threads : Still(u) \/ Done(u)
  <2> DEFINE cs == {c}
  <2>1. cs \in SUBSET Circuits /\ ToClose(Maintainer, cs)
    BY <1>1
  <2>2. \A d \in SetOf(circuits) \cup SetOf(stubs) : d \in cs \/ d \in SetOf(circuits)' \/ d \in SetOf(stubs)'
    BY <1>a
  <2> HIDE DEF cs
  <2> QED
    BY <1>m, <1>i, <1>1, <1>a, <1>p, <1>3, <2>1, <2>2, Leaves
<1>5. Apart'
  BY <1>1, <1>2, <1>a DEF Inv, Apart, Injective
<1>n. /\ count' \in [Circuits -> 0..2] /\ count \in [Circuits -> 0..2]
      /\ count'[c] <= count[c] + 1
      /\ \A d \in Circuits : d # c \/ c \notin SetOf(circuits) \/ c \in flagged => count'[d] = count[d]
  BY <1>1, <1>b, CountedHolds DEF Inv, TypeOK
<1>6. Blamed'
  <2>1. ASSUME NEW d \in Circuits, count'[d] > 1 PROVE d \in wavered
    <3>1. CASE count'[d] = count[d]
      BY <2>1, <3>1 DEF Inv, Blamed, BlamedOnce
    <3>2. CASE count'[d] # count[d]
      <4>1. d = c /\ c \in SetOf(circuits) /\ c \notin flagged
        BY <1>n, <3>2
      <4>2. count[c] > 0
        BY <1>n, <2>1, <4>1
      <4> QED
        BY <4>1, <4>2 DEF Inv, Blamed
    <3> QED
      BY <3>1, <3>2
  <2>2. ASSUME NEW d \in SetOf(circuits) \ {c}, count'[d] > 0 PROVE d \in flagged \/ d \in wavered
    <3>1. d \in Circuits
      BY Members DEF Inv, TypeOK
    <3> QED
      BY <1>n, <2>2, <3>1 DEF Inv, Blamed
  <2>3. ASSUME NEW d \in SetOf(stubs) PROVE count'[d] = 0
    <3>1. d \in Circuits /\ d \notin SetOf(circuits)
      BY Members DEF Inv, TypeOK, Apart
    <3> QED
      BY <1>n, <3>1 DEF Inv, Blamed
  <2>4. ASSUME NEW t \in Threads, Building(t) PROVE count'[have[t]] = 0
    <3>1. have[t] \in Circuits /\ have[t] \notin SetOf(circuits)
      BY <2>4 DEF Inv, Hands
    <3> QED
      BY <1>n, <2>4, <3>1 DEF Inv, Blamed
  <2>5. \A t \in Threads : Building(t)' => Building(t) /\ have'[t] = have[t]
    BY <1>4 DEF Still, Done
  <2> QED
    BY <1>1, <1>a, <2>1, <2>2, <2>3, <2>4, <2>5 DEF Blamed, BlamedOnce
<1>7. TypeOK'
  <2>2. pending' \in Seq(Circuits) /\ Len(pending') <= MaxPendingBlame
    BY <1>1, <1>b, ConcatProperties DEF Inv, TypeOK
  <2> QED
    BY <1>1, <1>2, <1>p, <1>4, <1>n, <2>2 DEF Inv, TypeOK
<1> QED
  BY <1>4, <1>5, <1>6, <1>7 DEF Inv

\* Stubs are closed, and idle circuits dropped.
LEMMA ClearHolds ==
    ASSUME Inv, Clear
    PROVE  Inv'
<1> DEFINE cs == SetOf(stubs)
           left == Retain(circuits, {c \in Circuits : streams[c] > 0})
<1>1. /\ Shut(cs) /\ circuits' = left /\ dropped' = dropped \cup (SetOf(circuits) \ SetOf(left))
      /\ stubs' = <<>>
      /\ UNCHANGED <<flagged, pending, born, pc, have, tries, shut, first, count, wavered>>
  BY DEF Clear, threads
<1>c. cs \in SUBSET Circuits /\ SetOf(circuits) \subseteq Circuits
  BY Members DEF Inv, TypeOK
<1>d. cs \subseteq closed'
  BY <1>1 DEF Shut
<1>2. left \in Seq(Circuits) /\ SetOf(left) \subseteq SetOf(circuits) /\ Injective(left)
  BY RetainHolds DEF Inv, TypeOK, Apart
<1>a. SetOf(circuits)' = SetOf(left) /\ SetOf(stubs)' = {} /\ SetOf(stubs) = cs
  BY <1>1, EmptyList DEF SetOf
<1> HIDE DEF cs, left
<1>3. \A u \in Threads : Still(u) /\ (pc'[u] = "open" <=> pc[u] = "open")
  BY <1>1 DEF Still, Building, Uses
<1>4. Hands' /\ Carries' /\ NoneLost'
  <2>1. \A c \in SetOf(circuits) \cup SetOf(stubs) : c \in closed' \/ c \in dropped' \/ c \in SetOf(circuits)'
    BY <1>1, <1>a, <1>d
  <2>2. /\ SetOf(circuits)' \subseteq SetOf(circuits) /\ SetOf(stubs)' \subseteq SetOf(stubs)
        /\ dropped \subseteq dropped'
    BY <1>1, <1>2, <1>a
  <2> QED
    BY <1>1, <1>c, <1>3, <2>1, <2>2, Closes
<1>5. Apart'
  BY <1>1, <1>2, <1>a, EmptyList DEF Inv, Apart
<1>6. Blamed'
  BY <1>1, <1>2, <1>a, <1>3, FrameBlamed DEF Inv
<1>7. TypeOK'
  <2>1. /\ closed' \subseteq Circuits /\ old' \subseteq Circuits /\ slow' \subseteq Circuits
        /\ fits' \subseteq Circuits /\ used' \subseteq Circuits /\ streams' \in [Circuits -> Nat]
    BY <1>1, <1>c, ShutType DEF Inv
  <2>2. stubs' \in Seq(Circuits) /\ dropped' \subseteq Circuits
    BY <1>1, <1>c DEF Inv, TypeOK
  <2> QED
    BY <1>1, <1>2, <2>1, <2>2 DEF Inv, TypeOK
<1> QED
  BY <1>4, <1>5, <1>6, <1>7 DEF Inv

-----------------------------------------------------------------------------
(***************************************************************************)
(* Streams that begin and end.                                             *)
(***************************************************************************)

\* There are finitely many threads, so that streams can be counted.
LEMMA OpenersFinite ==
    ASSUME NEW c
    PROVE  IsFiniteSet(Openers(c)) /\ Cardinality(Openers(c)) \in Nat
<1>1. IsFiniteSet(Requesters \cup Workers)
  BY PoolAssumption, FS_Union DEF PoolAssumption
<1>2. IsFiniteSet(Threads)
  <2>1. IsFiniteSet((Requesters \cup Workers) \cup {Builder})
    BY <1>1, FS_AddElement
  <2>2. IsFiniteSet(((Requesters \cup Workers) \cup {Builder}) \cup {Maintainer})
    BY <2>1, FS_AddElement
  <2>3. Threads = ((Requesters \cup Workers) \cup {Builder}) \cup {Maintainer}
    BY DEF Threads
  <2> QED
    BY <2>2, <2>3
<1>3. Openers(c) \in SUBSET Threads
  BY DEF Openers
<1> QED
  BY <1>2, <1>3, FS_Subset, FS_CardinalityType

\* A stream begins on the circuit in hand.
LEMMA BeginStreamHolds ==
    ASSUME Inv, NEW r \in Threads, BeginStream(r)
    PROVE  Inv'
<1>c. PICK c \in Circuits : c = have[r]
  BY DEF Inv, Hands, Uses, BeginStream, At
<1>0. /\ pc[r] = "begin" /\ c \notin closed /\ Goto(r, "open")
      /\ streams' = [streams EXCEPT ![c] = streams[c] + 1]
      /\ tries' = [tries EXCEPT ![r] = 0]
      /\ UNCHANGED <<circuits, stubs, used, flagged, pending, born, closed, old, slow, fits, have, shut, first,
                     count, dropped, wavered>>
  BY <1>c DEF BeginStream, At, pool, seen
<1>t. TypeOK /\ Apart /\ Hands /\ Carries /\ Blamed /\ NoneLost
  BY DEF Inv
<1>p. pc' \in [Threads -> Places] /\ pc'[r] = "open" /\ \A u \in Threads \ {r} : pc'[u] = pc[u]
  BY <1>0, <1>t, Moves DEF TypeOK, Places
<1>2. SetOf(circuits)' = SetOf(circuits) /\ SetOf(stubs)' = SetOf(stubs)
  BY <1>0 DEF SetOf
<1>3. \A u \in Threads : Still(u)
  BY <1>0, <1>p DEF Still, Building, Uses
<1>4. Carries'
  <2> SUFFICES ASSUME NEW d \in Circuits
               PROVE  streams'[d] = IF d \in closed THEN 0 ELSE Cardinality(Openers(d)')
    BY <1>0 DEF Carries
  <2>1. streams[d] = IF d \in closed THEN 0 ELSE Cardinality(Openers(d))
    BY <1>t DEF Carries
  <2>2. CASE d = c
    <3>1. Openers(c)' = Openers(c) \cup {r} /\ r \notin Openers(c)
      BY <1>0, <1>c, <1>p DEF Openers
    <3>2. Cardinality(Openers(c) \cup {r}) = Cardinality(Openers(c)) + 1
      BY <3>1, OpenersFinite, FS_AddElement
    <3>3. streams'[c] = streams[c] + 1
      BY <1>0, <1>c, <1>t DEF TypeOK
    <3> QED
      BY <1>0, <2>1, <2>2, <3>1, <3>2, <3>3
  <2>3. CASE d # c
    <3>1. Openers(d)' = Openers(d)
      BY <1>0, <1>c, <1>p, <2>3 DEF Openers
    <3>2. streams'[d] = streams[d]
      BY <1>0, <1>t, <2>3 DEF TypeOK
    <3> QED
      BY <2>1, <3>1, <3>2
  <2> QED
    BY <2>2, <2>3
<1>5. Apart'
  BY <1>0, <1>2, <1>t DEF Apart, Injective
<1>6. Hands'
  BY <1>t, <1>2, <1>3, FrameHands
<1>7. Blamed'
  BY <1>0, <1>t, <1>2, <1>3, FrameBlamed
<1>8. NoneLost'
  <2>1. \A t \in Threads : Building(t) => Building(t)' /\ have'[t] = have[t]
    BY <1>3 DEF Still
  <2> QED
    BY <1>0, <1>t, <1>2, <2>1, FrameLost
<1>9. TypeOK'
  <2>1. streams' \in [Circuits -> Nat]
    BY <1>0, <1>c, <1>t DEF TypeOK
  <2>2. tries' \in [Threads -> 0..ConnectAttempts - 1]
    <3>1. 0 \in 0..ConnectAttempts - 1
      BY PoolAssumption DEF PoolAssumption
    <3> QED
      BY <1>0, <1>t, <3>1 DEF TypeOK
  <2> QED
    BY <1>0, <1>p, <1>t, <2>1, <2>2 DEF TypeOK
<1> QED
  BY <1>4, <1>5, <1>6, <1>7, <1>8, <1>9 DEF Inv

\* A stream ends: the circuit has one fewer, if it is not closed.
LEMMA EndStreamHolds ==
    ASSUME Inv, NEW r \in Threads, EndStream(r)
    PROVE  Inv'
<1>c. PICK c \in Circuits : c = have[r]
  BY DEF Inv, Hands, Uses, EndStream, At
<1>0. /\ pc[r] = "open" /\ Take(r, None) /\ Goto(r, "idle")
      /\ streams' = IF c \in closed THEN streams ELSE [streams EXCEPT ![c] = streams[c] - 1]
      /\ UNCHANGED <<circuits, stubs, used, flagged, pending, born, closed, old, slow, fits, tries, shut, first,
                     count, dropped, wavered>>
  BY <1>c DEF EndStream, Fewer, At, pool, seen
<1>t. TypeOK /\ Apart /\ Hands /\ Carries /\ Blamed /\ NoneLost
  BY DEF Inv
<1>p. /\ pc' \in [Threads -> Places] /\ pc'[r] = "idle" /\ \A u \in Threads \ {r} : pc'[u] = pc[u]
      /\ have' \in [Threads -> Circuits \cup {None}] /\ have'[r] = None
      /\ \A u \in Threads \ {r} : have'[u] = have[u]
  BY <1>0, <1>t, Moves, Takes DEF TypeOK, Places
<1>2. SetOf(circuits)' = SetOf(circuits) /\ SetOf(stubs)' = SetOf(stubs)
  BY <1>0 DEF SetOf
<1>3. \A u \in Threads : Still(u) \/ Done(u)
  BY <1>0, <1>p DEF Still, Done, Building, Uses
<1>o. c \notin closed => /\ Cardinality(Openers(c)') = streams[c] - 1 /\ streams[c] - 1 \in Nat
  <2> SUFFICES ASSUME c \notin closed
               PROVE  Cardinality(Openers(c)') = streams[c] - 1 /\ streams[c] - 1 \in Nat
    OBVIOUS
  <2>1. streams[c] = Cardinality(Openers(c))
    BY <1>c, <1>t DEF Carries
  <2>2. Openers(c)' = Openers(c) \ {r} /\ r \in Openers(c)
    <3>1. c # None
      BY <1>c, PoolAssumption DEF PoolAssumption
    <3> QED
      BY <1>0, <1>c, <1>p, <3>1 DEF Openers
  <2>3. /\ IsFiniteSet(Openers(c) \ {r}) /\ Cardinality(Openers(c) \ {r}) = Cardinality(Openers(c)) - 1
    BY <2>2, OpenersFinite, FS_RemoveElement
  <2>4. Cardinality(Openers(c) \ {r}) \in Nat
    BY <2>3, FS_CardinalityType
  <2> QED
    BY <2>1, <2>2, <2>3, <2>4
<1>4. Carries'
  <2> SUFFICES ASSUME NEW d \in Circuits
               PROVE  streams'[d] = IF d \in closed THEN 0 ELSE Cardinality(Openers(d)')
    BY <1>0 DEF Carries
  <2>1. streams[d] = IF d \in closed THEN 0 ELSE Cardinality(Openers(d))
    BY <1>t DEF Carries
  <2>2. CASE d = c
    <3>1. streams'[c] = IF c \in closed THEN streams[c] ELSE streams[c] - 1
      BY <1>0, <1>c, <1>t DEF TypeOK
    <3> QED
      BY <1>o, <2>1, <2>2, <3>1
  <2>3. CASE d # c
    <3>1. Openers(d)' = Openers(d)
      <4>1. d # None
        BY PoolAssumption DEF PoolAssumption
      <4> QED
        BY <1>0, <1>c, <1>p, <2>3, <4>1 DEF Openers
    <3>2. streams'[d] = streams[d]
      BY <1>0, <1>t, <2>3 DEF TypeOK
    <3> QED
      BY <2>1, <3>1, <3>2
  <2> QED
    BY <2>2, <2>3
<1>5. Apart'
  BY <1>0, <1>2, <1>t DEF Apart, Injective
<1>6. Hands'
  BY <1>t, <1>2, <1>3, FrameHands
<1>7. Blamed'
  BY <1>0, <1>t, <1>2, <1>3, FrameBlamed
<1>8. NoneLost'
  <2>1. \A t \in Threads : Building(t) => Building(t)' /\ have'[t] = have[t]
    BY <1>0, <1>p DEF Building
  <2> QED
    BY <1>0, <1>t, <1>2, <2>1, FrameLost
<1>9. TypeOK'
  <2>1. streams' \in [Circuits -> Nat]
    BY <1>0, <1>c, <1>t, <1>o DEF TypeOK
  <2> QED
    BY <1>0, <1>p, <1>t, <2>1 DEF TypeOK
<1> QED
  BY <1>4, <1>5, <1>6, <1>7, <1>8, <1>9 DEF Inv

\* A circuit of the pool is to be probed.
LEMMA WantingProbeHolds ==
    ASSUME Inv, WantingProbe
    PROVE  Inv'
<1>m. Maintainer \in Threads
  BY DEF Threads
<1>c. PICK c \in SetOf(circuits) : Take(Maintainer, c)
  BY DEF WantingProbe
<1>0. /\ pc[Maintainer] = "idle" /\ Goto(Maintainer, "begin")
      /\ UNCHANGED <<circuits, stubs, flagged, pending, born, closed, old, slow, fits, streams, used, tries, shut,
                     first, count, dropped, wavered>>
  BY DEF WantingProbe, At, pool, health, seen
<1>t. TypeOK /\ Apart /\ Hands /\ Carries /\ Blamed /\ NoneLost
  BY DEF Inv
<1>d. c \in Circuits /\ c \notin SetOf(stubs)
  BY <1>t, Members DEF TypeOK, Apart
<1>p. /\ pc' \in [Threads -> Places] /\ pc'[Maintainer] = "begin"
      /\ \A u \in Threads \ {Maintainer} : pc'[u] = pc[u]
      /\ have' \in [Threads -> Circuits \cup {None}] /\ have'[Maintainer] = c
      /\ \A u \in Threads \ {Maintainer} : have'[u] = have[u]
  BY <1>m, <1>0, <1>c, <1>d, <1>t, Moves, Takes DEF TypeOK, Places
<1>2. SetOf(circuits)' = SetOf(circuits) /\ SetOf(stubs)' = SetOf(stubs)
  BY <1>0 DEF SetOf
<1>3. /\ \A u \in Threads : Building(u)' <=> Building(u)
      /\ \A u \in Threads : Building(u) => have'[u] = have[u]
      /\ \A u \in Threads \ {Maintainer} : Uses(u)' <=> Uses(u)
      /\ ~Building(Maintainer)' /\ Uses(Maintainer)'
      /\ \A u \in Threads : pc'[u] = "open" <=> pc[u] = "open"
  BY <1>0, <1>p DEF Building, Uses
<1>4. Carries'
  <2> DEFINE cs == {}
  <2>1. closed' = closed \cup cs /\ \A d \in Circuits : streams'[d] = IF d \in cs THEN 0 ELSE streams[d]
    BY <1>0
  <2>2. \A u \in Threads : /\ pc'[u] = "open" <=> pc[u] = "open"
                           /\ pc[u] = "open" => have'[u] = have[u]
    BY <1>0, <1>p, <1>3
  <2> HIDE DEF cs
  <2> QED
    BY ONLY <1>t, <2>1, <2>2, FrameCarries
<1>5. Apart'
  BY <1>0, <1>2, <1>t DEF Apart, Injective
<1>6. Hands'
  <2>1. ASSUME NEW u \in Threads, Building(u)
        PROVE  /\ have'[u] \in Circuits /\ have'[u] \notin SetOf(circuits) /\ have'[u] \notin SetOf(stubs)
               /\ \A v \in Threads \ {u} : have'[v] # have'[u]
    <3>1. /\ have[u] \in Circuits /\ have[u] \notin SetOf(circuits) /\ have[u] \notin SetOf(stubs)
          /\ \A v \in Threads \ {u} : have[v] # have[u]
      BY <1>t, <2>1 DEF Hands
    <3> QED
      BY <1>p, <1>3, <2>1, <3>1
  <2>2. ASSUME NEW u \in Threads, Uses(u)' PROVE have'[u] \in Circuits /\ have'[u] \notin SetOf(stubs)
    BY <1>d, <1>p, <1>t, <1>3, <2>2 DEF Hands
  <2>3. ASSUME NEW u \in Threads, ~Building(u)', ~Uses(u)' PROVE have'[u] = None
    BY <1>p, <1>t, <1>3, <2>3 DEF Hands
  <2> QED
    BY <1>2, <1>3, <2>1, <2>2, <2>3 DEF Hands
<1>7. Blamed'
  BY <1>0, <1>2, <1>3, <1>t DEF Blamed, BlamedOnce
<1>8. NoneLost'
  <2>1. \A t \in Threads : Building(t) => Building(t)' /\ have'[t] = have[t]
    BY <1>3
  <2> QED
    BY <1>0, <1>t, <1>2, <2>1, FrameLost
<1>9. TypeOK'
  BY <1>0, <1>p, <1>t DEF TypeOK
<1> QED
  BY <1>4, <1>5, <1>6, <1>7, <1>8, <1>9 DEF Inv

\* A probe that nothing answers: its stream ends, if it began.
LEMMA ProbeFailsHolds ==
    ASSUME Inv, ProbeFails
    PROVE  Inv'
<1> DEFINE m == Maintainer
<1>m. m \in Threads
  BY DEF Threads
<1>i. pc[m] \in {"begin", "open"} /\ Goto(m, "condemn")
  BY DEF ProbeFails, At
<1>c. PICK c \in Circuits : c = have[m]
  BY <1>m, <1>i DEF Inv, Hands, Uses
<1>0. /\ streams' = IF pc[m] = "open" /\ c \notin closed THEN [streams EXCEPT ![c] = streams[c] - 1] ELSE streams
      /\ UNCHANGED <<circuits, stubs, used, flagged, pending, born, closed, old, slow, fits, have, tries, shut, first,
                     count, dropped, wavered>>
  BY <1>c DEF ProbeFails, Fewer, At, pool, seen
<1>t. TypeOK /\ Apart /\ Hands /\ Carries /\ Blamed /\ NoneLost
  BY DEF Inv
<1>p. pc' \in [Threads -> Places] /\ pc'[m] = "condemn" /\ \A u \in Threads \ {m} : pc'[u] = pc[u]
  BY <1>m, <1>i, <1>t, Moves DEF TypeOK, Places
<1> HIDE DEF m
<1>2. SetOf(circuits)' = SetOf(circuits) /\ SetOf(stubs)' = SetOf(stubs)
  BY <1>0 DEF SetOf
<1>3. \A u \in Threads : Still(u)
  BY <1>0, <1>i, <1>p DEF Still, Building, Uses
<1>4. /\ Carries' /\ streams' \in [Circuits -> Nat]
  <2>1. ASSUME NEW d \in Circuits
        PROVE  /\ streams'[d] = IF d \in closed THEN 0 ELSE Cardinality(Openers(d)')
               /\ streams'[d] \in Nat
    <3>1. streams[d] = (IF d \in closed THEN 0 ELSE Cardinality(Openers(d))) /\ streams[d] \in Nat
      BY <1>t DEF Carries, TypeOK
    <3>2. CASE d # c \/ pc[m] # "open"
      <4>1. Openers(d)' = Openers(d)
        BY <1>0, <1>c, <1>p, <3>2 DEF Openers
      <4>2. streams'[d] = streams[d]
        BY <1>0, <1>t, <3>2 DEF TypeOK
      <4> QED
        BY <3>1, <4>1, <4>2
    <3>3. CASE d = c /\ pc[m] = "open"
      <4>1. Openers(c)' = Openers(c) \ {m} /\ m \in Openers(c)
        BY <1>m, <1>0, <1>c, <1>p, <3>3 DEF Openers
      <4>2. /\ IsFiniteSet(Openers(c) \ {m}) /\ Cardinality(Openers(c) \ {m}) = Cardinality(Openers(c)) - 1
        BY <4>1, OpenersFinite, FS_RemoveElement
      <4>3. Cardinality(Openers(c) \ {m}) \in Nat
        BY <4>2, FS_CardinalityType
      <4>4. streams'[c] = IF c \in closed THEN streams[c] ELSE streams[c] - 1
        BY <1>0, <1>t, <3>3 DEF TypeOK
      <4> QED
        BY <3>1, <3>3, <4>1, <4>2, <4>3, <4>4
    <3> QED
      BY <3>2, <3>3
  <2>2. Carries'
    BY <1>0, <2>1 DEF Carries
  <2>3. DOMAIN streams' = Circuits /\ streams' = [d \in DOMAIN streams' |-> streams'[d]]
    BY <1>0, <1>t DEF TypeOK
  <2> QED
    BY <2>1, <2>2, <2>3
<1>5. Apart'
  BY <1>0, <1>2, <1>t DEF Apart, Injective
<1>6. Hands'
  BY <1>t, <1>2, <1>3, FrameHands
<1>7. Blamed'
  BY <1>0, <1>t, <1>2, <1>3, FrameBlamed
<1>8. NoneLost'
  <2>1. \A t \in Threads : Building(t) => Building(t)' /\ have'[t] = have[t]
    BY <1>3 DEF Still
  <2> QED
    BY <1>0, <1>t, <1>2, <2>1, FrameLost
<1>9. TypeOK'
  BY <1>0, <1>p, <1>t, <1>4 DEF TypeOK
<1> QED
  BY <1>4, <1>5, <1>6, <1>7, <1>8, <1>9 DEF Inv

-----------------------------------------------------------------------------
(***************************************************************************)
(* Circuits that are made, and put into the pool.                          *)
(***************************************************************************)

\* A new circuit is one nobody knew of.
LEMMA CreateHolds ==
    ASSUME Inv, NEW t \in Threads, Create(t)
    PROVE  Inv'
<1>0. PICK c \in Free :
       /\ born' = born \cup {c}
       /\ closed' = closed \ {c} /\ old' = old \ {c} /\ slow' = slow \ {c}
       /\ used' = used \ {c} /\ flagged' = flagged \ {c}
       /\ count' = [count EXCEPT ![c] = 0]
       /\ wavered' = wavered \ {c} /\ dropped' = dropped \ {c}
       /\ Take(t, c)
       /\ IF pc[t] = "create" THEN Extends(t, c) /\ Goto(t, "insert")
          ELSE fits' = fits \ {c} /\ Goto(t, "add")
  BY DEF Create
<1>1. /\ pc[t] \in {"create", "createstub"}
      /\ UNCHANGED <<circuits, stubs, pending, streams, tries, shut, first>>
  BY DEF Create, At
<1>t. TypeOK /\ Apart /\ Hands /\ Carries /\ Blamed /\ NoneLost
  BY DEF Inv
<1>c. /\ c \in Circuits /\ c \notin SetOf(circuits) /\ c \notin SetOf(stubs)
      /\ \A u \in Threads : have[u] # c
      /\ c \in born => c \in closed
  BY DEF Free, Referenced
<1>p. /\ pc' \in [Threads -> Places] /\ pc'[t] \in {"insert", "add"} /\ \A u \in Threads \ {t} : pc'[u] = pc[u]
      /\ have' \in [Threads -> Circuits \cup {None}] /\ have'[t] = c
      /\ \A u \in Threads \ {t} : have'[u] = have[u]
  <2>1. Goto(t, "insert") \/ Goto(t, "add")
    BY <1>0
  <2>2. "insert" \in Places /\ "add" \in Places
    BY DEF Places
  <2> QED
    BY <1>0, <1>c, <1>t, <2>1, <2>2, Moves, Takes DEF TypeOK
<1>2. SetOf(circuits)' = SetOf(circuits) /\ SetOf(stubs)' = SetOf(stubs)
  BY <1>1 DEF SetOf
<1>3. /\ ~Building(t) /\ ~Uses(t) /\ Building(t)' /\ ~Uses(t)'
      /\ \A u \in Threads \ {t} : Still(u)
  BY <1>1, <1>p DEF Still, Building, Uses
<1>4. Apart'
  BY <1>1, <1>2, <1>t DEF Apart, Injective
<1>5. Hands'
  BY <1>c, <1>p, <1>t, <1>2, <1>3 DEF Hands, Still
<1>6. Carries'
  <2> SUFFICES ASSUME NEW d \in Circuits
               PROVE  streams[d] = IF d \in closed' THEN 0 ELSE Cardinality(Openers(d)')
    BY <1>1 DEF Carries
  <2>1. streams[d] = IF d \in closed THEN 0 ELSE Cardinality(Openers(d))
    BY <1>t DEF Carries
  <2>2. Openers(d)' = Openers(d)
    BY <1>1, <1>p DEF Openers
  <2>3. CASE d = c
    <3>1. Openers(c) = {}
      BY <1>c DEF Openers
    <3> QED
      BY <1>0, <2>1, <2>2, <2>3, <3>1, FS_EmptySet
  <2>4. CASE d # c
    BY <1>0, <2>1, <2>2, <2>4
  <2> QED
    BY <2>3, <2>4
<1>7. Blamed'
  <2>1. count'[c] = 0 /\ \A d \in Circuits \ {c} : count'[d] = count[d]
    BY <1>0, <1>c, <1>t DEF TypeOK
  <2>2. \A d \in Circuits : count'[d] > 1 => d \in wavered'
    BY <1>0, <1>t, <2>1 DEF Blamed, BlamedOnce
  <2>3. SetOf(circuits) \subseteq Circuits /\ SetOf(stubs) \subseteq Circuits
    BY <1>t, Members DEF TypeOK
  <2>4. \A d \in SetOf(circuits) : count'[d] > 0 => d \in flagged' \/ d \in wavered'
    BY <1>0, <1>c, <1>t, <2>1, <2>3 DEF Blamed
  <2>5. \A d \in SetOf(stubs) : count'[d] = 0
    BY <1>c, <1>t, <2>1, <2>3 DEF Blamed
  <2>6. ASSUME NEW u \in Threads, Building(u)' PROVE count'[have'[u]] = 0
    <3>1. CASE u = t
      BY <1>p, <2>1, <3>1
    <3>2. CASE u # t
      <4>1. Building(u) /\ have'[u] = have[u]
        BY <1>3, <2>6, <3>2 DEF Still
      <4>2. have[u] \in Circuits \ {c} /\ count[have[u]] = 0
        BY <1>c, <1>t, <4>1 DEF Hands, Blamed
      <4> QED
        BY <2>1, <4>1, <4>2
    <3> QED
      BY <3>1, <3>2
  <2> QED
    BY <1>2, <2>2, <2>4, <2>5, <2>6 DEF Blamed, BlamedOnce
<1>8. NoneLost'
  <2> SUFFICES ASSUME NEW d \in born', d \notin closed', d \notin dropped'
               PROVE  \/ d \in SetOf(circuits) \/ d \in SetOf(stubs)
                      \/ \E u \in Threads : d \in shut[u] \/ (Building(u)' /\ have'[u] = d)
    BY <1>1, <1>2 DEF NoneLost
  <2>1. CASE d = c
    BY <1>p, <1>3, <2>1
  <2>2. CASE d # c
    <3>1. \/ d \in SetOf(circuits) \/ d \in SetOf(stubs)
          \/ \E u \in Threads : d \in shut[u] \/ (Building(u) /\ have[u] = d)
      BY <1>0, <1>t, <2>2 DEF NoneLost
    <3> QED
      BY <1>3, <3>1 DEF Still
  <2> QED
    BY <2>1, <2>2
<1>9. TypeOK'
  <2>1. fits' \subseteq Circuits
    BY <1>0, <1>c, <1>t DEF Extends, TypeOK
  <2>2. count' \in [Circuits -> 0..2]
    <3>1. 0 \in 0..2
      OBVIOUS
    <3> QED
      BY <1>0, <1>t, <3>1 DEF TypeOK
  <2> QED
    BY <1>0, <1>1, <1>c, <1>p, <1>t, <2>1, <2>2 DEF TypeOK
<1> QED
  BY <1>4, <1>5, <1>6, <1>7, <1>8, <1>9 DEF Inv

\* A stub there is room for goes into the list; another is closed.
LEMMA AddStubHolds ==
    ASSUME Inv, NEW t \in Threads, AddStub(t)
    PROVE  Inv'
<1>0. /\ pc[t] = "add" /\ Take(t, None) /\ Goto(t, "idle")
      /\ UNCHANGED <<circuits, flagged, pending, born, tries, shut, first, count, dropped, wavered>>
  BY DEF AddStub, At, seen
<1>t. TypeOK /\ Apart /\ Hands /\ Carries /\ Blamed /\ NoneLost
  BY DEF Inv
<1>c. PICK c \in Circuits : c = have[t]
  BY <1>0, <1>t DEF Hands, Building
<1>b. /\ Building(t) /\ c \notin SetOf(circuits) /\ c \notin SetOf(stubs) /\ count[c] = 0
      /\ \A u \in Threads \ {t} : have[u] # c
  BY <1>0, <1>c, <1>t DEF Hands, Blamed, Building
<1>p. /\ pc' \in [Threads -> Places] /\ pc'[t] = "idle" /\ \A u \in Threads \ {t} : pc'[u] = pc[u]
      /\ have' \in [Threads -> Circuits \cup {None}] /\ have'[t] = None
      /\ \A u \in Threads \ {t} : have'[u] = have[u]
  BY <1>0, <1>t, Moves, Takes DEF TypeOK, Places
<1>d. Done(t) /\ \A u \in Threads \ {t} : Still(u)
  BY <1>p DEF Still, Done, Building, Uses
<1>o. \A u \in Threads : /\ pc'[u] = "open" <=> pc[u] = "open"
                         /\ pc[u] = "open" => have'[u] = have[u]
  BY <1>0, <1>p
<1>1. CASE Total(circuits, stubs) >= MaxCircuits
  <2> DEFINE cs == {c}
  <2>1. Shut(cs) /\ cs \in SUBSET Circuits /\ stubs' = stubs
    BY <1>1, <1>c DEF AddStub, Close
  <2>2. c \in closed'
    BY <2>1 DEF Shut
  <2> HIDE DEF cs
  <2>3. SetOf(circuits)' = SetOf(circuits) /\ SetOf(stubs)' = SetOf(stubs)
    BY <1>0, <2>1 DEF SetOf
  <2>4. \A u \in Threads : /\ Still(u) \/ (Done(u) /\ pc[u] # "open")
                           /\ pc'[u] = "open" <=> pc[u] = "open"
                           /\ Building(u) => Still(u) \/ have[u] \in closed'
    BY <1>0, <1>c, <1>d, <1>o, <2>2
  <2>5. Hands' /\ Carries' /\ NoneLost'
    BY <1>0, <2>1, <2>3, <2>4, Closes
  <2>6. Apart'
    BY <1>0, <1>t, <2>1, <2>3 DEF Apart, Injective
  <2>7. Blamed'
    BY <1>0, <1>t, <2>3, <2>4, FrameBlamed
  <2>8. TypeOK'
    <3>1. /\ closed' \subseteq Circuits /\ old' \subseteq Circuits /\ slow' \subseteq Circuits
          /\ fits' \subseteq Circuits /\ used' \subseteq Circuits /\ streams' \in [Circuits -> Nat]
      BY <2>1, <1>t, ShutType
    <3> QED
      BY <1>0, <1>p, <1>t, <2>1, <3>1 DEF TypeOK
  <2> QED
    BY <2>5, <2>6, <2>7, <2>8 DEF Inv
<1>2. CASE ~(Total(circuits, stubs) >= MaxCircuits)
  <2>1. stubs' = Append(stubs, c) /\ UNCHANGED <<closed, old, slow, fits, streams, used>>
    BY <1>2, <1>c DEF AddStub, health
  <2>2. /\ stubs' \in Seq(Circuits) /\ SetOf(stubs)' = SetOf(stubs) \cup {c}
        /\ Injective(stubs)'
    <3>1. /\ Append(stubs, c) \in Seq(Circuits) /\ SetOf(Append(stubs, c)) = SetOf(stubs) \cup {c}
          /\ Injective(Append(stubs, c))
      BY <1>b, <1>t, Appended DEF TypeOK, Apart
    <3> QED
      BY <2>1, <3>1 DEF SetOf, Injective
  <2>3. SetOf(circuits)' = SetOf(circuits)
    BY <1>0 DEF SetOf
  <2>4. Apart'
    BY <1>0, <1>b, <1>t, <2>2, <2>3 DEF Apart, Injective
  <2>5. Hands'
    <3> SUFFICES ASSUME NEW u \in Threads \ {t}
                 PROVE  /\ Building(u)' =>
                              /\ have'[u] \in Circuits
                              /\ have'[u] \notin SetOf(circuits)' /\ have'[u] \notin SetOf(stubs)'
                              /\ \A v \in Threads \ {u} : have'[v] # have'[u]
                        /\ Uses(u)' => have'[u] \in Circuits /\ have'[u] \notin SetOf(stubs)'
                        /\ ~Building(u)' /\ ~Uses(u)' => have'[u] = None
      BY <1>d DEF Done, Hands
    <3>1. Still(u) /\ have[u] # c /\ \A v \in Threads : have'[v] = have[v] \/ have'[v] = None
      BY <1>b, <1>d, <1>p
    <3> QED
      BY <1>t, <2>2, <2>3, <3>1, PoolAssumption DEF Hands, Still, PoolAssumption
  <2>6. Carries'
    <3>1. \A d \in Circuits : Openers(d)' = Openers(d)
      BY <1>o DEF Openers
    <3> QED
      BY <1>t, <2>1, <3>1 DEF Carries
  <2>7. Blamed'
    <3>1. \A u \in Threads : Building(u)' => Building(u) /\ have'[u] = have[u]
      BY <1>d DEF Done, Still
    <3> QED
      BY <1>0, <1>b, <1>t, <2>2, <2>3, <3>1 DEF Blamed, BlamedOnce
  <2>8. NoneLost'
    <3>1. \A u \in Threads : Building(u) =>
               \/ Building(u)' /\ have'[u] = have[u]
               \/ have[u] \in SetOf(stubs)'
      BY <1>c, <1>d, <2>2 DEF Still
    <3> QED
      BY <1>0, <1>t, <2>1, <2>2, <2>3, <3>1, FrameLost
  <2>9. TypeOK'
    BY <1>0, <1>p, <1>t, <2>1, <2>2 DEF TypeOK
  <2> QED
    BY <2>4, <2>5, <2>6, <2>7, <2>8, <2>9 DEF Inv
<1> QED
  BY <1>1, <1>2

-----------------------------------------------------------------------------
(***************************************************************************)
(* Sweeping: State::retire, and the operations that begin with it.         *)
(***************************************************************************)

\* What stays in the lists, and what is to be closed.
LEMMA Sorted ==
    ASSUME Inv
    PROVE  /\ KeptCircuits \in Seq(Circuits) /\ KeptStubs \in Seq(Circuits)
           /\ Injective(KeptCircuits) /\ Injective(KeptStubs)
           /\ SetOf(KeptCircuits) = SetOf(circuits) \ Retired
           /\ SetOf(KeptStubs) = SetOf(stubs) \ Retired
           /\ Retired \subseteq SetOf(circuits) \cup SetOf(stubs)
           /\ Retired \subseteq Circuits
<1> DEFINE G == {c \in Circuits : ~Gone(c)}
           E == {c \in Circuits : ~Expired(c)}
<1>0. /\ circuits \in Seq(Circuits) /\ stubs \in Seq(Circuits) /\ Injective(circuits) /\ Injective(stubs)
      /\ SetOf(circuits) \subseteq Circuits /\ SetOf(stubs) \subseteq Circuits
      /\ SetOf(circuits) \cap SetOf(stubs) = {}
  BY Members DEF Inv, TypeOK, Apart
<1>1. /\ Retain(circuits, G) \in Seq(Circuits) /\ SetOf(Retain(circuits, G)) = SetOf(circuits) \cap G
      /\ Injective(Retain(circuits, G))
  BY <1>0, RetainHolds
<1>2. /\ Retain(stubs, E) \in Seq(Circuits) /\ SetOf(Retain(stubs, E)) = SetOf(stubs) \cap E
      /\ Injective(Retain(stubs, E))
  BY <1>0, RetainHolds
<1>3. KeptCircuits = Retain(circuits, G) /\ KeptStubs = Retain(stubs, E)
  BY DEF KeptCircuits, KeptStubs
<1>4. SetOf(circuits) \cap G = SetOf(circuits) \ Retired /\ SetOf(stubs) \cap E = SetOf(stubs) \ Retired
  BY <1>0 DEF Retired
<1>5. Retired \subseteq SetOf(circuits) \cup SetOf(stubs)
  BY DEF Retired
<1> QED
  BY <1>0, <1>1, <1>2, <1>3, <1>4, <1>5

\* The blame that is recorded is for pooled circuits that were not flagged, and there is
\* room for it.
LEMMA NewBlameHolds ==
    ASSUME Inv
    PROVE  /\ NewBlame \in Seq(Circuits) /\ Len(pending) + Len(NewBlame) <= MaxPendingBlame
           /\ \A c \in SetOf(NewBlame) : c \in SetOf(circuits) /\ c \notin flagged /\ Blames(c)
<1> DEFINE F == {c \in Circuits \ flagged : Blames(c)}
           n == MaxPendingBlame - Len(pending)
<1>1. Len(pending) \in Nat /\ n \in Nat /\ circuits \in Seq(Circuits) /\ MaxPendingBlame \in Nat
  BY PoolAssumption, Members DEF Inv, TypeOK, PoolAssumption
<1>2. Retain(circuits, F) \in Seq(Circuits) /\ SetOf(Retain(circuits, F)) = SetOf(circuits) \cap F
  BY <1>1, RetainHolds
<1>3. NewBlame = AtMost(Retain(circuits, F), n)
  BY DEF NewBlame
<1> DEFINE fresh == Retain(circuits, F)
<1>4. /\ AtMost(fresh, n) \in Seq(Circuits)
      /\ Len(AtMost(fresh, n)) = IF Len(fresh) <= n THEN Len(fresh) ELSE n
      /\ SetOf(AtMost(fresh, n)) \subseteq SetOf(fresh)
  <2> HIDE DEF n, fresh
  <2>1. fresh \in Seq(Circuits) /\ n \in Nat
    BY <1>1, <1>2 DEF fresh
  <2> QED
    BY <2>1, Divided
<1>5. Len(fresh) \in Nat
  BY <1>2, Members
<1>6. Len(pending) + Len(NewBlame) <= MaxPendingBlame
  <2>1. Len(NewBlame) <= n /\ Len(NewBlame) \in Nat
    <3> HIDE DEF n, fresh
    <3> QED
      BY <1>1, <1>3, <1>4, <1>5 DEF fresh
  <2> QED
    BY <1>1, <2>1
<1> QED
  BY <1>2, <1>3, <1>4, <1>6

\* The accounts of retire: a circuit that is counted is flagged, unless it wavered or goes.
LEMMA Swept ==
    ASSUME Inv, NEW judged \in Judgements, Retire(judged)
    PROVE  /\ judged \subseteq Circuits
           /\ slow' \subseteq Circuits /\ flagged' \subseteq Circuits /\ wavered' \subseteq Circuits
           /\ pending' \in Seq(Circuits) /\ Len(pending') <= MaxPendingBlame
           /\ count' \in [Circuits -> 0..2]
           /\ BlamedOnce'
           /\ \A c \in SetOf(KeptCircuits) : count'[c] > 0 => c \in flagged' \/ c \in wavered'
           /\ \A c \in Circuits \ SetOf(circuits) : count'[c] = count[c]
<1>t. TypeOK /\ Apart /\ Hands /\ Carries /\ Blamed /\ NoneLost
  BY DEF Inv
<1>0. SetOf(circuits) \subseteq Circuits /\ SetOf(circuits) \cap SetOf(stubs) = {}
  BY <1>t, Members DEF TypeOK, Apart
<1>1. judged \subseteq Circuits /\ slow \subseteq Circuits
  BY <1>t, <1>0 DEF Judgements, TypeOK
<1>2. /\ slow' = judged /\ pending' = pending \o NewBlame /\ count' = Counted(NewBlame)
      /\ wavered' = wavered \cup (slow \ judged)
      /\ flagged' = (flagged \ Retired)
                      \cup {c \in SetOf(KeptCircuits) : ~Expired(c) /\ c \in judged}
  BY DEF Retire
<1>3. /\ slow' \subseteq Circuits /\ flagged' \subseteq Circuits /\ wavered' \subseteq Circuits
  BY <1>t, <1>0, <1>1, <1>2, Sorted DEF TypeOK
<1>4. pending' \in Seq(Circuits) /\ Len(pending') <= MaxPendingBlame
  BY <1>t, <1>2, NewBlameHolds, ConcatProperties DEF TypeOK
<1>5. /\ count' \in [Circuits -> 0..2] /\ count \in [Circuits -> 0..2]
      /\ \A c \in Circuits : /\ count'[c] <= count[c] + 1
                             /\ c \notin SetOf(NewBlame) => count'[c] = count[c]
  BY <1>t, <1>2, CountedHolds DEF TypeOK
<1>6. ASSUME NEW c \in Circuits, count'[c] > 1 PROVE c \in wavered'
  <2>1. CASE c \notin SetOf(NewBlame)
    BY <1>2, <1>5, <1>6, <1>t, <2>1 DEF Blamed, BlamedOnce
  <2>2. CASE c \in SetOf(NewBlame)
    <3>1. c \in SetOf(circuits) /\ c \notin flagged
      BY <2>2, NewBlameHolds
    <3>2. count[c] > 0
      BY <1>5, <1>6
    <3> QED
      BY <1>2, <1>t, <3>1, <3>2 DEF Blamed
  <2> QED
    BY <2>1, <2>2
<1>7. ASSUME NEW c \in SetOf(KeptCircuits), count'[c] > 0 PROVE c \in flagged' \/ c \in wavered'
  <2>0. c \in SetOf(circuits) /\ c \notin Retired /\ c \in Circuits
    BY <1>0, Sorted
  <2>1. CASE c \notin SetOf(NewBlame)
    <3>1. c \in flagged \/ c \in wavered
      BY <1>5, <1>7, <1>t, <2>0, <2>1 DEF Blamed
    <3> QED
      BY <1>2, <2>0, <3>1
  <2>2. CASE c \in SetOf(NewBlame)
    <3>1. Blames(c)
      BY <2>2, NewBlameHolds
    <3>2. ~Expired(c) /\ c \in slow
      BY <3>1 DEF Blames
    <3> QED
      BY <1>2, <3>2
  <2> QED
    BY <2>1, <2>2
<1>8. \A c \in Circuits \ SetOf(circuits) : count'[c] = count[c]
  BY <1>5, NewBlameHolds
<1>9. BlamedOnce'
  BY <1>6 DEF BlamedOnce
<1> QED
  BY <1>1, <1>3, <1>4, <1>5, <1>7, <1>8, <1>9

\* Nothing is opened, ended or closed.
LEMMA SameCarries ==
    ASSUME Carries, closed' = closed, streams' = streams,
           \A u \in Threads : /\ pc'[u] = "open" <=> pc[u] = "open"
                              /\ pc[u] = "open" => have'[u] = have[u]
    PROVE  Carries'
<1>1. \A d \in Circuits : Openers(d)' = Openers(d)
  BY DEF Openers
<1> QED
  BY <1>1 DEF Carries

\* What comes into the pool beside what retire leaves there has not been counted.
LEMMA SweptBlamed ==
    ASSUME Inv, NEW judged \in Judgements, Retire(judged),
           \A c \in SetOf(circuits)' : \/ c \in SetOf(KeptCircuits)
                                       \/ c \in Circuits \ SetOf(circuits) /\ count[c] = 0,
           SetOf(stubs)' \subseteq SetOf(stubs),
           \A u \in Threads : Building(u)' => \/ Building(u) /\ have'[u] = have[u]
                                              \/ have'[u] \in SetOf(stubs)
    PROVE  Blamed'
<1>t. TypeOK /\ Apart /\ Hands /\ Blamed
  BY DEF Inv
<1>0. SetOf(stubs) \subseteq Circuits \ SetOf(circuits)
  BY <1>t, Members DEF TypeOK, Apart
<1>1. /\ BlamedOnce'
      /\ \A c \in SetOf(KeptCircuits) : count'[c] > 0 => c \in flagged' \/ c \in wavered'
      /\ \A c \in Circuits \ SetOf(circuits) : count'[c] = count[c]
      /\ count' \in [Circuits -> 0..2]
  BY Swept
<1>2. \A c \in SetOf(circuits)' : count'[c] > 0 => c \in flagged' \/ c \in wavered'
  BY <1>1
<1>3. \A c \in SetOf(stubs) : count'[c] = 0
  BY <1>0, <1>1, <1>t DEF Blamed
<1>4. ASSUME NEW u \in Threads, Building(u)' PROVE count'[have'[u]] = 0
  <2>1. CASE have'[u] \in SetOf(stubs)
    BY <1>3, <2>1
  <2>2. CASE Building(u) /\ have'[u] = have[u]
    <3>1. have[u] \in Circuits \ SetOf(circuits) /\ count[have[u]] = 0
      BY <1>t, <2>2 DEF Hands, Blamed
    <3> QED
      BY <1>1, <2>2, <3>1
  <2> QED
    BY <1>4, <2>1, <2>2
<1> QED
  BY <1>1, <1>2, <1>3, <1>4 DEF Blamed

\* What retire takes off the lists is in the hands of the thread that called it.
LEMMA SweptOff ==
    ASSUME Inv, NEW t \in Threads, shut[t] = {}, NEW cs \in SUBSET Circuits, ToClose(t, cs)
    PROVE  /\ shut' \in [Threads -> SUBSET Circuits] /\ shut'[t] = cs
           /\ \A u \in Threads : \A c \in shut[u] : c \in shut'[u]
<1>1. /\ shut' \in [Threads -> SUBSET Circuits] /\ shut'[t] = cs
      /\ \A u \in Threads \ {t} : shut'[u] = shut[u]
  BY WillClose DEF Inv, TypeOK
<1> QED
  BY <1>1

\* A sweep by a thread that keeps its hands as they are.
LEMMA OnlySweeps ==
    ASSUME Inv, NEW t \in Threads, shut[t] = {}, NEW judged \in Judgements, Retire(judged),
           circuits' = KeptCircuits, stubs' = KeptStubs, ToClose(t, Retired),
           UNCHANGED <<born, closed, old, fits, streams, have, dropped>>,
           pc' \in [Threads -> Places], tries' \in [Threads -> 0..ConnectAttempts - 1],
           used' \subseteq Circuits, first' \in {"none", "stub", "clean"},
           \A u \in Threads : /\ Building(u)' <=> Building(u)
                              /\ Uses(u)' <=> Uses(u)
                              /\ pc'[u] = "open" <=> pc[u] = "open"
    PROVE  Inv'
<1>t. TypeOK /\ Apart /\ Hands /\ Carries /\ Blamed /\ NoneLost
  BY DEF Inv
<1>1. /\ KeptCircuits \in Seq(Circuits) /\ KeptStubs \in Seq(Circuits)
      /\ Injective(KeptCircuits) /\ Injective(KeptStubs)
      /\ SetOf(KeptCircuits) = SetOf(circuits) \ Retired
      /\ SetOf(KeptStubs) = SetOf(stubs) \ Retired
      /\ Retired \subseteq SetOf(circuits) \cup SetOf(stubs)
      /\ Retired \subseteq Circuits
  BY Sorted
<1>2. SetOf(circuits)' = SetOf(circuits) \ Retired /\ SetOf(stubs)' = SetOf(stubs) \ Retired
  BY <1>1 DEF SetOf
<1>3. \A u \in Threads : Still(u)
  BY DEF Still
<1>4. Apart'
  BY <1>t, <1>1, <1>2 DEF Apart
<1>5. Hands'
  BY <1>t, <1>2, <1>3, FrameHands
<1>6. Carries'
  BY <1>t, SameCarries
<1>7. Blamed'
  <2>1. \A u \in Threads : Building(u)' => Building(u) /\ have'[u] = have[u]
    BY <1>3 DEF Still
  <2> QED
    BY <1>1, <1>2, <2>1, SweptBlamed
<1>8. /\ shut' \in [Threads -> SUBSET Circuits] /\ shut'[t] = Retired
      /\ \A u \in Threads : \A c \in shut[u] : c \in shut'[u]
  BY <1>1, SweptOff
<1>9. NoneLost'
  <2>1. \A u \in Threads : Building(u) => Building(u)' /\ have'[u] = have[u]
    BY <1>3 DEF Still
  <2>2. \A c \in SetOf(circuits) \cup SetOf(stubs) :
            \/ c \in SetOf(circuits)' \/ c \in SetOf(stubs)'
            \/ \E u \in Threads : c \in shut'[u]
    BY <1>2, <1>8
  <2> QED
    BY <1>t, <1>8, <2>1, <2>2, FrameLost
<1>10. TypeOK'
  <2>1. /\ slow' \subseteq Circuits /\ flagged' \subseteq Circuits /\ wavered' \subseteq Circuits
        /\ pending' \in Seq(Circuits) /\ Len(pending') <= MaxPendingBlame
        /\ count' \in [Circuits -> 0..2]
    BY Swept
  <2> QED
    BY <1>t, <1>1, <1>8, <2>1 DEF TypeOK
<1> QED
  BY <1>4, <1>5, <1>6, <1>7, <1>9, <1>10 DEF Inv

\* The builder's sweep keeps the invariant.
LEMMA SweepHolds ==
    ASSUME Inv, Sweep
    PROVE  Inv'
<1>0. Builder \in Threads
  BY DEF Threads
<1>1. PICK judged \in Judgements : Retire(judged)
  BY DEF Sweep
<1>2. /\ pc[Builder] = "idle" /\ shut[Builder] = {} /\ circuits' = KeptCircuits /\ stubs' = KeptStubs
      /\ ToClose(Builder, Retired) /\ Goto(Builder, "plan")
      /\ UNCHANGED <<used, born, closed, old, fits, streams, have, tries, first, dropped>>
  BY DEF Sweep, At
<1>3. pc' \in [Threads -> Places] /\ pc'[Builder] = "plan" /\ \A u \in Threads \ {Builder} : pc'[u] = pc[u]
  BY <1>0, <1>2, Moves DEF Inv, TypeOK, Places
<1>4. \A u \in Threads : /\ Building(u)' <=> Building(u)
                         /\ Uses(u)' <=> Uses(u)
                         /\ pc'[u] = "open" <=> pc[u] = "open"
  BY <1>2, <1>3 DEF Building, Uses
<1>5. used' \subseteq Circuits /\ first' \in {"none", "stub", "clean"} /\ tries' \in [Threads -> 0..ConnectAttempts - 1]
  BY <1>2 DEF Inv, TypeOK
<1> QED
  BY <1>0, <1>1, <1>2, <1>3, <1>4, <1>5, OnlySweeps

\* A requester gets a circuit that stays in the pool, or none.
LEMMA CircuitForHolds ==
    ASSUME Inv, NEW r \in Threads, CircuitFor(r)
    PROVE  Inv'
<1>t. TypeOK /\ Apart /\ Hands /\ Carries /\ Blamed /\ NoneLost
  BY DEF Inv
<1>0. /\ pc[r] = "pick" /\ shut[r] = {} /\ circuits' = KeptCircuits /\ stubs' = KeptStubs
      /\ ToClose(r, Retired)
      /\ UNCHANGED <<born, closed, old, fits, streams, tries, first, dropped>>
  BY DEF CircuitFor, At
<1>1. PICK judged \in Judgements :
        /\ Retire(judged)
        /\ \/ Goto(r, "stub") /\ UNCHANGED <<used, have>>
           \/ Goto(r, "begin") /\ \E c \in SetOf(KeptCircuits) : Take(r, c) /\ used' = used \cup {c}
  BY DEF CircuitFor
<1>2. CASE Goto(r, "stub") /\ UNCHANGED <<used, have>>
  <2>1. pc' \in [Threads -> Places] /\ pc'[r] = "stub" /\ \A u \in Threads \ {r} : pc'[u] = pc[u]
    BY <1>2, <1>t, Moves DEF TypeOK, Places
  <2>2. \A u \in Threads : /\ Building(u)' <=> Building(u)
                           /\ Uses(u)' <=> Uses(u)
                           /\ pc'[u] = "open" <=> pc[u] = "open"
    BY <1>0, <2>1 DEF Building, Uses
  <2>3. used' \subseteq Circuits /\ first' \in {"none", "stub", "clean"} /\ tries' \in [Threads -> 0..ConnectAttempts - 1]
    BY <1>0, <1>2, <1>t DEF TypeOK
  <2> QED
    BY <1>0, <1>1, <1>2, <2>1, <2>2, <2>3, OnlySweeps
<1>3. CASE Goto(r, "begin") /\ \E c \in SetOf(KeptCircuits) : Take(r, c) /\ used' = used \cup {c}
  <2>1. /\ KeptCircuits \in Seq(Circuits) /\ KeptStubs \in Seq(Circuits)
        /\ Injective(KeptCircuits) /\ Injective(KeptStubs)
        /\ SetOf(KeptCircuits) = SetOf(circuits) \ Retired
        /\ SetOf(KeptStubs) = SetOf(stubs) \ Retired
        /\ Retired \subseteq SetOf(circuits) \cup SetOf(stubs)
        /\ Retired \subseteq Circuits
    BY Sorted
  <2>2. SetOf(circuits)' = SetOf(circuits) \ Retired /\ SetOf(stubs)' = SetOf(stubs) \ Retired
    BY <1>0, <2>1 DEF SetOf
  <2>c. PICK c \in SetOf(KeptCircuits) : Take(r, c) /\ used' = used \cup {c}
    BY <1>3
  <2>d. c \in Circuits /\ c \in SetOf(circuits) /\ c \notin SetOf(stubs)
    BY <1>t, <2>1, Members DEF TypeOK, Apart
  <2>p. /\ pc' \in [Threads -> Places] /\ pc'[r] = "begin" /\ \A u \in Threads \ {r} : pc'[u] = pc[u]
        /\ have' \in [Threads -> Circuits \cup {None}] /\ have'[r] = c
        /\ \A u \in Threads \ {r} : have'[u] = have[u]
    BY <1>3, <1>t, <2>c, <2>d, Moves, Takes DEF TypeOK, Places
  <2>3. /\ ~Building(r)' /\ Uses(r)' /\ ~Building(r)
        /\ \A u \in Threads \ {r} : Still(u)
    BY <1>0, <2>p DEF Still, Building, Uses
  <2>4. Apart'
    BY <1>0, <1>t, <2>1, <2>2 DEF Apart
  <2>5. Hands'
    <3> SUFFICES ASSUME NEW u \in Threads
                 PROVE  /\ Building(u)' =>
                              /\ have'[u] \in Circuits
                              /\ have'[u] \notin SetOf(circuits)' /\ have'[u] \notin SetOf(stubs)'
                              /\ \A v \in Threads \ {u} : have'[v] # have'[u]
                        /\ Uses(u)' => have'[u] \in Circuits /\ have'[u] \notin SetOf(stubs)'
                        /\ ~Building(u)' /\ ~Uses(u)' => have'[u] = None
      BY DEF Hands
    <3>1. CASE u = r
      BY <2>2, <2>d, <2>p, <2>3, <3>1
    <3>2. CASE u # r
      <4>1. Still(u)
        BY <2>3, <3>2
      <4>2. ASSUME Building(u)' PROVE \A v \in Threads \ {u} : have'[v] # have'[u]
        <5>1. /\ have[u] \notin SetOf(circuits) /\ have'[u] = have[u]
              /\ \A v \in Threads \ {u} : have[v] # have[u]
          BY <1>t, <4>1, <4>2 DEF Still, Hands
        <5> QED
          BY <2>d, <2>p, <5>1
      <4> QED
        BY <1>t, <2>2, <4>1, <4>2 DEF Still, Hands
    <3> QED
      BY <3>1, <3>2
  <2>6. Carries'
    <3>1. \A u \in Threads : /\ pc'[u] = "open" <=> pc[u] = "open"
                             /\ pc[u] = "open" => have'[u] = have[u]
      BY <1>0, <2>p
    <3> QED
      BY <1>0, <1>t, <3>1, SameCarries
  <2>s. \A u \in Threads : Building(u)' <=> Building(u)
    BY <2>3 DEF Still
  <2>h. \A u \in Threads : Building(u) => have'[u] = have[u]
    BY <2>3 DEF Still
  <2>7. Blamed'
    BY <1>1, <2>1, <2>2, <2>s, <2>h, SweptBlamed
  <2>8. /\ shut' \in [Threads -> SUBSET Circuits] /\ shut'[r] = Retired
        /\ \A u \in Threads : \A d \in shut[u] : d \in shut'[u]
    BY <1>0, <2>1, SweptOff
  <2>9. NoneLost'
    <3>2. \A d \in SetOf(circuits) \cup SetOf(stubs) :
              \/ d \in SetOf(circuits)' \/ d \in SetOf(stubs)'
              \/ \E u \in Threads : d \in shut'[u]
      BY <2>2, <2>8
    <3> QED
      BY <1>0, <1>t, <2>8, <2>s, <2>h, <3>2, FrameLost
  <2>10. TypeOK'
    <3>1. /\ slow' \subseteq Circuits /\ flagged' \subseteq Circuits /\ wavered' \subseteq Circuits
          /\ pending' \in Seq(Circuits) /\ Len(pending') <= MaxPendingBlame
          /\ count' \in [Circuits -> 0..2]
      BY <1>1, Swept
    <3>2. used' \subseteq Circuits
      BY <1>t, <2>c, <2>d DEF TypeOK
    <3> QED
      BY <1>0, <1>t, <2>1, <2>8, <2>p, <3>1, <3>2 DEF TypeOK
  <2> QED
    BY <2>4, <2>5, <2>6, <2>7, <2>9, <2>10 DEF Inv
<1> QED
  BY <1>1, <1>2, <1>3

\* A stub that is taken leaves the list.
LEMMA TakeStubHolds ==
    ASSUME Inv, NEW t \in Threads, TakeStub(t)
    PROVE  Inv'
<1>t. TypeOK /\ Apart /\ Hands /\ Carries /\ Blamed /\ NoneLost
  BY DEF Inv
<1>0. /\ pc[t] = "stub" /\ shut[t] = {} /\ circuits' = KeptCircuits
      /\ ToClose(t, Retired)
      /\ UNCHANGED <<used, born, closed, old, fits, streams, tries, first, dropped>>
  BY DEF TakeStub, At
<1>1. PICK judged \in Judgements : Retire(judged)
  BY DEF TakeStub
<1>2. CASE KeptStubs = <<>>
  <2>0. stubs' = KeptStubs /\ have' = have /\ Goto(t, "create")
    BY <1>2 DEF TakeStub
  <2>1. pc' \in [Threads -> Places] /\ pc'[t] = "create" /\ \A u \in Threads \ {t} : pc'[u] = pc[u]
    BY <2>0, <1>t, Moves DEF TypeOK, Places
  <2>2. \A u \in Threads : /\ Building(u)' <=> Building(u)
                           /\ Uses(u)' <=> Uses(u)
                           /\ pc'[u] = "open" <=> pc[u] = "open"
    BY <1>0, <2>1 DEF Building, Uses
  <2>3. used' \subseteq Circuits /\ first' \in {"none", "stub", "clean"} /\ tries' \in [Threads -> 0..ConnectAttempts - 1]
    BY <1>0, <1>t DEF TypeOK
  <2> QED
    BY <1>0, <1>1, <2>0, <2>1, <2>2, <2>3, OnlySweeps
<1>3. CASE KeptStubs # <<>>
  <2>0. stubs' = Tail(KeptStubs) /\ Take(t, Head(KeptStubs)) /\ Goto(t, "extend")
    BY <1>3 DEF TakeStub
  <2>1. /\ KeptCircuits \in Seq(Circuits) /\ KeptStubs \in Seq(Circuits)
        /\ Injective(KeptCircuits) /\ Injective(KeptStubs)
        /\ SetOf(KeptCircuits) = SetOf(circuits) \ Retired
        /\ SetOf(KeptStubs) = SetOf(stubs) \ Retired
        /\ Retired \subseteq SetOf(circuits) \cup SetOf(stubs)
        /\ Retired \subseteq Circuits
    BY Sorted
  <2>c. PICK c \in Circuits : c = Head(KeptStubs)
    BY <1>3, <2>1, HeadAndRest
  <2>2. /\ SetOf(circuits)' = SetOf(circuits) \ Retired
        /\ stubs' \in Seq(Circuits) /\ SetOf(stubs') \cup {c} = SetOf(stubs) \ Retired
        /\ c \notin SetOf(stubs') /\ Injective(stubs')
    <3>1. SetOf(circuits)' = SetOf(circuits) \ Retired
      BY <1>0, <2>1 DEF SetOf
    <3> QED
      BY <1>3, <2>0, <2>1, <2>c, <3>1, HeadAndRest
  <2>a. SetOf(stubs)' = SetOf(stubs') /\ Injective(stubs)' /\ Injective(circuits)'
    BY <1>0, <2>1, <2>2 DEF SetOf, Injective
  <2>d. c \notin SetOf(circuits) /\ c \in SetOf(stubs)
    BY <1>t, <2>2 DEF Apart
  <2>p. /\ pc' \in [Threads -> Places] /\ pc'[t] = "extend" /\ \A u \in Threads \ {t} : pc'[u] = pc[u]
        /\ have' \in [Threads -> Circuits \cup {None}] /\ have'[t] = c
        /\ \A u \in Threads \ {t} : have'[u] = have[u]
    BY <1>t, <2>0, <2>c, Moves, Takes DEF TypeOK, Places
  <2>3. /\ Building(t)' /\ ~Uses(t)' /\ ~Building(t)
        /\ \A u \in Threads \ {t} : Still(u)
    BY <1>0, <2>p DEF Still, Building, Uses
  <2>4. Apart'
    BY <1>t, <2>2, <2>a DEF Apart
  <2>o. \A u \in Threads : have[u] # c
    BY <1>t, <2>d, PoolAssumption DEF Hands, PoolAssumption
  <2>5. Hands'
    <3> SUFFICES ASSUME NEW u \in Threads
                 PROVE  /\ Building(u)' =>
                              /\ have'[u] \in Circuits
                              /\ have'[u] \notin SetOf(circuits)' /\ have'[u] \notin SetOf(stubs)'
                              /\ \A v \in Threads \ {u} : have'[v] # have'[u]
                        /\ Uses(u)' => have'[u] \in Circuits /\ have'[u] \notin SetOf(stubs)'
                        /\ ~Building(u)' /\ ~Uses(u)' => have'[u] = None
      BY DEF Hands
    <3>1. CASE u = t
      BY <2>2, <2>a, <2>d, <2>o, <2>p, <2>3, <3>1
    <3>2. CASE u # t
      <4>1. Still(u)
        BY <2>3, <3>2
      <4>2. ASSUME Building(u)' PROVE \A v \in Threads \ {u} : have'[v] # have'[u]
        <5>1. have'[u] = have[u] /\ \A v \in Threads \ {u} : have[v] # have[u]
          BY <1>t, <4>1, <4>2 DEF Still, Hands
        <5> QED
          BY <2>o, <2>p, <5>1
      <4>3. SetOf(circuits)' \subseteq SetOf(circuits) /\ SetOf(stubs)' \subseteq SetOf(stubs)
        BY <2>2, <2>a
      <4> QED
        BY <1>t, <4>1, <4>2, <4>3 DEF Still, Hands
    <3> QED
      BY <3>1, <3>2
  <2>6. Carries'
    <3>1. \A u \in Threads : /\ pc'[u] = "open" <=> pc[u] = "open"
                             /\ pc[u] = "open" => have'[u] = have[u]
      BY <1>0, <2>p
    <3> QED
      BY <1>0, <1>t, <3>1, SameCarries
  <2>7. Blamed'
    <3>1. \A u \in Threads : Building(u)' => \/ Building(u) /\ have'[u] = have[u]
                                             \/ have'[u] \in SetOf(stubs)
      BY <2>3, <2>d, <2>p DEF Still
    <3>2. SetOf(circuits)' = SetOf(KeptCircuits) /\ SetOf(stubs)' \subseteq SetOf(stubs)
      BY <2>1, <2>2, <2>a
    <3> QED
      BY <1>1, <3>1, <3>2, SweptBlamed
  <2>8. /\ shut' \in [Threads -> SUBSET Circuits] /\ shut'[t] = Retired
        /\ \A u \in Threads : \A d \in shut[u] : d \in shut'[u]
    BY <1>0, <2>1, SweptOff
  <2>9. NoneLost'
    <3>1. \A u \in Threads : Building(u) => Building(u)' /\ have'[u] = have[u]
      BY <2>3 DEF Still
    <3>2. \A d \in SetOf(circuits) \cup SetOf(stubs) :
              \/ d \in SetOf(circuits)' \/ d \in SetOf(stubs)'
              \/ \E u \in Threads : d \in shut'[u] \/ (Building(u)' /\ have'[u] = d)
      BY <2>2, <2>a, <2>8, <2>3, <2>p
    <3> QED
      BY <1>0, <1>t, <2>8, <3>1, <3>2, FrameLost
  <2>10. TypeOK'
    <3>1. /\ slow' \subseteq Circuits /\ flagged' \subseteq Circuits /\ wavered' \subseteq Circuits
          /\ pending' \in Seq(Circuits) /\ Len(pending') <= MaxPendingBlame
          /\ count' \in [Circuits -> 0..2]
      BY <1>1, Swept
    <3> QED
      BY <1>0, <1>t, <2>1, <2>2, <2>8, <2>p, <3>1 DEF TypeOK
  <2> QED
    BY <2>4, <2>5, <2>6, <2>7, <2>9, <2>10 DEF Inv
<1> QED
  BY <1>2, <1>3

\* What insert puts out to make room, and what it leaves.
IdleAll == Retain(KeptCircuits, {c \in Circuits : streams[c] = 0})
Idlers  == AtMost(IdleAll, Need)
Spare   == AtMost(KeptStubs, Need - Len(Idlers))
Left    == Retain(KeptCircuits, Circuits \ SetOf(Idlers))
Later   == SubSeq(KeptStubs, Len(Spare) + 1, Len(KeptStubs))

\* As many as there are to be put out are, or there is nothing left that could be.
LEMMA MakesRoom ==
    ASSUME Inv
    PROVE  /\ Left \in Seq(Circuits) /\ Injective(Left) /\ Later \in Seq(Circuits) /\ Injective(Later)
           /\ SetOf(Left) = SetOf(KeptCircuits) \ SetOf(Idlers)
           /\ SetOf(Idlers) \subseteq SetOf(KeptCircuits)
           /\ SetOf(KeptStubs) = SetOf(Spare) \cup SetOf(Later)
           /\ Len(Left) + 1 + Len(Later) > MaxCircuits =>
                 Later = <<>> /\ \A c \in SetOf(Left) : streams[c] # 0
<1>1. /\ KeptCircuits \in Seq(Circuits) /\ KeptStubs \in Seq(Circuits)
      /\ Injective(KeptCircuits) /\ Injective(KeptStubs)
      /\ Len(KeptCircuits) \in Nat /\ Len(KeptStubs) \in Nat /\ MaxCircuits \in Nat
  BY Sorted, Members, PoolAssumption DEF PoolAssumption
<1>2. /\ Need \in Nat
      /\ Need >= Len(KeptCircuits) + Len(KeptStubs) + 1 - MaxCircuits
  BY <1>1 DEF Need, Less, Total
<1>3. /\ IdleAll \in Seq(Circuits) /\ Injective(IdleAll) /\ Len(IdleAll) \in Nat
      /\ SetOf(IdleAll) = SetOf(KeptCircuits) \cap {c \in Circuits : streams[c] = 0}
  BY <1>1, RetainHolds, Members DEF IdleAll
<1> DEFINE rest == SubSeq(IdleAll, Len(Idlers) + 1, Len(IdleAll))
<1>4. /\ Idlers \in Seq(Circuits) /\ Injective(Idlers) /\ rest \in Seq(Circuits)
      /\ Len(Idlers) = IF Len(IdleAll) <= Need THEN Len(IdleAll) ELSE Need
      /\ Len(rest) = Len(IdleAll) - Len(Idlers)
      /\ SetOf(IdleAll) = SetOf(Idlers) \cup SetOf(rest)
  BY <1>2, <1>3, Divided DEF Idlers
<1>5. Need - Len(Idlers) \in Nat /\ Len(Idlers) \in Nat
  <2> HIDE DEF rest
  <2> QED
    BY <1>2, <1>3, <1>4
<1>6. /\ Later \in Seq(Circuits) /\ Injective(Later)
      /\ Len(Spare) = IF Len(KeptStubs) <= Need - Len(Idlers) THEN Len(KeptStubs) ELSE Need - Len(Idlers)
      /\ Len(Later) = Len(KeptStubs) - Len(Spare)
      /\ SetOf(KeptStubs) = SetOf(Spare) \cup SetOf(Later)
  BY <1>1, <1>5, Divided DEF Spare, Later
<1>7. SetOf(Idlers) \subseteq SetOf(KeptCircuits)
  BY <1>3, <1>4
<1>8. /\ Left \in Seq(Circuits) /\ Injective(Left)
      /\ SetOf(Left) = SetOf(KeptCircuits) \ SetOf(Idlers)
      /\ Len(Left) = Len(KeptCircuits) - Len(Idlers)
  <2>1. SetOf(KeptCircuits) \cap (Circuits \ SetOf(Idlers)) = SetOf(KeptCircuits) \ SetOf(Idlers)
    BY <1>1, Members
  <2>2. Left \in Seq(Circuits) /\ SetOf(Left) = SetOf(KeptCircuits) \cap (Circuits \ SetOf(Idlers)) /\ Injective(Left)
    BY <1>1, RetainHolds DEF Left
  <2>3. Len(Left) = Len(KeptCircuits) - Len(Idlers)
    BY <1>1, <1>4, <1>7, TakenOut DEF Left
  <2> QED
    BY <2>1, <2>2, <2>3
<1>9. ASSUME Len(Left) + 1 + Len(Later) > MaxCircuits
      PROVE  Later = <<>> /\ \A c \in SetOf(Left) : streams[c] # 0
  <2>1. Len(Later) = 0 /\ Len(rest) = 0
    <3> DEFINE K == Len(KeptCircuits)
               S == Len(KeptStubs)
               A == Len(IdleAll)
               I == Len(Idlers)
               P == Len(Spare)
    <3>1. /\ K \in Nat /\ S \in Nat /\ A \in Nat /\ Need \in Nat /\ MaxCircuits \in Nat
          /\ I = (IF A <= Need THEN A ELSE Need)
          /\ P = (IF S <= Need - I THEN S ELSE Need - I)
          /\ Len(Left) = K - I /\ Len(Later) = S - P /\ Len(rest) = A - I
          /\ Need >= K + S + 1 - MaxCircuits
          /\ Len(Left) + 1 + Len(Later) > MaxCircuits
      BY <1>1, <1>2, <1>3, <1>4, <1>6, <1>8, <1>9
    <3> HIDE DEF K, S, A, I, P, rest
    <3>2. I \in Nat /\ P \in Nat /\ Need > I + P
      BY ONLY <3>1
    <3>3. I = A /\ P = S
      BY ONLY <3>1, <3>2
    <3> QED
      BY ONLY <3>1, <3>3
  <2>2. Later = <<>> /\ rest = <<>>
    BY <1>4, <1>6, <2>1, EmptySeq
  <2>3. SetOf(rest) = {}
    BY <2>2, EmptyList
  <2>4. SetOf(Left) \subseteq Circuits
    BY <1>8, Members
  <2> HIDE DEF rest
  <2> QED
    BY <1>3, <1>4, <1>8, <2>2, <2>3, <2>4
<1> QED
  BY <1>6, <1>7, <1>8, <1>9

\* A circuit that is inserted leaves the hands of its builder; what is put out for it is
\* to be closed.
LEMMA InsertHolds ==
    ASSUME Inv, NEW t \in Threads, Insert(t)
    PROVE  Inv'
<1>t. TypeOK /\ Apart /\ Hands /\ Carries /\ Blamed /\ NoneLost
  BY DEF Inv
<1>0. /\ pc[t] = "insert" /\ shut[t] = {}
      /\ circuits' = Append(Left, have[t]) /\ stubs' = Later
      /\ ToClose(t, Retired \cup (SetOf(Idlers) \cup SetOf(Spare)))
      /\ IF t \in Requesters
         THEN used' = used \cup {have[t]} /\ Goto(t, "begin") /\ have' = have
         ELSE used' = used /\ Goto(t, "idle") /\ Take(t, None)
      /\ UNCHANGED <<born, closed, old, fits, streams, tries, first, dropped>>
  BY DEF Insert, At, Left, Later, Spare, Idlers, IdleAll, Evicted
<1>1. PICK judged \in Judgements : Retire(judged)
  BY DEF Insert
<1>2. /\ KeptCircuits \in Seq(Circuits) /\ KeptStubs \in Seq(Circuits)
      /\ SetOf(KeptCircuits) = SetOf(circuits) \ Retired
      /\ SetOf(KeptStubs) = SetOf(stubs) \ Retired
      /\ Retired \subseteq SetOf(circuits) \cup SetOf(stubs)
      /\ Retired \subseteq Circuits
  BY Sorted
<1>3. /\ Left \in Seq(Circuits) /\ Injective(Left) /\ Later \in Seq(Circuits) /\ Injective(Later)
      /\ SetOf(Left) = SetOf(KeptCircuits) \ SetOf(Idlers)
      /\ SetOf(Idlers) \subseteq SetOf(KeptCircuits)
      /\ SetOf(KeptStubs) = SetOf(Spare) \cup SetOf(Later)
  BY MakesRoom
<1>c. PICK c \in Circuits : c = have[t]
  BY <1>0, <1>t DEF Hands, Building
<1>b. /\ Building(t) /\ c \notin SetOf(circuits) /\ c \notin SetOf(stubs) /\ count[c] = 0
      /\ \A u \in Threads \ {t} : have[u] # c
  BY <1>0, <1>c, <1>t DEF Hands, Blamed, Building
<1>4. /\ circuits' \in Seq(Circuits) /\ SetOf(circuits') = SetOf(Left) \cup {c} /\ Injective(circuits')
  BY <1>0, <1>b, <1>c, <1>2, <1>3, Appended
<1>a. /\ SetOf(circuits)' = SetOf(Left) \cup {c} /\ Injective(circuits)'
      /\ SetOf(stubs)' = SetOf(Later) /\ Injective(stubs)'
  BY <1>0, <1>3, <1>4 DEF SetOf, Injective
<1>s. /\ SetOf(Left) \subseteq SetOf(circuits) /\ SetOf(Later) \subseteq SetOf(stubs)
      /\ SetOf(Left) \subseteq SetOf(KeptCircuits)
  BY <1>2, <1>3
<1>p. /\ pc' \in [Threads -> Places] /\ \A u \in Threads \ {t} : pc'[u] = pc[u]
      /\ have' \in [Threads -> Circuits \cup {None}]
      /\ \A u \in Threads \ {t} : have'[u] = have[u]
      /\ (pc'[t] = "begin" /\ have'[t] = c) \/ (pc'[t] = "idle" /\ have'[t] = None)
      /\ used' \subseteq Circuits
  <2>1. CASE t \in Requesters
    BY <1>0, <1>c, <1>t, <2>1, Moves DEF TypeOK, Places
  <2>2. CASE t \notin Requesters
    BY <1>0, <1>t, <2>2, Moves, Takes DEF TypeOK, Places
  <2> QED
    BY <2>1, <2>2
<1>5. ~Building(t)' /\ \A u \in Threads \ {t} : Still(u)
  BY <1>p DEF Still, Building, Uses
<1>6. Apart'
  BY <1>t, <1>b, <1>a, <1>s DEF Apart
<1>7. Hands'
  <2> SUFFICES ASSUME NEW u \in Threads
               PROVE  /\ Building(u)' =>
                            /\ have'[u] \in Circuits
                            /\ have'[u] \notin SetOf(circuits)' /\ have'[u] \notin SetOf(stubs)'
                            /\ \A v \in Threads \ {u} : have'[v] # have'[u]
                      /\ Uses(u)' => have'[u] \in Circuits /\ have'[u] \notin SetOf(stubs)'
                      /\ ~Building(u)' /\ ~Uses(u)' => have'[u] = None
    BY DEF Hands
  <2>1. CASE u = t
    <3>1. Uses(t)' => have'[t] = c
      BY <1>p DEF Uses
    <3>2. ~Uses(t)' => have'[t] = None
      BY <1>p DEF Uses
    <3> QED
      BY <1>5, <1>a, <1>b, <1>s, <2>1, <3>1, <3>2
  <2>2. CASE u # t
    <3>1. Still(u) /\ have[u] # c
      BY <1>5, <1>b, <2>2
    <3>2. ASSUME Building(u)' PROVE \A v \in Threads \ {u} : have'[v] # have'[u]
      <4>1. have'[u] = have[u] /\ have[u] \in Circuits /\ \A v \in Threads \ {u} : have[v] # have[u]
        BY <1>t, <3>1, <3>2 DEF Still, Hands
      <4>2. have[u] # None
        BY <4>1, PoolAssumption DEF PoolAssumption
      <4> QED
        BY <1>p, <3>1, <4>1, <4>2
    <3> QED
      BY <1>t, <1>a, <1>s, <3>1, <3>2 DEF Still, Hands
  <2> QED
    BY <2>1, <2>2
<1>8. Carries'
  <2>1. \A u \in Threads : /\ pc'[u] = "open" <=> pc[u] = "open"
                           /\ pc[u] = "open" => have'[u] = have[u]
    BY <1>0, <1>p
  <2> QED
    BY <1>0, <1>t, <2>1, SameCarries
<1>9. Blamed'
  <2>1. \A u \in Threads : Building(u)' => Building(u) /\ have'[u] = have[u]
    BY <1>5 DEF Still
  <2>2. \A d \in SetOf(circuits)' : \/ d \in SetOf(KeptCircuits)
                                    \/ d \in Circuits \ SetOf(circuits) /\ count[d] = 0
    BY <1>a, <1>b, <1>s
  <2>3. SetOf(stubs)' \subseteq SetOf(stubs)
    BY <1>a, <1>s
  <2> QED
    BY <1>1, <2>1, <2>2, <2>3, SweptBlamed
<1>10. /\ shut' \in [Threads -> SUBSET Circuits]
       /\ shut'[t] = Retired \cup (SetOf(Idlers) \cup SetOf(Spare))
       /\ \A u \in Threads : \A d \in shut[u] : d \in shut'[u]
  <2>1. Retired \cup (SetOf(Idlers) \cup SetOf(Spare)) \in SUBSET Circuits
    BY <1>2, <1>3, Members
  <2> QED
    BY <1>0, <2>1, SweptOff
<1>11. NoneLost'
  <2>1. \A u \in Threads : Building(u) =>
             \/ Building(u)' /\ have'[u] = have[u]
             \/ have[u] \in SetOf(circuits)'
    BY <1>5, <1>a, <1>c DEF Still
  <2>2. \A d \in SetOf(circuits) \cup SetOf(stubs) :
            \/ d \in SetOf(circuits)' \/ d \in SetOf(stubs)'
            \/ \E u \in Threads : d \in shut'[u]
    <3>1. \A d \in SetOf(circuits) \cup SetOf(stubs) :
              d \in SetOf(Left) \/ d \in SetOf(Later) \/ d \in shut'[t]
      BY <1>2, <1>3, <1>10
    <3> QED
      BY <1>a, <3>1
  <2> QED
    BY <1>0, <1>t, <1>10, <2>1, <2>2, FrameLost
<1>12. TypeOK'
  <2>1. /\ slow' \subseteq Circuits /\ flagged' \subseteq Circuits /\ wavered' \subseteq Circuits
        /\ pending' \in Seq(Circuits) /\ Len(pending') <= MaxPendingBlame
        /\ count' \in [Circuits -> 0..2]
    BY <1>1, Swept
  <2> QED
    BY <1>0, <1>t, <1>3, <1>4, <1>10, <1>p, <2>1 DEF TypeOK
<1> QED
  BY <1>6, <1>7, <1>8, <1>9, <1>11, <1>12 DEF Inv

-----------------------------------------------------------------------------
(***************************************************************************)
(* The theorems.                                                           *)
(***************************************************************************)

\* The invariant holds at the start.
LEMMA InitHolds ==
    ASSUME Init
    PROVE  Inv /\ Planning
<1>1. SetOf(circuits) = {} /\ SetOf(stubs) = {} /\ Injective(circuits) /\ Injective(stubs)
  BY EmptyList DEF Init
<1>2. Builder \in Threads /\ Workers \subseteq Threads
  BY DEF Threads
<1>3. TypeOK
  <2>1. /\ circuits = <<>> /\ stubs = <<>> /\ pending = <<>> /\ <<>> \in Seq(Circuits) /\ Len(<<>>) = 0
    BY DEF Init
  <2>2. 0 <= MaxPendingBlame /\ 0 \in 0..ConnectAttempts - 1 /\ 0 \in 0..2
    BY PoolAssumption DEF PoolAssumption
  <2> QED
    BY <2>1, <2>2 DEF Init, TypeOK, Places
<1>4. Apart
  BY <1>1 DEF Apart
<1>5. Hands
  BY <1>1 DEF Init, Hands, Building, Uses
<1>6. Carries
  <2>1. \A c \in Circuits : Openers(c) = {}
    BY DEF Init, Openers
  <2> QED
    BY <2>1, FS_EmptySet DEF Init, Carries
<1>7. Blamed
  <2>1. \A c \in Circuits : count[c] = 0
    BY DEF Init
  <2> QED
    BY <1>1, <2>1 DEF Init, Blamed, BlamedOnce, Building
<1>8. NoneLost
  BY DEF Init, NoneLost
<1>9. Planning
  BY <1>2 DEF Init, Planning
<1> QED
  BY <1>3, <1>4, <1>5, <1>6, <1>7, <1>8, <1>9 DEF Inv

\* A step of a requester, or of a worker that is not idle, is none of the builder's.
LEMMA OneMoves ==
    ASSUME Planning, NEW t \in Requesters \cup Workers, t \in Requesters \/ pc[t] # "idle",
           \A u \in Threads \ {t} : pc'[u] = pc[u]
    PROVE  Planning'
<1>1. t # Builder /\ Builder \in Threads /\ Workers \subseteq Threads /\ Requesters \cap Workers = {}
  BY PoolAssumption DEF PoolAssumption, Threads
<1>2. pc'[Builder] = pc[Builder]
  BY <1>1
<1>3. CASE pc[Builder] \in {"plan", "more"}
  <2>1. \A w \in Workers : pc[w] = "idle"
    BY <1>3 DEF Planning
  <2>2. t \notin Workers
    BY <1>1, <2>1
  <2> QED
    BY <1>1, <2>1, <2>2 DEF Planning
<1>4. CASE pc[Builder] \notin {"plan", "more"}
  BY <1>2, <1>4 DEF Planning
<1> QED
  BY <1>3, <1>4

\* A step of building changes only where its thread is.
LEMMA BuildMoves ==
    ASSUME TypeOK, NEW t \in Threads, Build(t)
    PROVE  pc[t] # "idle" /\ \A u \in Threads \ {t} : pc'[u] = pc[u]
<1>p. pc \in [Threads -> Places]
  BY DEF TypeOK
<1>1. \A w : Goto(t, w) => \A u \in Threads \ {t} : pc'[u] = pc[u]
  BY <1>p DEF Goto
<1>2. CASE TakeStub(t)
  BY <1>1, <1>2 DEF TakeStub, At
<1>3. CASE ExtendStub(t)
  BY <1>1, <1>3 DEF ExtendStub, At
<1>4. CASE ExtendFails(t)
  BY <1>1, <1>4 DEF ExtendFails, At
<1>5. CASE Create(t)
  BY <1>1, <1>5 DEF Create, At
<1>6. CASE CreateFails(t)
  BY <1>1, <1>6 DEF CreateFails, NextTry, At
<1>7. CASE Insert(t)
  BY <1>1, <1>7 DEF Insert, At
<1> QED
  BY <1>2, <1>3, <1>4, <1>5, <1>6, <1>7 DEF Build

\* While the builder plans, no worker starts.
LEMMA PlanningHolds ==
    ASSUME TypeOK, Planning, [Next]_vars
    PROVE  Planning'
<1>0. Requesters \subseteq Threads /\ Workers \subseteq Threads /\ Builder \in Threads
  BY DEF Threads
<1>p. pc \in [Threads -> Places]
  BY DEF TypeOK
<1>g. \A t \in Threads : \A w : Goto(t, w) => \A u \in Threads \ {t} : pc'[u] = pc[u]
  BY <1>p DEF Goto
<1>s. ASSUME pc' = pc PROVE Planning'
  BY <1>s DEF Planning
<1>1. ASSUME NEW r \in Requesters, Connect(r) \/ Requester(r) \/ EndStream(r) PROVE Planning'
  <2>1. CASE Build(r)
    BY <1>0, <2>1, BuildMoves, OneMoves
  <2>2. CASE CloseAll(r)
    BY <1>s, <2>2 DEF CloseAll
  <2>3. CASE Connect(r) \/ CircuitFor(r) \/ BeginStream(r) \/ BeginFails(r) \/ EndStream(r)
    <3>1. \A u \in Threads \ {r} : pc'[u] = pc[u]
      BY <1>0, <1>g, <2>3 DEF Connect, CircuitFor, BeginStream, BeginFails, EndStream, NextTry
    <3> QED
      BY <3>1, OneMoves
  <2> QED
    BY <1>1, <2>1, <2>2, <2>3 DEF Requester
<1>2. ASSUME NEW w \in Workers, Worker(w) PROVE Planning'
  <2>1. CASE Build(w)
    BY <1>0, <2>1, BuildMoves, OneMoves
  <2>2. CASE CloseAll(w)
    BY <1>s, <2>2 DEF CloseAll
  <2>3. CASE AddStub(w)
    <3>1. pc[w] # "idle" /\ \A u \in Threads \ {w} : pc'[u] = pc[u]
      BY <1>0, <1>g, <2>3 DEF AddStub, At
    <3> QED
      BY <3>1, OneMoves
  <2> QED
    BY <1>2, <2>1, <2>2, <2>3 DEF Worker
<1>3. ASSUME Planner PROVE Planning'
  <2>w. \A w \in Workers : w # Builder
    BY PoolAssumption DEF PoolAssumption
  <2>1. CASE CloseAll(Builder)
    BY <1>s, <2>1 DEF CloseAll
  <2>2. CASE Sweep
    <3>1. \A w \in Workers : pc[w] = "idle"
      BY <2>2 DEF Sweep, At
    <3>2. \A u \in Threads \ {Builder} : pc'[u] = pc[u]
      BY <1>0, <1>g, <2>2 DEF Sweep
    <3> QED
      BY <1>0, <2>w, <3>1, <3>2 DEF Planning
  <2>3. CASE NextJob
    <3>1. \A w \in Workers : pc[w] = "idle"
      BY <2>3 DEF NextJob, At, Planning
    <3>2. \A u \in Threads \ {Builder} : pc'[u] = pc[u]
      BY <1>0, <1>g, <2>3 DEF NextJob
    <3> QED
      BY <1>0, <2>w, <3>1, <3>2 DEF Planning
  <2>4. CASE NextJobs
    <3>1. pc'[Builder] = "idle"
      BY <1>0, <2>4 DEF NextJobs
    <3> QED
      BY <3>1 DEF Planning
  <2> QED
    BY <1>3, <2>1, <2>2, <2>3, <2>4 DEF Planner
<1>4. ASSUME NEW c \in Circuits, Slows(c) \/ Ages(c) \/ Dies(c) PROVE Planning'
  BY <1>4, <1>s DEF Slows, Ages, Dies, threads
<1>7. ASSUME Prober PROVE Planning'
  <2>w. Maintainer \in Threads /\ Maintainer # Builder /\ \A w \in Workers : w # Maintainer
    BY PoolAssumption DEF PoolAssumption, Threads
  <2>1. CASE CloseAll(Maintainer)
    BY <1>s, <2>1 DEF CloseAll
  <2>2. CASE WantingProbe \/ BeginStream(Maintainer) \/ EndStream(Maintainer) \/ ProbeFails \/ Condemn
    <3>1. \A u \in Threads \ {Maintainer} : pc'[u] = pc[u]
      BY <1>g, <2>w, <2>2 DEF WantingProbe, BeginStream, EndStream, ProbeFails, Condemn
    <3> QED
      BY <1>0, <2>w, <3>1 DEF Planning
  <2> QED
    BY <1>7, <2>1, <2>2 DEF Prober
<1>5. ASSUME TakeBlame \/ Clear PROVE Planning'
  BY <1>5, <1>s DEF TakeBlame, Clear, threads
<1>6. ASSUME UNCHANGED vars PROVE Planning'
  BY <1>6, <1>s DEF vars, threads
<1> QED
  BY <1>1, <1>2, <1>3, <1>4, <1>5, <1>6, <1>7 DEF Next

\* Every step keeps the invariant.
LEMMA StepHolds ==
    ASSUME Inv, Planning, [Next]_vars
    PROVE  Inv' /\ Planning'
<1>0. Requesters \subseteq Threads /\ Workers \subseteq Threads /\ Builder \in Threads
  BY DEF Threads
<1>b. ASSUME NEW t \in Threads, Build(t) PROVE Inv'
  BY <1>b, TakeStubHolds, ExtendStubHolds, ExtendFailsHolds, CreateHolds, CreateFailsHolds, InsertHolds
     DEF Build
<1>1. ASSUME NEW r \in Requesters, Connect(r) \/ Requester(r) \/ EndStream(r) PROVE Inv'
  BY <1>0, <1>1, <1>b, ConnectHolds, EndStreamHolds, CircuitForHolds, BeginStreamHolds, BeginFailsHolds,
     CloseAllHolds DEF Requester
<1>2. ASSUME NEW w \in Workers, Worker(w) PROVE Inv'
  BY <1>0, <1>2, <1>b, AddStubHolds, CloseAllHolds DEF Worker
<1>3. ASSUME Planner PROVE Inv'
  BY <1>0, <1>3, SweepHolds, NextJobHolds, NextJobsHolds, CloseAllHolds DEF Planner
<1>4. ASSUME NEW c \in Circuits, Slows(c) \/ Ages(c) \/ Dies(c) PROVE Inv'
  BY <1>4, SlowsHolds, AgesHolds, DiesHolds
<1>8. ASSUME Prober PROVE Inv'
  <2>1. Maintainer \in Threads
    BY DEF Threads
  <2> QED
    BY <1>8, <2>1, WantingProbeHolds, BeginStreamHolds, EndStreamHolds, ProbeFailsHolds, CondemnHolds,
       CloseAllHolds DEF Prober
<1>5. ASSUME TakeBlame \/ Clear PROVE Inv'
  BY <1>5, TakeBlameHolds, ClearHolds
<1>6. ASSUME UNCHANGED vars PROVE Inv'
  <2>1. Rest'
    BY <1>6, Elsewhere DEF vars, pool, health, threads, seen
  <2>2. TypeOK'
    BY <1>6 DEF vars, pool, health, threads, seen, Inv, TypeOK
  <2> QED
    BY <2>1, <2>2 DEF Inv, Rest
<1>7. Planning'
  BY PlanningHolds DEF Inv
<1> QED
  BY <1>1, <1>2, <1>3, <1>4, <1>5, <1>6, <1>7, <1>8 DEF Next

\* The invariant of the pool and its threads holds in every state.
THEOREM Invariant == Spec => [](Inv /\ Planning)
BY InitHolds, StepHolds, PTL DEF Spec

\* The variables of the pool have their types; circuits never carry fewer than no streams.
THEOREM TypeCorrect == Spec => []TypeOK
BY Invariant, PTL DEF Inv

\* Both lists, one after the other.
LEMMA Joined ==
    ASSUME NEW X, NEW a \in Seq(X), NEW b \in Seq(X)
    PROVE  /\ SetOf(a \o b) = SetOf(a) \cup SetOf(b)
           /\ Injective(a) /\ Injective(b) /\ SetOf(a) \cap SetOf(b) = {} => IsInjective(a \o b)
<1> DEFINE l == a \o b
<1>1. /\ l \in Seq(X) /\ Len(a) \in Nat /\ Len(b) \in Nat /\ Len(l) = Len(a) + Len(b)
      /\ DOMAIN l = 1..Len(l)
      /\ \A i \in 1..Len(l) : l[i] = IF i <= Len(a) THEN a[i] ELSE b[i - Len(a)]
  BY ConcatProperties, LenProperties
<1> HIDE DEF l
<1>2. /\ \A i \in 1..Len(a) : i \in 1..Len(l) /\ l[i] = a[i]
      /\ \A i \in 1..Len(b) : i + Len(a) \in 1..Len(l) /\ l[i + Len(a)] = b[i]
  <2>1. ASSUME NEW i \in 1..Len(a) PROVE i \in 1..Len(l) /\ l[i] = a[i]
    <3>1. i \in 1..Len(l) /\ i <= Len(a)
      BY <1>1
    <3> QED
      BY <1>1, <3>1
  <2>2. ASSUME NEW i \in 1..Len(b) PROVE i + Len(a) \in 1..Len(l) /\ l[i + Len(a)] = b[i]
    <3>1. i + Len(a) \in 1..Len(l) /\ ~(i + Len(a) <= Len(a)) /\ (i + Len(a)) - Len(a) = i
      BY <1>1
    <3> QED
      BY <1>1, <3>1
  <2> QED
    BY <2>1, <2>2
<1>3. \A i \in 1..Len(l) : i \in 1..Len(a) \/ i - Len(a) \in 1..Len(b)
  BY <1>1
<1>4. SetOf(l) = SetOf(a) \cup SetOf(b)
  <2>1. ASSUME NEW y \in SetOf(l) PROVE y \in SetOf(a) \cup SetOf(b)
    <3>1. PICK i \in 1..Len(l) : l[i] = y
      BY DEF SetOf
    <3>2. CASE i \in 1..Len(a)
      BY <1>2, <3>1, <3>2 DEF SetOf
    <3>3. CASE i - Len(a) \in 1..Len(b)
      <4>1. b[i - Len(a)] = y
        BY <1>1, <3>1, <3>3
      <4> QED
        BY <3>3, <4>1 DEF SetOf
    <3> QED
      BY <1>3, <3>2, <3>3
  <2>2. ASSUME NEW y \in SetOf(a) PROVE y \in SetOf(l)
    <3>1. PICK i \in 1..Len(a) : a[i] = y
      BY DEF SetOf
    <3> QED
      BY <1>2, <3>1 DEF SetOf
  <2>3. ASSUME NEW y \in SetOf(b) PROVE y \in SetOf(l)
    <3>1. PICK i \in 1..Len(b) : b[i] = y
      BY DEF SetOf
    <3> QED
      BY <1>2, <3>1 DEF SetOf
  <2> QED
    BY <2>1, <2>2, <2>3
<1>5. ASSUME Injective(a), Injective(b), SetOf(a) \cap SetOf(b) = {} PROVE IsInjective(l)
  <2>a. \A i, j \in 1..Len(a) : a[i] = a[j] => i = j
    BY <1>5 DEF Injective
  <2>b. \A i, j \in 1..Len(b) : b[i] = b[j] => i = j
    BY <1>5 DEF Injective
  <2>c. ASSUME NEW i \in 1..Len(a), NEW j \in 1..Len(b) PROVE a[i] # b[j]
    <3>1. a[i] \in SetOf(a)
      BY DEF SetOf
    <3>2. b[j] \in SetOf(b)
      BY DEF SetOf
    <3> QED
      BY <1>5, <3>1, <3>2
  <2>0. /\ \A i, j \in 1..Len(a) : a[i] = a[j] => i = j
        /\ \A i, j \in 1..Len(b) : b[i] = b[j] => i = j
        /\ \A i \in 1..Len(a) : \A j \in 1..Len(b) : a[i] # b[j]
    BY <2>a, <2>b, <2>c
  <2> SUFFICES ASSUME NEW i \in 1..Len(l), NEW j \in 1..Len(l), l[i] = l[j] PROVE i = j
    BY <1>1 DEF IsInjective
  <2>1. CASE i \in 1..Len(a) /\ j \in 1..Len(a)
    BY <1>2, <2>0, <2>1
  <2>2. CASE i \in 1..Len(a) /\ j \notin 1..Len(a)
    <3>1. j - Len(a) \in 1..Len(b) /\ l[j] = b[j - Len(a)]
      BY <1>1, <1>3, <2>2
    <3> QED
      BY <1>2, <2>0, <2>2, <3>1
  <2>3. CASE i \notin 1..Len(a) /\ j \in 1..Len(a)
    <3>1. i - Len(a) \in 1..Len(b) /\ l[i] = b[i - Len(a)]
      BY <1>1, <1>3, <2>3
    <3> QED
      BY <1>2, <2>0, <2>3, <3>1
  <2>4. CASE i \notin 1..Len(a) /\ j \notin 1..Len(a)
    <3>1. /\ i - Len(a) \in 1..Len(b) /\ l[i] = b[i - Len(a)]
          /\ j - Len(a) \in 1..Len(b) /\ l[j] = b[j - Len(a)]
      BY <1>1, <1>3, <2>4
    <3>2. i - Len(a) = j - Len(a)
      BY <2>0, <3>1
    <3> QED
      BY <1>1, <3>2
  <2> QED
    BY <2>1, <2>2, <2>3, <2>4
<1> QED
  BY <1>4, <1>5 DEF l

\* A circuit is never handed to two builders, nor pooled while one has it, nor pooled
\* twice, whatever the pool, its requesters and its workers do between two holds of the lock.
THEOREM InOnePlace == Spec => []OnePlace
<1>1. Inv => OnePlace
  <2> SUFFICES ASSUME Inv PROVE OnePlace
    OBVIOUS
  <2>1. circuits \in Seq(Circuits) /\ stubs \in Seq(Circuits) /\ Apart /\ Hands
    BY DEF Inv, TypeOK
  <2>2. SetOf(circuits \o stubs) = SetOf(circuits) \cup SetOf(stubs) /\ IsInjective(circuits \o stubs)
    BY <2>1, Joined DEF Apart
  <2> QED
    BY <2>1, <2>2 DEF OnePlace, Hands
<1> QED
  BY <1>1, Invariant, PTL

\* No circuit counts twice against its guard, unless it wavered in the middle of a sweep.
THEOREM CountedOnce == Spec => []BlamedOnce
BY Invariant, PTL DEF Inv, Blamed

\* Every circuit that is open and was not dropped by clear is in the pool, or with a thread
\* that builds it or is about to close it.
THEOREM AllReachable == Spec => []NoneLost
BY Invariant, PTL DEF Inv

\* What an open circuit is said to carry is the number of threads with a stream on it: the
\* load by which circuit_for chooses and insert finds a circuit idle.
THEOREM StreamsCounted == Spec => []Carries
BY Invariant, PTL DEF Inv

\* Every step but insert and add_stub leaves the lists without anything new.
LEMMA NothingAdded ==
    ASSUME Inv, [Next]_vars, \A t \in Threads : ~Insert(t) /\ ~AddStub(t)
    PROVE  SetOf(circuits') \subseteq SetOf(circuits) /\ SetOf(stubs') \subseteq SetOf(stubs)
<1>0. Requesters \subseteq Threads /\ Workers \subseteq Threads /\ Builder \in Threads
  BY DEF Threads
<1>t. circuits \in Seq(Circuits) /\ stubs \in Seq(Circuits)
  BY DEF Inv, TypeOK
<1>k. /\ SetOf(KeptCircuits) \subseteq SetOf(circuits) /\ SetOf(KeptStubs) \subseteq SetOf(stubs)
      /\ KeptStubs \in Seq(Circuits)
  BY Sorted
<1>s. ASSUME circuits' = circuits, stubs' = stubs
      PROVE  SetOf(circuits') \subseteq SetOf(circuits) /\ SetOf(stubs') \subseteq SetOf(stubs)
  BY <1>s
<1>b. ASSUME NEW t \in Threads, Build(t)
      PROVE  SetOf(circuits') \subseteq SetOf(circuits) /\ SetOf(stubs') \subseteq SetOf(stubs)
  <2>1. CASE TakeStub(t)
    <3>1. circuits' = KeptCircuits
      BY <2>1 DEF TakeStub
    <3>2. CASE KeptStubs = <<>>
      <4>1. stubs' = KeptStubs
        BY <2>1, <3>2 DEF TakeStub
      <4> QED
        BY <1>k, <3>1, <4>1
    <3>3. CASE KeptStubs # <<>>
      <4>1. stubs' = Tail(KeptStubs)
        BY <2>1, <3>3 DEF TakeStub
      <4> QED
        BY <1>k, <3>1, <3>3, <4>1, HeadAndRest
    <3> QED
      BY <3>2, <3>3
  <2>2. CASE ExtendStub(t)
    BY <2>2, <1>s DEF ExtendStub, pool
  <2>3. CASE ExtendFails(t)
    BY <2>3, <1>s DEF ExtendFails, pool
  <2>4. CASE Create(t)
    BY <2>4, <1>s DEF Create
  <2>5. CASE CreateFails(t)
    BY <2>5, <1>s DEF CreateFails, pool
  <2> QED
    BY <1>b, <2>1, <2>2, <2>3, <2>4, <2>5 DEF Build
<1>c. ASSUME NEW t \in Threads, CloseAll(t)
      PROVE  SetOf(circuits') \subseteq SetOf(circuits) /\ SetOf(stubs') \subseteq SetOf(stubs)
  BY <1>c, <1>s DEF CloseAll, pool
<1>1. ASSUME NEW r \in Requesters, Connect(r) \/ Requester(r) \/ EndStream(r)
      PROVE  SetOf(circuits') \subseteq SetOf(circuits) /\ SetOf(stubs') \subseteq SetOf(stubs)
  <2>1. CASE Connect(r) \/ BeginStream(r) \/ EndStream(r)
    BY <2>1, <1>s DEF Connect, BeginStream, EndStream, pool
  <2>2. CASE CircuitFor(r)
    <3>1. circuits' = KeptCircuits /\ stubs' = KeptStubs
      BY <2>2 DEF CircuitFor
    <3> QED
      BY <1>k, <3>1
  <2>3. CASE BeginFails(r)
    <3>1. circuits' = Without(circuits, have[r]) /\ stubs' = Without(stubs, have[r])
      BY <2>3 DEF BeginFails
    <3> QED
      BY <1>t, <3>1, WithoutHolds
  <2> QED
    BY <1>0, <1>1, <1>b, <1>c, <2>1, <2>2, <2>3 DEF Requester
<1>2. ASSUME NEW w \in Workers, Worker(w)
      PROVE  SetOf(circuits') \subseteq SetOf(circuits) /\ SetOf(stubs') \subseteq SetOf(stubs)
  BY <1>0, <1>2, <1>b, <1>c DEF Worker
<1>3. ASSUME Planner
      PROVE  SetOf(circuits') \subseteq SetOf(circuits) /\ SetOf(stubs') \subseteq SetOf(stubs)
  <2>1. CASE Sweep
    <3>1. circuits' = KeptCircuits /\ stubs' = KeptStubs
      BY <2>1 DEF Sweep
    <3> QED
      BY <1>k, <3>1
  <2>2. CASE NextJob \/ NextJobs
    BY <2>2, <1>s DEF NextJob, NextJobs, pool
  <2> QED
    BY <1>0, <1>3, <1>c, <2>1, <2>2 DEF Planner
<1>4. ASSUME NEW c \in Circuits, Slows(c) \/ Ages(c) \/ Dies(c)
      PROVE  SetOf(circuits') \subseteq SetOf(circuits) /\ SetOf(stubs') \subseteq SetOf(stubs)
  BY <1>4, <1>s DEF Slows, Ages, Dies, pool
<1>7. ASSUME Prober
      PROVE  SetOf(circuits') \subseteq SetOf(circuits) /\ SetOf(stubs') \subseteq SetOf(stubs)
  <2>0. Maintainer \in Threads
    BY DEF Threads
  <2>1. CASE Condemn
    <3>1. circuits' = Without(circuits, have[Maintainer]) /\ stubs' = stubs
      BY <2>1 DEF Condemn
    <3> QED
      BY <1>t, <3>1, WithoutHolds
  <2>2. CASE WantingProbe \/ BeginStream(Maintainer) \/ EndStream(Maintainer) \/ ProbeFails
    BY <2>2, <1>s DEF WantingProbe, BeginStream, EndStream, ProbeFails, pool
  <2> QED
    BY <1>7, <1>c, <2>0, <2>1, <2>2 DEF Prober
<1>5. ASSUME TakeBlame \/ Clear
      PROVE  SetOf(circuits') \subseteq SetOf(circuits) /\ SetOf(stubs') \subseteq SetOf(stubs)
  <2>1. CASE TakeBlame
    BY <2>1, <1>s DEF TakeBlame
  <2>2. CASE Clear
    <3>1. circuits' = Retain(circuits, {c \in Circuits : streams[c] > 0}) /\ stubs' = <<>>
      BY <2>2 DEF Clear
    <3> QED
      BY <1>t, <3>1, RetainHolds, EmptyList
  <2> QED
    BY <1>5, <2>1, <2>2
<1>6. ASSUME UNCHANGED vars
      PROVE  SetOf(circuits') \subseteq SetOf(circuits) /\ SetOf(stubs') \subseteq SetOf(stubs)
  BY <1>6, <1>s DEF vars, pool
<1> QED
  BY <1>1, <1>2, <1>3, <1>4, <1>5, <1>6, <1>7 DEF Next

\* Whoever adds a circuit or a stub to a full pool has first put out every stub and every
\* circuit that carries no stream.
THEOREM WithinBudget == Spec => BudgetOrBusy
<1> DEFINE Fine == Added # {} /\ Total(circuits', stubs') > MaxCircuits
                      => stubs' = <<>> /\ \A c \in SetOf(circuits') \ Added : streams[c] > 0
<1>1. ASSUME Inv, Inv', [Next]_vars PROVE Fine
  <2> SUFFICES ASSUME Added # {}, Total(circuits', stubs') > MaxCircuits
               PROVE  stubs' = <<>> /\ \A c \in SetOf(circuits') \ Added : streams[c] > 0
    OBVIOUS
  <2>1. /\ circuits \in Seq(Circuits) /\ stubs \in Seq(Circuits)
        /\ circuits' \in Seq(Circuits) /\ stubs' \in Seq(Circuits)
    BY <1>1 DEF Inv, TypeOK
  <2>2. Added = (SetOf(circuits') \cup SetOf(stubs')) \ (SetOf(circuits) \cup SetOf(stubs))
    BY <2>1, Joined DEF Added
  <2>3. PICK t \in Threads : Insert(t) \/ AddStub(t)
    <3>1. ASSUME \A t \in Threads : ~Insert(t) /\ ~AddStub(t) PROVE FALSE
      BY <1>1, <2>2, <3>1, NothingAdded
    <3> QED
      BY <3>1
  <2>4. CASE AddStub(t)
    <3>0. MaxCircuits \in Nat /\ Len(circuits) \in Nat /\ Len(stubs) \in Nat /\ circuits' = circuits
      BY <2>1, <2>4, Members, PoolAssumption DEF PoolAssumption, AddStub
    <3>1. CASE Total(circuits, stubs) >= MaxCircuits
      <4>1. stubs' = stubs
        BY <2>4, <3>1 DEF AddStub
      <4> QED
        BY <2>2, <3>0, <4>1
    <3>2. CASE ~(Total(circuits, stubs) >= MaxCircuits)
      <4>1. stubs' = Append(stubs, have[t])
        BY <2>4, <3>2 DEF AddStub
      <4>2. have[t] \in Circuits
        BY <1>1, <2>4 DEF Inv, Hands, Building, AddStub, At
      <4>3. Len(stubs') = Len(stubs) + 1
        BY <2>1, <4>1, <4>2, Appended
      <4> QED
        BY <3>0, <3>2, <4>3 DEF Total
    <3> QED
      BY <3>1, <3>2
  <2>5. CASE Insert(t)
    <3>1. circuits' = Append(Left, have[t]) /\ stubs' = Later /\ pc[t] = "insert"
      BY <2>5 DEF Insert, At, Left, Later, Spare, Idlers, IdleAll
    <3>2. /\ have[t] \in Circuits /\ have[t] \notin SetOf(circuits) /\ have[t] \notin SetOf(stubs)
      BY <1>1, <3>1 DEF Inv, Hands, Building
    <3>3. /\ Left \in Seq(Circuits)
          /\ Len(Left) + 1 + Len(Later) > MaxCircuits =>
                Later = <<>> /\ \A c \in SetOf(Left) : streams[c] # 0
      BY <1>1, MakesRoom
    <3>4. Len(circuits') = Len(Left) + 1 /\ SetOf(circuits') = SetOf(Left) \cup {have[t]}
      BY <3>1, <3>2, <3>3, Appended
    <3>5. Later = <<>> /\ \A c \in SetOf(Left) : streams[c] # 0
      BY <3>1, <3>3, <3>4 DEF Total
    <3>6. \A c \in SetOf(circuits') \ Added : c \in SetOf(Left)
      BY <2>2, <3>2, <3>4
    <3>7. \A c \in SetOf(Left) : streams[c] \in Nat
      BY <1>1, <3>3, Members DEF Inv, TypeOK
    <3> QED
      BY <3>1, <3>5, <3>6, <3>7
  <2> QED
    BY <2>3, <2>4, <2>5
<1>2. Spec => [][Fine]_vars
  <2>1. Inv /\ Inv' /\ [Next]_vars => [Fine]_vars
    BY <1>1
  <2> QED
    BY <2>1, Invariant, PTL DEF Spec
<1> QED
  BY <1>2 DEF BudgetOrBusy
=============================================================================
