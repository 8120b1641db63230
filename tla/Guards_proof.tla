---------------------------- MODULE Guards_proof ----------------------------
(* Proofs about module Guards.                                             *)
EXTENDS Guards, SequenceTheorems, WellFoundedInduction, TLAPS

(***************************************************************************)
(* Induction over the natural numbers, stated for a set.                   *)
(***************************************************************************)

Below == {ss \in Nat \X Nat : ss[1] < ss[2]}

\* A set of numbers that is not empty has a least element.
LEMMA Least ==
    ASSUME NEW T \in SUBSET Nat, T # {}
    PROVE  \E x \in T : \A y \in T : x <= y
<1>1. IsWellFoundedOn(Below, Nat)
  BY NatLessThanWellFounded, Zenon DEF Below, OpToRel
<1>2. \E x \in T : \A y \in T : <<y, x>> \notin Below
  BY <1>1, WFMin
<1>3. ASSUME NEW x \in T, NEW y \in T, <<y, x>> \notin Below PROVE x <= y
  <2>1. ~(y < x)
    BY <1>3 DEF Below
  <2> QED
    BY <2>1
<1> QED
  BY <1>2, <1>3

\* A set that holds 0, and with a number the next one, holds them all.
LEMMA Induction ==
    ASSUME NEW T, 0 \in T, \A n \in Nat : n \in T => n + 1 \in T
    PROVE  Nat \subseteq T
<1> DEFINE B == {n \in Nat : n \notin T}
<1>1. SUFFICES ASSUME B # {} PROVE FALSE
  OBVIOUS
<1>2. PICK x \in B : \A y \in B : x <= y
  BY <1>1, Least
<1>3. x \in Nat /\ x # 0 /\ x \notin T
  BY <1>2
<1>4. x - 1 \in Nat /\ x - 1 \notin B
  BY <1>2, <1>3
<1>5. (x - 1) + 1 \in T
  BY <1>4
<1> QED
  BY <1>3, <1>5

-----------------------------------------------------------------------------
(***************************************************************************)
(* What Kept and Retain leave of a list.                                   *)
(***************************************************************************)

\* The equations of Kept: a recursive function is whatever satisfies them, so that
\* something does has to be shown first, for longer and longer parts of the list.
LEMMA KeptDef ==
    ASSUME NEW X, NEW seq \in Seq(X), NEW S
    PROVE  /\ Kept(seq, S)[0] = <<>>
           /\ \A i \in 1..Len(seq) :
                 Kept(seq, S)[i] = IF seq[i] \in S THEN Append(Kept(seq, S)[i - 1], seq[i])
                                   ELSE Kept(seq, S)[i - 1]
<1> DEFINE Val(f, i) == IF seq[i] \in S THEN Append(f[i - 1], seq[i]) ELSE f[i - 1]
           Upto(f, n) == f[0] = <<>> /\ \A i \in 1..n : f[i] = Val(f, i)
           T == {n \in Nat : n <= Len(seq) => \E f : Upto(f, n)}
<1>1. 0 \in T
  <2> DEFINE f == [i \in {0} |-> <<>>]
  <2>1. Upto(f, 0)
    OBVIOUS
  <2> QED
    BY <2>1
<1>2. ASSUME NEW n \in Nat, n \in T PROVE n + 1 \in T
  <2> SUFFICES ASSUME n + 1 <= Len(seq) PROVE \E f : Upto(f, n + 1)
    OBVIOUS
  <2>1. PICK f : Upto(f, n)
    BY <1>2
  <2> DEFINE g == [i \in 0..(n + 1) |-> IF i = n + 1 THEN Val(f, n + 1) ELSE f[i]]
  <2>2. \A i \in 0..n : g[i] = f[i]
    OBVIOUS
  <2>3. g[n + 1] = Val(f, n + 1)
    OBVIOUS
  <2> HIDE DEF g, T
  <2>4. ASSUME NEW i \in 1..(n + 1) PROVE g[i] = Val(g, i)
    <3>1. g[i - 1] = f[i - 1]
      BY <2>2
    <3>2. CASE i = n + 1
      BY <2>3, <3>1, <3>2
    <3>3. CASE i \in 1..n
      BY <2>1, <2>2, <3>1, <3>3
    <3> QED
      BY <3>2, <3>3
  <2>5. g[0] = <<>>
    BY <2>1, <2>2
  <2>6. Upto(g, n + 1)
    BY <2>4, <2>5
  <2> QED
    BY <2>6
<1>3. Len(seq) \in T
  <2> HIDE DEF T
  <2>1. Nat \subseteq T
    BY <1>1, <1>2, Induction
  <2> QED
    BY <2>1
<1> DEFINE Fix(k) == k = [i \in 0..Len(seq) |-> IF i = 0 THEN <<>> ELSE Val(k, i)]
<1>4. \E k : Fix(k)
  <2>1. PICK f : Upto(f, Len(seq))
    BY <1>3
  <2> DEFINE k == [i \in 0..Len(seq) |-> f[i]]
             m == [i \in 0..Len(seq) |-> IF i = 0 THEN <<>> ELSE Val(k, i)]
  <2>2. \A i \in 0..Len(seq) : k[i] = f[i]
    OBVIOUS
  <2>3. ASSUME NEW i \in 0..Len(seq) PROVE f[i] = IF i = 0 THEN <<>> ELSE Val(k, i)
    <3>1. i # 0 => k[i - 1] = f[i - 1]
      BY <2>2
    <3> HIDE DEF k
    <3> QED
      BY <2>1, <3>1
  <2>4. k = m
    BY <2>3
  <2> QED
    BY <2>4
<1> DEFINE K == CHOOSE k : Fix(k)
<1>5. Fix(K)
  BY <1>4
<1>6. Kept(seq, S) = K
  BY DEF Kept
<1> HIDE DEF K, Val
<1>7. \A i \in 0..Len(seq) : K[i] = IF i = 0 THEN <<>> ELSE Val(K, i)
  BY <1>5
<1>8. K[0] = <<>> /\ \A i \in 1..Len(seq) : K[i] = Val(K, i)
  BY <1>7
<1> QED
  BY <1>6, <1>8 DEF Val

Injective(seq) == \A i, j \in 1..Len(seq) : seq[i] = seq[j] => i = j

\* What is true of the part that is kept of the first n members.
KeptOK(X, seq, S, n) ==
    LET k == Kept(seq, S)[n] IN
    /\ k \in Seq(X)
    /\ \A m \in 0..n : Len(Kept(seq, S)[m]) <= Len(k)
    /\ \A i \in 1..Len(k) : k[i] \in S /\ \E j \in 1..n : seq[j] = k[i]
    /\ \A j \in 1..n : seq[j] \in S => \E i \in 1..Len(k) : k[i] = seq[j]
    /\ Len(k) <= n
    /\ Len(k) = n => \A j \in 1..n : k[j] = seq[j]
    /\ n > 0 /\ seq[1] \in S => Len(k) > 0 /\ k[1] = seq[1]
    /\ Injective(seq) => Injective(k)

\* One more member: it is left out, or it is put at the end.
LEMMA KeptStep ==
    ASSUME NEW X, NEW seq \in Seq(X), NEW S, NEW n \in Nat, n + 1 <= Len(seq),
           KeptOK(X, seq, S, n)
    PROVE  KeptOK(X, seq, S, n + 1)
<1> DEFINE k == Kept(seq, S)[n]
           l == Kept(seq, S)[n + 1]
           x == seq[n + 1]
<1>1. n + 1 \in 1..Len(seq) /\ (n + 1) - 1 = n /\ Len(seq) \in Nat
  BY LenProperties
<1>2. l = IF x \in S THEN Append(k, x) ELSE k
  BY KeptDef, <1>1
<1>3. x \in X
  BY <1>1, ElementOfSeq
<1>k. /\ k \in Seq(X) /\ Len(k) \in Nat
      /\ \A m \in 0..n : Len(Kept(seq, S)[m]) <= Len(k)
      /\ \A i \in 1..Len(k) : k[i] \in S /\ \E j \in 1..n : seq[j] = k[i]
      /\ \A j \in 1..n : seq[j] \in S => \E i \in 1..Len(k) : k[i] = seq[j]
      /\ Len(k) <= n
      /\ Len(k) = n => \A j \in 1..n : k[j] = seq[j]
      /\ n > 0 /\ seq[1] \in S => Len(k) > 0 /\ k[1] = seq[1]
      /\ Injective(seq) => Injective(k)
  BY LenProperties DEF KeptOK
<1> SUFFICES /\ l \in Seq(X)
             /\ \A m \in 0..(n + 1) : Len(Kept(seq, S)[m]) <= Len(l)
             /\ \A i \in 1..Len(l) : l[i] \in S /\ \E j \in 1..(n + 1) : seq[j] = l[i]
             /\ \A j \in 1..(n + 1) : seq[j] \in S => \E i \in 1..Len(l) : l[i] = seq[j]
             /\ Len(l) <= n + 1
             /\ Len(l) = n + 1 => \A j \in 1..(n + 1) : l[j] = seq[j]
             /\ n + 1 > 0 /\ seq[1] \in S => Len(l) > 0 /\ l[1] = seq[1]
             /\ Injective(seq) => Injective(l)
  BY DEF KeptOK
<1> HIDE DEF k, x
<1>4. CASE x \notin S
  <2> USE <1>1, <1>2, <1>3, <1>4, <1>k
  <2>0. l = k
    OBVIOUS
  <2>1. ASSUME NEW m \in 0..(n + 1) PROVE Len(Kept(seq, S)[m]) <= Len(l)
    <3>1. m \in 0..n \/ Kept(seq, S)[m] = l
      BY DEF l
    <3> HIDE DEF l
    <3> QED
      BY <2>0, <3>1
  <2> HIDE DEF l
  <2>2. ASSUME NEW i \in 1..Len(l) PROVE l[i] \in S /\ \E j \in 1..(n + 1) : seq[j] = l[i]
    <3>1. l[i] \in S /\ \E j \in 1..n : seq[j] = l[i]
      BY <2>0
    <3> QED
      BY <3>1
  <2>3. \A j \in 1..(n + 1) : seq[j] \in S => \E i \in 1..Len(l) : l[i] = seq[j]
    BY <2>0 DEF x
  <2>4. Len(l) <= n + 1 /\ Len(l) # n + 1
    BY <2>0
  <2>5. n + 1 > 0 /\ seq[1] \in S => Len(l) > 0 /\ l[1] = seq[1]
    BY <2>0 DEF x
  <2> QED
    BY <2>0, <2>1, <2>2, <2>3, <2>4, <2>5
<1>5. CASE x \in S
  <2>0. l = Append(k, x)
    BY <1>2, <1>5
  <2>a. /\ l \in Seq(X) /\ Len(l) = Len(k) + 1 /\ l[Len(k) + 1] = x
        /\ \A i \in 1..Len(k) : l[i] = k[i]
    BY <2>0, <1>3, <1>k, AppendProperties
  <2>1. ASSUME NEW m \in 0..(n + 1) PROVE Len(Kept(seq, S)[m]) <= Len(l)
    <3>1. m \in 0..n \/ Kept(seq, S)[m] = l
      OBVIOUS
    <3>2. CASE m \in 0..n
      <4>1. Len(Kept(seq, S)[m]) <= Len(k)
        BY <3>2, <1>k
      <4> QED
        BY <4>1, <2>a, <1>k
    <3>3. CASE Kept(seq, S)[m] = l
      BY <3>3, <2>a, <1>k
    <3> QED
      BY <3>1, <3>2, <3>3
  <2> HIDE DEF l
  <2> USE <1>1, <1>3, <1>5, <1>k, <2>a
  <2>2. ASSUME NEW i \in 1..Len(l) PROVE l[i] \in S /\ \E j \in 1..(n + 1) : seq[j] = l[i]
    <3>1. CASE i = Len(k) + 1
      <4>1. l[i] = seq[n + 1] /\ n + 1 \in 1..(n + 1)
        BY <3>1 DEF x
      <4> QED
        BY <4>1 DEF x
    <3>2. CASE i \in 1..Len(k)
      <4>1. l[i] = k[i]
        BY ONLY <2>a, <3>2
      <4>2. k[i] \in S /\ \E j \in 1..n : seq[j] = k[i]
        BY ONLY <1>k, <3>2
      <4>3. PICK j \in 1..n : seq[j] = k[i]
        BY ONLY <4>2
      <4>4. j \in 1..(n + 1)
        BY ONLY n \in Nat, j \in 1..n
      <4> QED
        BY ONLY <4>1, <4>2, <4>3, <4>4
    <3>3. i = Len(k) + 1 \/ i \in 1..Len(k)
      BY ONLY <1>k, <2>a, i \in 1..Len(l)
    <3> QED
      BY ONLY <3>1, <3>2, <3>3
  <2>3. ASSUME NEW j \in 1..(n + 1), seq[j] \in S PROVE \E i \in 1..Len(l) : l[i] = seq[j]
    <3>1. CASE j = n + 1
      <4>1. l[Len(k) + 1] = seq[j] /\ Len(k) + 1 \in 1..Len(l)
        BY <3>1 DEF x
      <4> QED
        BY <4>1
    <3>2. CASE j \in 1..n
      <4>1. PICK i \in 1..Len(k) : k[i] = seq[j]
        BY <2>3, <3>2
      <4> QED
        BY <4>1
    <3> QED
      BY <3>1, <3>2
  <2>4. Len(l) <= n + 1
    OBVIOUS
  <2>5. ASSUME Len(l) = n + 1, NEW j \in 1..(n + 1) PROVE l[j] = seq[j]
    <3>1. CASE j = n + 1
      BY <2>5, <3>1 DEF x
    <3>2. CASE j \in 1..n
      BY <2>5, <3>2
    <3> QED
      BY <3>1, <3>2
  <2>6. n + 1 > 0 /\ seq[1] \in S => Len(l) > 0 /\ l[1] = seq[1]
    <3>1. CASE n = 0
      BY <3>1 DEF x
    <3>2. CASE n > 0
      BY <3>2
    <3> QED
      BY <3>1, <3>2
  <2>7. ASSUME Injective(seq) PROVE Injective(l)
    <3>1. ASSUME NEW i \in 1..Len(k) PROVE k[i] # x
      <4>1. PICK j \in 1..n : seq[j] = k[i]
        OBVIOUS
      <4>2. seq[j] # seq[n + 1]
        BY <2>7 DEF Injective
      <4> QED
        BY <4>1, <4>2 DEF x
    <3>2. \A i, j \in 1..Len(k) : k[i] = k[j] => i = j
      BY <2>7 DEF Injective
    <3>3. ASSUME NEW i \in 1..Len(l), NEW j \in 1..Len(l), l[i] = l[j] PROVE i = j
      <4>1. /\ i \in 1..Len(k) \/ i = Len(k) + 1
            /\ j \in 1..Len(k) \/ j = Len(k) + 1
        OBVIOUS
      <4>2. CASE i = Len(k) + 1
        BY <3>1, <3>3, <4>1, <4>2
      <4>3. CASE i \in 1..Len(k) /\ j = Len(k) + 1
        BY <3>1, <3>3, <4>3
      <4>4. CASE i \in 1..Len(k) /\ j \in 1..Len(k)
        <5>1. k[i] = k[j]
          BY <3>3, <4>4
        <5> QED
          BY <3>2, <4>4, <5>1
      <4> QED
        BY <4>1, <4>2, <4>3, <4>4
    <3> QED
      BY <3>3 DEF Injective
  <2> QED
    BY <2>1, <2>2, <2>3, <2>4, <2>5, <2>6, <2>7
<1> QED
  BY <1>4, <1>5

\* By induction on its length, what is kept of every beginning of a list is as Retain says.
LEMMA KeptHolds ==
    ASSUME NEW X, NEW seq \in Seq(X), NEW S, NEW n \in 0..Len(seq)
    PROVE  KeptOK(X, seq, S, n)
<1> DEFINE T == {m \in Nat : m <= Len(seq) => KeptOK(X, seq, S, m)}
<1>1. 0 \in T
  <2>1. Kept(seq, S)[0] = <<>>
    BY KeptDef
  <2>2. KeptOK(X, seq, S, 0)
    BY <2>1, EmptySeq DEF KeptOK, Injective
  <2> QED
    BY <2>2
<1>2. ASSUME NEW m \in Nat, m \in T PROVE m + 1 \in T
  <2>1. Len(seq) \in Nat
    BY LenProperties
  <2> QED
    BY <1>2, <2>1, KeptStep
<1>3. Nat \subseteq T
  <2> HIDE DEF T
  <2> QED
    BY <1>1, <1>2, Induction
<1> QED
  BY <1>3, LenProperties

\* Retain keeps the order and the members in S; a list that loses nothing is the same
\* list; its first member stays first if it stays; and nothing comes up twice.
LEMMA RetainHolds ==
    ASSUME NEW X, NEW seq \in Seq(X), NEW S
    PROVE  /\ Retain(seq, S) \in Seq(X)
           /\ Range(Retain(seq, S)) = Range(seq) \cap S
           /\ Len(Retain(seq, S)) = Len(seq) => Retain(seq, S) = seq
           /\ seq # <<>> /\ Head(seq) \in S =>
                 Retain(seq, S) # <<>> /\ Head(Retain(seq, S)) = Head(seq)
           /\ Injective(seq) => Injective(Retain(seq, S))
           /\ \A m \in 0..Len(seq) : Len(Kept(seq, S)[m]) \in 0..Len(Retain(seq, S))
<1> DEFINE r == Retain(seq, S)
<1>1. Len(seq) \in Nat /\ KeptOK(X, seq, S, Len(seq))
  BY LenProperties, KeptHolds
<1>2. /\ r \in Seq(X)
      /\ \A m \in 0..Len(seq) : Len(Kept(seq, S)[m]) <= Len(r)
      /\ \A i \in 1..Len(r) : r[i] \in S /\ \E j \in 1..Len(seq) : seq[j] = r[i]
      /\ \A j \in 1..Len(seq) : seq[j] \in S => \E i \in 1..Len(r) : r[i] = seq[j]
      /\ Len(r) = Len(seq) => \A j \in 1..Len(seq) : r[j] = seq[j]
      /\ Len(seq) > 0 /\ seq[1] \in S => Len(r) > 0 /\ r[1] = seq[1]
      /\ Injective(seq) => Injective(r)
  BY <1>1 DEF KeptOK, Retain
<1> HIDE DEF r
<1>3. Len(r) \in Nat /\ DOMAIN r = 1..Len(r) /\ DOMAIN seq = 1..Len(seq)
  BY <1>2, LenProperties
<1>4. Range(r) = Range(seq) \cap S
  <2>1. ASSUME NEW x \in Range(r) PROVE x \in Range(seq) \cap S
    <3>1. PICK i \in 1..Len(r) : r[i] = x
      BY <1>3 DEF Range
    <3> QED
      BY <1>2, <1>3, <3>1 DEF Range
  <2>2. ASSUME NEW x \in Range(seq), x \in S PROVE x \in Range(r)
    <3>1. PICK j \in 1..Len(seq) : seq[j] = x
      BY <1>3 DEF Range
    <3> QED
      BY <1>2, <1>3, <2>2, <3>1 DEF Range
  <2> QED
    BY <2>1, <2>2
<1>5. Len(r) = Len(seq) => r = seq
  BY <1>2, SeqEqual
<1>6. seq # <<>> /\ Head(seq) \in S => r # <<>> /\ Head(r) = Head(seq)
  <2> SUFFICES ASSUME seq # <<>>, Head(seq) \in S PROVE r # <<>> /\ Head(r) = Head(seq)
    OBVIOUS
  <2>1. Len(seq) > 0 /\ Head(seq) = seq[1]
    BY EmptySeq, <1>1
  <2>2. Len(r) > 0 /\ r[1] = seq[1]
    BY <1>2, <2>1
  <2>3. r # <<>>
    BY <2>2
  <2> QED
    BY <1>2, <2>1, <2>2, <2>3
<1>7. ASSUME NEW m \in 0..Len(seq) PROVE Len(Kept(seq, S)[m]) \in 0..Len(r)
  <2>1. KeptOK(X, seq, S, m)
    BY KeptHolds
  <2>2. Kept(seq, S)[m] \in Seq(X)
    BY <2>1 DEF KeptOK
  <2>3. Len(Kept(seq, S)[m]) \in Nat
    BY <2>2, LenProperties
  <2>4. Len(Kept(seq, S)[m]) <= Len(r)
    BY <1>2
  <2> QED
    BY <1>3, <2>3, <2>4
<1> QED
  BY <1>2, <1>4, <1>5, <1>6, <1>7 DEF r

\* The first member in S is one of S, if there is one.
LEMMA FirstHolds ==
    ASSUME NEW X, NEW seq \in Seq(X), NEW S, Range(seq) \cap S # {}
    PROVE  First(seq, S) \in Range(seq) \cap S
<1>1. Retain(seq, S) \in Seq(X) /\ Range(Retain(seq, S)) = Range(seq) \cap S
  BY RetainHolds
<1> DEFINE r == Retain(seq, S)
<1> HIDE DEF r
<1>2. r \in Seq(X) /\ Range(r) # {} /\ Range(r) = Range(seq) \cap S
  BY <1>1 DEF r
<1>3. DOMAIN r = 1..Len(r) /\ Len(r) \in Nat
  BY <1>2, LenProperties
<1>4. Len(r) > 0
  BY <1>2, <1>3 DEF Range
<1>5. Head(r) = r[1] /\ 1 \in DOMAIN r
  BY <1>2, <1>3, <1>4
<1>6. Head(r) \in Range(r)
  BY <1>5 DEF Range
<1> QED
  BY <1>2, <1>6 DEF First, r

-----------------------------------------------------------------------------
(***************************************************************************)
(* The inductive invariant.  To the types it adds that a thread which is   *)
(* past its choice has a relay in hand, and that a channel which is up is  *)
(* a relay's; the list and the file go together, since what is loaded from *)
(* the file is the list again only if no relay is on it twice.             *)
(***************************************************************************)

Holding == {"fill", "push", "resolve", "connect", "store", "probe", "replace"}

ThreadsOK ==
    /\ pc \in [Threads -> Places] /\ guard \in [Threads -> Relays \cup {None}]
    /\ tries \in [Threads -> 0..GuardAttempts - 1]
    /\ served \subseteq Relays
    /\ \A t \in Threads : pc[t] \in Holding => guard[t] \in Relays

WorldOK == listed \subseteq Relays /\ down \subseteq Relays /\ net \in BOOLEAN

OpenOK == open.up => open.guard \in Relays

Inv == ListOK /\ OpenOK /\ ThreadsOK /\ WorldOK /\ NoTwice /\ FileCurrent

FileLine == [id : Relays, contact : BOOLEAN, demoted : BOOLEAN]

\* A line of the file says which guard it is of, whether there is a contact, and
\* whether the guard is demoted, if so; no two lines say the same.
LEMMA LineHolds ==
    ASSUME NEW g, NEW c, NEW d
    PROVE  /\ Line(g, c, d).id = g
           /\ Line(g, c, d).contact <=> g \in c
           /\ Line(g, c, d).demoted <=> g \in c /\ g \in d
<1> DEFINE a == g \in c
           b == g \in c /\ g \in d
<1>1. a \in BOOLEAN /\ b \in BOOLEAN
  OBVIOUS
<1>2. Line(g, c, d) = [id |-> g, contact |-> a, demoted |-> b]
  BY DEF Line
<1> HIDE DEF a, b
<1>3. Line(g, c, d).id = g /\ Line(g, c, d).contact = a /\ Line(g, c, d).demoted = b
  BY <1>2
<1> QED
  BY <1>1, <1>3 DEF a, b

\* A line with those fields is the one save_guards writes.
LEMMA LineSame ==
    ASSUME NEW g, NEW c, NEW d, NEW l \in FileLine, l.id = g,
           l.contact <=> g \in c, l.demoted <=> g \in c /\ g \in d
    PROVE  l = Line(g, c, d)
<1>1. l = [id |-> l.id, contact |-> l.contact, demoted |-> l.demoted]
  BY DEF FileLine
<1>2. l.contact \in BOOLEAN /\ l.demoted \in BOOLEAN
  BY DEF FileLine
<1>3. l.contact = (g \in c) /\ l.demoted = (g \in c /\ g \in d)
  BY <1>2
<1> QED
  BY <1>1, <1>3 DEF Line

\* What is written is as long as the list, or as MAX_GUARDS allows, and says of each
\* guard what is known of it.
LEMMA SerializeHolds ==
    ASSUME NEW es \in Seq(Relays), NEW c, NEW d
    PROVE  /\ Serialize(es, c, d) \in Seq(FileLine)
           /\ Len(Serialize(es, c, d)) = (IF Len(es) <= MaxGuards THEN Len(es) ELSE MaxGuards)
           /\ \A i \in 1..Len(Serialize(es, c, d)) :
                 i \in 1..Len(es) /\ Serialize(es, c, d)[i] = Line(es[i], c, d)
<1> DEFINE n == IF Len(es) <= MaxGuards THEN Len(es) ELSE MaxGuards
           f == [i \in 1..n |-> Line(es[i], c, d)]
<1>1. n \in Nat /\ n <= Len(es)
  BY LenProperties, GuardsAssumption DEF GuardsAssumption
<1>2. \A i \in 1..n : i \in 1..Len(es) /\ es[i] \in Relays
  BY <1>1, ElementOfSeq, LenProperties
<1>3. \A i \in 1..n : Line(es[i], c, d) \in FileLine
  BY <1>2 DEF Line, FileLine
<1> HIDE DEF n
<1>4. f \in [1..n -> FileLine]
  BY <1>3
<1>5. f \in Seq(FileLine) /\ Len(f) = n
  BY <1>1, <1>4
<1>6. Serialize(es, c, d) = f
  BY DEF Serialize, n
<1> QED
  BY <1>2, <1>5, <1>6 DEF n

\* save_guards makes the file current.
LEMMA SaveHolds ==
    ASSUME entries' \in Seq(Relays), SaveGuards
    PROVE  FileCurrent' /\ file' \in Seq(FileLine)
<1>1. file' = Serialize(entries', contact', demoted')
  BY DEF SaveGuards
<1>2. Serialize(entries', contact', demoted') \in Seq(FileLine)
  BY SerializeHolds
<1> QED
  BY <1>1, <1>2 DEF FileCurrent

\* A guard that fails, or works again, leaves the failures a list of relays of which
\* the first so many have cooled.
LEMMA FailHolds ==
    ASSUME ListOK, NEW g \in Relays, Fail(g) \/ Unfail(g)
    PROVE  failing' \in Seq(Relays) /\ cooled' \in 0..Len(failing')
<1> USE DEF ListOK
<1> DEFINE w == Retain(failing, Relays \ {g})
           k == Len(Kept(failing, Relays \ {g})[cooled])
<1>1. w \in Seq(Relays) /\ k \in 0..Len(w)
  BY RetainHolds
<1>2. Without(failing, g) = w
  BY DEF Without
<1> HIDE DEF w, k
<1>3. CASE Unfail(g)
  BY <1>1, <1>2, <1>3 DEF Unfail, k
<1>4. CASE failing' = Append(w, g) /\ cooled' = k
  <2>1. Append(w, g) \in Seq(Relays) /\ Len(Append(w, g)) = Len(w) + 1
    BY <1>1, AppendProperties
  <2> QED
    BY <1>1, <1>4, <2>1
<1>5. CASE UNCHANGED <<failing, cooled>>
  BY <1>5
<1> QED
  BY <1>2, <1>3, <1>4, <1>5 DEF Fail, k

\* Steps that leave the list alone leave all that is said of it alone.
LEMMA SameList ==
    ASSUME Inv, UNCHANGED list
    PROVE  ListOK' /\ OpenOK' /\ NoTwice' /\ FileCurrent'
BY DEF Inv, list, ListOK, OpenOK, NoTwice, FileCurrent, Serialize, Line

\* mark_failed, in which only the failures and the open channel change.
LEMMA MarkFailedHolds ==
    ASSUME Inv, NEW g \in Relays, MarkFailed(g)
    PROVE  /\ entries' \in Seq(Relays)
           /\ file' \in Seq(FileLine) /\ FileCurrent' => ListOK' /\ OpenOK' /\ NoTwice' /\ FileCurrent'
           /\ UNCHANGED file => ListOK' /\ OpenOK' /\ NoTwice' /\ FileCurrent'
<1>1. failing' \in Seq(Relays) /\ cooled' \in 0..Len(failing')
  BY FailHolds DEF Inv, MarkFailed
<1>2. open' \in [guard : Relays \cup {None}, known : BOOLEAN, up : BOOLEAN] /\ OpenOK'
  BY DEF Inv, ListOK, MarkFailed, NotOpen, OpenOK
<1>3. UNCHANGED <<entries, strikes, demoted, contact, changes>>
  BY DEF MarkFailed
<1>4. NoTwice' /\ entries' \in Seq(Relays)
  BY <1>3 DEF Inv, NoTwice, ListOK
<1>5. UNCHANGED file => FileCurrent'
  BY <1>3 DEF Inv, FileCurrent
<1>6. file' \in Seq(FileLine) => ListOK'
  BY <1>1, <1>2, <1>3, <1>4 DEF Inv, ListOK, FileLine
<1>7. file \in Seq(FileLine)
  BY DEF Inv, ListOK, FileLine
<1> QED
  BY <1>2, <1>4, <1>5, <1>6, <1>7

\* record_contact and save_guards, for a guard that works and whose channel is open.
LEMMA RecordHolds ==
    ASSUME Inv, NEW g \in Relays, RecordContact(g),
           failing' \in Seq(Relays), cooled' \in 0..Len(failing'),
           open' \in [guard : Relays \cup {None}, known : BOOLEAN, up : BOOLEAN], OpenOK'
    PROVE  ListOK' /\ NoTwice' /\ FileCurrent'
<1>1. UNCHANGED <<entries, strikes, demoted, changes>>
  BY DEF RecordContact
<1>2. contact' \subseteq Relays
  BY DEF RecordContact, Inv, ListOK
<1>3. entries' \in Seq(Relays) /\ NoTwice'
  BY <1>1 DEF Inv, ListOK, NoTwice
<1>4. FileCurrent' /\ file' \in Seq(FileLine)
  BY <1>3, SaveHolds DEF RecordContact
<1> QED
  BY <1>1, <1>2, <1>3, <1>4 DEF Inv, ListOK, FileLine

\* What happens to a thread that ends its call, or goes round.
LEMMA ThreadHolds ==
    ASSUME ThreadsOK, NEW c \in Callers
    PROVE  /\ \A g \in Relays : Return(c, g) => ThreadsOK'
           /\ Error(c) => ThreadsOK'
           /\ NextTry(c) => ThreadsOK'
<1> USE GuardsAssumption DEF GuardsAssumption, ThreadsOK, Goto, Threads, Places, Holding
<1>1. ASSUME NEW g \in Relays, Return(c, g) PROVE ThreadsOK'
  BY <1>1 DEF Return
<1>2. ASSUME Error(c) PROVE ThreadsOK'
  BY <1>2 DEF Error
<1>3. ASSUME NextTry(c) PROVE ThreadsOK'
  <2>1. CASE tries[c] + 1 = GuardAttempts
    BY <1>2, <1>3, <2>1 DEF NextTry
  <2>2. CASE tries[c] + 1 # GuardAttempts
    <3>1. tries[c] + 1 \in 0..GuardAttempts - 1
      BY <2>2
    <3> QED
      BY <1>3, <2>2, <3>1 DEF NextTry
  <2> QED
    BY <2>1, <2>2
<1> QED
  BY <1>1, <1>2, <1>3

\* A thread that moves on with the list and the world as they are.
LEMMA MovesOn ==
    ASSUME Inv, UNCHANGED <<list, world>>, ThreadsOK'
    PROVE  Inv'
BY SameList DEF Inv, WorldOK, world

\* next_candidate and the last resort name relays.
LEMMA CandidateHolds ==
    ASSUME ListOK
    PROVE  /\ NextCandidate \subseteq Relays
           /\ NextCandidate = {} /\ Full => Soonest \in Relays
<1> USE DEF ListOK
<1>0. Range(entries) \subseteq Relays /\ Range(failing) \subseteq Relays
  BY RangeOfSeq
<1>1. ASSUME NEW S \in SUBSET Range(entries), S # {} PROVE First(entries, S) \in Relays
  <2>1. Range(entries) \cap S # {}
    BY <1>1
  <2> QED
    BY <1>0, <2>1, FirstHolds
<1>2. NextCandidate \subseteq Relays
  <2> DEFINE good  == {g \in Range(entries) \ demoted : ~IsFailing(g)}
             again == {g \in Range(entries) \ demoted : Cooled(g)}
  <2>1. good \in SUBSET Range(entries) /\ again \in SUBSET Range(entries)
    OBVIOUS
  <2>2. NextCandidate = IF good # {} THEN {First(entries, good)}
                        ELSE IF again # {} THEN {First(entries, again)} ELSE {}
    BY DEF NextCandidate
  <2> HIDE DEF good, again
  <2> QED
    BY <1>1, <2>1, <2>2
<1>3. ASSUME Full PROVE Soonest \in Relays
  <2> DEFINE unfailed == {g \in Range(entries) : ~IsFailing(g)}
  <2>1. unfailed \in SUBSET Range(entries)
    OBVIOUS
  <2>2. Soonest = IF unfailed # {} THEN First(entries, unfailed) ELSE First(failing, Range(entries))
    BY DEF Soonest
  <2>3. CASE unfailed # {}
    <3> HIDE DEF unfailed
    <3> QED
      BY <1>1, <2>1, <2>2, <2>3
  <2>4. CASE unfailed = {}
    <3>1. Len(entries) >= 1 /\ DOMAIN entries = 1..Len(entries)
      BY <1>3, LenProperties, GuardsAssumption DEF GuardsAssumption, Full
    <3>2. entries[1] \in Range(entries)
      BY <3>1 DEF Range
    <3>3. Contains(failing, entries[1])
      BY <2>4, <3>2 DEF IsFailing
    <3>4. entries[1] \in Range(failing)
      BY <3>3, LenProperties DEF Contains, Range
    <3>5. First(failing, Range(entries)) \in Range(failing)
      BY <3>2, <3>4, FirstHolds
    <3> QED
      BY <1>0, <2>2, <2>4, <3>5
  <2> QED
    BY <2>3, <2>4
<1> QED
  BY <1>2, <1>3

\* The steps of guard_channel that look, choose and connect.
LEMMA LooksHold ==
    ASSUME Inv, NEW c \in Callers,
           \/ UseOpen(c) \/ LookAtOpen(c) \/ FillFails(c) \/ Choose(c)
           \/ Resolve(c) \/ Connect(c) \/ ProbeBlamesNetwork(c)
    PROVE  Inv'
<1> USE DEF Threads
<1>0. ThreadsOK /\ ListOK /\ OpenOK
  BY DEF Inv
<1>1. CASE UseOpen(c)
  <2>1. open.guard \in Relays
    BY <1>0, <1>1 DEF UseOpen, OpenOK
  <2> QED
    BY <1>0, <1>1, <2>1, MovesOn, ThreadHolds DEF UseOpen
<1>2. CASE LookAtOpen(c)
  <2>1. open.up \in BOOLEAN /\ open.guard \in Relays \cup {None}
    BY <1>0 DEF ListOK
  <2>2. ThreadsOK'
    BY <1>0, <1>2, <2>1 DEF LookAtOpen, ThreadsOK, Goto, Places, Holding, OpenOK
  <2> QED
    BY <1>2, <2>2, MovesOn DEF LookAtOpen
<1>3. CASE FillFails(c)
  <2>1. ThreadsOK'
    BY <1>0, <1>3 DEF FillFails, ThreadsOK, Goto, Places, Holding
  <2> QED
    BY <1>3, <2>1, MovesOn DEF FillFails
<1>4. CASE Choose(c)
  <2>1. /\ NextCandidate \subseteq Relays
        /\ NextCandidate = {} /\ Full => Soonest \in Relays
        /\ listed \subseteq Relays
    BY <1>0, CandidateHolds DEF Inv, WorldOK
  <2>2. \/ \E g \in Relays : /\ guard' = [guard EXCEPT ![c] = g]
                             /\ pc' = [pc EXCEPT ![c] = "resolve"] \/ pc' = [pc EXCEPT ![c] = "push"]
                             /\ UNCHANGED <<tries, served>>
        \/ Error(c)
    BY <1>4, <2>1 DEF Choose, Goto, Error
  <2>3. ASSUME NEW g \in Relays, guard' = [guard EXCEPT ![c] = g],
               pc' = [pc EXCEPT ![c] = "resolve"] \/ pc' = [pc EXCEPT ![c] = "push"],
               UNCHANGED <<tries, served>>
        PROVE  ThreadsOK'
    BY <1>0, <2>3 DEF ThreadsOK, Places, Holding
  <2>4. ThreadsOK'
    BY <1>0, <2>2, <2>3, ThreadHolds
  <2> QED
    BY <1>4, <2>4, MovesOn DEF Choose
<1>5. CASE Resolve(c)
  <2>1. ThreadsOK'
    BY <1>0, <1>5 DEF Resolve, ThreadsOK, Goto, Places, Holding
  <2> QED
    BY <1>5, <2>1, MovesOn DEF Resolve
<1>6. CASE Connect(c)
  <2>1. ThreadsOK'
    BY <1>0, <1>6 DEF Connect, ThreadsOK, Goto, Places, Holding
  <2> QED
    BY <1>6, <2>1, MovesOn DEF Connect
<1>7. CASE ProbeBlamesNetwork(c)
  BY <1>0, <1>7, MovesOn, ThreadHolds DEF ProbeBlamesNetwork
<1> QED
  BY <1>1, <1>2, <1>3, <1>4, <1>5, <1>6, <1>7

\* The steps of guard_channel that change the list.
LEMMA ChangesHold ==
    ASSUME Inv, NEW c \in Callers,
           FillOpen(c) \/ Push(c) \/ ResolveFails(c) \/ Store(c) \/ ProbeBlamesGuard(c)
    PROVE  Inv'
<1> USE DEF Threads
<1>0. ThreadsOK /\ ListOK /\ OpenOK /\ NoTwice /\ WorldOK
  BY DEF Inv
<1> DEFINE g == guard[c]
<1>1. g \in Relays
  BY <1>0 DEF FillOpen, Push, ResolveFails, Store, ProbeBlamesGuard, ThreadsOK, Holding
<1> HIDE DEF g
<1>2. CASE FillOpen(c)
  <2>1. ThreadsOK'
    BY <1>0, <1>1, <1>2, ThreadHolds DEF FillOpen, g
  <2>2. open' \in [guard : Relays \cup {None}, known : BOOLEAN, up : BOOLEAN] /\ OpenOK'
    BY <1>0, <1>2 DEF FillOpen, ListOK, OpenOK
  <2>3. failing' \in Seq(Relays) /\ cooled' \in 0..Len(failing')
    BY <1>0, <1>2 DEF FillOpen, ListOK
  <2>4. ListOK' /\ NoTwice' /\ FileCurrent'
    BY <1>1, <1>2, <2>2, <2>3, RecordHolds DEF FillOpen, g
  <2> QED
    BY <1>0, <1>2, <2>1, <2>2, <2>4 DEF FillOpen, world, WorldOK, Inv
<1>3. CASE Push(c)
  <2>1. ThreadsOK'
    BY <1>0, <1>3 DEF Push, ThreadsOK, Goto, Places, Holding
  <2>2. entries' \in Seq(Relays) /\ NoTwice'
    <3>1. CASE ~Contains(entries, g)
      <4>1. entries' = Append(entries, g)
        BY <1>3, <3>1 DEF Push, g
      <4>2. /\ entries' \in Seq(Relays) /\ Len(entries') = Len(entries) + 1
            /\ \A i \in 1..Len(entries) : entries'[i] = entries[i]
            /\ entries'[Len(entries) + 1] = g /\ Len(entries) \in Nat
        BY <1>0, <1>1, <4>1, AppendProperties, LenProperties DEF ListOK
      <4>3. \A i \in 1..Len(entries) : entries[i] # g
        BY <3>1 DEF Contains
      <4>4. ASSUME NEW i \in 1..Len(entries'), NEW j \in 1..Len(entries'), entries'[i] = entries'[j]
            PROVE  i = j
        <5>1. /\ i \in 1..Len(entries) \/ i = Len(entries) + 1
              /\ j \in 1..Len(entries) \/ j = Len(entries) + 1
          BY <4>2
        <5>2. CASE i \in 1..Len(entries) /\ j \in 1..Len(entries)
          <6>1. entries[i] = entries[j]
            BY <4>2, <4>4, <5>2
          <6> QED
            BY <1>0, <5>2, <6>1 DEF NoTwice
        <5> QED
          BY <4>2, <4>3, <4>4, <5>1, <5>2
      <4> QED
        BY <4>2, <4>4 DEF NoTwice
    <3>2. CASE Contains(entries, g)
      <4>1. entries' = entries
        BY <1>3, <3>2 DEF Push, g
      <4> QED
        BY <1>0, <4>1 DEF NoTwice, ListOK
    <3> QED
      BY <3>1, <3>2
  <2>3. FileCurrent' /\ file' \in Seq(FileLine)
    BY <1>3, <2>2, SaveHolds DEF Push
  <2>4. demoted' \subseteq Relays /\ contact' \subseteq Relays
    BY <1>0, <1>3 DEF Push, ListOK
  <2>5. strikes' \in [Relays -> 0..GuardStrikes]
    <3>1. strikes' = strikes \/ strikes' = [strikes EXCEPT ![g] = 0]
      BY <1>3 DEF Push, g
    <3>2. 0 \in 0..GuardStrikes
      BY GuardsAssumption DEF GuardsAssumption
    <3> QED
      BY <1>0, <3>1, <3>2 DEF ListOK
  <2>6. UNCHANGED <<failing, cooled, open, changes, world>>
    BY <1>3 DEF Push
  <2>7. ListOK' /\ OpenOK' /\ WorldOK'
    BY <1>0, <2>2, <2>3, <2>4, <2>5, <2>6 DEF ListOK, OpenOK, WorldOK, world, FileLine
  <2> QED
    BY <2>1, <2>2, <2>3, <2>7 DEF Inv
<1>4. CASE ResolveFails(c)
  <2>1. ThreadsOK'
    BY <1>0, <1>4, ThreadHolds DEF ResolveFails
  <2>2. ListOK' /\ OpenOK' /\ NoTwice' /\ FileCurrent'
    BY <1>1, <1>4, MarkFailedHolds DEF ResolveFails, g
  <2> QED
    BY <1>0, <1>4, <2>1, <2>2 DEF ResolveFails, WorldOK, world, Inv
<1>5. CASE Store(c)
  <2>1. failing' \in Seq(Relays) /\ cooled' \in 0..Len(failing')
    BY <1>0, <1>1, <1>5, FailHolds DEF Store, g
  <2>2. CASE open.up /\ open.known
    <3>1. Return(c, open.guard) /\ UNCHANGED <<entries, strikes, demoted, contact, open, changes, file>>
      BY <1>5, <2>2 DEF Store
    <3>2. ThreadsOK'
      BY <1>0, <2>2, <3>1, ThreadHolds DEF OpenOK
    <3>3. ListOK' /\ OpenOK' /\ NoTwice' /\ FileCurrent'
      BY <1>0, <2>1, <3>1 DEF Inv, ListOK, OpenOK, NoTwice, FileCurrent
    <3> QED
      BY <1>0, <1>5, <3>2, <3>3 DEF Store, WorldOK, world, Inv
  <2>3. CASE ~(open.up /\ open.known)
    <3>1. open' = Fresh(g) /\ RecordContact(g) /\ Return(c, g)
      BY <1>5, <2>3 DEF Store, g
    <3>2. ThreadsOK'
      BY <1>0, <1>1, <3>1, ThreadHolds
    <3>3. open' \in [guard : Relays \cup {None}, known : BOOLEAN, up : BOOLEAN] /\ OpenOK'
      BY <1>1, <3>1 DEF Fresh, OpenOK
    <3>4. ListOK' /\ NoTwice' /\ FileCurrent'
      BY <1>1, <2>1, <3>1, <3>3, RecordHolds
    <3> QED
      BY <1>0, <1>5, <3>2, <3>3, <3>4 DEF Store, WorldOK, world, Inv
  <2> QED
    BY <2>2, <2>3
<1>6. CASE ProbeBlamesGuard(c)
  <2>1. ThreadsOK'
    BY <1>0, <1>6, ThreadHolds DEF ProbeBlamesGuard
  <2>2. MarkFailed(g) /\ SaveGuards
    BY <1>6 DEF ProbeBlamesGuard, g
  <2>3. ListOK' /\ OpenOK' /\ NoTwice' /\ FileCurrent'
    BY <1>1, <2>2, MarkFailedHolds, SaveHolds
  <2> QED
    BY <1>0, <1>6, <2>1, <2>3 DEF ProbeBlamesGuard, WorldOK, world, Inv
<1> QED
  BY <1>2, <1>3, <1>4, <1>5, <1>6

\* A relay taken out of a list is not on it, and put at the end is on it once.
LEMMA ToTheEnd ==
    ASSUME NEW es \in Seq(Relays), NEW g \in Relays, Injective(es)
    PROVE  /\ Append(Without(es, g), g) \in Seq(Relays)
           /\ Injective(Append(Without(es, g), g))
           /\ es # <<>> /\ Head(es) # g =>
                 Append(Without(es, g), g) # <<>> /\ Head(Append(Without(es, g), g)) = Head(es)
<1> DEFINE w == Without(es, g)
           l == Append(w, g)
<1>1. /\ w \in Seq(Relays) /\ Range(w) = Range(es) \cap (Relays \ {g}) /\ Injective(w)
      /\ es # <<>> /\ Head(es) \in Relays \ {g} => w # <<>> /\ Head(w) = Head(es)
  BY RetainHolds DEF Without
<1>2. Len(w) \in Nat /\ DOMAIN w = 1..Len(w)
  BY <1>1, LenProperties
<1>3. \A i \in 1..Len(w) : w[i] # g
  BY <1>1, <1>2 DEF Range
<1> HIDE DEF w
<1>4. /\ l \in Seq(Relays) /\ Len(l) = Len(w) + 1 /\ l[Len(w) + 1] = g
      /\ \A i \in 1..Len(w) : l[i] = w[i]
      /\ l # <<>>
  BY <1>1, AppendProperties
<1> HIDE DEF l
<1>5. ASSUME NEW i \in 1..Len(l), NEW j \in 1..Len(l), l[i] = l[j] PROVE i = j
  <2>1. /\ i \in 1..Len(w) \/ i = Len(w) + 1
        /\ j \in 1..Len(w) \/ j = Len(w) + 1
    BY <1>2, <1>4
  <2>2. CASE i \in 1..Len(w) /\ j \in 1..Len(w)
    <3>1. w[i] = w[j]
      BY <1>4, <1>5, <2>2
    <3> QED
      BY <1>1, <2>2, <3>1 DEF Injective
  <2> QED
    BY <1>3, <1>4, <1>5, <2>1, <2>2
<1>6. es # <<>> /\ Head(es) # g => Head(l) = Head(es)
  <2> SUFFICES ASSUME es # <<>>, Head(es) # g PROVE Head(l) = Head(es)
    OBVIOUS
  <2>1. Head(es) \in Relays \ {g}
    BY HeadTailProperties
  <2>2. w # <<>> /\ Head(w) = Head(es)
    BY <1>1, <2>1
  <2>3. Head(l) = Head(w)
    BY <1>1, <2>2, HeadTailAppend DEF l
  <2> QED
    BY <2>2, <2>3
<1>7. Injective(l)
  BY <1>5 DEF Injective
<1> QED
  BY <1>4, <1>6, <1>7 DEF l, w

\* retry_primary_guard.
LEMMA RetryHolds ==
    ASSUME Inv, RetryPrimary \/ RetryConnects \/ RetryReplaces
    PROVE  Inv'
<1> USE DEF Threads
<1>0. ThreadsOK /\ ListOK /\ OpenOK /\ WorldOK
  BY DEF Inv
<1>1. CASE RetryPrimary
  <2>1. Head(entries) \in Relays
    BY <1>0, <1>1, HeadTailProperties DEF RetryPrimary, ListOK
  <2>2. ThreadsOK'
    BY <1>0, <1>1, <2>1 DEF RetryPrimary, ThreadsOK, Goto, Places, Holding
  <2> QED
    BY <1>1, <2>2, MovesOn DEF RetryPrimary
<1>2. CASE RetryConnects
  <2>1. ThreadsOK'
    BY <1>0, <1>2 DEF RetryConnects, ThreadsOK, Goto, Places, Holding
  <2> QED
    BY <1>2, <2>1, MovesOn DEF RetryConnects
<1>3. CASE RetryReplaces
  <2> DEFINE g == guard[Maintain]
  <2>1. g \in Relays
    BY <1>0, <1>3 DEF RetryReplaces, ThreadsOK, Holding
  <2>2. open' = Fresh(g) /\ RecordContact(g) /\ Unfail(g)
    BY <1>3 DEF RetryReplaces
  <2> HIDE DEF g
  <2>3. failing' \in Seq(Relays) /\ cooled' \in 0..Len(failing')
    BY <1>0, <2>1, <2>2, FailHolds
  <2>4. open' \in [guard : Relays \cup {None}, known : BOOLEAN, up : BOOLEAN] /\ OpenOK'
    BY <2>1, <2>2 DEF Fresh, OpenOK
  <2>5. ListOK' /\ NoTwice' /\ FileCurrent'
    BY <2>1, <2>2, <2>3, <2>4, RecordHolds
  <2>6. ThreadsOK'
    BY <1>0, <1>3 DEF RetryReplaces, ThreadsOK, Goto, Places, Holding
  <2> QED
    BY <1>0, <1>3, <2>4, <2>5, <2>6 DEF RetryReplaces, WorldOK, world, Inv
<1> QED
  BY <1>1, <1>2, <1>3

\* note_bad_circuits: strikes, and perhaps one guard given up.
LEMMA BadCircuitsHold ==
    ASSUME Inv, NEW blamed, NoteBadCircuits(blamed)
    PROVE  Inv'
<1>0. ThreadsOK /\ ListOK /\ OpenOK /\ WorldOK /\ NoTwice
  BY DEF Inv
<1>1. ThreadsOK' /\ WorldOK'
  BY <1>0 DEF NoteBadCircuits, ThreadsOK, WorldOK, threads, world
<1> DEFINE hit == blamed \cap Range(entries)
<1>2. PICK kept \in [Relays -> 0..GuardStrikes] :
        LET struck == [g \in Relays |-> IF g \in hit THEN Capped(kept[g] + 1) ELSE strikes[g]]
            enough == {g \in hit : struck[g] >= GuardStrikes}
        IN  IF enough = {} \/ changes >= MaxSlowChanges
            THEN /\ strikes' = struck
                 /\ UNCHANGED <<entries, failing, cooled, demoted, contact, open, changes, file>>
            ELSE \E g \in enough :
                 /\ changes' = changes + 1
                 /\ strikes' = [struck EXCEPT ![g] = 0]
                 /\ demoted' = demoted \cup {g}
                 /\ Fail(g)
                 /\ open' = IF open.guard = g THEN NotOpen ELSE open
                 /\ entries' = Append(Without(entries, g), g)
                 /\ UNCHANGED contact
                 /\ SaveGuards
  BY DEF NoteBadCircuits
<1> DEFINE struck == [g \in Relays |-> IF g \in hit THEN Capped(kept[g] + 1) ELSE strikes[g]]
           enough == {g \in hit : struck[g] >= GuardStrikes}
<1>3. struck \in [Relays -> 0..GuardStrikes]
  BY <1>0, GuardsAssumption DEF ListOK, Capped, GuardsAssumption
<1>4. hit \subseteq Relays
  BY <1>0, RangeOfSeq DEF ListOK
<1>5. enough \subseteq Relays
  BY <1>4
<1>6. CASE enough = {} \/ changes >= MaxSlowChanges
  <2>1. strikes' = struck /\ UNCHANGED <<entries, failing, cooled, demoted, contact, open, changes, file>>
    BY <1>2, <1>6
  <2> HIDE DEF struck, enough, hit
  <2>2. ListOK' /\ OpenOK' /\ NoTwice' /\ FileCurrent'
    BY <1>0, <1>3, <2>1 DEF Inv, ListOK, OpenOK, NoTwice, FileCurrent
  <2> QED
    BY <1>1, <2>2 DEF Inv
<1>7. CASE ~(enough = {} \/ changes >= MaxSlowChanges)
  <2>1. PICK g \in enough :
                 /\ changes' = changes + 1
                 /\ strikes' = [struck EXCEPT ![g] = 0]
                 /\ demoted' = demoted \cup {g}
                 /\ Fail(g)
                 /\ open' = IF open.guard = g THEN NotOpen ELSE open
                 /\ entries' = Append(Without(entries, g), g)
                 /\ UNCHANGED contact
                 /\ SaveGuards
    BY <1>2, <1>7
  <2> HIDE DEF struck, enough, hit
  <2>2. g \in Relays
    BY <1>5
  <2>3. failing' \in Seq(Relays) /\ cooled' \in 0..Len(failing')
    BY <1>0, <2>1, <2>2, FailHolds
  <2>4. entries' \in Seq(Relays) /\ NoTwice'
    BY <1>0, <2>1, <2>2, ToTheEnd DEF NoTwice, Injective, ListOK
  <2>5. FileCurrent' /\ file' \in Seq(FileLine)
    BY <2>1, <2>4, SaveHolds
  <2>6. strikes' \in [Relays -> 0..GuardStrikes]
    <3>1. 0 \in 0..GuardStrikes
      BY GuardsAssumption DEF GuardsAssumption
    <3> QED
      BY <1>3, <2>1, <3>1
  <2>7. open' \in [guard : Relays \cup {None}, known : BOOLEAN, up : BOOLEAN] /\ OpenOK'
    BY <1>0, <2>1 DEF ListOK, OpenOK, NotOpen
  <2>8. changes' \in 0..MaxSlowChanges
    BY <1>0, <1>7, <2>1, GuardsAssumption DEF ListOK, GuardsAssumption
  <2>9. demoted' \subseteq Relays /\ contact' \subseteq Relays
    BY <1>0, <2>1, <2>2 DEF ListOK
  <2>10. ListOK'
    BY <2>3, <2>4, <2>5, <2>6, <2>7, <2>8, <2>9 DEF ListOK, FileLine
  <2> QED
    BY <1>1, <2>4, <2>5, <2>7, <2>10 DEF Inv
<1> QED
  BY <1>6, <1>7

\* A new consensus, and the list reconciled with it: a list that keeps its length is
\* the list it was, and all its guards are in the consensus, so the file is right as it is.
LEMMA ReconcileHolds ==
    ASSUME Inv, Refresh \/ ReconcileGuards
    PROVE  Inv'
<1> USE DEF Threads
<1>0. ThreadsOK /\ ListOK /\ OpenOK /\ WorldOK /\ NoTwice /\ FileCurrent
  BY DEF Inv
<1>1. CASE Refresh
  <2>1. ThreadsOK'
    BY <1>0, <1>1 DEF Refresh, ThreadsOK, Goto, Places, Holding
  <2>2. WorldOK'
    BY <1>0, <1>1 DEF Refresh, WorldOK
  <2> QED
    BY <1>1, <2>1, <2>2, SameList DEF Refresh, Inv
<1>2. CASE ReconcileGuards
  <2>1. ThreadsOK' /\ WorldOK' /\ OpenOK'
    BY <1>0, <1>2 DEF ReconcileGuards, ThreadsOK, Goto, Places, Holding, WorldOK, world, OpenOK
  <2>2. entries' = Retain(entries, listed) /\ failing' = Retain(failing, listed)
        /\ cooled' = Len(Kept(failing, listed)[cooled])
    BY <1>2 DEF ReconcileGuards
  <2>3. failing' \in Seq(Relays) /\ cooled' \in 0..Len(failing')
    BY <1>0, <2>2, RetainHolds DEF ListOK
  <2>4. /\ entries' \in Seq(Relays) /\ NoTwice' /\ Range(entries') = Range(entries) \cap listed
        /\ Len(entries') = Len(entries) => entries' = entries
    <3>1. entries \in Seq(Relays) /\ Injective(entries)
      BY <1>0 DEF ListOK, NoTwice, Injective
    <3>2. /\ entries' \in Seq(Relays) /\ Injective(entries')
          /\ Range(entries') = Range(entries) \cap listed
          /\ Len(entries') = Len(entries) => entries' = entries
      BY <2>2, <3>1, RetainHolds
    <3> QED
      BY <3>2 DEF NoTwice, Injective
  <2>5. demoted' = demoted \cap listed /\ contact' = contact \cap listed
    BY <1>2 DEF ReconcileGuards
  <2>6. FileCurrent' /\ file' \in Seq(FileLine)
    <3>1. CASE Len(entries') # Len(entries)
      BY <1>2, <2>4, <3>1, SaveHolds DEF ReconcileGuards
    <3>2. CASE Len(entries') = Len(entries)
      <4>1. file' = file /\ entries' = entries
        BY <1>2, <2>4, <3>2 DEF ReconcileGuards
      <4>2. \A i \in 1..Len(entries) : entries[i] \in listed
        BY <1>0, <2>4, <4>1, LenProperties DEF Range, ListOK
      <4>3. \A i \in 1..Len(entries) : Line(entries[i], contact, demoted) = Line(entries[i], contact', demoted')
        BY <2>5, <4>2 DEF Line
      <4> DEFINE n == IF Len(entries) <= MaxGuards THEN Len(entries) ELSE MaxGuards
      <4>4. n \in Nat /\ n <= Len(entries) /\ Len(entries) \in Nat
        BY <1>0, LenProperties, GuardsAssumption DEF GuardsAssumption, ListOK
      <4> HIDE DEF n
      <4>5. [i \in 1..n |-> Line(entries[i], contact, demoted)] = [i \in 1..n |-> Line(entries[i], contact', demoted')]
        BY <4>3, <4>4
      <4>6. Serialize(entries, contact, demoted) = Serialize(entries', contact', demoted')
        BY <4>1, <4>5 DEF Serialize, n
      <4> QED
        BY <1>0, <4>1, <4>6 DEF FileCurrent, ListOK, FileLine
    <3> QED
      BY <3>1, <3>2
  <2>7. strikes' \in [Relays -> 0..GuardStrikes]
    <3>1. strikes' = [g \in Relays |-> IF g \in listed THEN strikes[g] ELSE 0]
      BY <1>2 DEF ReconcileGuards
    <3>2. 0 \in 0..GuardStrikes
      BY GuardsAssumption DEF GuardsAssumption
    <3> QED
      BY <1>0, <3>1, <3>2 DEF ListOK
  <2>8. ListOK'
    BY <1>0, <1>2, <2>3, <2>4, <2>5, <2>6, <2>7 DEF ReconcileGuards, ListOK, FileLine
  <2> QED
    BY <2>1, <2>4, <2>6, <2>8 DEF Inv
<1> QED
  BY <1>1, <1>2

\* A demotion that runs out does so on the list and in the file.
LEMMA DemotionHolds ==
    ASSUME Inv, NEW g \in Relays, DemotionEnds(g)
    PROVE  Inv'
<1>0. ListOK /\ FileCurrent /\ OpenOK /\ ThreadsOK /\ WorldOK /\ NoTwice
  BY DEF Inv
<1> DEFINE d == demoted \ {g}
<1>1. /\ demoted' = d
      /\ file' = [i \in 1..Len(file) |->
                     IF file[i].id = g THEN [file[i] EXCEPT !.demoted = FALSE] ELSE file[i]]
      /\ UNCHANGED <<entries, failing, cooled, strikes, contact, open, changes, threads, world, served>>
  BY DEF DemotionEnds
<1>2. /\ file = Serialize(entries, contact, demoted) /\ entries \in Seq(Relays)
      /\ file \in Seq(FileLine)
  BY <1>0 DEF FileCurrent, ListOK, FileLine
<1> DEFINE s == Serialize(entries, contact, d)
<1>3. /\ Len(s) = Len(file) /\ s \in Seq(FileLine)
      /\ \A i \in 1..Len(file) : /\ file[i] = Line(entries[i], contact, demoted)
                                 /\ s[i] = Line(entries[i], contact, d)
  BY <1>2, SerializeHolds
<1> HIDE DEF s
<1>4. ASSUME NEW i \in 1..Len(file)
      PROVE  (IF file[i].id = g THEN [file[i] EXCEPT !.demoted = FALSE] ELSE file[i]) = s[i]
  <2> DEFINE l == IF file[i].id = g THEN [file[i] EXCEPT !.demoted = FALSE] ELSE file[i]
  <2>1. /\ file[i] \in FileLine /\ file[i].id = entries[i]
        /\ file[i].contact <=> entries[i] \in contact
        /\ file[i].demoted <=> entries[i] \in contact /\ entries[i] \in demoted
    BY <1>2, <1>3, LineHolds, ElementOfSeq
  <2>2. /\ l \in FileLine /\ l.id = entries[i]
        /\ l.contact <=> entries[i] \in contact
        /\ l.demoted <=> entries[i] \in contact /\ entries[i] \in d
    <3>1. CASE entries[i] = g
      <4>1. l = [file[i] EXCEPT !.demoted = FALSE] /\ entries[i] \notin d
        BY <2>1, <3>1
      <4> QED
        BY <2>1, <4>1 DEF FileLine
    <3>2. CASE entries[i] # g
      <4>1. l = file[i] /\ (entries[i] \in d <=> entries[i] \in demoted)
        BY <2>1, <3>2
      <4> QED
        BY <2>1, <4>1
    <3> QED
      BY <3>1, <3>2
  <2> HIDE DEF l, d
  <2>3. l = Line(entries[i], contact, d)
    BY <2>2, LineSame
  <2> QED
    BY <1>3, <2>3 DEF l
<1>5. file' = [i \in 1..Len(s) |-> s[i]]
  BY <1>1, <1>3, <1>4
<1>6. s = [i \in 1..Len(s) |-> s[i]]
  BY <1>3
<1>7. file' = s /\ s \in Seq(FileLine)
  BY <1>3, <1>5, <1>6
<1>8. FileCurrent'
  BY <1>1, <1>7 DEF FileCurrent, s
<1>9. ListOK' /\ OpenOK' /\ NoTwice'
  BY <1>0, <1>1, <1>7 DEF ListOK, OpenOK, NoTwice, FileLine
<1>10. ThreadsOK' /\ WorldOK'
  BY <1>0, <1>1 DEF ThreadsOK, WorldOK, threads, world
<1> QED
  BY <1>8, <1>9, <1>10 DEF Inv

\* The process starts again: what it loads is what would be saved.
LEMMA RestartHolds ==
    ASSUME Inv, Restart
    PROVE  Inv'
<1>0. ListOK /\ FileCurrent /\ WorldOK /\ NoTwice
  BY DEF Inv
<1> DEFINE n == Len(file)
<1>1. /\ file \in Seq(FileLine) /\ entries \in Seq(Relays)
      /\ n \in Nat /\ n <= MaxGuards /\ n <= Len(entries) /\ Len(entries) \in Nat
      /\ \A i \in 1..n : i \in 1..Len(entries) /\ file[i] = Line(entries[i], contact, demoted)
  <2>1. file \in Seq(FileLine) /\ entries \in Seq(Relays)
    BY <1>0 DEF ListOK, FileLine
  <2>2. n \in Nat /\ Len(entries) \in Nat /\ MaxGuards \in Nat
    BY <2>1, LenProperties, GuardsAssumption DEF GuardsAssumption
  <2>3. file = Serialize(entries, contact, demoted)
    BY <1>0 DEF FileCurrent
  <2>4. /\ n = (IF Len(entries) <= MaxGuards THEN Len(entries) ELSE MaxGuards)
        /\ \A i \in 1..n : i \in 1..Len(entries) /\ file[i] = Line(entries[i], contact, demoted)
    BY <2>1, <2>3, SerializeHolds
  <2> QED
    BY <2>1, <2>2, <2>4
<1>2. /\ entries' = [i \in 1..n |-> file[i].id]
      /\ contact' = {file[i].id : i \in {j \in 1..n : file[j].contact}}
      /\ demoted' = {file[i].id : i \in {j \in 1..n : file[j].demoted}}
      /\ failing' = <<>> /\ cooled' = 0
      /\ strikes' = [g \in Relays |-> 0]
      /\ UNCHANGED <<file, world>>
  BY DEF Restart, LoadGuards
<1> HIDE DEF n
<1>3. \A i \in 1..n : file[i].id = entries[i] /\ entries[i] \in Relays
  BY <1>1, ElementOfSeq, LineHolds
<1>4. entries' \in Seq(Relays) /\ Len(entries') = n /\ \A i \in 1..n : entries'[i] = entries[i]
  <2>1. entries' \in [1..n -> Relays]
    BY <1>2, <1>3
  <2> QED
    BY <1>1, <1>2, <1>3, <2>1
<1>5. NoTwice'
  BY <1>0, <1>1, <1>4 DEF NoTwice
<1>6. contact' \subseteq Relays /\ demoted' \subseteq Relays
  BY <1>2, <1>3
<1>7. ASSUME NEW i \in 1..n PROVE Line(entries'[i], contact', demoted') = file[i]
  <2>1. \A j \in 1..n : file[j].id = file[i].id => j = i
    BY <1>0, <1>1, <1>3 DEF NoTwice
  <2>2. /\ file[i] \in FileLine /\ file[i].id = entries[i]
        /\ file[i].contact <=> entries[i] \in contact
        /\ file[i].demoted <=> entries[i] \in contact /\ entries[i] \in demoted
    BY <1>1, LineHolds, ElementOfSeq DEF n
  <2>3. file[i].id \in contact' <=> file[i].contact
    BY <1>2, <2>1, <2>2
  <2>4. file[i].id \in demoted' <=> file[i].demoted
    BY <1>2, <2>1, <2>2
  <2>5. entries'[i] = file[i].id
    BY <1>4, <2>2
  <2>6. file[i].contact <=> entries'[i] \in contact'
    BY <2>3, <2>5
  <2>7. file[i].demoted <=> entries'[i] \in contact' /\ entries'[i] \in demoted'
    BY <2>2, <2>3, <2>4, <2>5
  <2> QED
    BY <2>2, <2>5, <2>6, <2>7, LineSame
<1>8. FileCurrent'
  <2> DEFINE s == Serialize(entries', contact', demoted')
  <2>1. /\ s \in Seq(FileLine) /\ Len(s) = n
        /\ \A i \in 1..n : s[i] = Line(entries'[i], contact', demoted')
    BY <1>1, <1>4, SerializeHolds
  <2> HIDE DEF s
  <2>2. Len(file) = n /\ \A i \in 1..Len(s) : s[i] = file[i]
    BY <1>7, <2>1 DEF n
  <2>3. s = file
    BY <1>1, <2>1, <2>2, SeqEqual
  <2> QED
    BY <1>2, <2>3 DEF FileCurrent, s
<1>9. open' \in [guard : Relays \cup {None}, known : BOOLEAN, up : BOOLEAN] /\ OpenOK'
  <2> DEFINE saved == {l \in Range(file) : l.contact /\ Answers(l.id)}
  <2>1. open' = IF saved = {} THEN NotOpen
                ELSE [guard |-> First(file, saved).id, known |-> FALSE, up |-> TRUE]
    BY DEF Restart, Reconnect
  <2>2. Range(file) \subseteq FileLine
    BY <1>1, RangeOfSeq
  <2>3. CASE saved = {}
    BY <2>1, <2>3 DEF NotOpen, OpenOK
  <2>4. CASE saved # {}
    <3>1. Range(file) \cap saved # {}
      BY <2>4
    <3> HIDE DEF saved
    <3>2. First(file, saved) \in Range(file)
      BY <1>1, <3>1, FirstHolds
    <3>3. First(file, saved).id \in Relays
      BY <2>2, <3>2 DEF FileLine
    <3> QED
      BY <2>1, <2>4, <3>3 DEF OpenOK
  <2> QED
    BY <2>3, <2>4
<1>10. ListOK'
  <2>1. changes' \in 0..MaxSlowChanges /\ cooled' \in 0..Len(failing') /\ failing' \in Seq(Relays)
    BY <1>2, GuardsAssumption DEF Restart, GuardsAssumption
  <2>2. 0 \in 0..GuardStrikes
    BY GuardsAssumption DEF GuardsAssumption
  <2>3. strikes' \in [Relays -> 0..GuardStrikes]
    BY <1>2, <2>2
  <2> QED
    BY <1>1, <1>2, <1>4, <1>6, <1>9, <2>1, <2>3 DEF ListOK, FileLine
<1>11. ThreadsOK'
  <2>1. 0 \in 0..GuardAttempts - 1
    BY GuardsAssumption DEF GuardsAssumption
  <2> QED
    BY <2>1 DEF Restart, ThreadsOK, Places, Holding
<1>12. WorldOK'
  BY <1>0, <1>2 DEF WorldOK, world
<1> QED
  BY <1>5, <1>8, <1>9, <1>10, <1>11, <1>12 DEF Inv

-----------------------------------------------------------------------------

\* The invariant holds when the client starts for the first time, and every step keeps it.
THEOREM Invariant == Spec => []Inv
<1>1. Init => Inv
  <2> SUFFICES ASSUME Init PROVE Inv
    OBVIOUS
  <2>0. 0 \in 0..GuardStrikes /\ 0 \in 0..GuardAttempts - 1 /\ 0 \in 0..MaxSlowChanges
    BY GuardsAssumption DEF GuardsAssumption
  <2>1. ListOK /\ OpenOK
    BY <2>0 DEF Init, ListOK, OpenOK, NotOpen
  <2>2. ThreadsOK /\ WorldOK
    BY <2>0 DEF Init, ThreadsOK, WorldOK, Places, Holding
  <2>3. NoTwice
    BY DEF Init, NoTwice
  <2>4. FileCurrent
    <3>1. entries = <<>> /\ file = <<>> /\ entries \in Seq(Relays)
      BY DEF Init
    <3>2. Len(Serialize(entries, contact, demoted)) = 0
      <4>1. Len(entries) = 0 /\ 0 <= MaxGuards
        BY <3>1, GuardsAssumption DEF GuardsAssumption
      <4>2. Len(Serialize(entries, contact, demoted))
              = IF Len(entries) <= MaxGuards THEN Len(entries) ELSE MaxGuards
        BY <3>1, SerializeHolds
      <4> QED
        BY <4>1, <4>2
    <3>3. Serialize(entries, contact, demoted) \in Seq(FileLine)
      BY <3>1, SerializeHolds
    <3> QED
      BY <3>1, <3>2, <3>3, EmptySeq DEF FileCurrent
  <2> QED
    BY <2>1, <2>2, <2>3, <2>4 DEF Inv
<1>2. Inv /\ [Next]_vars => Inv'
  <2> SUFFICES ASSUME Inv, [Next]_vars PROVE Inv'
    OBVIOUS
  <2>1. ASSUME NEW c \in Callers, Call(c) \/ Step(c) PROVE Inv'
    BY <2>1, LooksHold, ChangesHold DEF Call, Step, Round
  <2>2. CASE MaintainStep
    BY <2>2, RetryHolds, BadCircuitsHold, ReconcileHolds DEF MaintainStep
  <2>3. CASE CoolOff
    <3>1. cooled' \in 0..Len(failing)
      BY <2>3, LenProperties DEF CoolOff, Inv, ListOK
    <3>2. ListOK' /\ OpenOK' /\ NoTwice' /\ FileCurrent'
      BY <2>3, <3>1 DEF CoolOff, Inv, ListOK, OpenOK, NoTwice, FileCurrent
    <3> QED
      BY <2>3, <3>2 DEF CoolOff, Inv, ThreadsOK, WorldOK, threads, world
  <2>4. ASSUME NEW g \in Relays, DemotionEnds(g) PROVE Inv'
    BY <2>4, DemotionHolds
  <2>5. CASE Weather
    <3>1. WorldOK'
      BY <2>5 DEF Weather, NetDown, NetUp, RelayDown, RelayUp, Inv, WorldOK
    <3>2. ThreadsOK'
      BY <2>5 DEF Weather, threads, Inv, ThreadsOK
    <3> QED
      BY <2>5, <3>1, <3>2, SameList DEF Weather, Inv
  <2>6. CASE ChannelEnds
    <3>1. open' \in [guard : Relays \cup {None}, known : BOOLEAN, up : BOOLEAN] /\ OpenOK'
      BY <2>6 DEF ChannelEnds, Inv, ListOK, OpenOK
    <3>2. ListOK' /\ NoTwice' /\ FileCurrent'
      BY <2>6, <3>1 DEF ChannelEnds, Inv, ListOK, NoTwice, FileCurrent
    <3> QED
      BY <2>6, <3>1, <3>2 DEF ChannelEnds, Inv, ThreadsOK, WorldOK, threads, world
  <2>7. CASE Restart
    BY <2>7, RestartHolds
  <2>8. CASE UNCHANGED vars
    <3>1. UNCHANGED <<list, threads, world, served>>
      BY <2>8 DEF vars
    <3>2. ThreadsOK' /\ WorldOK'
      BY <3>1 DEF threads, world, Inv, ThreadsOK, WorldOK
    <3> QED
      BY <3>1, <3>2, SameList DEF Inv
  <2> QED
    BY <2>1, <2>2, <2>3, <2>4, <2>5, <2>6, <2>7, <2>8 DEF Next
<1> QED
  BY <1>1, <1>2, PTL DEF Spec

\* Every variable of the guard list keeps its type.
THEOREM TypeCorrect == Spec => []TypeOK
<1>1. Inv => TypeOK
  BY DEF Inv, TypeOK, ThreadsOK, WorldOK
<1> QED
  BY <1>1, Invariant, PTL

\* However many threads add guards at once, none is on the list twice (ensure_guard
\* looks again under the lock before it pushes).
THEOREM GuardsDistinct == Spec => []NoTwice
<1>1. Inv => NoTwice
  BY DEF Inv
<1> QED
  BY <1>1, Invariant, PTL

\* The guards file is never behind the list, whatever step the process ends at:
\* each step that changes what save_guards would write also saves.
THEOREM FileFollows == Spec => []FileCurrent
<1>1. Inv => FileCurrent
  BY DEF Inv
<1> QED
  BY <1>1, Invariant, PTL

\* What PrimaryPinned says of a step.
PinnedStep ==
    entries # <<>> =>
        \/ entries' # <<>> /\ Head(entries') = Head(entries)
        \/ Head(entries) \in demoted' \/ Head(entries) \notin listed

\* Only a demotion and leaving the consensus cost the primary guard its place: what is
\* added goes to the end, what is taken out leaves the rest in order, and a restart finds
\* the list as it was.
THEOREM PrimaryStays == Spec => PrimaryPinned
<1>1. ASSUME Inv, Next PROVE PinnedStep
  <2> SUFFICES ASSUME entries # <<>>
               PROVE  \/ entries' # <<>> /\ Head(entries') = Head(entries)
                      \/ Head(entries) \in demoted' \/ Head(entries) \notin listed
    BY DEF PinnedStep
  <2>0. entries \in Seq(Relays) /\ Len(entries) > 0 /\ NoTwice
    BY <1>1, EmptySeq DEF Inv, ListOK
  <2>1. ASSUME UNCHANGED entries PROVE entries' # <<>> /\ Head(entries') = Head(entries)
    BY <2>1
  <2>2. ASSUME NEW c \in Callers, Push(c) PROVE entries' # <<>> /\ Head(entries') = Head(entries)
    <3>1. entries' = entries \/ entries' = Append(entries, guard[c])
      BY <2>2 DEF Push
    <3>2. Head(Append(entries, guard[c])) = Head(entries)
      BY <2>0, HeadTailAppend
    <3>3. Append(entries, guard[c]) # <<>>
      <4>1. guard[c] \in Relays
        BY <1>1, <2>2 DEF Push, Inv, ThreadsOK, Threads, Holding
      <4> QED
        BY <2>0, <4>1, AppendProperties
    <3> QED
      BY <3>1, <3>2, <3>3
  <2>3. ASSUME NEW c \in Callers, Call(c) \/ Step(c), ~Push(c) PROVE UNCHANGED entries
    <3>1. UNCHANGED list => UNCHANGED entries
      BY DEF list
    <3> QED
      BY <2>3, <3>1 DEF Call, Step, Round, UseOpen, LookAtOpen, FillOpen, RecordContact, FillFails, Choose,
         Resolve, ResolveFails, MarkFailed, Connect, Store, ProbeBlamesGuard, ProbeBlamesNetwork
  <2>4. ASSUME NEW blamed, NoteBadCircuits(blamed)
        PROVE  \/ entries' # <<>> /\ Head(entries') = Head(entries)
               \/ Head(entries) \in demoted'
    <3>1. \/ UNCHANGED entries
          \/ \E g \in Range(entries) : /\ entries' = Append(Without(entries, g), g)
                                       /\ demoted' = demoted \cup {g}
      BY <2>4 DEF NoteBadCircuits
    <3>2. ASSUME NEW g \in Range(entries), entries' = Append(Without(entries, g), g),
                 demoted' = demoted \cup {g}, Head(entries) # g
          PROVE  entries' # <<>> /\ Head(entries') = Head(entries)
      <4>1. g \in Relays /\ Injective(entries)
        BY <2>0, RangeOfSeq DEF NoTwice, Injective
      <4> QED
        BY <2>0, <3>2, <4>1, ToTheEnd
    <3> QED
      BY <2>1, <3>1, <3>2
  <2>5. ASSUME ReconcileGuards, Head(entries) \in listed
        PROVE  entries' # <<>> /\ Head(entries') = Head(entries)
    BY <2>0, <2>5, RetainHolds DEF ReconcileGuards
  <2>6. ASSUME RetryPrimary \/ RetryConnects \/ RetryReplaces \/ Refresh PROVE UNCHANGED entries
    <3>1. UNCHANGED list => UNCHANGED entries
      BY DEF list
    <3> QED
      BY <2>6, <3>1 DEF RetryPrimary, RetryConnects, RetryReplaces, RecordContact, Refresh
  <2>7. ASSUME Restart PROVE entries' # <<>> /\ Head(entries') = Head(entries)
    <3>1. file = Serialize(entries, contact, demoted)
      BY <1>1 DEF Inv, FileCurrent
    <3>2. /\ Len(file) = (IF Len(entries) <= MaxGuards THEN Len(entries) ELSE MaxGuards)
          /\ \A i \in 1..Len(file) : file[i] = Line(entries[i], contact, demoted)
      BY <2>0, <3>1, SerializeHolds
    <3>3. Len(file) \in Nat /\ Len(file) >= 1
      BY <2>0, <3>2, LenProperties, GuardsAssumption DEF GuardsAssumption
    <3>4. entries' = [i \in 1..Len(file) |-> file[i].id]
      BY <2>7 DEF Restart, LoadGuards
    <3>5. file[1].id = entries[1]
      BY <3>2, <3>3, LineHolds
    <3>6. entries' \in Seq(Relays)
      BY <1>1, <2>7, RestartHolds DEF Inv, ListOK
    <3>7. Len(entries') = Len(file) /\ entries'[1] = entries[1]
      BY <3>3, <3>4, <3>5
    <3>8. entries' # <<>> /\ Head(entries') = entries'[1]
      BY <3>3, <3>6, <3>7
    <3>9. Head(entries) = entries[1]
      BY <2>0
    <3> QED
      BY <3>7, <3>8, <3>9
  <2>8. ASSUME CoolOff \/ (\E g \in Relays : DemotionEnds(g)) \/ Weather \/ ChannelEnds
        PROVE  UNCHANGED entries
    BY <2>8 DEF CoolOff, DemotionEnds, Weather, ChannelEnds, list
  <2> QED
    BY <1>1, <2>1, <2>2, <2>3, <2>4, <2>5, <2>6, <2>7, <2>8 DEF Next, MaintainStep
<1>2. Inv /\ [Next]_vars => [PinnedStep]_vars
  BY <1>1
<1>3. [][PinnedStep]_vars => PrimaryPinned
  BY PTL DEF PrimaryPinned, PinnedStep
<1> QED
  BY <1>2, <1>3, Invariant, PTL DEF Spec
=============================================================================
