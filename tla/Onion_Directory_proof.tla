----------------------- MODULE Onion_Directory_proof -----------------------
(* Proofs about module Directory and, after them, about module Onion: the   *)
(* two rest on the same facts about numbers and recursive functions.        *)
EXTENDS Onion, Directory, FiniteSetTheorems, SequenceTheorems, WellFoundedInduction, TLAPS

(***************************************************************************)
(* Induction over the natural numbers, stated for a set, and numbers.      *)
(***************************************************************************)

Below == {ss \in Nat \X Nat : ss[1] < ss[2]}

\* A set of numbers that is not empty has a least element.
LEMMA Least ==
    ASSUME NEW T \in SUBSET Nat, T # {}
    PROVE  \E x \in T : \A y \in T : x <= y
<1>1. IsWellFoundedOn(Below, Nat)
  BY NatLessThanWellFounded, Zenon DEF Below, OpToRel
<1>2. \E x \in T : \A y \in T : <<y, x>> \notin Below
  BY <1>1, WFMin
<1>3. ASSUME NEW x \in T, NEW y \in T, <<y, x>> \notin Below PROVE x <= y
  <2>1. ~(y < x)
    BY <1>3 DEF Below
  <2> QED
    BY <2>1
<1> QED
  BY <1>2, <1>3

\* A set that holds 0, and with a number the next one, holds them all.
LEMMA Induction ==
    ASSUME NEW T, 0 \in T, \A n \in Nat : n \in T => n + 1 \in T
    PROVE  Nat \subseteq T
<1> DEFINE B == {n \in Nat : n \notin T}
<1>1. SUFFICES ASSUME B # {} PROVE FALSE
  OBVIOUS
<1>2. PICK x \in B : \A y \in B : x <= y
  BY <1>1, Least
<1>3. x \in Nat /\ x # 0 /\ x \notin T
  BY <1>2
<1>4. x - 1 \in Nat /\ x - 1 \notin B
  BY <1>2, <1>3
<1>5. (x - 1) + 1 \in T
  BY <1>4
<1> QED
  BY <1>3, <1>5

\* The least of a set of numbers is one of them.
LEMMA MinIsLeast ==
    ASSUME NEW T \in SUBSET Nat, T # {}
    PROVE  Min(T) \in T /\ \A y \in T : Min(T) <= y
BY Least DEF Min

\* The time of the newest consensus is one of those at which one is published.
LEMMA NewestIsPublished ==
    ASSUME NEW c \in Nat, NEW i \in Nat \ {0}, c >= i
    PROVE  /\ c - (c % i) \in 1..c /\ (c - (c % i)) % i = 0
           /\ i \in 1..c /\ i % i = 0
<1>1. PICK q \in Int, r \in 0..(i - 1) : c = i * q + r /\ q = c \div i /\ r = c % i
  OBVIOUS
<1>2. c - (c % i) = i * q /\ i * q \in Nat
  BY <1>1
<1>3. i * q \in 1..c
  <2>1. i * q > c - i
    BY <1>1, <1>2
  <2> QED
    BY <1>1, <1>2, <2>1
<1>4. (i * q) % i = 0
  OBVIOUS
<1>5. i % i = 0
  OBVIOUS
<1> QED
  BY <1>2, <1>3, <1>4, <1>5

-----------------------------------------------------------------------------
(***************************************************************************)
(* Documents.  Loyal authorities sign what is published and nothing else:  *)
(* a line is Good if it is not a signature by a key of theirs over         *)
(* anything else.  One in their name by another key may be over anything.  *)
(***************************************************************************)

Loyal == Authorities \ Compromised

Good ==
    {l \in Lines : l.kind = "signature" /\ l.id \in Loyal /\ l.key \in SigningKeys
                      => \E e \in Times : l.over = Body(e)}

\* The certificates that count: of keys that are the authorities' own.
Certs == [id : Authorities, key : SigningKeys, until : Nat, identity : Authorities,
          signed : {TRUE}]

\* What SetToSeq makes of a finite set.
LEMMA SetToSeqType ==
    ASSUME NEW S, IsFiniteSet(S)
    PROVE  /\ Cardinality(S) \in Nat
           /\ \A i \in 1..Cardinality(S) : SetToSeq(S)[i] \in S
<1> DEFINE Numbered(f) == f \in [1..Cardinality(S) -> S] /\ IsInjective(f)
<1>1. Cardinality(S) \in Nat
  BY FS_CardinalityType
<1>2. PICK f : f \in Bijection(1..Cardinality(S), S)
  BY FS_CardinalityType DEF ExistsBijection
<1>3. Numbered(f)
  BY <1>2 DEF Bijection, Injection, IsInjective
<1>4. Numbered(SetToSeq(S))
  BY <1>3 DEF SetToSeq
<1> QED
  BY <1>1, <1>4

\* The sets of authorities are finite.
LEMMA FiniteSigners ==
    ASSUME NEW S \in SUBSET Authorities
    PROVE  IsFiniteSet(S)
BY ConsensusAssumption, FS_Subset

\* The lines of a consensus without its signatures.
LEMMA LineType ==
    /\ \A t \in Nat : After(t) \in AfterLines
    /\ \A r \in Int : Relays(r) \in RelaysLines
    /\ \A t \in Nat : (t \div Interval) \div 2 \in Int
<1>1. \A t \in Nat : After(t) \in AfterLines
  BY DEF After, AfterLines
<1>2. \A r \in Int : Relays(r) \in RelaysLines
  BY DEF Relays, RelaysLines
<1>3. \A t \in Nat : (t \div Interval) \div 2 \in Int
  BY ConsensusAssumption
<1> QED
  BY <1>1, <1>2, <1>3

\* Lines that sign nothing are good.
LEMMA PlainGood == AfterLines \cup RelaysLines \subseteq Good
BY DEF Good, Lines, AfterLines, RelaysLines

\* Of whoever is not loyal any signature is good, and so is any by a key that is
\* not the authorities' own; of the others one over a body that was published.
LEMMA SignatureGood ==
    ASSUME NEW a \in Authorities \cup {"stranger"}, NEW k \in Nat,
           NEW part \in AfterLines \X RelaysLines,
           a \in Loyal /\ k \in SigningKeys => \E e \in Times : part = Body(e)
    PROVE  Signature(a, k, part) \in Good
<1>1. Signature(a, k, part) \in SignatureLines
  BY DEF Signature, SignatureLines
<1>2. Signature(a, k, part).id = a /\ Signature(a, k, part).over = part
      /\ Signature(a, k, part).key = k
  BY DEF Signature
<1> QED
  BY <1>1, <1>2 DEF Good, Lines

\* So are the signatures Signed makes.
LEMMA SignedGood ==
    ASSUME NEW S \in SUBSET Authorities, NEW k \in Nat, NEW part \in AfterLines \X RelaysLines,
           S \cap Loyal # {} /\ k \in SigningKeys => \E e \in Times : part = Body(e)
    PROVE  Signed(part, S, k) \in Seq(Good)
<1> DEFINE n == Cardinality(S)
<1>1. n \in Nat /\ \A i \in 1..n : SetToSeq(S)[i] \in S
  BY FiniteSigners, SetToSeqType
<1>2. \A i \in 1..n : Signature(SetToSeq(S)[i], k, part) \in Good
  BY <1>1, SignatureGood
<1> HIDE DEF n
<1> DEFINE f == [i \in 1..n |-> Signature(SetToSeq(S)[i], k, part)]
<1>3. f \in Seq(Good)
  BY <1>1, <1>2
<1> QED
  BY <1>3 DEF Signed, n

\* A body that was published, and any copy of its document.
LEMMA CopiesGood ==
    ASSUME clock \in Nat, NEW t \in Times
    PROVE  /\ t \in Nat /\ Body(t) \in Seq(Good) /\ Len(Body(t)) = 2
           /\ Body(t) \in AfterLines \X RelaysLines
           /\ \A to \in Copies(t) : to \in Seq(Good) /\ Len(to) >= 2
<1>1. t \in Nat
  BY DEF Times
<1>2. Body(t) \in AfterLines \X RelaysLines
  BY <1>1, LineType DEF Body
<1>3. Body(t) \in Seq(Good) /\ Len(Body(t)) = 2
  <2>1. After(t) \in Good /\ Relays((t \div Interval) \div 2) \in Good
    BY <1>1, LineType, PlainGood
  <2> QED
    BY <2>1 DEF Body
<1>4. ASSUME NEW S \in SUBSET Authorities
      PROVE  Doc(t, S) \in Seq(Good) /\ Len(Doc(t, S)) >= 2
  <2>1. Signed(Body(t), S, KeyAt(t)) \in Seq(Good)
    BY <1>2, SignedGood DEF KeyAt
  <2> QED
    BY <1>3, <2>1 DEF Doc
<1> QED
  BY <1>1, <1>2, <1>3, <1>4 DEF Copies

\* The newest document is a published one.
LEMMA NewestTime ==
    ASSUME clock \in Nat, clock >= Interval
    PROVE  Newest \in Times /\ Interval \in Times
BY NewestIsPublished, ConsensusAssumption DEF Newest, Times

\* What a forger puts together.
LEMMA ForgeryGood ==
    ASSUME clock \in Nat, clock >= Interval
    PROVE  Forgery \in Seq(Good)
<1>1. Newest \in Times /\ Newest \in Nat
  BY NewestTime, CopiesGood
<1> DEFINE part == <<After(Newest), Relays(Foreign)>>
<1>2. part \in AfterLines \X RelaysLines /\ part \in Seq(Good)
  <2>1. Foreign \in Int
    BY DEF Foreign
  <2>2. After(Newest) \in AfterLines /\ Relays(Foreign) \in RelaysLines
    BY <1>1, <2>1, LineType
  <2> QED
    BY <2>2, PlainGood
<1> HIDE DEF part
<1>3. Compromised \in SUBSET Authorities /\ Compromised \cap Loyal = {}
  BY DirectoryAssumption DEF Loyal
<1>4. Signed(part, Compromised, 1) \in Seq(Good) /\ Signed(part, Compromised, 2) \in Seq(Good)
  BY <1>2, <1>3, SignedGood
<1>5. Signature("stranger", 1, part) \in Good
  <2>1. "stranger" \notin Loyal
    BY ConsensusAssumption DEF Loyal
  <2> QED
    BY <1>2, <2>1, SignatureGood
<1>6. Signed(Body(Newest), Authorities, KeyAt(Newest)) \in Seq(Good)
  BY <1>1, CopiesGood, SignedGood DEF KeyAt
<1>9. Signed(part, Authorities, OwnKey) \in Seq(Good)
  <2>1. OwnKey \in Nat /\ OwnKey \notin SigningKeys
    BY DEF OwnKey, SigningKeys
  <2> QED
    BY <1>2, <2>1, SignedGood
<1>7. Forgery = part \o Signed(part, Compromised, 1) \o Signed(part, Compromised, 2)
                     \o <<Signature("stranger", 1, part)>> \o Signed(part, Authorities, OwnKey)
                     \o Signed(Body(Newest), Authorities, KeyAt(Newest))
  BY DEF Forgery, part
<1>8. <<Signature("stranger", 1, part)>> \in Seq(Good)
  BY <1>5
<1> QED
  BY ONLY <1>2, <1>4, <1>6, <1>7, <1>8, <1>9

-----------------------------------------------------------------------------
(***************************************************************************)
(* What the signatures of a document say of it.                            *)
(***************************************************************************)

Published(t) == \E e \in Times : SignedPart(t) = Body(e)

\* The signed part of a document with signatures is what is before the first.
LEMMA SignedPartIs ==
    ASSUME NEW X, NEW t \in Seq(X), HasSignature(t)
    PROVE  \E m \in 1..Len(t) : /\ t[m].kind = "signature"
                                /\ SignedPart(t) = SubSeq(t, 1, m - 1)
<1> DEFINE m == Min(SignatureAt(t))
<1>1. SignatureAt(t) \in SUBSET Nat /\ SignatureAt(t) # {} /\ SignatureAt(t) \subseteq 1..Len(t)
  BY DEF SignatureAt, HasSignature
<1>2. m \in SignatureAt(t)
  BY <1>1, MinIsLeast
<1>3. SignedPart(t) = SubSeq(t, 1, m - 1)
  BY DEF SignedPart
<1> HIDE DEF m
<1>4. m \in 1..Len(t) /\ t[m].kind = "signature"
  BY <1>2 DEF SignatureAt
<1> QED
  BY <1>3, <1>4

\* A published document starts with its body, and its signatures come next.
LEMMA PublishedIs ==
    ASSUME NEW X, NEW t \in Seq(X), NEW e \in Nat, SignedPart(t) = Body(e)
    PROVE  /\ Len(t) >= 2 /\ t[1] = After(e) /\ valid_after(t) = e
           /\ HasSignature(t) => Len(t) >= 3
<1>1. Len(Body(e)) = 2 /\ Body(e)[1] = After(e)
  BY DEF Body
<1>2. CASE HasSignature(t)
  <2>1. PICK m \in 1..Len(t) : SignedPart(t) = SubSeq(t, 1, m - 1)
    BY <1>2, SignedPartIs
  <2>2. Len(SubSeq(t, 1, m - 1)) = m - 1
    OBVIOUS
  <2>3. m = 3
    BY <1>1, <2>1, <2>2
  <2>4. SubSeq(t, 1, m - 1)[1] = t[1]
    BY <2>3
  <2>5. t[1] = After(e)
    BY <1>1, <2>1, <2>4
  <2> QED
    BY <2>3, <2>5 DEF valid_after, After
<1>3. CASE ~HasSignature(t)
  <2>1. t = Body(e)
    BY <1>3 DEF SignedPart
  <2>2. valid_after(t) = e
    BY <1>1, <2>1 DEF valid_after, After
  <2> QED
    BY <1>1, <1>3, <2>1, <2>2
<1> QED
  BY <1>2, <1>3

\* As many authorities as are required cannot all be compromised.
LEMMA LoyalAmong ==
    ASSUME NEW S \in SUBSET Authorities, Cardinality(S) >= required_signatures
    PROVE  S \cap Loyal # {}
<1> SUFFICES ASSUME S \cap Loyal = {} PROVE FALSE
  OBVIOUS
<1>1. S \in SUBSET Compromised /\ Compromised \in SUBSET Authorities
  BY DirectoryAssumption DEF Loyal
<1>2. IsFiniteSet(Compromised) /\ IsFiniteSet(S) /\ IsFiniteSet(Authorities)
  BY <1>1, FiniteSigners
<1>3. Cardinality(S) <= Cardinality(Compromised)
  BY <1>1, <1>2, FS_Subset
<1>4. Cardinality(S) \in Nat /\ Cardinality(Compromised) \in Nat /\ Cardinality(Authorities) \in Nat
  BY <1>2, FS_CardinalityType
<1>5. required_signatures \in Int
  BY <1>4 DEF required_signatures
<1>6. Cardinality(Compromised) < required_signatures
  BY DirectoryAssumption
<1> QED
  BY <1>3, <1>4, <1>5, <1>6

\* parse_and_verify: what it accepts, with certificates of the authorities' own
\* keys, was published.
LEMMA VerifiedIsPublished ==
    ASSUME NEW t \in Seq(Good), NEW C \in SUBSET Certs, NEW n, parse_and_verify(t, C, n)
    PROVE  HasSignature(t) /\ Published(t)
<1> DEFINE Seen == {s \in Signatures(t) : /\ s.over = SignedPart(t) /\ s.id \in Authorities
                                          /\ \E c \in C : c.id = s.id /\ c.key = s.key}
<1>1. Signers(t, C) = {s.id : s \in Seen}
  BY DEF Signers
<1>2. Signers(t, C) \in SUBSET Authorities
  BY <1>1
<1>3. HasSignature(t) /\ Cardinality(Signers(t, C)) >= required_signatures
  BY DEF parse_and_verify
<1>4. PICK a \in Signers(t, C) : a \in Loyal
  BY <1>2, <1>3, LoyalAmong
<1>5. PICK s \in Seen : s.id = a
  BY <1>1
<1>6. s \in Signatures(t) /\ s.over = SignedPart(t)
  BY <1>5
<1>7. PICK i \in 1..Len(t) : s = t[i] /\ t[i].kind = "signature"
  BY <1>6 DEF Signatures, SignatureAt
<1>8. s \in Good
  BY <1>7
<1>10. s.key \in SigningKeys
  BY <1>5 DEF Certs
<1>9. \E e \in Times : s.over = Body(e)
  BY <1>4, <1>5, <1>7, <1>8, <1>10 DEF Good
<1> QED
  BY <1>3, <1>6, <1>9 DEF Published

-----------------------------------------------------------------------------
(***************************************************************************)
(* Diffs: what Hunks and Editions come to.                                 *)
(***************************************************************************)

\* The equations of Hunks: a recursive function is whatever satisfies them, so
\* that something does has to be shown first, for more and more of the commands.
LEMMA HunksDef ==
    ASSUME NEW lines, NEW cs, Len(cs) \in Nat
    PROVE  /\ Hunks(lines, cs)[0] = [ok |-> TRUE, j |-> Len(lines), kept |-> <<>>]
           /\ \A i \in 1..Len(cs) :
                 Hunks(lines, cs)[i] = Hunk(Hunks(lines, cs)[i - 1], cs[i], lines)
<1> DEFINE Zero == [ok |-> TRUE, j |-> Len(lines), kept |-> <<>>]
           Val(f, i) == Hunk(f[i - 1], cs[i], lines)
           Upto(f, n) == f[0] = Zero /\ \A i \in 1..n : f[i] = Val(f, i)
           T == {n \in Nat : n <= Len(cs) => \E f : Upto(f, n)}
<1> HIDE DEF Zero
<1>1. 0 \in T
  <2> DEFINE f == [i \in {0} |-> Zero]
  <2>1. Upto(f, 0)
    OBVIOUS
  <2> QED
    BY <2>1
<1>2. ASSUME NEW n \in Nat, n \in T PROVE n + 1 \in T
  <2> SUFFICES ASSUME n + 1 <= Len(cs) PROVE \E f : Upto(f, n + 1)
    OBVIOUS
  <2>1. PICK f : Upto(f, n)
    BY <1>2
  <2> DEFINE g == [i \in 0..(n + 1) |-> IF i = n + 1 THEN Val(f, n + 1) ELSE f[i]]
  <2>2. \A i \in 0..n : g[i] = f[i]
    OBVIOUS
  <2>3. g[n + 1] = Val(f, n + 1)
    OBVIOUS
  <2> HIDE DEF g, T
  <2>4. ASSUME NEW i \in 1..(n + 1) PROVE g[i] = Val(g, i)
    <3>1. g[i - 1] = f[i - 1]
      BY <2>2
    <3>2. CASE i = n + 1
      BY <2>3, <3>1, <3>2
    <3>3. CASE i \in 1..n
      BY <2>1, <2>2, <3>1, <3>3
    <3> QED
      BY <3>2, <3>3
  <2>5. g[0] = Zero
    BY <2>1, <2>2
  <2>6. Upto(g, n + 1)
    BY <2>4, <2>5
  <2> QED
    BY <2>6
<1>3. Len(cs) \in T
  <2> HIDE DEF T
  <2>1. Nat \subseteq T
    BY <1>1, <1>2, Induction
  <2> QED
    BY <2>1
<1> DEFINE Fix(k) == k = [i \in 0..Len(cs) |-> IF i = 0 THEN Zero ELSE Val(k, i)]
<1>4. \E k : Fix(k)
  <2>1. PICK f : Upto(f, Len(cs))
    BY <1>3
  <2> DEFINE k == [i \in 0..Len(cs) |-> f[i]]
             m == [i \in 0..Len(cs) |-> IF i = 0 THEN Zero ELSE Val(k, i)]
  <2>2. \A i \in 0..Len(cs) : k[i] = f[i]
    OBVIOUS
  <2>3. ASSUME NEW i \in 0..Len(cs) PROVE f[i] = IF i = 0 THEN Zero ELSE Val(k, i)
    <3>1. i # 0 => k[i - 1] = f[i - 1]
      BY <2>2
    <3> HIDE DEF k
    <3> QED
      BY <2>1, <3>1
  <2>4. k = m
    BY <2>3
  <2> QED
    BY <2>4
<1> DEFINE K == CHOOSE k : Fix(k)
<1>5. Fix(K)
  BY <1>4
<1>6. Hunks(lines, cs) = K
  BY DEF Hunks, Zero
<1> HIDE DEF K, Val
<1>7. \A i \in 0..Len(cs) : K[i] = IF i = 0 THEN Zero ELSE Val(K, i)
  BY <1>5
<1>8. K[0] = Zero /\ \A i \in 1..Len(cs) : K[i] = Val(K, i)
  BY <1>7
<1> QED
  BY <1>6, <1>8 DEF Val, Zero


\* The equations of Editions: a recursive function is whatever satisfies them, as for
\* Hunks.
LEMMA EditionsDef ==
    ASSUME NEW lines, NEW cs, Len(cs) \in Nat
    PROVE  /\ Editions(lines, cs)[0] = lines
           /\ \A i \in 1..Len(cs) :
                 Editions(lines, cs)[i] = Edited(Editions(lines, cs)[i - 1], cs[i],
                                               Len(Editions(lines, cs)[i - 1]))
<1> DEFINE Zero == lines
           Val(f, i) == Edited(f[i - 1], cs[i], Len(f[i - 1]))
           Upto(f, n) == f[0] = Zero /\ \A i \in 1..n : f[i] = Val(f, i)
           T == {n \in Nat : n <= Len(cs) => \E f : Upto(f, n)}
<1> HIDE DEF Zero
<1>1. 0 \in T
  <2> DEFINE f == [i \in {0} |-> Zero]
  <2>1. Upto(f, 0)
    OBVIOUS
  <2> QED
    BY <2>1
<1>2. ASSUME NEW n \in Nat, n \in T PROVE n + 1 \in T
  <2> SUFFICES ASSUME n + 1 <= Len(cs) PROVE \E f : Upto(f, n + 1)
    OBVIOUS
  <2>1. PICK f : Upto(f, n)
    BY <1>2
  <2> DEFINE g == [i \in 0..(n + 1) |-> IF i = n + 1 THEN Val(f, n + 1) ELSE f[i]]
  <2>2. \A i \in 0..n : g[i] = f[i]
    OBVIOUS
  <2>3. g[n + 1] = Val(f, n + 1)
    OBVIOUS
  <2> HIDE DEF g, T
  <2>4. ASSUME NEW i \in 1..(n + 1) PROVE g[i] = Val(g, i)
    <3>1. g[i - 1] = f[i - 1]
      BY <2>2
    <3>2. CASE i = n + 1
      BY <2>3, <3>1, <3>2
    <3>3. CASE i \in 1..n
      BY <2>1, <2>2, <3>1, <3>3
    <3> QED
      BY <3>2, <3>3
  <2>5. g[0] = Zero
    BY <2>1, <2>2
  <2>6. Upto(g, n + 1)
    BY <2>4, <2>5
  <2> QED
    BY <2>6
<1>3. Len(cs) \in T
  <2> HIDE DEF T
  <2>1. Nat \subseteq T
    BY <1>1, <1>2, Induction
  <2> QED
    BY <2>1
<1> DEFINE Fix(k) == k = [i \in 0..Len(cs) |-> IF i = 0 THEN Zero ELSE Val(k, i)]
<1>4. \E k : Fix(k)
  <2>1. PICK f : Upto(f, Len(cs))
    BY <1>3
  <2> DEFINE k == [i \in 0..Len(cs) |-> f[i]]
             m == [i \in 0..Len(cs) |-> IF i = 0 THEN Zero ELSE Val(k, i)]
  <2>2. \A i \in 0..Len(cs) : k[i] = f[i]
    OBVIOUS
  <2>3. ASSUME NEW i \in 0..Len(cs) PROVE f[i] = IF i = 0 THEN Zero ELSE Val(k, i)
    <3>1. i # 0 => k[i - 1] = f[i - 1]
      BY <2>2
    <3> HIDE DEF k
    <3> QED
      BY <2>1, <3>1
  <2>4. k = m
    BY <2>3
  <2> QED
    BY <2>4
<1> DEFINE K == CHOOSE k : Fix(k)
<1>5. Fix(K)
  BY <1>4
<1>6. Editions(lines, cs) = K
  BY DEF Editions, Zero
<1> HIDE DEF K, Val
<1>7. \A i \in 0..Len(cs) : K[i] = IF i = 0 THEN Zero ELSE Val(K, i)
  BY <1>5
<1>8. K[0] = Zero /\ \A i \in 1..Len(cs) : K[i] = Val(K, i)
  BY <1>7
<1> QED
  BY <1>6, <1>8 DEF Val, Zero


\* The two parts of a text whose beginning is still that of the base.
LEMMA SplitText ==
    ASSUME NEW X, NEW lines \in Seq(X), NEW tail \in Seq(X), NEW j \in 0..Len(lines), NEW s \in 0..j,
           NEW old, old = SubSeq(lines, 1, j) \o tail
    PROVE  /\ SubSeq(old, 1, s) = SubSeq(lines, 1, s)
           /\ SubSeq(old, s + 1, Len(old)) = SubSeq(lines, s + 1, j) \o tail
<1> DEFINE A == SubSeq(lines, 1, j)
<1>1. A \in Seq(X) /\ Len(A) = j /\ \A i \in 1..j : A[i] = lines[i]
  OBVIOUS
<1>2. old \in Seq(X) /\ Len(old) = j + Len(tail)
  BY <1>1
<1>3. /\ \A i \in 1..j : old[i] = lines[i]
      /\ \A i \in (j + 1)..Len(old) : old[i] = tail[i - j]
  BY <1>1
<1> HIDE DEF A
<1>4. SubSeq(old, 1, s) = SubSeq(lines, 1, s)
  <2>1. SubSeq(old, 1, s) \in Seq(X) /\ SubSeq(lines, 1, s) \in Seq(X)
    BY <1>2
  <2>2. Len(SubSeq(old, 1, s)) = s /\ Len(SubSeq(lines, 1, s)) = s
    BY <1>2
  <2>3. \A i \in 1..s : SubSeq(old, 1, s)[i] = SubSeq(lines, 1, s)[i]
    BY <1>2, <1>3
  <2> QED
    BY <2>1, <2>2, <2>3, SeqEqual
<1>5. SubSeq(old, s + 1, Len(old)) = SubSeq(lines, s + 1, j) \o tail
  <2> DEFINE L == SubSeq(old, s + 1, Len(old))
             B == SubSeq(lines, s + 1, j)
             R == B \o tail
  <2>1. B \in Seq(X) /\ Len(B) = j - s /\ \A i \in 1..(j - s) : B[i] = lines[s + i]
    OBVIOUS
  <2>2. L \in Seq(X) /\ Len(L) = Len(old) - s /\ \A i \in 1..(Len(old) - s) : L[i] = old[s + i]
    BY <1>2
  <2> HIDE DEF B, L
  <2>3. R \in Seq(X) /\ Len(R) = (j - s) + Len(tail)
    BY <2>1, ConcatProperties
  <2>4. ASSUME NEW i \in 1..Len(R) PROVE L[i] = R[i]
    <3>1. CASE i <= j - s
      BY <1>2, <1>3, <2>1, <2>2, <2>3, <3>1
    <3>2. CASE i > j - s
      <4>1. R[i] = tail[i - (j - s)]
        BY <2>1, <2>3, <3>2
      <4>2. L[i] = old[s + i]
        BY <1>2, <2>2, <2>3
      <4>3. s + i \in (j + 1)..Len(old)
        BY <1>2, <2>3, <3>2
      <4>4. old[s + i] = tail[(s + i) - j] /\ (s + i) - j = i - (j - s)
        BY <1>3, <2>3, <4>3
      <4> QED
        BY <4>1, <4>2, <4>4
    <3> QED
      BY <2>3, <3>1, <3>2
  <2>5. Len(L) = Len(R)
    BY <1>2, <2>2, <2>3
  <2> HIDE DEF R
  <2>6. L = R
    BY <2>2, <2>3, <2>4, <2>5, SeqEqual
  <2> QED
    BY <2>6 DEF L, R, B
<1> QED
  BY <1>4, <1>5

HunkType(X, lines) == [ok : BOOLEAN, j : 0..Len(lines), kept : Seq(X)]

\* One command: Hunk, on what is left of the base and what is kept, does what ed
\* does to the text they stand for.
LEMMA HunkIsEdited ==
    ASSUME NEW X, NEW lines \in Seq(X), NEW acc \in HunkType(X, lines), NEW c \in Commands,
           c.insert \in Seq(X), NEW old,
           acc.ok => old = SubSeq(lines, 1, acc.j) \o acc.kept
    PROVE  LET h == Hunk(acc, c, lines) IN
           /\ h \in HunkType(X, lines)
           /\ h.ok => Edited(old, c, Len(lines)) = SubSeq(lines, 1, h.j) \o h.kept
<1> DEFINE h == Hunk(acc, c, lines)
           last == Len(lines)
           s == Address(c.start, last)
           e == Address(c.end, last)
           bad == ~acc.ok \/ ~Accepted(c, last) \/ e > last \/ e > acc.j
<1>1. acc.ok \in BOOLEAN /\ acc.j \in 0..last /\ acc.kept \in Seq(X)
  BY DEF HunkType
<1>2. s \in Nat /\ e \in Nat /\ c.act \in {"append", "change", "delete"}
  BY DEF Commands, Address, Dollar
<1>3. CASE bad
  <2>1. h = [acc EXCEPT !.ok = FALSE]
    BY <1>3 DEF Hunk
  <2> QED
    BY <2>1 DEF HunkType
<1>4. CASE ~bad
  <2> DEFINE left == IF c.act = "append" THEN s ELSE s - 1
             rest == SubSeq(lines, e + 1, acc.j)
  <2>1. h = [ok |-> TRUE, j |-> left, kept |-> c.insert \o rest \o acc.kept]
    BY <1>4 DEF Hunk
  <2>2. s <= e /\ e <= acc.j /\ (s = 0 => c.act = "append") /\ (c.act = "append" => s = e)
    BY <1>1, <1>2, <1>4 DEF Accepted
  <2>3. left \in 0..acc.j /\ e \in 0..acc.j
    BY <1>1, <1>2, <2>2
  <2>4. rest \in Seq(X) /\ c.insert \o rest \o acc.kept \in Seq(X)
    BY <1>1, <1>2
  <2>5. old = SubSeq(lines, 1, acc.j) \o acc.kept
    BY <1>4
  <2>6. Edited(old, c, last) = SubSeq(old, 1, left) \o c.insert \o SubSeq(old, e + 1, Len(old))
    BY <2>2 DEF Edited
  <2>7. PICK j \in 0..Len(lines), k \in Seq(X), q \in Seq(X) :
            j = acc.j /\ k = acc.kept /\ q = c.insert
    BY <1>1
  <2>0. PICK m \in 0..j, n \in 0..j : m = left /\ n = e
    BY <2>3, <2>7
  <2>8. old = SubSeq(lines, 1, j) \o k
    BY <2>5, <2>7
  <2>9. SubSeq(old, 1, m) = SubSeq(lines, 1, m)
    <3>1. k \in Seq(X) /\ j \in 0..Len(lines) /\ m \in 0..j /\ lines \in Seq(X)
      BY <2>0, <2>7
    <3>2. SubSeq(SubSeq(lines, 1, j) \o k, 1, m) = SubSeq(lines, 1, m)
      BY ONLY <3>1, SplitText, Zenon
    <3> QED
      BY ONLY <2>8, <3>2, Zenon
  <2>10. SubSeq(old, n + 1, Len(old)) = SubSeq(lines, n + 1, j) \o k
    <3>1. k \in Seq(X) /\ j \in 0..Len(lines) /\ n \in 0..j /\ lines \in Seq(X)
      BY <2>0, <2>7
    <3> QED
      BY ONLY <2>8, <3>1, SplitText, SMTT(60)
  <2>11. PICK p \in Seq(X), w \in Seq(X) : p = SubSeq(lines, 1, m) /\ w = SubSeq(lines, n + 1, j)
    <3>1. SubSeq(lines, 1, m) \in Seq(X) /\ SubSeq(lines, n + 1, j) \in Seq(X)
      BY <2>0, <2>7
    <3> QED
      BY <3>1, Zenon
  <2>12. (p \o q) \o (w \o k) = p \o ((q \o w) \o k)
    <3>1. p \in Seq(X) /\ w \in Seq(X) /\ q \in Seq(X) /\ k \in Seq(X)
      BY <2>7, <2>11
    <3> QED
      BY ONLY <3>1
  <2>13. Edited(old, c, last) = (p \o q) \o (w \o k)
    BY <2>0, <2>6, <2>7, <2>9, <2>10, <2>11
  <2>14. h.ok /\ h.j = m /\ h.kept = (q \o w) \o k
    <3>1. w = rest
      BY <2>0, <2>7, <2>11
    <3> HIDE DEF h, left, rest
    <3> QED
      BY <2>0, <2>1, <2>7, <3>1
  <2>15. h \in HunkType(X, lines)
    BY <1>1, <2>1, <2>3, <2>4 DEF HunkType
  <2> HIDE DEF h
  <2>16. Edited(old, c, last) = SubSeq(lines, 1, h.j) \o h.kept
    BY <2>11, <2>12, <2>13, <2>14
  <2> QED
    BY <2>15, <2>16 DEF h
<1> QED
  BY <1>3, <1>4

Inserting(X) == {c \in Commands : c.insert \in Seq(X)}

\* Any number of commands: the text the hunks stand for is the one ed has, if "$"
\* is in the first alone, and it is made of lines of the base and of the commands.
LEMMA HunksAreEditions ==
    ASSUME NEW X, NEW lines \in Seq(X), NEW cs \in Seq(Inserting(X))
    PROVE  \A i \in 0..Len(cs) :
              LET h == Hunks(lines, cs)[i] IN
              /\ h \in HunkType(X, lines)
              /\ h.ok /\ DollarFirst(cs) => Editions(lines, cs)[i] = SubSeq(lines, 1, h.j) \o h.kept
<1> DEFINE H == Hunks(lines, cs)
           E == Editions(lines, cs)
           Same(i) == /\ H[i] \in HunkType(X, lines)
                      /\ H[i].ok /\ DollarFirst(cs) => E[i] = SubSeq(lines, 1, H[i].j) \o H[i].kept
           T == {i \in Nat : i <= Len(cs) => Same(i)}
<1>1. H[0] = [ok |-> TRUE, j |-> Len(lines), kept |-> <<>>]
  BY HunksDef
<1>2. E[0] = lines
  BY EditionsDef
<1>3. ASSUME NEW i \in 1..Len(cs)
      PROVE  H[i] = Hunk(H[i - 1], cs[i], lines) /\ E[i] = Edited(E[i - 1], cs[i], Len(E[i - 1]))
  <2>1. Len(cs) \in Nat
    OBVIOUS
  <2>2. \A k \in 1..Len(cs) : H[k] = Hunk(H[k - 1], cs[k], lines)
    BY <2>1, HunksDef, Zenon
  <2>3. \A k \in 1..Len(cs) : E[k] = Edited(E[k - 1], cs[k], Len(E[k - 1]))
    <3>1. \A k \in 1..Len(cs) :
              Editions(lines, cs)[k] = Edited(Editions(lines, cs)[k - 1], cs[k],
                                              Len(Editions(lines, cs)[k - 1]))
      BY ONLY <2>1, EditionsDef
    <3> QED
      BY ONLY <3>1
  <2> QED
    BY <2>2, <2>3, Zenon
<1> HIDE DEF H, E
<1>4. Same(0)
  <2>1. H[0] \in HunkType(X, lines)
    BY <1>1 DEF HunkType
  <2>2. SubSeq(lines, 1, Len(lines)) \o <<>> = lines
    OBVIOUS
  <2> QED
    BY <1>1, <1>2, <2>1, <2>2
<1>5. ASSUME NEW i \in Nat, i + 1 <= Len(cs), Same(i) PROVE Same(i + 1)
  <2>1. i + 1 \in 1..Len(cs) /\ (i + 1) - 1 = i
    BY <1>5
  <2>2. cs[i + 1] \in Commands /\ cs[i + 1].insert \in Seq(X)
    BY <2>1 DEF Inserting
  <2>3. /\ H[i + 1] = Hunk(H[i], cs[i + 1], lines)
        /\ E[i + 1] = Edited(E[i], cs[i + 1], Len(E[i]))
    BY <1>3, <2>1
  <2>4. PICK acc \in HunkType(X, lines), c \in Commands : acc = H[i] /\ c = cs[i + 1]
    BY <1>5, <2>2
  <2> DEFINE old == SubSeq(lines, 1, acc.j) \o acc.kept
             h == Hunk(acc, c, lines)
  <2>5. /\ h \in HunkType(X, lines)
        /\ h.ok => Edited(old, c, Len(lines)) = SubSeq(lines, 1, h.j) \o h.kept
    <3>1. c.insert \in Seq(X) /\ lines \in Seq(X) /\ acc \in HunkType(X, lines) /\ c \in Commands
      BY <2>2, <2>4
    <3>2. PICK was : was = old
      OBVIOUS
    <3>3. acc.ok => was = SubSeq(lines, 1, acc.j) \o acc.kept
      BY <3>2
    <3>4. h.ok => Edited(was, c, Len(lines)) = SubSeq(lines, 1, h.j) \o h.kept
      BY ONLY <3>1, <3>3, HunkIsEdited
    <3>5. h \in HunkType(X, lines)
      BY ONLY <3>1, <3>3, HunkIsEdited
    <3> QED
      BY ONLY <3>2, <3>4, <3>5
  <2>6. h.ok => acc.ok
    BY <2>4 DEF Hunk, HunkType
  <2>7. ASSUME DollarFirst(cs) PROVE Edited(E[i], c, Len(E[i])) = Edited(E[i], c, Len(lines))
    <3>1. CASE i = 0
      BY <1>2, <3>1
    <3>2. CASE i # 0
      <4>1. i + 1 \in 2..Len(cs)
        BY <1>5, <3>2
      <4>2. c.start # Dollar /\ c.end # Dollar
        BY <2>4, <2>7, <4>1 DEF DollarFirst
      <4> QED
        BY <4>2 DEF Edited, Address
    <3> QED
      BY <3>1, <3>2
  <2>8. acc.ok /\ DollarFirst(cs) => E[i] = old
    BY <1>5, <2>4
  <2>9. H[i + 1] = h /\ E[i + 1] = Edited(E[i], c, Len(E[i]))
    BY <2>3, <2>4
  <2> HIDE DEF old, h
  <2> QED
    BY <2>5, <2>6, <2>7, <2>8, <2>9
<1>6. 0 \in T
  BY <1>4
<1>7. ASSUME NEW i \in Nat, i \in T PROVE i + 1 \in T
  <2> HIDE DEF Same
  <2> QED
    BY <1>5, <1>7
<1>8. Nat \subseteq T
  <2> HIDE DEF T
  <2> QED
    BY <1>6, <1>7, Induction
<1>9. ASSUME NEW i \in 0..Len(cs) PROVE Same(i)
  <2> HIDE DEF Same
  <2> QED
    BY <1>8
<1> QED
  BY <1>9 DEF H, E

\* diff::apply does what ed does, and invents no line.
LEMMA PatchIsEd ==
    ASSUME NEW X, NEW lines \in Seq(X), NEW cs \in Seq(Inserting(X))
    PROVE  /\ Patch(lines, cs).text \in Seq(X)
           /\ Patch(lines, cs).ok /\ DollarFirst(cs) => Patch(lines, cs).text = Ed(lines, cs)
<1> DEFINE h == Hunks(lines, cs)[Len(cs)]
<1>1. Len(cs) \in 0..Len(cs)
  OBVIOUS
<1>2. h \in HunkType(X, lines) /\ (h.ok /\ DollarFirst(cs) => Ed(lines, cs) = SubSeq(lines, 1, h.j) \o h.kept)
  BY <1>1, HunksAreEditions DEF Ed
<1>3. Patch(lines, cs).ok = h.ok /\ Patch(lines, cs).text = SubSeq(lines, 1, h.j) \o h.kept
  BY DEF Patch
<1> HIDE DEF h
<1>4. h.j \in 0..Len(lines) /\ h.kept \in Seq(X)
  BY <1>2 DEF HunkType
<1>5. SubSeq(lines, 1, h.j) \in Seq(X)
  BY <1>4
<1>6. SubSeq(lines, 1, h.j) \o h.kept \in Seq(X)
  BY <1>4, <1>5
<1> QED
  BY <1>2, <1>3, <1>6

IsHunk(h, j, tail) == h = [ok |-> TRUE, j |-> j, kept |-> tail]

\* A command whose range ends where the untouched part of the base does.
LEMMA HunkReplaces ==
    ASSUME NEW X, NEW lines \in Seq(X), NEW acc, NEW j \in 1..Len(lines), NEW tail \in Seq(X),
           NEW ins \in Seq(X), NEW act, NEW from, NEW end, NEW s \in 1..j,
           Address(from, Len(lines)) = s, Address(end, Len(lines)) = j, IsHunk(acc, j, tail),
           act # "append"
    PROVE  IsHunk(Hunk(acc, Command(act, from, end, ins), lines), s - 1, ins \o tail)
<1>1. PICK c : c = Command(act, from, end, ins)
  OBVIOUS
<1>2. c.act = act /\ c.start = from /\ c.end = end /\ c.insert = ins
  BY <1>1 DEF Command
<1>3. acc.ok = TRUE /\ acc.j = j /\ acc.kept = tail
  BY DEF IsHunk
<1>4. Accepted(c, Len(lines))
  BY <1>2 DEF Accepted
<1>5. ~(j > Len(lines)) /\ ~(j > acc.j)
  BY <1>3
<1>6. Hunk(acc, c, lines) = [ok |-> TRUE, j |-> s - 1, kept |-> ins \o SubSeq(lines, j + 1, j) \o tail]
  BY <1>2, <1>3, <1>4, <1>5 DEF Hunk
<1>7. SubSeq(lines, j + 1, j) = <<>>
  OBVIOUS
<1>8. ins \o SubSeq(lines, j + 1, j) \o tail = ins \o tail
  BY <1>7
<1> QED
  BY <1>1, <1>6, <1>8 DEF IsHunk

\* An append to the last line of that part.
LEMMA HunkAppends ==
    ASSUME NEW X, NEW lines \in Seq(X), NEW acc, NEW j \in 1..Len(lines), NEW tail \in Seq(X),
           NEW ins \in Seq(X), NEW act, NEW from, NEW end, NEW s \in 1..j,
           Address(from, Len(lines)) = s, Address(end, Len(lines)) = j, IsHunk(acc, j, tail),
           act = "append", s = j
    PROVE  IsHunk(Hunk(acc, Command(act, from, end, ins), lines), s, ins \o tail)
<1>1. PICK c : c = Command(act, from, end, ins)
  OBVIOUS
<1>2. c.act = act /\ c.start = from /\ c.end = end /\ c.insert = ins
  BY <1>1 DEF Command
<1>3. acc.ok = TRUE /\ acc.j = j /\ acc.kept = tail
  BY DEF IsHunk
<1>4. Accepted(c, Len(lines))
  BY <1>2 DEF Accepted
<1>5. ~(j > Len(lines)) /\ ~(j > acc.j)
  BY <1>3
<1>6. Hunk(acc, c, lines) = [ok |-> TRUE, j |-> s, kept |-> ins \o SubSeq(lines, j + 1, j) \o tail]
  BY <1>2, <1>3, <1>4, <1>5 DEF Hunk
<1>7. SubSeq(lines, j + 1, j) = <<>>
  OBVIOUS
<1>8. ins \o SubSeq(lines, j + 1, j) \o tail = ins \o tail
  BY <1>7
<1> QED
  BY <1>1, <1>6, <1>8 DEF IsHunk

\* An honest server's diff turns any document with a signature into the one it
\* promises: what is after the body goes, and the new lines come from the back.
LEMMA DiffPatches ==
    ASSUME NEW X, NEW lines \in Seq(X), Len(lines) >= 3, NEW to \in Seq(X), Len(to) >= 2, NEW t
    PROVE  /\ Patch(lines, Diff(t, to).commands).ok
           /\ Patch(lines, Diff(t, to).commands).text = to
<1> DEFINE last == Len(lines)
           rest == SubSeq(to, 3, Len(to))
           c1 == Command("delete", 3, Dollar, <<>>)
           c2 == Command("append", 2, 2, rest)
           c3 == Command("change", 2, 2, <<to[2]>>)
           c4 == Command("change", 1, 1, <<to[1]>>)
           cs == <<c1, c2, c3, c4>>
           H == Hunks(lines, cs)
<1>1. Diff(t, to).commands = cs
  BY DEF Diff, Script
<1>2. Len(cs) = 4 /\ cs[1] = c1 /\ cs[2] = c2 /\ cs[3] = c3 /\ cs[4] = c4
  OBVIOUS
<1>3. rest \in Seq(X) /\ Len(rest) = Len(to) - 2 /\ \A i \in 1..Len(rest) : rest[i] = to[i + 2]
  <2>1. \A i \in 3..Len(to) : to[i] \in X
    OBVIOUS
  <2>2. /\ rest \in Seq(X) /\ Len(rest) = IF 3 <= Len(to) THEN Len(to) - 3 + 1 ELSE 0
        /\ \A i \in 1..(Len(to) - 3 + 1) : rest[i] = to[3 + i - 1]
    BY <2>1, SubSeqProperties
  <2> HIDE DEF rest
  <2>3. Len(rest) = Len(to) - 2
    <3>1. PICK n \in Nat : n = Len(to)
      OBVIOUS
    <3>2. n >= 2 /\ Len(rest) = IF 3 <= n THEN n - 3 + 1 ELSE 0
      BY <2>2, <3>1
    <3>3. Len(rest) = n - 2
      BY ONLY <3>1, <3>2
    <3> QED
      BY ONLY <3>1, <3>3
  <2>4. ASSUME NEW i \in 1..Len(rest) PROVE rest[i] = to[i + 2]
    <3>1. i \in 1..(Len(to) - 3 + 1) /\ 3 + i - 1 = i + 2
      BY <2>3
    <3> QED
      BY <2>2, <3>1
  <2> QED
    BY <2>2, <2>3, <2>4
<1>4. last \in Nat /\ last >= 3
  OBVIOUS
<1>5. IsHunk(H[0], last, <<>>)
  BY <1>2, HunksDef DEF IsHunk
<1>6. /\ H[1] = Hunk(H[0], c1, lines) /\ H[2] = Hunk(H[1], c2, lines)
      /\ H[3] = Hunk(H[2], c3, lines) /\ H[4] = Hunk(H[3], c4, lines)
  <2>1. Len(cs) \in Nat
    BY <1>2
  <2>2. \A i \in 1..Len(cs) : H[i] = Hunk(H[i - 1], cs[i], lines)
    BY <2>1, HunksDef, Zenon
  <2> HIDE DEF c1, c2, c3, c4, cs, H
  <2> QED
    BY <1>2, <2>2
<1> HIDE DEF H, cs, rest
<1>7. /\ Address(3, last) = 3 /\ Address(Dollar, last) = last
      /\ Address(2, last) = 2 /\ Address(1, last) = 1
  BY <1>4 DEF Address, Dollar
<1>8. "delete" # "append" /\ "change" # "append"
  OBVIOUS
<1>9. <<to[1]>> \in Seq(X) /\ <<to[2]>> \in Seq(X) /\ <<>> \in Seq(X) /\ <<to[2]>> \o rest \in Seq(X)
  BY <1>3
<1>10. /\ last \in 1..last /\ 3 \in 1..last /\ 2 \in 1..last /\ 1 \in 1..last
       /\ 2 \in 1..2 /\ 1 \in 1..1
  BY <1>4
<1>14. IsHunk(H[1], 2, <<>>)
  <2>1. IsHunk(Hunk(H[0], c1, lines), 3 - 1, <<>> \o <<>>)
    BY <1>5, <1>7, <1>8, <1>9, <1>10, HunkReplaces, Zenon
  <2>2. 3 - 1 = 2 /\ <<>> \o <<>> = <<>>
    OBVIOUS
  <2> QED
    BY <1>6, <2>1, <2>2
<1>18. IsHunk(H[2], 2, rest)
  <2>1. IsHunk(Hunk(H[1], c2, lines), 2, rest \o <<>>)
    BY <1>3, <1>7, <1>9, <1>10, <1>14, HunkAppends, Zenon
  <2>2. rest \o <<>> = rest
    BY <1>3
  <2> QED
    BY <1>6, <2>1, <2>2
<1>19. IsHunk(H[3], 1, <<to[2]>> \o rest)
  <2>1. IsHunk(Hunk(H[2], c3, lines), 2 - 1, <<to[2]>> \o rest)
    BY <1>3, <1>7, <1>8, <1>9, <1>10, <1>18, HunkReplaces, Zenon
  <2> QED
    BY <1>6, <2>1
<1>15. IsHunk(H[4], 0, <<to[1]>> \o (<<to[2]>> \o rest))
  <2>1. IsHunk(Hunk(H[3], c4, lines), 1 - 1, <<to[1]>> \o (<<to[2]>> \o rest))
    BY <1>7, <1>8, <1>9, <1>10, <1>19, HunkReplaces, Zenon
  <2> QED
    BY <1>6, <2>1
<1>11. <<to[1]>> \o (<<to[2]>> \o rest) = to
  <2> DEFINE w == <<to[1]>> \o (<<to[2]>> \o rest)
  <2> HIDE DEF rest
  <2>1. w \in Seq(X) /\ Len(w) = Len(to)
    BY <1>3
  <2>2. ASSUME NEW i \in 1..Len(to) PROVE w[i] = to[i]
    <3>1. CASE i = 1
      BY <1>3, <3>1
    <3>2. CASE i = 2
      BY <1>3, <3>2
    <3>3. CASE i > 2
      <4>1. w[i] = rest[i - 2]
        BY <1>3, <3>3
      <4> QED
        BY <1>3, <3>3, <4>1
    <3>4. i = 1 \/ i = 2 \/ i > 2
      OBVIOUS
    <3> QED
      BY ONLY <3>1, <3>2, <3>3, <3>4
  <2> HIDE DEF w
  <2>3. w = to
    BY <2>1, <2>2, SeqEqual
  <2> QED
    BY <2>3 DEF w
<1>12. SubSeq(lines, 1, 0) \o to = to
  OBVIOUS
<1>13. Patch(lines, cs) = [ok |-> H[4].ok, text |-> SubSeq(lines, 1, H[4].j) \o H[4].kept]
  BY <1>2 DEF Patch, H
<1>16. H[4].ok = TRUE /\ H[4].j = 0 /\ H[4].kept = to
  BY <1>11, <1>15 DEF IsHunk
<1>17. Patch(lines, cs).ok /\ Patch(lines, cs).text = SubSeq(lines, 1, 0) \o to
  BY <1>13, <1>16
<1> QED
  BY <1>1, <1>12, <1>17

-----------------------------------------------------------------------------
(***************************************************************************)
(* The inductive invariant.                                                *)
(***************************************************************************)

Places == { "down", "load", "open", "whole", "diff", "patch", "certs", "verify", "store certs",
            "store consensus", "got", "up" }

DirectoryTypeOK ==
    /\ clock \in Nat /\ clock >= Interval
    /\ dir \in [text : Seq(Good), certs : SUBSET Certs]
    /\ files \in [consensus : Seq(Good), certs : SUBSET Certs]
    /\ pc \in Places /\ job \in {"boot", "refresh"} /\ via \in {"guard", "mirror"}
    /\ full \in BOOLEAN /\ now \in Nat
    /\ base \in Seq(Good) /\ text \in Seq(Good) /\ certs \in SUBSET Certs
    /\ script \in [from : Seq(Lines), to : Seq(Good), commands : Seq(Inserting(Good))]
    /\ next \in Nat /\ backoff \in Nat /\ backoff <= RetryMax
    /\ crashes \in Nat /\ odd \in Nat

\* A document that is kept has been verified.
Verified(t) == HasSignature(t) /\ Published(t)

Trusted ==
    /\ dir.text # NoText => Verified(dir.text)
    /\ files.consensus # NoText => Verified(files.consensus)
    /\ base # NoText => Verified(base)
    /\ pc \in {"store certs", "store consensus", "got"} => Verified(text)

\* A refresh replaces a directory that is there, and a diff is from the base.
InJob ==
    /\ (job = "refresh" \/ pc = "up") => dir.text # NoText
    /\ pc = "patch" => script.from = SignedPart(base)

\* How far off the next try may be, however old the directory is.
Soon ==
    (pc = "up" /\ Interval + (Interval * 3) \div 4 <= Life + RetryMax) =>
        (next <= clock + RetryMax \/ next <= valid_until(dir.text) + RetryMax)

DirectoryInv == DirectoryTypeOK /\ Trusted /\ InJob /\ Soon

\* What is published is so for good, and so is a good line.
LEMMA GoodGrows ==
    ASSUME clock \in Nat, clock' \in Nat, clock <= clock'
    PROVE  /\ Times \subseteq Times' /\ Good \subseteq Good'
           /\ Seq(Good) \subseteq Seq(Good') /\ Seq(Inserting(Good)) \subseteq Seq(Inserting(Good'))
<1>1. Times \subseteq Times'
  BY DEF Times
<1>2. Good \subseteq Good'
  BY <1>1 DEF Good
<1>3. Seq(Good) \subseteq Seq(Good')
  BY <1>2
<1>4. Inserting(Good) \subseteq Inserting(Good')
  BY <1>3 DEF Inserting
<1> QED
  BY <1>1, <1>2, <1>3, <1>4

\* Published documents have their time first.
LEMMA VerifiedTime ==
    ASSUME clock \in Nat, NEW t \in Seq(Good), Verified(t)
    PROVE  valid_after(t) \in Nat /\ t # NoText /\ Len(t) >= 3
<1>1. PICK e \in Times : SignedPart(t) = Body(e)
  BY DEF Verified, Published
<1>2. e \in Nat
  BY <1>1, CopiesGood
<1>3. valid_after(t) = e /\ Len(t) >= 3
  BY <1>1, <1>2, PublishedIs DEF Verified
<1> QED
  BY <1>2, <1>3 DEF NoText

\* What an invariant state says of the consensus in use and of the cache.
LEMMA InvAuthentic == DirectoryInv => Authentic
BY DEF DirectoryInv, Trusted, Verified, Published, Authentic, Genuine

\* What it says of a diff.
LEMMA InvDiffIsEd == DirectoryInv => DiffIsEd
<1> SUFFICES ASSUME DirectoryInv, pc = "patch"
             PROVE  LET p == Patch(base, script.commands)
                    IN  /\ p.ok /\ DollarFirst(script.commands)
                              => p.text = Ed(base, script.commands)
                        /\ (\E t, u \in Times : \E to \in Copies(u) : script = Diff(t, to))
                              => Applies(base, script)
  BY DEF DiffIsEd
<1>1. base \in Seq(Good) /\ script.commands \in Seq(Inserting(Good)) /\ clock \in Nat
  BY DEF DirectoryInv, DirectoryTypeOK
<1>2. Patch(base, script.commands).ok /\ DollarFirst(script.commands)
        => Patch(base, script.commands).text = Ed(base, script.commands)
  BY <1>1, PatchIsEd
<1>3. ASSUME NEW t \in Times, NEW u \in Times, NEW to \in Copies(u), script = Diff(t, to)
      PROVE  Applies(base, script)
  <2>1. script.from = SignedPart(base) /\ script.from = Body(t) /\ script.to = to
    BY <1>3 DEF DirectoryInv, InJob, Diff, Script
  <2>2. t \in Nat /\ to \in Seq(Good) /\ Len(to) >= 2
    BY <1>1, CopiesGood
  <2>3. Len(base) >= 2
    BY <1>1, <2>1, <2>2, PublishedIs
  <2>4. base # NoText
    BY <2>3 DEF NoText
  <2>5. Verified(base)
    BY <2>4 DEF DirectoryInv, Trusted
  <2>6. Len(base) >= 3
    BY <1>1, <2>5, VerifiedTime
  <2>7. Patch(base, Diff(t, to).commands).ok
    BY <1>1, <2>2, <2>6, DiffPatches
  <2>8. Patch(base, Diff(t, to).commands).text = to
    BY <1>1, <2>2, <2>6, DiffPatches
  <2> QED
    BY <1>3, <2>1, <2>7, <2>8 DEF Applies
<1> QED
  BY <1>2, <1>3

\* What it says of the next refresh.
LEMMA InvNeverSleepsThrough == DirectoryInv => NeverSleepsThrough
<1> SUFFICES ASSUME DirectoryInv, Interval + (Interval * 3) \div 4 <= Life + RetryMax, pc = "up",
                    ~is_live(dir.text, clock)
             PROVE  next <= clock + RetryMax
  BY DEF NeverSleepsThrough
<1>1. clock \in Nat /\ next \in Nat /\ dir.text \in Seq(Good) /\ dir.text # NoText
  BY DEF DirectoryInv, DirectoryTypeOK, InJob
<1>2. RetryMax \in Nat /\ Life \in Nat
  BY DirectoryAssumption, ConsensusAssumption
<1>3. Verified(dir.text)
  BY <1>1 DEF DirectoryInv, Trusted
<1>4. valid_after(dir.text) \in Nat
  BY <1>1, <1>3, VerifiedTime
<1>5. next <= clock + RetryMax \/ next <= valid_until(dir.text) + RetryMax
  BY DEF DirectoryInv, Soon
<1>6. clock >= valid_until(dir.text)
  BY <1>1, <1>2, <1>4 DEF is_live, valid_until
<1>7. valid_until(dir.text) \in Nat
  BY <1>2, <1>4 DEF valid_until
<1> QED
  BY <1>1, <1>2, <1>5, <1>6, <1>7

-----------------------------------------------------------------------------
(***************************************************************************)
(* Each step keeps it.  First what several actions have in common.         *)
(***************************************************************************)

\* While the clock stands the documents that count are the same.
LEMMA SameClock ==
    ASSUME UNCHANGED clock
    PROVE  Times' = Times /\ Good' = Good
<1>1. Times' = Times
  BY DEF Times
<1> QED
  BY <1>1 DEF Good

\* No document, no script, and the numbers.
LEMMA EmptyType ==
    /\ NoText \in Seq(Good)
    /\ NoScript \in [from : Seq(Lines), to : Seq(Good), commands : Seq(Inserting(Good))]
    /\ NoDir \in [text : Seq(Good), certs : SUBSET Certs] /\ NoDir.text = NoText
    /\ RetryMin \in Nat /\ RetryMax \in Nat /\ ExpiredRetry \in Nat /\ NotModifiedRetry \in Nat
    /\ RetryMin <= RetryMax /\ ExpiredRetry <= RetryMax /\ NotModifiedRetry <= RetryMax
    /\ Life \in Nat /\ Interval \in Nat
<1>1. NoText \in Seq(Good)
  BY DEF NoText
<1>2. <<>> \in Seq(Lines) /\ <<>> \in Seq(Inserting(Good))
  OBVIOUS
<1>3. NoScript \in [from : Seq(Lines), to : Seq(Good), commands : Seq(Inserting(Good))]
  BY <1>1, <1>2 DEF NoScript, Script, NoText
<1>4. NoDir \in [text : Seq(Good), certs : SUBSET Certs] /\ NoDir.text = NoText
  BY <1>1 DEF NoDir
<1> QED
  BY <1>1, <1>3, <1>4, DirectoryAssumption, ConsensusAssumption

\* Certificates that count are certificates.
LEMMA ParsedCerts ==
    ASSUME NEW C \in SUBSET Certs, NEW n
    PROVE  parse_key_certificates(C, n) \in SUBSET Certs
BY DEF parse_key_certificates

\* The backoff doubles up to its limit.
LEMMA BackoffType ==
    ASSUME NEW b \in Nat
    PROVE  Min({b * 2, RetryMax}) \in Nat /\ Min({b * 2, RetryMax}) <= RetryMax
<1>1. {b * 2, RetryMax} \in SUBSET Nat /\ {b * 2, RetryMax} # {}
  BY EmptyType
<1> QED
  BY <1>1, MinIsLeast

\* An error is survived.
LEMMA FailKeeps ==
    ASSUME DirectoryInv, Fail, odd' \in Nat
    PROVE  DirectoryInv'
<1> USE DEF DirectoryInv
<1>1. UNCHANGED <<clock, dir, files, job, crashes>> /\ Times' = Times /\ Good' = Good
  BY SameClock DEF Fail
<1>2. base' = NoText /\ text' = NoText /\ certs' = {} /\ script' = NoScript /\ now' = 0 /\ full' = FALSE
  BY DEF Fail
<1>3. /\ pc' \in {"load", "down", "up"} /\ via' \in {"guard", "mirror"}
      /\ pc' = "up" => job = "refresh" /\ RetryLater
      /\ pc' # "up" => UNCHANGED <<next, backoff>>
  BY DEF Fail, DirectoryTypeOK
<1>4. /\ next' \in Nat /\ backoff' \in Nat /\ backoff' <= RetryMax
      /\ pc' = "up" => next' <= clock + RetryMax
  <2>1. CASE pc' = "up"
    <3>1. PICK d \in Nat : d <= RetryMax /\ next' = clock + d
      BY <1>3, <2>1, EmptyType DEF RetryLater, DirectoryTypeOK
    <3>2. backoff' \in Nat /\ backoff' <= RetryMax
      BY <1>3, <2>1, BackoffType DEF RetryLater, DirectoryTypeOK
    <3> QED
      BY <3>1, <3>2, EmptyType DEF DirectoryTypeOK
  <2>2. CASE pc' # "up"
    BY <1>3, <2>2 DEF DirectoryTypeOK
  <2> QED
    BY <2>1, <2>2
<1>5. DirectoryTypeOK'
  BY <1>1, <1>2, <1>3, <1>4, EmptyType DEF DirectoryTypeOK, Places
<1>6. Trusted'
  BY <1>1, <1>2, <1>3 DEF Trusted, Verified, Published
<1>7. InJob'
  BY <1>1, <1>3 DEF InJob
<1>8. Soon'
  BY <1>1, <1>4 DEF Soon
<1> QED
  BY <1>5, <1>6, <1>7, <1>8

\* A document that was downloaded is no more than that.
LEMMA GotKeeps ==
    ASSUME DirectoryInv, NEW t \in Seq(Good), NEW where \in {"certs", "whole"}, Got(t, where),
           odd' \in Nat
    PROVE  DirectoryInv'
<1> USE DEF DirectoryInv
<1>1. /\ UNCHANGED <<clock, dir, files, job, via, full, now, certs, next, backoff, crashes>>
      /\ Times' = Times /\ Good' = Good
  BY SameClock DEF Got
<1>2. base' = NoText /\ text' = t /\ script' = NoScript /\ pc' = where
  BY DEF Got
<1>3. DirectoryTypeOK'
  BY <1>1, <1>2, EmptyType DEF DirectoryTypeOK, Places
<1>4. Trusted'
  BY <1>1, <1>2 DEF Trusted, Verified, Published
<1>5. InJob'
  BY <1>1, <1>2 DEF InJob
<1>6. Soon'
  BY <1>2 DEF Soon
<1> QED
  BY <1>3, <1>4, <1>5, <1>6

\* "Not modified".
LEMMA NotModifiedKeeps ==
    ASSUME DirectoryInv, NotModified, odd' \in Nat
    PROVE  DirectoryInv'
<1>1. CASE job = "refresh" /\ ~Fail
  <2> USE DEF DirectoryInv
  <2>1. /\ UNCHANGED <<clock, dir, files, job, backoff, crashes>> /\ Times' = Times /\ Good' = Good
        /\ next' = clock + NotModifiedRetry /\ pc' = "up" /\ Clear
    BY <1>1, SameClock DEF NotModified
  <2>7. /\ via' = "guard" /\ full' = FALSE /\ now' = 0 /\ base' = NoText /\ text' = NoText
        /\ certs' = {} /\ script' = NoScript
    BY <2>1 DEF Clear
  <2>8. next' \in Nat
    BY <2>1, EmptyType DEF DirectoryTypeOK
  <2>2. DirectoryTypeOK'
    BY <2>1, <2>7, <2>8, EmptyType DEF DirectoryTypeOK, Places
  <2>3. Trusted'
    BY <2>1 DEF Trusted, Verified, Published, Clear
  <2>4. InJob'
    BY <1>1, <2>1 DEF InJob
  <2>5. next' <= clock + RetryMax
    BY <2>1, EmptyType DEF DirectoryTypeOK
  <2>6. Soon'
    BY <2>1, <2>5 DEF Soon
  <2> QED
    BY <2>2, <2>3, <2>4, <2>6
<1>2. CASE job = "boot" /\ ~Fail
  <2> USE DEF DirectoryInv
  <2>1. /\ UNCHANGED <<clock, dir, files, job, via, now, text, script, next, backoff, crashes>>
        /\ Times' = Times /\ Good' = Good
        /\ full' = TRUE /\ base' = NoText /\ pc' = "whole"
        /\ certs' = parse_key_certificates(files.certs, now)
    BY <1>2, SameClock DEF NotModified
  <2>2. certs' \in SUBSET Certs
    BY <2>1, ParsedCerts DEF DirectoryTypeOK
  <2>3. DirectoryTypeOK'
    BY <2>1, <2>2, EmptyType DEF DirectoryTypeOK, Places
  <2>4. Trusted'
    BY <2>1 DEF Trusted, Verified, Published
  <2>5. InJob' /\ Soon'
    BY <2>1 DEF InJob, Soon
  <2> QED
    BY <2>3, <2>4, <2>5
<1>3. CASE Fail
  BY <1>3, FailKeeps
<1> QED
  BY <1>1, <1>2, <1>3 DEF DirectoryInv, DirectoryTypeOK

\* plan_refresh: the next refresh is before the document ends, or as soon after as
\* a refresh may be.
LEMMA PlanSoon ==
    ASSUME NEW t \in Nat, plan_refresh(t)
    PROVE  /\ next' \in Nat
           /\ Interval + (Interval * 3) \div 4 <= Life + RetryMax => next' <= t + Life + RetryMax
<1> DEFINE i == Interval + (Interval * 3) \div 4
           start == t + i
<1>1. i \in Nat /\ Life \in Nat /\ RetryMax \in Nat
  BY EmptyType
<1>2. next' \in refresh_window(t)
  BY DEF plan_refresh
<1>3. refresh_window(t) = IF t + Interval + (Interval * 3) \div 4 >= t + Life
                          THEN (t + Interval + (Interval * 3) \div 4)..(t + Interval + (Interval * 3) \div 4)
                          ELSE (t + Interval + (Interval * 3) \div 4)
                                 ..((t + Interval + (Interval * 3) \div 4)
                                     + ((t + Life - (t + Interval + (Interval * 3) \div 4)) * 7) \div 8)
  BY DEF refresh_window
<1>4. t + Interval + (Interval * 3) \div 4 = start
  BY EmptyType
<1> HIDE DEF i
<1>5. CASE start >= t + Life
  <2>1. next' = start
    BY <1>1, <1>2, <1>3, <1>4, <1>5
  <2> QED
    BY <1>1, <1>5, <2>1 DEF i
<1>6. CASE ~(start >= t + Life)
  <2>1. next' \in start..(start + ((t + Life - start) * 7) \div 8)
    BY <1>2, <1>3, <1>4, <1>6
  <2>2. PICK x \in Nat : x = t + Life - start
    BY <1>1, <1>6
  <2>3. (x * 7) \div 8 <= x /\ (x * 7) \div 8 \in Nat
    BY ONLY <2>2
  <2> QED
    BY <1>1, <2>1, <2>2, <2>3
<1> QED
  BY <1>5, <1>6

\* A verified document comes into use.
LEMMA InstallKeeps ==
    ASSUME DirectoryInv, NEW t \in Seq(Good), Verified(t), NEW C \in SUBSET Certs,
           dir' = [text |-> t, certs |-> C], plan_refresh(valid_after(t)), backoff' = RetryMin,
           pc' = "up", Clear, UNCHANGED <<clock, files, job, bounds>>
    PROVE  DirectoryInv'
<1> USE DEF DirectoryInv
<1>1. UNCHANGED <<clock, files, job, crashes, odd>> /\ Times' = Times /\ Good' = Good
  BY SameClock DEF bounds
<1>2. dir'.text = t /\ dir' \in [text : Seq(Good), certs : SUBSET Certs]
  OBVIOUS
<1>3. valid_after(t) \in Nat /\ t # NoText
  BY VerifiedTime DEF DirectoryTypeOK
<1>4. /\ next' \in Nat
      /\ Interval + (Interval * 3) \div 4 <= Life + RetryMax => next' <= valid_after(t) + Life + RetryMax
  BY <1>3, PlanSoon
<1>5. DirectoryTypeOK'
  BY <1>1, <1>2, <1>4, EmptyType DEF DirectoryTypeOK, Places, Clear
<1>6. Trusted'
  BY <1>1, <1>2 DEF Trusted, Verified, Published, Clear
<1>7. InJob'
  BY <1>2, <1>3 DEF InJob
<1>8. Soon'
  BY <1>2, <1>4 DEF Soon, valid_until
<1> QED
  BY <1>5, <1>6, <1>7, <1>8

-----------------------------------------------------------------------------
(* The actions.                                                            *)

\* The process starts.
LEMMA KeepsStartUp == DirectoryInv /\ StartUp => DirectoryInv'
<1> SUFFICES ASSUME DirectoryInv, StartUp PROVE DirectoryInv'
  OBVIOUS
<1> USE DEF DirectoryInv
<1>1. /\ UNCHANGED <<clock, files, base, text, certs, script, next, backoff, crashes, odd>>
      /\ Times' = Times /\ Good' = Good
      /\ pc' = "load" /\ job' = "boot" /\ via' \in {"guard", "mirror"} /\ dir' = NoDir
      /\ full' = FALSE /\ now' = clock
  BY SameClock DEF StartUp, bounds
<1>2. DirectoryTypeOK'
  BY <1>1, EmptyType DEF DirectoryTypeOK, Places
<1>3. Trusted'
  BY <1>1, EmptyType DEF Trusted, Verified, Published
<1>4. InJob' /\ Soon'
  BY <1>1 DEF InJob, Soon
<1> QED
  BY <1>2, <1>3, <1>4

\* The cache is used as it is.
LEMMA KeepsLoadCached == DirectoryInv /\ LoadCached => DirectoryInv'
<1> SUFFICES ASSUME DirectoryInv, LoadCached PROVE DirectoryInv'
  OBVIOUS
<1>1. files.consensus # NoText
  BY DEF LoadCached, from_cache
<1>2. files.consensus \in Seq(Good) /\ files.certs \in SUBSET Certs /\ Verified(files.consensus)
  BY <1>1 DEF DirectoryInv, DirectoryTypeOK, Trusted
<1>3. parse_key_certificates(files.certs, clock) \in SUBSET Certs
  BY <1>2, ParsedCerts
<1> QED
  BY <1>2, <1>3, InstallKeeps DEF LoadCached

\* The cache is what a diff is asked against.
LEMMA KeepsLoadStale == DirectoryInv /\ LoadStale => DirectoryInv'
<1> SUFFICES ASSUME DirectoryInv, LoadStale PROVE DirectoryInv'
  OBVIOUS
<1> USE DEF DirectoryInv
<1>1. /\ UNCHANGED <<clock, dir, files, job, via, full, text, script, next, backoff, crashes, odd>>
      /\ Times' = Times /\ Good' = Good
      /\ base' = files.consensus /\ certs' = parse_key_certificates(files.certs, clock)
      /\ now' = clock /\ pc' = "open"
  BY SameClock DEF LoadStale, bounds
<1>2. certs' \in SUBSET Certs
  BY <1>1, ParsedCerts DEF DirectoryTypeOK
<1>3. DirectoryTypeOK'
  BY <1>1, <1>2 DEF DirectoryTypeOK, Places
<1>4. Trusted'
  BY <1>1 DEF Trusted, Verified, Published
<1>5. InJob' /\ Soon'
  BY <1>1 DEF InJob, Soon
<1> QED
  BY <1>3, <1>4, <1>5

\* A circuit is there.
LEMMA KeepsOpenCircuit == DirectoryInv /\ OpenCircuit => DirectoryInv'
<1> SUFFICES ASSUME DirectoryInv, OpenCircuit PROVE DirectoryInv'
  OBVIOUS
<1> USE DEF DirectoryInv
<1>1. /\ UNCHANGED <<clock, dir, files, job, via, full, now, base, text, certs, script, next, backoff,
                     crashes, odd>>
      /\ Times' = Times /\ Good' = Good /\ pc' \in {"whole", "diff"}
  BY SameClock DEF OpenCircuit, job_vars, bounds
<1>2. DirectoryTypeOK'
  BY <1>1 DEF DirectoryTypeOK, Places
<1>3. Trusted'
  BY <1>1 DEF Trusted, Verified, Published
<1>4. InJob' /\ Soon'
  BY <1>1 DEF InJob, Soon
<1> QED
  BY <1>2, <1>3, <1>4

\* A refresh begins.
LEMMA KeepsRefresh == DirectoryInv /\ Refresh => DirectoryInv'
<1> SUFFICES ASSUME DirectoryInv, Refresh PROVE DirectoryInv'
  OBVIOUS
<1> USE DEF DirectoryInv
<1>1. /\ UNCHANGED <<clock, dir, files, via, full, text, script, next, backoff, crashes, odd>>
      /\ Times' = Times /\ Good' = Good
      /\ job' = "refresh" /\ now' = clock
      /\ base' = files.consensus /\ certs' = dir.certs /\ pc' = "open" /\ pc = "up"
  BY SameClock DEF Refresh, bounds
<1>2. DirectoryTypeOK'
  BY <1>1 DEF DirectoryTypeOK, Places
<1>3. Trusted'
  BY <1>1 DEF Trusted, Verified, Published
<1>4. InJob' /\ Soon'
  BY <1>1 DEF InJob, Soon
<1> QED
  BY <1>2, <1>3, <1>4

\* What is odd is counted.
LEMMA OddType ==
    ASSUME DirectoryInv, Odd \/ Usual
    PROVE  odd' \in Nat
BY DEF DirectoryInv, DirectoryTypeOK, Odd, Usual

\* What an honest server or a forger sends.
LEMMA SentGood ==
    ASSUME DirectoryInv
    PROVE  /\ Forgery \in Seq(Good)
           /\ \A t \in Times : \A d \in Copies(t) : d \in Seq(Good)
BY ForgeryGood, CopiesGood DEF DirectoryInv, DirectoryTypeOK

\* The answers that are an error, and those that bring a document.
LEMMA KeepsAnswer ==
    ASSUME DirectoryInv,
           \/ OpenFails \/ DiffNotModified \/ DiffWhole \/ DiffFails \/ PatchFails
           \/ Whole \/ WholeFails \/ WholeNotModified \/ CertsFail \/ VerifyFails \/ Refuse
    PROVE  DirectoryInv'
<1>1. CASE OpenFails \/ WholeFails \/ CertsFail \/ VerifyFails \/ Refuse
  <2>1. Fail /\ (Odd \/ Usual)
    BY <1>1 DEF OpenFails, WholeFails, CertsFail, VerifyFails, Refuse
  <2> QED
    BY <2>1, OddType, FailKeeps
<1>2. CASE DiffNotModified \/ WholeNotModified
  <2>1. NotModified /\ (Odd \/ Usual)
    BY <1>2 DEF DiffNotModified, WholeNotModified, Served
  <2> QED
    BY <2>1, OddType, NotModifiedKeeps
<1>3. CASE DiffWhole \/ Whole
  <2>1. PICK d : /\ Got(d, "certs") /\ (Odd \/ Usual)
                 /\ d = Forgery \/ \E t \in Times : d \in Copies(t)
    BY <1>3 DEF DiffWhole, Whole, Served
  <2>2. d \in Seq(Good)
    BY <2>1, SentGood
  <2> QED
    BY <2>1, <2>2, OddType, GotKeeps
<1>4. CASE DiffFails \/ PatchFails
  <2>1. Got(NoText, "whole") /\ (Odd \/ Usual)
    BY <1>4 DEF DiffFails, PatchFails
  <2> QED
    BY <2>1, OddType, GotKeeps, EmptyType
<1> QED
  BY <1>1, <1>2, <1>3, <1>4

\* The commands of an odd server insert good lines.
LEMMA EditsGood ==
    ASSUME clock \in Nat, clock >= Interval
    PROVE  Edits \subseteq Inserting(Good)
<1> SUFFICES ASSUME NEW c \in Edits PROVE c \in Inserting(Good)
  OBVIOUS
<1>1. c \in Commands /\ c.insert \in Seq(Lines)
  BY EditsAssumption DEF Commands
<1>2. ASSUME NEW i \in 1..Len(c.insert) PROVE c.insert[i] \in Good
  <2>1. PICK l \in Lines : l = c.insert[i]
    BY <1>1
  <2>2. l \in SignatureLines /\ l.id \in Loyal /\ l.key \in SigningKeys => l.over = Body(Interval)
    BY <2>1, EditsAssumption DEF Loyal
  <2>3. l.kind = "signature" => l \in SignatureLines
    BY <2>1 DEF Lines, AfterLines, RelaysLines
  <2>4. Interval \in Times
    BY NewestTime
  <2>5. l \in Good
    BY <2>1, <2>2, <2>3, <2>4 DEF Good
  <2> QED
    BY <2>1, <2>5
<1>3. c.insert \in Seq(Good)
  BY <1>1, <1>2
<1> QED
  BY <1>1, <1>3 DEF Inserting

\* Good lines are lines, and the signed part of a document is made of its lines.
LEMMA SignedPartType ==
    ASSUME NEW t \in Seq(Good)
    PROVE  SignedPart(t) \in Seq(Lines) /\ t \in Seq(Lines)
<1>1. t \in Seq(Lines)
  BY DEF Good
<1>2. CASE HasSignature(t)
  <2>1. PICK m \in 1..Len(t) : SignedPart(t) = SubSeq(t, 1, m - 1)
    BY <1>2, SignedPartIs
  <2>2. SubSeq(t, 1, m - 1) \in Seq(Lines)
    BY <1>1
  <2> QED
    BY <1>1, <2>1, <2>2
<1>3. CASE ~HasSignature(t)
  BY <1>1, <1>3 DEF SignedPart
<1> QED
  BY <1>2, <1>3

\* The commands of an honest server insert lines of the document it sends.
LEMMA DiffGood ==
    ASSUME NEW t, NEW to \in Seq(Good), Len(to) >= 2
    PROVE  Diff(t, to).commands \in Seq(Inserting(Good))
<1> DEFINE rest == SubSeq(to, 3, Len(to))
           c1 == Command("delete", 3, Dollar, <<>>)
           c2 == Command("append", 2, 2, rest)
           c3 == Command("change", 2, 2, <<to[2]>>)
           c4 == Command("change", 1, 1, <<to[1]>>)
<1>1. ASSUME NEW act \in {"append", "change", "delete"}, NEW s \in Nat \cup {Dollar},
             NEW e \in Nat \cup {Dollar}, NEW ins \in Seq(Good)
      PROVE  Command(act, s, e, ins) \in Inserting(Good)
  <2>1. ins \in Seq(Lines)
    BY SignedPartType
  <2>2. Command(act, s, e, ins) \in Commands
    BY <2>1 DEF Command, Commands
  <2>3. Command(act, s, e, ins).insert = ins
    BY DEF Command
  <2> QED
    BY <2>2, <2>3 DEF Inserting
<1>2. rest \in Seq(Good) /\ <<>> \in Seq(Good) /\ <<to[1]>> \in Seq(Good) /\ <<to[2]>> \in Seq(Good)
  OBVIOUS
<1> HIDE DEF rest
<1>3. /\ 1 \in Nat \cup {Dollar} /\ 2 \in Nat \cup {Dollar} /\ 3 \in Nat \cup {Dollar}
      /\ Dollar \in Nat \cup {Dollar}
  OBVIOUS
<1>4. c1 \in Inserting(Good) /\ c2 \in Inserting(Good) /\ c3 \in Inserting(Good) /\ c4 \in Inserting(Good)
  BY <1>1, <1>2, <1>3
<1> HIDE DEF c1, c2, c3, c4
<1>5. <<c1, c2, c3, c4>> \in Seq(Inserting(Good))
  BY <1>4
<1>6. Diff(t, to).commands = <<c1, c2, c3, c4>>
  BY DEF Diff, Script, c1, c2, c3, c4, rest
<1> QED
  BY <1>5, <1>6

\* A script arrives: it is from the base.
LEMMA KeepsDiffSent == DirectoryInv /\ DiffSent => DirectoryInv'
<1> SUFFICES ASSUME DirectoryInv, DiffSent PROVE DirectoryInv'
  OBVIOUS
<1>1. clock \in Nat /\ clock >= Interval /\ base \in Seq(Good)
  BY DEF DirectoryInv, DirectoryTypeOK
<1> DEFINE T == [from : Seq(Lines), to : Seq(Good), commands : Seq(Inserting(Good))]
<1>2. script' \in T /\ script'.from = SignedPart(base) /\ (Odd \/ Usual)
  <2>1. CASE \E t, u \in Times : /\ t # u /\ Served(u) /\ SignedPart(base) = Body(t)
                                 /\ \E to \in Copies(u) : script' = Diff(t, to)
    <3>0. PICK t \in Times, u \in Times :
              /\ Served(u) /\ SignedPart(base) = Body(t)
              /\ \E to \in Copies(u) : script' = Diff(t, to)
      BY <2>1
    <3>1. PICK to \in Copies(u) :
              Served(u) /\ SignedPart(base) = Body(t) /\ script' = Diff(t, to)
      BY <3>0
    <3>2. to \in Seq(Good) /\ Len(to) >= 2 /\ Body(t) \in Seq(Good)
      BY <1>1, <3>0, <3>1, CopiesGood
    <3>3. Diff(t, to).commands \in Seq(Inserting(Good)) /\ Body(t) \in Seq(Lines)
      BY <3>2, DiffGood, SignedPartType
    <3>4. script' = Script(Body(t), to, Diff(t, to).commands)
      BY <3>1 DEF Diff, Script
    <3>5. script' \in T /\ script'.from = Body(t)
      BY <3>2, <3>3, <3>4 DEF Script
    <3>6. Odd \/ Usual
      BY <3>1 DEF Served
    <3> QED
      BY <3>1, <3>5, <3>6
  <2>2. CASE \E c, d \in Edits : /\ Odd
                                 /\ LET p == Patch(base, <<c, d>>).text
                                    IN  script' = Script(SignedPart(base), p, <<c, d>>)
    <3>1. PICK c \in Edits, d \in Edits :
              Odd /\ script' = Script(SignedPart(base), Patch(base, <<c, d>>).text, <<c, d>>)
      BY <2>2
    <3>2. c \in Inserting(Good) /\ d \in Inserting(Good)
      BY <1>1, <3>1, EditsGood
    <3>3. <<c, d>> \in Seq(Inserting(Good))
      BY <3>2
    <3>4. Patch(base, <<c, d>>).text \in Seq(Good)
      BY <1>1, <3>3, PatchIsEd
    <3>5. SignedPart(base) \in Seq(Lines)
      BY <1>1, SignedPartType
    <3>6. script' \in T /\ script'.from = SignedPart(base)
      BY <3>1, <3>3, <3>4, <3>5 DEF Script
    <3> QED
      BY <3>1, <3>6
  <2> QED
    BY <2>1, <2>2 DEF DiffSent
<1>3. odd' \in Nat
  BY <1>2, OddType
<1>4. /\ UNCHANGED <<clock, dir, files, job, via, full, now, base, text, certs, next, backoff, crashes>>
      /\ Times' = Times /\ Good' = Good /\ pc' = "patch"
  BY SameClock DEF DiffSent
<1> USE DEF DirectoryInv
<1>5. DirectoryTypeOK'
  BY <1>2, <1>3, <1>4 DEF DirectoryTypeOK, Places
<1>6. Trusted'
  BY <1>4 DEF Trusted, Verified, Published
<1>7. InJob' /\ Soon'
  BY <1>2, <1>4 DEF InJob, Soon
<1> QED
  BY <1>5, <1>6, <1>7

\* A diff applies.
LEMMA KeepsPatched == DirectoryInv /\ Patched => DirectoryInv'
<1> SUFFICES ASSUME DirectoryInv, Patched PROVE DirectoryInv'
  OBVIOUS
<1>1. Got(script.to, "certs") /\ Usual
  BY DEF Patched
<1>2. script.to \in Seq(Good)
  BY DEF DirectoryInv, DirectoryTypeOK
<1> QED
  BY <1>1, <1>2, OddType, GotKeeps

\* The certificates are there, or are fetched.
LEMMA KeepsCerts == DirectoryInv /\ (CertsHeld \/ CertsSent) => DirectoryInv'
<1> SUFFICES ASSUME DirectoryInv, CertsHeld \/ CertsSent PROVE DirectoryInv'
  OBVIOUS
<1> USE DEF DirectoryInv
<1>1. /\ UNCHANGED <<clock, dir, files, job, via, full, now, base, text, script, next, backoff, crashes>>
      /\ Times' = Times /\ Good' = Good /\ pc' = "verify" /\ odd' \in Nat
  BY SameClock, OddType DEF CertsHeld, CertsSent, bounds, Usual
<1>2. \A w \in Missing : w[1] \in Authorities /\ w[2] \in Nat
  <2> SUFFICES ASSUME NEW w \in Missing PROVE w[1] \in Authorities /\ w[2] \in Nat
    OBVIOUS
  <2>1. PICK s \in Signatures(text) : s.id \in Authorities /\ w = <<s.id, s.key>>
    BY DEF Missing, required_certificates
  <2>2. PICK i \in 1..Len(text) : s = text[i] /\ text[i].kind = "signature"
    BY <2>1 DEF Signatures, SignatureAt
  <2>3. s \in Lines /\ s.kind = "signature"
    BY <2>2 DEF DirectoryTypeOK, Good
  <2>4. s.key \in Nat
    BY <2>3 DEF Lines, AfterLines, RelaysLines, SignatureLines
  <2> QED
    BY <2>1, <2>4
<1>3. certs' \in SUBSET Certs
  <2>1. CASE CertsHeld
    BY <2>1, ParsedCerts DEF CertsHeld, DirectoryTypeOK
  <2>2. CASE CertsSent
    <3>1. MaxClock \in Nat /\ Retired \in Nat
      BY DirectoryAssumption
    <3>2. TrueCerts \subseteq Certs
      <4> SUFFICES ASSUME NEW w \in Missing, w[2] \in SigningKeys PROVE CertOf(w[1], w[2]) \in Certs
        BY DEF TrueCerts
      <4>1. PICK until \in Nat : until = IF w[2] = 1 THEN Retired ELSE MaxClock + 1
        BY <3>1
      <4>2. CertOf(w[1], w[2]) = Certificate(w[1], w[2], until, w[1], TRUE)
        BY <4>1 DEF CertOf
      <4> QED
        BY <1>2, <4>2 DEF Certificate, Certs
    <3>3. ASSUME NEW ok \in BOOLEAN, NEW c \in MadeCerts(ok) PROVE ~(c.identity = c.id /\ c.signed)
      <4>1. PICK w \in Missing :
                c = Certificate(w[1], w[2], MaxClock + 1, IF ok THEN "stranger" ELSE w[1], ok)
        BY <3>3 DEF MadeCerts
      <4>2. c.id = w[1] /\ c.identity = (IF ok THEN "stranger" ELSE w[1]) /\ c.signed = ok
        BY <4>1 DEF Certificate
      <4>3. w[1] # "stranger"
        BY <1>2, ConsensusAssumption
      <4> QED
        BY <4>2, <4>3
    <3>4. PICK sent \in {TrueCerts} \cup {MadeCerts(ok) : ok \in BOOLEAN} :
              certs' = parse_key_certificates(certs \cup sent, now)
      BY <2>2 DEF CertsSent
    <3>5. \A c \in sent : c.identity = c.id /\ c.signed => c \in Certs
      BY <3>2, <3>3, <3>4
    <3>6. certs \in SUBSET Certs
      BY DEF DirectoryTypeOK
    <3> QED
      BY <3>4, <3>5, <3>6 DEF parse_key_certificates
  <2> QED
    BY <2>1, <2>2
<1>4. DirectoryTypeOK'
  BY <1>1, <1>3 DEF DirectoryTypeOK, Places
<1>5. Trusted'
  BY <1>1 DEF Trusted, Verified, Published
<1>6. InJob' /\ Soon'
  BY <1>1 DEF InJob, Soon
<1> QED
  BY <1>4, <1>5, <1>6

\* The document is verified: it was published.
LEMMA KeepsVerify == DirectoryInv /\ Verify => DirectoryInv'
<1> SUFFICES ASSUME DirectoryInv, Verify PROVE DirectoryInv'
  OBVIOUS
<1> USE DEF DirectoryInv
<1>1. /\ UNCHANGED <<clock, dir, files, job, via, full, now, base, text, certs, script, next, backoff,
                     crashes, odd>>
      /\ Times' = Times /\ Good' = Good /\ pc' = "store certs"
  BY SameClock DEF Verify, job_vars, bounds
<1>2. Verified(text)
  BY VerifiedIsPublished DEF Verify, Verified, DirectoryTypeOK
<1>3. DirectoryTypeOK'
  BY <1>1 DEF DirectoryTypeOK, Places
<1>4. Trusted'
  BY <1>1, <1>2 DEF Trusted, Verified, Published
<1>5. InJob' /\ Soon'
  BY <1>1 DEF InJob, Soon
<1> QED
  BY <1>3, <1>4, <1>5

\* It is stored, after its certificates.
LEMMA KeepsStore == DirectoryInv /\ (StoreCerts \/ StoreConsensus) => DirectoryInv'
<1> SUFFICES ASSUME DirectoryInv, StoreCerts \/ StoreConsensus PROVE DirectoryInv'
  OBVIOUS
<1> USE DEF DirectoryInv
<1>1. /\ UNCHANGED <<clock, dir, job, via, full, now, base, text, certs, script, next, backoff, crashes>>
      /\ Times' = Times /\ Good' = Good /\ pc' \in {"store consensus", "got"}
      /\ odd' \in Nat /\ pc \in {"store certs", "store consensus"}
  BY SameClock, OddType DEF StoreCerts, StoreConsensus, job_vars
<1>2. /\ files' \in [consensus : Seq(Good), certs : SUBSET Certs]
      /\ files'.consensus = files.consensus \/ files'.consensus = text
  BY DEF StoreCerts, StoreConsensus, DirectoryTypeOK
<1>3. DirectoryTypeOK'
  BY <1>1, <1>2 DEF DirectoryTypeOK, Places
<1>4. Trusted'
  BY <1>1, <1>2 DEF Trusted, Verified, Published
<1>5. InJob' /\ Soon'
  BY <1>1 DEF InJob, Soon
<1> QED
  BY <1>3, <1>4, <1>5

\* It comes into use.
LEMMA KeepsInstall == DirectoryInv /\ Install => DirectoryInv'
<1> SUFFICES ASSUME DirectoryInv, Install PROVE DirectoryInv'
  OBVIOUS
<1>1. text \in Seq(Good) /\ certs \in SUBSET Certs /\ Verified(text)
  BY DEF DirectoryInv, DirectoryTypeOK, Trusted, Install
<1> QED
  BY <1>1, InstallKeeps DEF Install

\* Time passes.
LEMMA KeepsTick == DirectoryInv /\ Tick => DirectoryInv'
<1> SUFFICES ASSUME DirectoryInv, Tick PROVE DirectoryInv'
  OBVIOUS
<1> USE DEF DirectoryInv
<1>1. /\ UNCHANGED <<dir, files, pc, job, via, full, now, base, text, certs, script, next, backoff,
                     crashes, odd>>
      /\ clock' = clock + 1
  BY DEF Tick, job_vars, bounds
<1>2. clock \in Nat /\ clock' \in Nat /\ clock <= clock' /\ clock >= Interval /\ Interval \in Nat
  BY <1>1, EmptyType DEF DirectoryTypeOK
<1>3. /\ Times \subseteq Times' /\ Seq(Good) \subseteq Seq(Good')
      /\ Seq(Inserting(Good)) \subseteq Seq(Inserting(Good'))
  BY <1>2, GoodGrows
<1>4. DirectoryTypeOK'
  BY <1>1, <1>2, <1>3 DEF DirectoryTypeOK
<1>5. Trusted'
  BY <1>1, <1>3 DEF Trusted, Verified, Published
<1>6. InJob'
  BY <1>1 DEF InJob
<1>7. Soon'
  <2>1. next \in Nat /\ RetryMax \in Nat
    BY EmptyType DEF DirectoryTypeOK
  <2> QED
    BY <1>1, <1>2, <2>1 DEF Soon
<1> QED
  BY <1>4, <1>5, <1>6, <1>7

\* The process ends.
LEMMA KeepsCrash == DirectoryInv /\ Crash => DirectoryInv'
<1> SUFFICES ASSUME DirectoryInv, Crash PROVE DirectoryInv'
  OBVIOUS
<1> USE DEF DirectoryInv
<1>1. /\ UNCHANGED <<clock, files, next, backoff, odd>> /\ Times' = Times /\ Good' = Good
      /\ pc' = "down" /\ dir' = NoDir /\ job' = "boot" /\ crashes' = crashes + 1
  BY SameClock DEF Crash
<1>2. /\ via' = "guard" /\ full' = FALSE /\ now' = 0 /\ base' = NoText /\ text' = NoText
      /\ certs' = {} /\ script' = NoScript
  BY DEF Crash, Clear
<1>3. crashes' \in Nat /\ NoDir \in [text : Seq(Good), certs : SUBSET Certs]
  BY <1>1, EmptyType DEF DirectoryTypeOK
<1>6. DirectoryTypeOK'
  BY <1>1, <1>2, <1>3, EmptyType DEF DirectoryTypeOK, Places
<1>4. Trusted'
  BY <1>1, <1>2, EmptyType DEF Trusted, Verified, Published
<1>5. InJob' /\ Soon'
  BY <1>1 DEF InJob, Soon
<1> QED
  BY <1>4, <1>5, <1>6

\* Where it starts.
LEMMA DirectoryStarts == DirectoryInit => DirectoryInv
<1> SUFFICES ASSUME DirectoryInit PROVE DirectoryInv
  OBVIOUS
<1>1. /\ clock = Interval /\ dir = NoDir /\ files = [consensus |-> NoText, certs |-> {}]
      /\ pc = "down" /\ job = "boot" /\ via = "guard" /\ full = FALSE /\ now = 0
      /\ base = NoText /\ text = NoText /\ certs = {} /\ script = NoScript
      /\ next = 0 /\ backoff = RetryMin /\ crashes = 0 /\ odd = 0
  BY DEF DirectoryInit
<1>5. [consensus |-> NoText, certs |-> {}] \in [consensus : Seq(Good), certs : SUBSET Certs]
  BY EmptyType
<1>6. clock \in Nat /\ clock >= Interval /\ backoff \in Nat /\ backoff <= RetryMax
  BY <1>1, EmptyType
<1>2. DirectoryTypeOK
  BY <1>1, <1>5, <1>6, EmptyType DEF DirectoryTypeOK, Places
<1>3. Trusted
  BY <1>1, EmptyType DEF Trusted
<1>4. InJob /\ Soon
  BY <1>1 DEF InJob, Soon
<1> QED
  BY <1>2, <1>3, <1>4 DEF DirectoryInv

\* Every step keeps the invariant.
LEMMA DirectoryKeeps == DirectoryInv /\ [DirectoryNext]_directory_vars => DirectoryInv'
<1> SUFFICES ASSUME DirectoryInv, [DirectoryNext]_directory_vars PROVE DirectoryInv'
  OBVIOUS
<1>1. CASE Client
  <2>1. CASE Download
    BY <2>1, KeepsOpenCircuit, KeepsAnswer, KeepsDiffSent, KeepsPatched, KeepsCerts, KeepsVerify,
       KeepsStore, KeepsInstall DEF Download
  <2> QED
    BY <1>1, <2>1, KeepsStartUp, KeepsLoadCached, KeepsLoadStale, KeepsRefresh DEF Client
<1>2. CASE UNCHANGED directory_vars
  <2> USE DEF DirectoryInv
  <2>1. /\ UNCHANGED <<clock, dir, files, pc, job, via, full, now, base, text, certs, script, next,
                       backoff, crashes, odd>>
        /\ Times' = Times /\ Good' = Good
    BY <1>2, SameClock DEF directory_vars, job_vars, bounds
  <2>2. DirectoryTypeOK'
    BY <2>1 DEF DirectoryTypeOK
  <2>3. Trusted'
    BY <2>1 DEF Trusted, Verified, Published
  <2>4. InJob' /\ Soon'
    BY <2>1 DEF InJob, Soon
  <2> QED
    BY <2>2, <2>3, <2>4
<1> QED
  BY <1>1, <1>2, KeepsTick, KeepsCrash DEF DirectoryNext

-----------------------------------------------------------------------------

\* The directory's variables stay of their types; every document in memory or in the
\* cache consists of lines on which no loyal authority signs what was not published.
THEOREM DirectoryInvariant == DirectorySpec => []DirectoryInv
<1> QED
  BY DirectoryStarts, DirectoryKeeps, PTL DEF DirectorySpec

\* Whatever servers and diffs deliver, the consensus in use and the one in the cache
\* are ones the authorities published (parse_and_verify counts distinct authorities).
THEOREM AuthenticAlways == DirectorySpec => []Authentic
<1> QED
  BY DirectoryInvariant, InvAuthentic, PTL

\* diff::apply does what ed does with the same commands, and an honest server's diff
\* applies to any copy of the document it is from.
THEOREM DiffIsEdAlways == DirectorySpec => []DiffIsEd
<1> QED
  BY DirectoryInvariant, InvDiffIsEd, PTL

\* An expired consensus is never left for longer than the longest retry: plan_refresh,
\* the backoff and the expiry, in whatever order they fall.
THEOREM NeverSleepsThroughAlways == DirectorySpec => []NeverSleepsThrough
<1> QED
  BY DirectoryInvariant, InvNeverSleepsThrough, PTL

-----------------------------------------------------------------------------
(* What a thread, a ring and a circuit are.                                *)

OnionPlaces == {"lookup", "ring", "build", "fetch", "desc", "establish", "introduce", "await",
                "insert", "begin", "open", "failed"}

RingRecords == [for : Nat, asked : 0..Nodes, held : 0..Nodes]

ThreadRecords ==
    [pc : OnionPlaces, svc : Services, snap : Nat, ring : RingRecords, cred : Nat,
     desc : Nat \X Nat, circ : Circuits \cup {None}, intro : Nat, known : BOOLEAN,
     again : BOOLEAN, tries : Nat, stream : BOOLEAN]

CircuitRecords ==
    [state : {"unused", "open", "closed"}, hop : Nat, meets : SUBSET Nat, met : Nat, mail : Nat,
     aged : BOOLEAN]

OnionTypeOK ==
    /\ th \in [Threads -> ThreadRecords]
    /\ consensus \in Nat \ {0} /\ clearing \in BOOLEAN
    /\ ring \in RingRecords /\ building \in Threads \cup {None}
    /\ cached \in [Services -> Nat \X Nat]
    /\ open \in [Services -> Circuits \cup {None}]
    /\ circuit \in [Circuits -> CircuitRecords]
    /\ revision \in [Services -> Nat]
    /\ changes \in Nat /\ faults \in Nat /\ pushed \in SUBSET Threads

-----------------------------------------------------------------------------
(* The invariant.                                                          *)

\* While a circuit is open, its hop and the reply that waits are for the
\* introduction the service's end is keyed for.
Keyed ==
    \A c \in Circuits :
        IsOpen(c) => /\ circuit[c].hop # 0 => circuit[c].met = circuit[c].hop
                     /\ circuit[c].mail # 0 => circuit[c].met = circuit[c].mail

Building == {"introduce", "await", "insert"}
Holding  == Building \cup {"begin", "open"}

\* A thread that is past establish has a circuit, and no circuit that a thread
\* or the map has is one not built yet.
HasCircuit ==
    /\ \A t \in Threads : /\ th[t].pc \in Holding => th[t].circ \in Circuits
                          /\ th[t].circ \in Circuits => circuit[th[t].circ].state # "unused"
    /\ \A s \in Services : open[s] \in Circuits => circuit[open[s]].state # "unused"

\* Until it is in the map a circuit belongs to the thread that builds it.
Owned ==
    \A t \in Threads :
        th[t].pc \in Building =>
            /\ \A u \in Threads \ {t} : th[u].circ # th[t].circ
            /\ \A s \in Services : open[s] # th[t].circ

\* The circuit of a stream, while it is open and not aged, is the one of its service.
InMap ==
    \A t \in Threads :
        /\ th[t].pc \in {"begin", "open"} /\ IsOpen(th[t].circ) /\ ~circuit[th[t].circ].aged
        => open[th[t].svc] = th[t].circ

\* A thread finds its circuit closed only by a fault or by another thread.
ClosedByOthers ==
    \A t \in Threads :
        th[t].pc \in Holding /\ ~IsOpen(th[t].circ) => faults > 0 \/ t \in pushed

\* A thread that builds a ring has a consensus to build it from.
Snapped == \A t \in Threads : th[t].pc \in {"build", "fetch"} => th[t].snap # 0

\* Without a fault every node a ring asks has the descriptor.
WholeOf(r) == r.asked = r.held /\ r.asked \in 1..Nodes

RingWhole ==
    faults = 0 => /\ ring.for # 0 => WholeOf(ring)
                  /\ \A t \in Threads : th[t].pc = "desc" => WholeOf(th[t].ring)

\* An introduction with a current descriptor goes to the first point, and is
\* answered there.
Met(t) ==
    LET c == circuit[th[t].circ] IN
    /\ th[t].intro = 1
    /\ At(t, "introduce") => c.met = 0 /\ c.meets = {} /\ c.mail = 0
    /\ At(t, "await") => \/ c.met = 0 /\ c.meets = {1} /\ c.mail = 0
                         \/ c.met = 1 /\ c.mail = 1

Current(t) == th[t].cred = Period(consensus)

\* An attempt that no change has disturbed: everything in hand is of the present
\* consensus, and a stale descriptor has not been fetched twice.
Undisturbed(t) ==
    /\ th[t].known = FALSE
    /\ th[t].pc \in {"lookup", "ring", "build", "fetch"} => th[t].cred = 0 \/ Current(t)
    /\ th[t].pc \in {"build", "fetch"} => th[t].snap = consensus
    /\ At(t, "desc") => Current(t) /\ th[t].ring.for = consensus
    /\ th[t].pc \in {"lookup", "ring", "build", "fetch", "desc"} /\ th[t].again =>
          \/ cached[th[t].svc] = NoDesc
          \/ cached[th[t].svc][2] = revision[th[t].svc]
    /\ th[t].pc \in {"lookup", "ring", "build", "fetch", "desc", "establish"} => th[t].intro = 1
    /\ th[t].pc \in {"establish", "introduce", "await"} =>
          /\ Current(t) /\ th[t].desc[1] = th[t].cred
          /\ \/ Recognized(t) /\ Met(t)
             \/ ~Recognized(t) /\ ~th[t].again /\ ~At(t, "await")

\* Each attempt but the last has been disturbed by a change.
Survives(t) ==
    /\ th[t].stream => At(t, "open")
    /\ At(t, "failed") => changes >= ConnectAttempts
    /\ th[t].pc \notin {"open", "failed"} =>
          th[t].tries < changes \/ (th[t].tries = changes /\ Undisturbed(t))

Surviving == \A t \in Threads : faults = 0 /\ t \notin pushed => Survives(t)

OnionInv ==
    /\ OnionTypeOK /\ Keyed /\ HasCircuit /\ Owned /\ InMap /\ ClosedByOthers
    /\ Snapped /\ RingWhole /\ Surviving
-----------------------------------------------------------------------------
(* Periods and rings.                                                      *)

\* The constants, each by itself.
LEMMA OnionConstants ==
    /\ ConnectAttempts \in Nat \ {0} /\ IntroPoints \in Nat \ {0} /\ SpreadFetch \in Nat \ {0}
    /\ HsdirTries \in Nat \ {0} /\ HsdirParallel \in Nat \ {0} /\ PeriodLength \in Nat \ {0}
    /\ Nodes \in Nat \ {0} /\ Len(Start) \in Nat \ {0} /\ None \notin Circuits
    /\ \A k \in 1..Len(Start) : Start[k] \in Nat
BY OnionAssumption

\* Periods are numbered from one, as consensuses are.
LEMMA PeriodType ==
    ASSUME NEW c \in Nat
    PROVE  Period(c) \in Nat /\ (c # 0 => Period(c) # 0)
<1>1. PeriodLength \in Nat \ {0}
  BY OnionConstants
<1>2. PICK L \in Nat \ {0} : L = PeriodLength
  BY <1>1
<1>3. PICK q \in Int, r \in 0..(L - 1) : c - 1 = L * q + r /\ q = (c - 1) \div L
  OBVIOUS
<1>4. c # 0 => q >= 0
  BY <1>3
<1>5. q >= -1
  BY <1>3
<1> QED
  BY <1>2, <1>3, <1>4, <1>5 DEF Period

\* Claims by its equations: a recursive function is whatever satisfies them.
LEMMA ClaimsDef ==
    ASSUME NEW placed
    PROVE  /\ Claims(placed)[0] = {}
           /\ \A i \in 1..Len(Start) :
                 Claims(placed)[i] = Claim(placed, Claims(placed)[i - 1], Start[i])
<1> DEFINE Val(f, i) == Claim(placed, f[i - 1], Start[i])
           Upto(f, n) == f[0] = {} /\ \A i \in 1..n : f[i] = Val(f, i)
           T == {n \in Nat : n <= Len(Start) => \E f : Upto(f, n)}
<1>0. Len(Start) \in Nat
  BY OnionConstants
<1>1. 0 \in T
  <2> DEFINE f == [i \in {0} |-> {}]
  <2>1. Upto(f, 0)
    OBVIOUS
  <2> QED
    BY <2>1
<1>2. ASSUME NEW n \in Nat, n \in T PROVE n + 1 \in T
  <2> SUFFICES ASSUME n + 1 <= Len(Start) PROVE \E f : Upto(f, n + 1)
    OBVIOUS
  <2>1. PICK f : Upto(f, n)
    BY <1>0, <1>2
  <2> DEFINE g == [i \in 0..(n + 1) |-> IF i = n + 1 THEN Val(f, n + 1) ELSE f[i]]
  <2>2. \A i \in 0..n : g[i] = f[i]
    OBVIOUS
  <2>3. g[n + 1] = Val(f, n + 1)
    OBVIOUS
  <2> HIDE DEF g, T
  <2>4. ASSUME NEW i \in 1..(n + 1) PROVE g[i] = Val(g, i)
    <3>1. g[i - 1] = f[i - 1]
      BY <2>2
    <3>2. CASE i = n + 1
      BY <2>3, <3>1, <3>2
    <3>3. CASE i \in 1..n
      BY <2>1, <2>2, <3>1, <3>3
    <3> QED
      BY <3>2, <3>3
  <2>5. g[0] = {}
    BY <2>1, <2>2
  <2>6. Upto(g, n + 1)
    BY <2>4, <2>5
  <2> QED
    BY <2>6
<1>3. Len(Start) \in T
  <2> HIDE DEF T
  <2>1. Nat \subseteq T
    BY <1>1, <1>2, Induction
  <2> QED
    BY <1>0, <2>1
<1> DEFINE Fix(k) == k = [i \in 0..Len(Start) |-> IF i = 0 THEN {} ELSE Val(k, i)]
<1>4. \E k : Fix(k)
  <2>1. PICK f : Upto(f, Len(Start))
    BY <1>0, <1>3
  <2> DEFINE k == [i \in 0..Len(Start) |-> f[i]]
             m == [i \in 0..Len(Start) |-> IF i = 0 THEN {} ELSE Val(k, i)]
  <2>2. \A i \in 0..Len(Start) : k[i] = f[i]
    OBVIOUS
  <2>3. ASSUME NEW i \in 0..Len(Start) PROVE f[i] = IF i = 0 THEN {} ELSE Val(k, i)
    <3>1. i # 0 => k[i - 1] = f[i - 1]
      BY <1>0, <2>2
    <3> HIDE DEF k
    <3>2. CASE i = 0
      BY <2>1, <3>2
    <3>3. CASE i \in 1..Len(Start)
      <4>1. f[i] = Val(f, i) /\ f[i - 1] = k[i - 1]
        BY <2>1, <3>1, <3>3
      <4> QED
        BY <3>3, <4>1
    <3> QED
      BY <1>0, <3>2, <3>3
  <2>4. k = m
    BY <2>3
  <2> QED
    BY <2>4
<1> DEFINE K == CHOOSE k : Fix(k)
<1>5. Fix(K)
  BY <1>4
<1>6. Claims(placed) = K
  BY DEF Claims
<1> HIDE DEF K, Val
<1>7. \A i \in 0..Len(Start) : K[i] = IF i = 0 THEN {} ELSE Val(K, i)
  BY <1>5
<1>8. K[0] = {} /\ \A i \in 1..Len(Start) : K[i] = Val(K, i)
  BY <1>0, <1>7
<1> QED
  BY <1>6, <1>8 DEF Val

\* The nodes asked are nodes of the ring, and a ring that has nodes asks one.
LEMMA ResponsibleOf ==
    ASSUME NEW placed \in SUBSET AllNodes
    PROVE  /\ responsible(placed) \subseteq placed
           /\ placed # {} => responsible(placed) # {}
<1> DEFINE C == Claims(placed)
           T == {k \in Nat : k <= Len(Start) => /\ C[k] \subseteq placed
                                                /\ k # 0 /\ placed # {} => C[k] # {}}
<1>0. Len(Start) \in Nat \ {0} /\ SpreadFetch \in Nat \ {0} /\ Nodes \in Nat
  BY OnionConstants
<1>1. C[0] = {} /\ \A i \in 1..Len(Start) : C[i] = Claim(placed, C[i - 1], Start[i])
  BY ClaimsDef
<1> HIDE DEF C
<1>2. 0 \in T
  BY <1>1
<1>3. ASSUME NEW k \in Nat, k \in T PROVE k + 1 \in T
  <2> SUFFICES ASSUME k + 1 <= Len(Start)
               PROVE  C[k + 1] \subseteq placed /\ (placed # {} => C[k + 1] # {})
    OBVIOUS
  <2>1. C[k] \subseteq placed
    BY <1>0, <1>3
  <2>2. C[k + 1] = Claim(placed, C[k], Start[k + 1])
    <3>1. k + 1 \in 1..Len(Start) /\ (k + 1) - 1 = k
      BY <1>0
    <3> QED
      BY <1>1, <3>1
  <2>3. PICK W, st : W = C[k] /\ st = Start[k + 1] /\ st \in Nat
    BY <1>0, OnionConstants
  <2>4. C[k + 1] = Claim(placed, W, st) /\ W \subseteq placed
    BY <2>1, <2>2, <2>3
  <2>5. Claim(placed, W, st) \subseteq placed /\ W \subseteq Claim(placed, W, st)
    BY <2>4 DEF Claim
  <2>6. ASSUME placed # {} PROVE Claim(placed, W, st) # {}
    <3>1. CASE W # {}
      BY <2>5, <3>1
    <3>2. CASE W = {}
      <4> DEFINE D == {Ahead(st, n) : n \in placed}
      <4>1. \A n \in placed : Ahead(st, n) \in Nat
        BY <1>0, <2>3 DEF AllNodes, Ahead
      <4>2. D \in SUBSET Nat /\ D # {}
        BY <2>6, <4>1
      <4>3. PICK d \in D : \A e \in D : d <= e
        BY <4>2, Least
      <4>4. PICK n \in placed : d = Ahead(st, n)
        BY <4>3
      <4>5. ASSUME NEW x \in placed PROVE ~(Ahead(st, x) < Ahead(st, n))
        <5>1. Ahead(st, x) \in D
          OBVIOUS
        <5>2. Ahead(st, n) <= Ahead(st, x)
          BY <4>3, <4>4, <5>1
        <5> QED
          BY <4>1, <5>2
      <4>6. {x \in placed \ W : Ahead(st, x) < Ahead(st, n)} = {}
        BY <4>5
      <4>7. Cardinality({x \in placed \ W : Ahead(st, x) < Ahead(st, n)}) < SpreadFetch
        <5> DEFINE Y == {x \in placed \ W : Ahead(st, x) < Ahead(st, n)}
        <5>1. Y = {} /\ Cardinality({}) = 0
          BY <4>6, FS_EmptySet
        <5> HIDE DEF Y
        <5>2. Cardinality(Y) < SpreadFetch
          BY <1>0, <5>1
        <5> QED
          BY <5>2 DEF Y
      <4>8. n \in placed \ W
        BY <3>2, <4>4
      <4> QED
        BY <4>7, <4>8 DEF Claim
    <3> QED
      BY <3>1, <3>2
  <2> QED
    BY <2>4, <2>5, <2>6
<1>4. Len(Start) \in T
  <2> HIDE DEF T
  <2>1. Nat \subseteq T
    BY <1>2, <1>3, Induction
  <2> QED
    BY <1>0, <2>1
<1> QED
  BY <1>0, <1>4 DEF responsible, C

\* What is counted of a ring, and that all of a whole one is held.
LEMMA RingCounts ==
    /\ \A r \in PartRings : r.asked \in 0..Nodes /\ r.held \in 0..Nodes
    /\ WholeOf(WholeRing)
<1>0. Nodes \in Nat \ {0}
  BY OnionConstants
<1>1. IsFiniteSet(AllNodes) /\ Cardinality(AllNodes) = Nodes
  BY <1>0, FS_Interval DEF AllNodes
<1>2. ASSUME NEW X \in SUBSET AllNodes
      PROVE  IsFiniteSet(X) /\ Cardinality(X) \in 0..Nodes
  <2>1. IsFiniteSet(X) /\ Cardinality(X) <= Nodes
    BY <1>1, FS_Subset
  <2>2. Cardinality(X) \in Nat
    BY <2>1, FS_CardinalityType
  <2> QED
    BY <1>0, <2>1, <2>2
<1>3. ASSUME NEW p \in SUBSET AllNodes
      PROVE  RingOf(p).asked \in 0..Nodes /\ RingOf(p).held \in 0..Nodes
  <2>1. responsible(p) \in SUBSET AllNodes
    BY ResponsibleOf
  <2>2. responsible(p) \cap responsible(AllNodes) \in SUBSET AllNodes
    BY <2>1
  <2> QED
    BY <1>2, <2>1, <2>2 DEF RingOf
<1>4. \A r \in PartRings : r.asked \in 0..Nodes /\ r.held \in 0..Nodes
  BY <1>3 DEF PartRings
<1>5. WholeOf(WholeRing)
  <2> DEFINE R == responsible(AllNodes)
  <2>1. R \in SUBSET AllNodes /\ R # {}
    <3>1. 1 \in AllNodes
      BY <1>0 DEF AllNodes
    <3> QED
      BY <3>1, ResponsibleOf
  <2>2. Cardinality(R) \in 0..Nodes /\ Cardinality(R) # 0
    <3>1. IsFiniteSet(R)
      BY <1>2, <2>1
    <3> QED
      BY <1>2, <2>1, <3>1, FS_EmptySet
  <2>3. R \cap R = R
    OBVIOUS
  <2>4. WholeRing.asked = Cardinality(R) /\ WholeRing.held = Cardinality(R)
    BY <2>3 DEF WholeRing, RingOf
  <2> QED
    BY <1>0, <2>2, <2>4 DEF WholeOf
<1> QED
  BY <1>4, <1>5

\* Nodes that all have the descriptor give it.
LEMMA HonestWhole ==
    ASSUME NEW n \in 1..Nodes, NEW res \in Honest[n][n]
    PROVE  res = "descriptor"
<1>0. Nodes \in Nat \ {0} /\ HsdirTries \in Nat \ {0} /\ HsdirParallel \in Nat \ {0}
  BY OnionConstants
<1>1. n \in AllNodes /\ n \in 0..Nodes /\ n \in Nat
  BY <1>0 DEF AllNodes
<1>2. PICK has \in {h \in SUBSET (1..n) : Cardinality(h) = n} : res = Fetches(n, "descriptor", has, {})
  BY <1>1 DEF Honest
<1>3. IsFiniteSet(1..n) /\ Cardinality(1..n) = n
  BY <1>1, FS_Interval
<1>4. has = 1..n
  BY <1>2, <1>3, FS_Subset
<1> DEFINE ans == [i \in 1..n |-> "descriptor"]
<1>5. res = FetchResult(ans)
  BY <1>2, <1>4 DEF Fetches
<1>6. 1 \in Asked(ans) /\ Asked(ans) \subseteq 1..n
  <2> DEFINE Pred(j) == {m \in DOMAIN ans : (m - 1) \div HsdirParallel < (j - 1) \div HsdirParallel}
  <2>1. ASSUME NEW m \in 1..n PROVE ~((m - 1) \div HsdirParallel < (1 - 1) \div HsdirParallel)
    <3>1. PICK P \in Nat \ {0} : P = HsdirParallel
      BY <1>0
    <3>2. PICK q \in Int, r \in 0..(P - 1) : m - 1 = P * q + r /\ q = (m - 1) \div P
      BY <1>1
    <3>3. q >= 0
      BY <1>1, <3>2
    <3>4. PICK q0 \in Int, r0 \in 0..(P - 1) : 0 = P * q0 + r0 /\ q0 = 0 \div P
      OBVIOUS
    <3>5. q0 = 0
      BY <3>4
    <3> QED
      BY <3>1, <3>2, <3>3, <3>4, <3>5
  <2>2. Pred(1) = {}
    BY <2>1
  <2>3. ~(Cardinality(Pred(1)) >= HsdirTries)
    <3>1. Cardinality({}) = 0
      BY FS_EmptySet
    <3> HIDE DEF Pred
    <3> QED
      BY <1>0, <2>2, <3>1
  <2>4. 1 \in DOMAIN ans
    BY <1>1
  <2> QED
    BY <2>2, <2>3, <2>4 DEF Asked
<1>7. \A i \in 1..n : ans[i] = "descriptor"
  OBVIOUS
<1> DEFINE ends == {i \in Asked(ans) : ans[i] \in {"descriptor", "denied"}}
           least == CHOOSE i \in ends : \A j \in ends : i <= j
<1> HIDE DEF ans
<1>8. ends # {} /\ ends \in SUBSET Nat /\ ends \subseteq 1..n
  BY <1>1, <1>6, <1>7
<1>9. res = ans[least]
  BY <1>5, <1>8 DEF FetchResult
<1> HIDE DEF ends
<1>10. \E i \in ends : \A j \in ends : i <= j
  BY <1>8, Least
<1>11. least \in ends
  BY <1>10
<1> QED
  BY <1>7, <1>8, <1>9, <1>11

-----------------------------------------------------------------------------
(* Threads.                                                                *)

\* A thread that starts an attempt is a thread.
LEMMA AskingType ==
    ASSUME NEW s \in Services, NEW n \in Nat
    PROVE  /\ Asking(s, n) \in ThreadRecords
           /\ [Asking(s, n) EXCEPT !.pc = "failed"] \in ThreadRecords
<1>1. NoRing \in RingRecords /\ NoDesc \in Nat \X Nat
  BY OnionConstants DEF NoRing, RingRecords, NoDesc
<1> QED
  BY <1>1 DEF Asking, ThreadRecords, OnionPlaces

\* An attempt that ends is a thread that starts one, or that has failed.
LEMMA RetriedType ==
    ASSUME OnionTypeOK, NEW t \in Threads
    PROVE  Retried(t) \in ThreadRecords
<1>1. th[t].svc \in Services /\ th[t].tries + 1 \in Nat
  BY DEF OnionTypeOK, ThreadRecords
<1> QED
  BY <1>1, AskingType DEF Retried

\* What a thread depends on stays: so does how it fares.
LEMMA SurvivesStays ==
    ASSUME NEW u, Survives(u), th'[u] = th[u],
           consensus' = consensus, revision' = revision, changes' = changes,
           \/ cached'[th[u].svc] = cached[th[u].svc]
           \/ cached'[th[u].svc] = NoDesc
           \/ cached'[th[u].svc][2] = revision[th[u].svc],
           th[u].pc \in {"introduce", "await"} => circuit'[th[u].circ] = circuit[th[u].circ]
    PROVE  Survives(u)'
<1>1. At(u, "open")' = At(u, "open") /\ At(u, "failed")' = At(u, "failed")
  BY DEF At
<1>2. Undisturbed(u) => Undisturbed(u)'
  BY DEF Undisturbed, Current, Period, Recognized, Met, At
<1> QED
  BY <1>1, <1>2 DEF Survives

\* A change excuses every attempt under way.
LEMMA SurvivesChange ==
    ASSUME OnionTypeOK, NEW u \in Threads, Survives(u), th'[u] = th[u], changes' = changes + 1
    PROVE  Survives(u)'
<1>1. changes \in Nat /\ th[u].tries \in Nat
  BY DEF OnionTypeOK, ThreadRecords
<1>2. ConnectAttempts \in Nat
  BY OnionConstants
<1> QED
  BY <1>1, <1>2 DEF Survives, At

\* An attempt that was disturbed makes room for another.
LEMMA RetrySurvives ==
    ASSUME OnionTypeOK, NEW t \in Threads, Survives(t), ~th[t].stream, th[t].tries < changes,
           th'[t] = Retried(t), changes' = changes
    PROVE  Survives(t)'
<1>1. changes \in Nat /\ th[t].tries \in Nat
  BY DEF OnionTypeOK, ThreadRecords
<1>2. ConnectAttempts \in Nat
  BY OnionConstants
<1>3. CASE th[t].tries + 1 < ConnectAttempts
  <2>1. th'[t] = Asking(th[t].svc, th[t].tries + 1)
    BY <1>3 DEF Retried
  <2>2. /\ th'[t].pc = "lookup" /\ th'[t].stream = FALSE /\ th'[t].tries = th[t].tries + 1
        /\ th'[t].known = FALSE /\ th'[t].cred = 0 /\ th'[t].intro = 1 /\ th'[t].again = FALSE
    BY <2>1 DEF Asking
  <2>3. Undisturbed(t)'
    BY <2>2 DEF Undisturbed, At
  <2>4. th'[t].tries <= changes'
    BY <1>1, <2>2
  <2> QED
    BY <1>1, <2>2, <2>3, <2>4 DEF Survives, At
<1>4. CASE ~(th[t].tries + 1 < ConnectAttempts)
  <2>1. th'[t] = [Asking(th[t].svc, 0) EXCEPT !.pc = "failed"]
    BY <1>4 DEF Retried
  <2>2. th'[t].pc = "failed" /\ th'[t].stream = FALSE
    BY <2>1 DEF Asking
  <2>3. changes' >= ConnectAttempts
    BY <1>1, <1>2, <1>4
  <2> QED
    BY <2>2, <2>3 DEF Survives, At
<1> QED
  BY <1>3, <1>4

-----------------------------------------------------------------------------
(* A step of one thread that leaves the circuits of the others alone.      *)

\* The thread becomes r.  It has no circuit it did not have, and if it changes one it is
\* the circuit it builds; nothing but a new descriptor comes into memory.
Local(t, r) ==
    /\ r \in ThreadRecords /\ th' = [th EXCEPT ![t] = r]
    /\ open' = open /\ consensus' = consensus /\ clearing' = clearing
    /\ revision' = revision /\ changes' = changes /\ pushed' = pushed
    /\ ring' \in RingRecords /\ building' \in Threads \cup {None}
    /\ faults' \in Nat /\ (faults' = 0 => faults = 0)
    /\ cached' \in [Services -> Nat \X Nat]
    /\ \A s \in Services : faults' = 0 => \/ cached'[s] = cached[s] \/ cached'[s] = NoDesc
                                          \/ cached'[s][2] = revision[s]
    /\ r.pc \in {"build", "fetch"} => r.snap # 0
    /\ r.circ = None \/ r.circ = th[t].circ
    /\ r.pc \in Building => th[t].pc \in Building /\ r.circ = th[t].circ
    /\ r.pc \in {"begin", "open"} => /\ th[t].pc \in {"begin", "open"}
                                     /\ r.circ = th[t].circ /\ r.svc = th[t].svc
    /\ faults' = 0 => /\ ring'.for # 0 => WholeOf(ring')
                      /\ r.pc = "desc" => WholeOf(r.ring)

LocalCircuit(t, r) ==
    /\ circuit' \in [Circuits -> CircuitRecords]
    /\ \A c \in Circuits :
          /\ c # th[t].circ \/ th[t].pc \notin Building => circuit'[c] = circuit[c]
          /\ circuit'[c].state # circuit[c].state =>
                r.circ # c /\ circuit'[c].state = "closed"
          /\ circuit'[c].aged = circuit[c].aged \/ circuit'[c].state = "closed"

\* The type of the parts, for the leaves below.
LEMMA ThreadParts ==
    ASSUME OnionTypeOK, NEW t \in Threads
    PROVE  /\ th[t] \in ThreadRecords /\ th[t].svc \in Services /\ th[t].tries \in Nat
           /\ th[t].circ \in Circuits \cup {None} /\ th[t].ring \in RingRecords
           /\ th[t].cred \in Nat /\ th[t].snap \in Nat /\ th[t].intro \in Nat
           /\ th[t].desc \in Nat \X Nat /\ th[t].pc \in OnionPlaces
           /\ th[t].known \in BOOLEAN /\ th[t].again \in BOOLEAN /\ th[t].stream \in BOOLEAN
BY DEF OnionTypeOK, ThreadRecords

\* Only the thread that steps is changed.
LEMMA OneMoves ==
    ASSUME OnionTypeOK, NEW t \in Threads, NEW r, r \in ThreadRecords, th' = [th EXCEPT ![t] = r]
    PROVE  /\ th' \in [Threads -> ThreadRecords] /\ th'[t] = r
           /\ \A u \in Threads : u # t => th'[u] = th[u]
BY DEF OnionTypeOK

\* A circuit another thread or the map has is none that this thread builds.
LEMMA OthersCircuit ==
    ASSUME OnionInv, NEW t \in Threads, NEW r, LocalCircuit(t, r)
    PROVE  /\ \A u \in Threads : u # t /\ th[u].circ \in Circuits =>
                  circuit'[th[u].circ] = circuit[th[u].circ]
           /\ \A s \in Services : open[s] \in Circuits =>
                  circuit'[open[s]] = circuit[open[s]]
           /\ th[t].pc \notin Building => circuit' = circuit
<1>1. ASSUME NEW u \in Threads, u # t, th[u].circ \in Circuits
      PROVE  circuit'[th[u].circ] = circuit[th[u].circ]
  <2>1. th[t].pc \in Building => th[u].circ # th[t].circ
    BY <1>1 DEF OnionInv, Owned
  <2> QED
    BY <1>1, <2>1 DEF LocalCircuit
<1>2. ASSUME NEW s \in Services, open[s] \in Circuits
      PROVE  circuit'[open[s]] = circuit[open[s]]
  <2>1. th[t].pc \in Building => open[s] # th[t].circ
    BY <1>2 DEF OnionInv, Owned
  <2> QED
    BY <1>2, <2>1 DEF LocalCircuit
<1>3. th[t].pc \notin Building => circuit' = circuit
  BY DEF LocalCircuit, OnionInv, OnionTypeOK
<1> QED
  BY <1>1, <1>2, <1>3

\* Such a step keeps what is said of the circuits of threads and of the map.
LEMMA LocalKeepsCircuits ==
    ASSUME OnionInv, NEW t \in Threads, NEW r, Local(t, r), LocalCircuit(t, r)
    PROVE  HasCircuit' /\ Owned' /\ InMap' /\ ClosedByOthers'
<1>0. None \notin Circuits
  BY OnionConstants
<1>1. th'[t] = r /\ \A u \in Threads : u # t => th'[u] = th[u]
  BY OneMoves DEF Local, OnionInv
<1>2. open' = open /\ pushed' = pushed
  BY DEF Local
<1>3. \A u \in Threads : u # t /\ th[u].circ \in Circuits => circuit'[th[u].circ] = circuit[th[u].circ]
  BY OthersCircuit
<1>4. \A s \in Services : open[s] \in Circuits => circuit'[open[s]] = circuit[open[s]]
  BY OthersCircuit
<1>5. r.circ = None \/ r.circ = th[t].circ
  BY DEF Local
<1>6. r.pc \in Building => th[t].pc \in Building /\ r.circ = th[t].circ
  BY DEF Local
<1>7. r.pc \in {"begin", "open"} =>
          th[t].pc \in {"begin", "open"} /\ r.circ = th[t].circ /\ r.svc = th[t].svc
  BY DEF Local
<1>8. r.pc \in Holding => th[t].pc \in Holding /\ r.circ = th[t].circ /\ r.circ \in Circuits
  BY <1>6, <1>7 DEF Holding, OnionInv, HasCircuit
<1>9. ASSUME r.circ \in Circuits
      PROVE  /\ circuit'[r.circ].state = circuit[r.circ].state
             /\ circuit[r.circ].state # "unused"
  BY <1>0, <1>5, <1>9 DEF LocalCircuit, OnionInv, HasCircuit
<1>10. HasCircuit'
  <2>1. ASSUME NEW u \in Threads
        PROVE  /\ th'[u].pc \in Holding => th'[u].circ \in Circuits
               /\ th'[u].circ \in Circuits => circuit'[th'[u].circ].state # "unused"
    <3>1. CASE u = t
      BY <1>1, <1>8, <1>9, <3>1
    <3>2. CASE u # t
      BY <1>1, <1>3, <3>2 DEF OnionInv, HasCircuit
    <3> QED
      BY <3>1, <3>2
  <2>2. \A s \in Services : open'[s] \in Circuits => circuit'[open'[s]].state # "unused"
    BY <1>2, <1>4 DEF OnionInv, HasCircuit
  <2> QED
    BY <2>1, <2>2 DEF HasCircuit
<1>11. Owned'
  <2>1. ASSUME NEW u \in Threads, th'[u].pc \in Building
        PROVE  /\ \A v \in Threads \ {u} : th'[v].circ # th'[u].circ
               /\ \A s \in Services : open'[s] # th'[u].circ
    <3>1. CASE u = t
      BY <1>1, <1>2, <1>6, <2>1, <3>1 DEF OnionInv, Owned
    <3>2. CASE u # t
      <4>1. th'[u] = th[u] /\ th[u].circ \in Circuits
        BY <1>1, <2>1, <3>2 DEF OnionInv, HasCircuit, Holding
      <4>2. r.circ # th[u].circ
        BY <1>0, <1>5, <2>1, <3>2, <4>1 DEF OnionInv, Owned
      <4> QED
        BY <1>1, <1>2, <2>1, <4>1, <4>2 DEF OnionInv, Owned
    <3> QED
      BY <3>1, <3>2
  <2> QED
    BY <2>1 DEF Owned
<1>12. InMap'
  <2>1. ASSUME NEW u \in Threads, th'[u].pc \in {"begin", "open"},
               circuit'[th'[u].circ].state = "open", ~circuit'[th'[u].circ].aged
        PROVE  open'[th'[u].svc] = th'[u].circ
    <3>1. CASE u = t
      <4>1. th[t].pc \in {"begin", "open"} /\ r.circ = th[t].circ /\ r.svc = th[t].svc
        BY <1>1, <1>7, <2>1, <3>1
      <4>2. circuit' = circuit
        BY <4>1, OthersCircuit DEF Building
      <4> QED
        BY <1>1, <1>2, <2>1, <3>1, <4>1, <4>2 DEF OnionInv, InMap, IsOpen
    <3>2. CASE u # t
      <4>1. th'[u] = th[u] /\ th[u].circ \in Circuits
        BY <1>1, <2>1, <3>2 DEF OnionInv, HasCircuit, Holding
      <4>2. circuit'[th[u].circ] = circuit[th[u].circ]
        BY <1>3, <3>2, <4>1
      <4> QED
        BY <1>2, <2>1, <4>1, <4>2 DEF OnionInv, InMap, IsOpen
    <3> QED
      BY <3>1, <3>2
  <2> QED
    BY <2>1 DEF InMap, IsOpen
<1>13. ClosedByOthers'
  <2>0. faults' \in Nat /\ faults \in Nat /\ (faults > 0 => faults' > 0)
    BY DEF Local, OnionInv, OnionTypeOK
  <2>1. ASSUME NEW u \in Threads, th'[u].pc \in Holding, circuit'[th'[u].circ].state # "open"
        PROVE  faults' > 0 \/ u \in pushed'
    <3>1. CASE u = t
      <4>1. th[t].pc \in Holding /\ r.circ = th[t].circ /\ r.circ \in Circuits
        BY <1>1, <1>8, <2>1, <3>1
      <4>2. circuit[th[t].circ].state # "open"
        BY <1>1, <1>9, <2>1, <3>1, <4>1
      <4> QED
        BY <1>2, <2>0, <3>1, <4>1, <4>2 DEF OnionInv, ClosedByOthers, IsOpen
    <3>2. CASE u # t
      <4>1. th'[u] = th[u] /\ th[u].circ \in Circuits
        BY <1>1, <2>1, <3>2 DEF OnionInv, HasCircuit
      <4>2. circuit'[th[u].circ] = circuit[th[u].circ]
        BY <1>3, <3>2, <4>1
      <4> QED
        BY <1>2, <2>0, <2>1, <4>1, <4>2 DEF OnionInv, ClosedByOthers, IsOpen
    <3> QED
      BY <3>1, <3>2
  <2> QED
    BY <2>1 DEF ClosedByOthers, IsOpen
<1> QED
  BY <1>10, <1>11, <1>12, <1>13

\* Such a step keeps the invariant, if it keeps how its own thread fares.
LEMMA LocalKeeps ==
    ASSUME OnionInv, NEW t \in Threads, NEW r, Local(t, r), LocalCircuit(t, r), Keyed',
           faults' = 0 /\ t \notin pushed => Survives(t)'
    PROVE  OnionInv'
<1>1. th' \in [Threads -> ThreadRecords] /\ th'[t] = r /\ \A u \in Threads : u # t => th'[u] = th[u]
  BY OneMoves DEF Local, OnionInv
<1>2. OnionTypeOK'
  BY <1>1 DEF OnionInv, OnionTypeOK, Local, LocalCircuit
<1>3. HasCircuit' /\ Owned' /\ InMap' /\ ClosedByOthers'
  BY LocalKeepsCircuits
<1>4. RingWhole'
  <2>1. ASSUME faults' = 0
        PROVE  /\ ring'.for # 0 => WholeOf(ring')
               /\ \A u \in Threads : th'[u].pc = "desc" => WholeOf(th'[u].ring)
    <3>1. faults = 0 /\ (ring'.for # 0 => WholeOf(ring')) /\ (r.pc = "desc" => WholeOf(r.ring))
      BY <2>1 DEF Local
    <3>2. ASSUME NEW u \in Threads, th'[u].pc = "desc" PROVE WholeOf(th'[u].ring)
      BY <1>1, <3>1, <3>2 DEF OnionInv, RingWhole
    <3> QED
      BY <3>1, <3>2
  <2> QED
    BY <2>1 DEF RingWhole, WholeOf
<1>5. Surviving'
  <2>1. ASSUME NEW u \in Threads, faults' = 0, u \notin pushed' PROVE Survives(u)'
    <3>0. faults = 0 /\ pushed' = pushed
      BY <2>1 DEF Local
    <3>1. CASE u = t
      BY <2>1, <3>0, <3>1
    <3>2. CASE u # t
      <4>1. th'[u] = th[u] /\ Survives(u) /\ th[u].svc \in Services
        BY <1>1, <2>1, <3>0, <3>2, ThreadParts DEF OnionInv, Surviving
      <4>2. consensus' = consensus /\ revision' = revision /\ changes' = changes
        BY DEF Local
      <4>3. \/ cached'[th[u].svc] = cached[th[u].svc]
            \/ cached'[th[u].svc] = NoDesc
            \/ cached'[th[u].svc][2] = revision[th[u].svc]
        BY <2>1, <4>1 DEF Local
      <4>4. th[u].pc \in {"introduce", "await"} => circuit'[th[u].circ] = circuit[th[u].circ]
        BY <3>2, OthersCircuit DEF OnionInv, HasCircuit, Holding, Building
      <4> QED
        BY <4>1, <4>2, <4>3, <4>4, SurvivesStays
    <3> QED
      BY <3>1, <3>2
  <2> QED
    BY <2>1 DEF Surviving
<1>6. Snapped'
  BY <1>1 DEF OnionInv, Snapped, Local
<1> QED
  BY <1>2, <1>3, <1>4, <1>5, <1>6 DEF OnionInv

\* The commonest case: no circuit is changed at all.
LEMMA QuietKeeps ==
    ASSUME OnionInv, NEW t \in Threads, NEW r, Local(t, r), circuit' = circuit,
           faults' = 0 /\ t \notin pushed => Survives(t)'
    PROVE  OnionInv'
<1>1. LocalCircuit(t, r)
  BY DEF LocalCircuit, OnionInv, OnionTypeOK
<1>2. Keyed'
  BY DEF OnionInv, Keyed, IsOpen
<1> QED
  BY <1>1, <1>2, LocalKeeps

-----------------------------------------------------------------------------
(* The steps of hsdir_ring and descriptor.                                 *)

\* What is left alone by a step that touches neither circuits nor services.
Aside ==
    /\ open' = open /\ consensus' = consensus /\ clearing' = clearing /\ circuit' = circuit
    /\ revision' = revision /\ changes' = changes /\ pushed' = pushed

\* A thread goes on with a ring: with the keys of its consensus, or to the descriptor.
LEMMA WithRingKeeps ==
    ASSUME OnionInv, NEW t \in Threads, NEW rr \in RingRecords, WithRing(t, rr), Aside,
           cached' = cached, ring' \in RingRecords, building' \in Threads \cup {None},
           faults' \in Nat, faults' = 0 => faults = 0,
           faults' = 0 => WholeOf(rr) /\ (ring'.for # 0 => WholeOf(ring')),
           th[t].pc \in {"ring", "build", "fetch"},
           IF th[t].pc = "ring" THEN rr.for = consensus ELSE rr.for = th[t].snap
    PROVE  OnionInv'
<1> DEFINE r == IF th[t].cred = 0 THEN OnionKeys(th[t], rr.for)
                ELSE [th[t] EXCEPT !.pc = "desc", !.snap = 0, !.ring = rr]
<1>0. OnionTypeOK /\ th' = [th EXCEPT ![t] = r] /\ rr.for \in Nat
  BY DEF WithRing, OnionInv, OnionTypeOK, RingRecords
<1>1. th[t] \in ThreadRecords /\ Period(rr.for) \in Nat
  BY <1>0, ThreadParts, PeriodType
<1>2. /\ r.pc = (IF th[t].cred = 0 THEN "ring" ELSE "desc")
      /\ r.cred = (IF th[t].cred = 0 THEN Period(rr.for) ELSE th[t].cred)
      /\ r.ring = (IF th[t].cred = 0 THEN th[t].ring ELSE rr)
      /\ r.circ = th[t].circ /\ r.svc = th[t].svc /\ r.known = th[t].known /\ r.again = th[t].again
      /\ r.intro = th[t].intro /\ r.tries = th[t].tries /\ r.stream = th[t].stream
  BY <1>1 DEF OnionKeys, ThreadRecords
<1>3. r \in ThreadRecords
  BY <1>1 DEF OnionKeys, ThreadRecords, OnionPlaces
<1> HIDE DEF r
<1>4. cached' \in [Services -> Nat \X Nat]
  BY <1>0 DEF OnionTypeOK
<1>5. r.pc \notin Building \cup {"begin", "open", "build", "fetch"}
  BY <1>2 DEF Building
<1>6. Local(t, r)
  BY <1>0, <1>2, <1>3, <1>4, <1>5 DEF Local, Aside
<1>7. ASSUME faults' = 0, t \notin pushed PROVE Survives(t)'
  <2>1. th'[t] = r
    BY <1>0, <1>3, OneMoves
  <2>2. Survives(t)
    BY <1>7 DEF OnionInv, Surviving
  <2>3. ~th[t].stream /\ (th[t].tries < changes \/ (th[t].tries = changes /\ Undisturbed(t)))
    BY <2>2 DEF Survives, At
  <2>4. ASSUME Undisturbed(t) PROVE Undisturbed(t)'
    <3>1. rr.for = consensus /\ (th[t].cred = 0 \/ th[t].cred = Period(consensus))
      BY <2>4 DEF Undisturbed, Current
    <3>2. r.cred = Period(consensus)
      BY <1>2, <3>1
    <3>3. Current(t)'
      BY <2>1, <3>2 DEF Current, Period, Aside
    <3>4. /\ r.known = FALSE /\ r.intro = 1
          /\ r.again => cached[r.svc] = NoDesc \/ cached[r.svc][2] = revision[r.svc]
      BY <1>2, <2>4 DEF Undisturbed
    <3>5. r.pc = "desc" => r.ring.for = consensus
      BY <1>2, <3>1
    <3> QED
      BY <1>2, <2>1, <3>3, <3>4, <3>5 DEF Undisturbed, At, Aside
  <2> QED
    BY <1>2, <2>1, <2>3, <2>4 DEF Survives, At, Aside
<1>8. circuit' = circuit
  BY DEF Aside
<1> QED
  BY <1>6, <1>7, <1>8, QuietKeeps

\* A ring in use is whole unless there was a fault.
LEMMA KeepsRingLook ==
    ASSUME OnionInv, NEW t \in Threads, RingLook(t)
    PROVE  OnionInv'
<1>0. OnionTypeOK /\ th[t] \in ThreadRecords /\ consensus \in Nat \ {0}
  BY ThreadParts DEF OnionInv, OnionTypeOK
<1>1. /\ Aside /\ cached' = cached /\ ring' = ring /\ building' = building /\ faults' = faults
      /\ th[t].pc = "ring"
  BY DEF RingLook, Aside, directory, service, At
<1>2. /\ ring' \in RingRecords /\ building' \in Threads \cup {None} /\ faults' \in Nat
      /\ cached' \in [Services -> Nat \X Nat]
  BY <1>0, <1>1 DEF OnionTypeOK
<1>3. faults' = 0 => (ring'.for # 0 => WholeOf(ring'))
  BY <1>1 DEF OnionInv, RingWhole, WholeOf
<1>4. CASE ring.for = consensus
  <2>1. WithRing(t, ring)
    BY <1>4 DEF RingLook
  <2>2. faults' = 0 => WholeOf(ring)
    BY <1>0, <1>1, <1>4 DEF OnionInv, RingWhole
  <2> QED
    BY <1>0, <1>1, <1>2, <1>3, <1>4, <2>1, <2>2, WithRingKeeps
<1>5. CASE ring.for # consensus
  <2> DEFINE r == [th[t] EXCEPT !.snap = consensus, !.pc = "build"]
  <2>1. th' = [th EXCEPT ![t] = r]
    BY <1>0, <1>5 DEF RingLook, OnionTypeOK
  <2>2. /\ r.pc = "build" /\ r.snap = consensus /\ r.circ = th[t].circ /\ r.svc = th[t].svc
        /\ r.cred = th[t].cred /\ r.known = th[t].known /\ r.again = th[t].again
        /\ r.intro = th[t].intro /\ r.tries = th[t].tries /\ r.stream = th[t].stream
    BY <1>0 DEF ThreadRecords
  <2>3. r \in ThreadRecords
    BY <1>0 DEF ThreadRecords, OnionPlaces
  <2> HIDE DEF r
  <2>4. r.pc \notin Building \cup {"begin", "open", "desc"}
    BY <2>2 DEF Building
  <2>5. Local(t, r)
    BY <1>0, <1>1, <1>2, <1>3, <2>1, <2>2, <2>3, <2>4 DEF Local, Aside
  <2>6. ASSUME faults' = 0, t \notin pushed PROVE Survives(t)'
    <3>1. th'[t] = r
      BY <1>0, <2>1, <2>3, OneMoves
    <3>2. Survives(t)
      BY <1>1, <2>6 DEF OnionInv, Surviving
    <3>3. ~th[t].stream /\ (th[t].tries < changes \/ (th[t].tries = changes /\ Undisturbed(t)))
      BY <1>1, <3>2 DEF Survives, At
    <3>4. ASSUME Undisturbed(t) PROVE Undisturbed(t)'
      BY <1>1, <2>2, <3>1, <3>4 DEF Undisturbed, At, Aside, Current, Period
    <3> QED
      BY <1>1, <2>2, <3>1, <3>3, <3>4 DEF Survives, At, Aside
  <2>7. circuit' = circuit
    BY <1>1 DEF Aside
  <2> QED
    BY <2>5, <2>6, <2>7, QuietKeeps
<1> QED
  BY <1>4, <1>5

\* The lock is taken for the consensus the thread looked at.
LEMMA KeepsRingLock ==
    ASSUME OnionInv, NEW t \in Threads, RingLock(t)
    PROVE  OnionInv'
<1>0. OnionTypeOK /\ th[t] \in ThreadRecords /\ th[t].snap # 0
  BY ThreadParts DEF OnionInv, Snapped, RingLock, At
<1>1. Aside /\ cached' = cached /\ ring' = ring /\ faults' = faults /\ th[t].pc = "build"
  BY DEF RingLock, Aside, service, At
<1>2. /\ ring' \in RingRecords /\ building' \in Threads \cup {None} /\ faults' \in Nat
      /\ cached' \in [Services -> Nat \X Nat]
  BY <1>0, <1>1 DEF OnionTypeOK, RingLock
<1>3. faults' = 0 => (ring'.for # 0 => WholeOf(ring'))
  BY <1>1 DEF OnionInv, RingWhole, WholeOf
<1>4. CASE ring.for = th[t].snap
  <2>1. WithRing(t, ring)
    BY <1>4 DEF RingLock
  <2>2. faults' = 0 => WholeOf(ring)
    BY <1>0, <1>1, <1>4 DEF OnionInv, RingWhole
  <2> QED
    BY <1>0, <1>1, <1>2, <1>3, <1>4, <2>1, <2>2, WithRingKeeps
<1>5. CASE ring.for # th[t].snap
  <2> DEFINE r == [th[t] EXCEPT !.pc = "fetch"]
  <2>1. th' = [th EXCEPT ![t] = r]
    BY <1>0, <1>5 DEF RingLock, Goto, OnionTypeOK
  <2>2. /\ r.pc = "fetch" /\ r.snap = th[t].snap /\ r.circ = th[t].circ /\ r.svc = th[t].svc
        /\ r.cred = th[t].cred /\ r.known = th[t].known /\ r.again = th[t].again
        /\ r.intro = th[t].intro /\ r.tries = th[t].tries /\ r.stream = th[t].stream
    BY <1>0 DEF ThreadRecords
  <2>3. r \in ThreadRecords
    BY <1>0 DEF ThreadRecords, OnionPlaces
  <2> HIDE DEF r
  <2>4. r.pc \notin Building \cup {"begin", "open", "desc"}
    BY <2>2 DEF Building
  <2>5. Local(t, r)
    BY <1>0, <1>1, <1>2, <1>3, <2>1, <2>2, <2>3, <2>4 DEF Local, Aside
  <2>6. ASSUME faults' = 0, t \notin pushed PROVE Survives(t)'
    <3>1. th'[t] = r
      BY <1>0, <2>1, <2>3, OneMoves
    <3>2. Survives(t)
      BY <1>1, <2>6 DEF OnionInv, Surviving
    <3>3. ~th[t].stream /\ (th[t].tries < changes \/ (th[t].tries = changes /\ Undisturbed(t)))
      BY <1>1, <3>2 DEF Survives, At
    <3>4. ASSUME Undisturbed(t) PROVE Undisturbed(t)'
      BY <1>1, <2>2, <3>1, <3>4 DEF Undisturbed, At, Aside, Current, Period
    <3> QED
      BY <1>1, <2>2, <3>1, <3>3, <3>4 DEF Survives, At, Aside
  <2>7. circuit' = circuit
    BY <1>1 DEF Aside
  <2> QED
    BY <2>5, <2>6, <2>7, QuietKeeps
<1> QED
  BY <1>4, <1>5

\* A fault is counted.
LEMMA FaultCounts ==
    ASSUME OnionTypeOK, Fault
    PROVE  faults' \in Nat /\ faults' # 0
BY DEF OnionTypeOK, Fault

\* An attempt that ends by a fault, or because another thread closed its circuit.
LEMMA EndsKeeps ==
    ASSUME OnionInv, NEW t \in Threads, Aside, cached' = cached, ring' = ring,
           building' \in Threads \cup {None}, faults' \in Nat, faults' = 0 => faults = 0 /\ t \in pushed,
           Retry(t) \/ GiveUp(t)
    PROVE  OnionInv'
<1> DEFINE r == IF Retry(t) THEN Retried(t) ELSE [Asking(th[t].svc, 0) EXCEPT !.pc = "failed"]
<1>0. OnionTypeOK /\ th[t].svc \in Services /\ Retried(t) \in ThreadRecords
  BY ThreadParts, RetriedType DEF OnionInv
<1>1. th' = [th EXCEPT ![t] = r]
  BY DEF Retry, GiveUp
<1>2. r \in ThreadRecords
  BY <1>0, AskingType
<1>3. r.circ = None /\ r.pc \in {"lookup", "failed"}
  BY DEF Retried, Asking
<1> HIDE DEF r
<1>4. r.pc \notin Building \cup {"begin", "open", "desc", "build", "fetch"}
  BY <1>3 DEF Building
<1>5. ring' \in RingRecords /\ cached' \in [Services -> Nat \X Nat]
  BY <1>0 DEF OnionTypeOK
<1>6. faults' = 0 => (ring'.for # 0 => WholeOf(ring'))
  BY DEF OnionInv, RingWhole, WholeOf
<1>7. Local(t, r)
  BY <1>1, <1>2, <1>3, <1>4, <1>5, <1>6 DEF Local, Aside
<1>8. circuit' = circuit
  BY DEF Aside
<1> QED
  BY <1>7, <1>8, QuietKeeps

\* The ring is whole, or some of the nodes are lost by a fault.
LEMMA KeepsRingBuilt ==
    ASSUME OnionInv, NEW t \in Threads, RingBuilt(t)
    PROVE  OnionInv'
<1>0. OnionTypeOK /\ th[t].snap \in Nat /\ faults \in Nat
  BY ThreadParts DEF OnionInv, OnionTypeOK
<1>1. PICK p \in PartRings : /\ IF p = WholeRing THEN Fine ELSE Fault
                             /\ ring' = [for |-> th[t].snap, asked |-> p.asked, held |-> p.held]
  BY DEF RingBuilt
<1>2. p.asked \in 0..Nodes /\ p.held \in 0..Nodes
  BY <1>1, RingCounts
<1>3. ring' \in RingRecords /\ ring'.for = th[t].snap
  BY <1>0, <1>1, <1>2 DEF RingRecords
<1>4. faults' \in Nat /\ (faults' = 0 => faults = 0 /\ p = WholeRing)
  BY <1>0, <1>1, FaultCounts DEF Fine
<1>5. faults' = 0 => WholeOf(ring')
  BY <1>1, <1>4, RingCounts DEF WholeOf
<1>6. PICK rr \in RingRecords : rr = ring'
  BY <1>3
<1>7. Aside /\ cached' = cached /\ building' = None /\ th[t].pc = "fetch"
  BY DEF RingBuilt, Aside, service, At
<1>8. WithRing(t, rr)
  BY <1>6 DEF RingBuilt, WithRing
<1>9. faults' = 0 => WholeOf(rr)
  BY <1>5, <1>6 DEF WholeOf
<1>10. rr.for = th[t].snap
  BY <1>3, <1>6
<1>11. (faults' = 0 => faults = 0) /\ (faults' = 0 => WholeOf(rr) /\ (ring'.for # 0 => WholeOf(ring')))
  BY <1>4, <1>5, <1>9
<1>12. th[t].pc \in {"ring", "build", "fetch"}
       /\ IF th[t].pc = "ring" THEN rr.for = consensus ELSE rr.for = th[t].snap
  BY <1>7, <1>10
<1> QED
  BY <1>3, <1>4, <1>7, <1>8, <1>11, <1>12, WithRingKeeps

\* A ring that cannot be built ends the attempt.
LEMMA KeepsRingFails ==
    ASSUME OnionInv, NEW t \in Threads, RingFails(t)
    PROVE  OnionInv'
<1>1. faults' \in Nat /\ faults' # 0
  BY FaultCounts DEF RingFails, OnionInv
<1>2. Aside /\ cached' = cached /\ ring' = ring /\ building' = None /\ Retry(t)
  BY DEF RingFails, Aside, service
<1> QED
  BY <1>1, <1>2, EndsKeeps

\* So does a rendezvous circuit.
LEMMA KeepsEstablishFails ==
    ASSUME OnionInv, NEW t \in Threads, EstablishFails(t)
    PROVE  OnionInv'
<1>1. faults' \in Nat /\ faults' # 0
  BY FaultCounts DEF EstablishFails, OnionInv
<1>2. Aside /\ cached' = cached /\ ring' = ring /\ building' = building /\ Retry(t)
  BY DEF EstablishFails, Aside, directory, service
<1>3. building' \in Threads \cup {None}
  BY <1>2 DEF OnionInv, OnionTypeOK
<1> QED
  BY <1>1, <1>2, <1>3, EndsKeeps

\* A stream whose circuit has ended and that is not moved.
LEMMA KeepsCut ==
    ASSUME OnionInv, NEW t \in Threads, Cut(t)
    PROVE  OnionInv'
<1>1. Aside /\ cached' = cached /\ ring' = ring /\ building' = building /\ GiveUp(t) /\ faults' = faults
  BY DEF Cut, Aside, directory, service
<1>2. building' \in Threads \cup {None} /\ faults' \in Nat
  BY <1>1 DEF OnionInv, OnionTypeOK
<1>3. th[t].pc \in Holding /\ ~IsOpen(th[t].circ)
  BY DEF Cut, Holding, At
<1>4. faults' = 0 => faults = 0 /\ t \in pushed
  BY <1>1, <1>2, <1>3 DEF OnionInv, ClosedByOthers
<1> QED
  BY <1>1, <1>2, <1>4, EndsKeeps

\* The descriptor in memory, for the period of the ring.
LEMMA KeepsDescHeld ==
    ASSUME OnionInv, NEW t \in Threads, DescHeld(t)
    PROVE  OnionInv'
<1> DEFINE r == [th[t] EXCEPT !.desc = cached[th[t].svc], !.pc = "establish", !.ring = NoRing]
<1>0. /\ OnionTypeOK /\ th[t] \in ThreadRecords /\ th[t].svc \in Services
      /\ cached[th[t].svc] \in Nat \X Nat /\ NoRing \in RingRecords
      /\ consensus \in Nat \ {0} /\ Period(consensus) \in Nat \ {0}
  <2>1. OnionTypeOK /\ th[t] \in ThreadRecords /\ th[t].svc \in Services
    BY ThreadParts DEF OnionInv
  <2>2. cached[th[t].svc] \in Nat \X Nat /\ consensus \in Nat \ {0}
    BY <2>1 DEF OnionTypeOK
  <2>3. NoRing \in RingRecords
    BY OnionConstants DEF NoRing, RingRecords
  <2> QED
    BY <2>1, <2>2, <2>3, PeriodType
<1>1. /\ Aside /\ cached' = cached /\ ring' = ring /\ building' = building /\ faults' = faults
      /\ th[t].pc = "desc" /\ cached[th[t].svc][1] = Period(th[t].ring.for)
  BY DEF DescHeld, Aside, directory, service, At
<1>2. th' = [th EXCEPT ![t] = r]
  BY <1>0 DEF DescHeld, OnionTypeOK
<1>3. /\ r.pc = "establish" /\ r.desc = cached[th[t].svc] /\ r.circ = th[t].circ
      /\ r.svc = th[t].svc /\ r.cred = th[t].cred /\ r.known = th[t].known /\ r.again = th[t].again
      /\ r.intro = th[t].intro /\ r.tries = th[t].tries /\ r.stream = th[t].stream
  BY <1>0 DEF ThreadRecords
<1>4. r \in ThreadRecords
  BY <1>0 DEF ThreadRecords, OnionPlaces
<1> HIDE DEF r
<1>5. r.pc \notin Building \cup {"begin", "open", "desc", "build", "fetch"}
  BY <1>3 DEF Building
<1>6. /\ ring' \in RingRecords /\ building' \in Threads \cup {None} /\ faults' \in Nat
      /\ cached' \in [Services -> Nat \X Nat]
  BY <1>0, <1>1 DEF OnionTypeOK
<1>7. faults' = 0 => (ring'.for # 0 => WholeOf(ring'))
  BY <1>1 DEF OnionInv, RingWhole, WholeOf
<1>8. Local(t, r)
  BY <1>1, <1>2, <1>3, <1>4, <1>5, <1>6, <1>7 DEF Local, Aside
<1>9. ASSUME faults' = 0, t \notin pushed PROVE Survives(t)'
  <2>1. th'[t] = r
    BY <1>0, <1>2, <1>4, OneMoves
  <2>2. Survives(t)
    BY <1>1, <1>9 DEF OnionInv, Surviving
  <2>3. ~th[t].stream /\ (th[t].tries < changes \/ (th[t].tries = changes /\ Undisturbed(t)))
    BY <1>1, <2>2 DEF Survives, At
  <2>4. ASSUME Undisturbed(t) PROVE Undisturbed(t)'
    <3>1. th[t].cred = Period(consensus) /\ th[t].ring.for = consensus
      BY <1>1, <2>4 DEF Undisturbed, Current, At
    <3>2. Current(t)' /\ r.desc[1] = r.cred
      BY <1>1, <1>3, <2>1, <3>1 DEF Current, Period, Aside
    <3>3. r.known = FALSE /\ r.intro = 1
      BY <1>1, <1>3, <2>4 DEF Undisturbed
    <3>4. cached[th[t].svc] # NoDesc
      BY <1>0, <1>1, <3>1 DEF NoDesc
    <3>5. r.again => r.desc[2] = revision[r.svc]
      BY <1>1, <1>3, <2>4, <3>4 DEF Undisturbed
    <3>6. Met(t)'
      BY <1>3, <2>1, <3>3 DEF Met, At
    <3>7. Recognized(t)' \/ ~r.again
      BY <1>1, <2>1, <3>5 DEF Recognized, Aside
    <3> QED
      BY <1>1, <1>3, <2>1, <3>2, <3>3, <3>6, <3>7 DEF Undisturbed, At
  <2> QED
    BY <1>1, <1>3, <2>1, <2>3, <2>4 DEF Survives, At, Aside
<1>10. circuit' = circuit
  BY <1>1 DEF Aside
<1> QED
  BY <1>8, <1>9, <1>10, QuietKeeps

\* What fetch_descriptor comes to: the newest descriptor if there is no fault.
LEMMA FetchComesTo ==
    ASSUME OnionInv, NEW t \in Threads, DescFetch(t)
    PROVE  \E rev, res :
              /\ rev \in Nat
              /\ faults' = 0 => rev = revision[th[t].svc] /\ res = "descriptor"
              /\ \/ /\ res = "descriptor"
                    /\ cached' = [cached EXCEPT ![th[t].svc] = <<Period(th[t].ring.for), rev>>]
                    /\ th' = [th EXCEPT ![t].desc = <<Period(th[t].ring.for), rev>>,
                                        ![t].pc = "establish", ![t].ring = NoRing]
                 \/ res # "descriptor" /\ (Retry(t) \/ GiveUp(t)) /\ cached' = cached
<1> DEFINE s == th[t].svc
           period == Period(th[t].ring.for)
           newest == Document(TRUE, period, revision[s], FALSE)
           others == { newest, Document(FALSE, period, revision[s], FALSE),
                       Document(TRUE, period - 1, revision[s], FALSE),
                       Document(TRUE, period, 1, FALSE), Document(TRUE, period, revision[s], TRUE) }
           Taken(doc, res) ==
             \/ /\ res = "descriptor"
                /\ cached' = [cached EXCEPT ![s] = <<period, doc.rev>>]
                /\ th' = [th EXCEPT ![t].desc = <<period, doc.rev>>, ![t].pc = "establish",
                                    ![t].ring = NoRing]
             \/ res \in {"absent", "denied"} /\ GiveUp(t) /\ UNCHANGED cached
             \/ res = "error" /\ Retry(t) /\ UNCHANGED cached
<1>0. OnionTypeOK /\ s \in Services /\ revision[s] \in Nat /\ th[t].pc = "desc"
  <2>1. OnionTypeOK /\ s \in Services
    BY ThreadParts DEF OnionInv
  <2> QED
    BY <2>1 DEF OnionTypeOK, DescFetch, At
<1>1. \/ Fine /\ \E res \in Honest[th[t].ring.asked][th[t].ring.held] : Taken(newest, res)
      \/ Fault /\ \E doc \in others :
                     \E res \in Faulty[th[t].ring.asked][Parsed(doc, period)] : Taken(doc, res)
  BY DEF DescFetch
<1>2. \A doc \in others : doc.rev \in Nat
  BY <1>0 DEF Document
<1>3. newest.rev = revision[s]
  BY DEF Document
<1> HIDE DEF newest, others
<1>4. CASE Fine /\ \E res \in Honest[th[t].ring.asked][th[t].ring.held] : Taken(newest, res)
  <2>1. PICK res \in Honest[th[t].ring.asked][th[t].ring.held] : Taken(newest, res)
    BY <1>4
  <2>2. ASSUME faults' = 0 PROVE res = "descriptor"
    <3>1. WholeOf(th[t].ring)
      BY <1>0, <1>4, <2>2 DEF Fine, OnionInv, RingWhole
    <3>2. th[t].ring.asked \in 1..Nodes /\ th[t].ring.held = th[t].ring.asked
      BY <3>1 DEF WholeOf
    <3> QED
      BY <2>1, <3>2, HonestWhole
  <2> QED
    BY <1>0, <1>3, <2>1, <2>2
<1>5. CASE Fault /\ \E doc \in others :
                       \E res \in Faulty[th[t].ring.asked][Parsed(doc, period)] : Taken(doc, res)
  <2>1. PICK doc \in others : \E res \in Faulty[th[t].ring.asked][Parsed(doc, period)] : Taken(doc, res)
    BY <1>5
  <2>2. PICK res : Taken(doc, res)
    BY <2>1
  <2>3. faults' # 0
    BY <1>0, <1>5, FaultCounts
  <2>4. doc.rev \in Nat
    BY <1>2, <2>1
  <2> QED
    BY <2>2, <2>3, <2>4
<1> QED
  BY <1>1, <1>4, <1>5

\* The descriptor fetched is of the period of the ring, and is kept.
LEMMA KeepsDescFetch ==
    ASSUME OnionInv, NEW t \in Threads, DescFetch(t)
    PROVE  OnionInv'
<1>0. /\ OnionTypeOK /\ th[t] \in ThreadRecords /\ th[t].svc \in Services
      /\ th[t].ring.for \in Nat /\ Period(th[t].ring.for) \in Nat
  <2>1. OnionTypeOK /\ th[t] \in ThreadRecords /\ th[t].svc \in Services /\ th[t].ring \in RingRecords
    BY ThreadParts DEF OnionInv
  <2>2. th[t].ring.for \in Nat
    BY <2>1 DEF RingRecords
  <2> QED
    BY <2>1, <2>2, PeriodType
<1>1. Aside /\ ring' = ring /\ building' = building /\ th[t].pc = "desc"
  BY DEF DescFetch, Aside, directory, service, At
<1>2. faults' \in Nat /\ (faults' = 0 => faults = 0)
  <2>1. Fine \/ Fault
    BY DEF DescFetch
  <2> QED
    BY <1>0, <2>1, FaultCounts DEF Fine, OnionTypeOK
<1>3. ring' \in RingRecords /\ building' \in Threads \cup {None}
  BY <1>0, <1>1 DEF OnionTypeOK
<1>4. faults' = 0 => (ring'.for # 0 => WholeOf(ring'))
  BY <1>1, <1>2 DEF OnionInv, RingWhole, WholeOf
<1>5. PICK rev, res :
              /\ rev \in Nat
              /\ faults' = 0 => rev = revision[th[t].svc] /\ res = "descriptor"
              /\ \/ /\ res = "descriptor"
                    /\ cached' = [cached EXCEPT ![th[t].svc] = <<Period(th[t].ring.for), rev>>]
                    /\ th' = [th EXCEPT ![t].desc = <<Period(th[t].ring.for), rev>>,
                                        ![t].pc = "establish", ![t].ring = NoRing]
                 \/ res # "descriptor" /\ (Retry(t) \/ GiveUp(t)) /\ cached' = cached
  BY FetchComesTo
<1>6. CASE res # "descriptor"
  <2>1. faults' # 0 /\ (Retry(t) \/ GiveUp(t)) /\ cached' = cached
    BY <1>5, <1>6
  <2> QED
    BY <1>1, <1>2, <1>3, <2>1, EndsKeeps
<1>7. CASE res = "descriptor"
  <2>1. PICK d \in Nat \X Nat : d = <<Period(th[t].ring.for), rev>>
    BY <1>0, <1>5
  <2> DEFINE r == [th[t] EXCEPT !.desc = d, !.pc = "establish", !.ring = NoRing]
  <2>2. /\ cached' = [cached EXCEPT ![th[t].svc] = d]
        /\ th' = [th EXCEPT ![t].desc = d, ![t].pc = "establish", ![t].ring = NoRing]
    BY <1>5, <1>7, <2>1
  <2>3. th' = [th EXCEPT ![t] = r]
    BY <1>0, <2>2 DEF OnionTypeOK
  <2>4. /\ r.pc = "establish" /\ r.desc = d /\ r.circ = th[t].circ
        /\ r.svc = th[t].svc /\ r.cred = th[t].cred /\ r.known = th[t].known /\ r.again = th[t].again
        /\ r.intro = th[t].intro /\ r.tries = th[t].tries /\ r.stream = th[t].stream
    BY <1>0 DEF ThreadRecords
  <2>5. r \in ThreadRecords
    <3>1. NoRing \in RingRecords
      BY OnionConstants DEF NoRing, RingRecords
    <3> QED
      BY <1>0, <2>1, <3>1 DEF ThreadRecords, OnionPlaces
  <2> HIDE DEF r
  <2>6. r.pc \notin Building \cup {"begin", "open", "desc", "build", "fetch"}
    BY <2>4 DEF Building
  <2>7. cached' \in [Services -> Nat \X Nat]
    BY <1>0, <2>1, <2>2 DEF OnionTypeOK
  <2>8. faults' = 0 => d[2] = revision[th[t].svc]
    BY <1>5, <2>1
  <2>9. ASSUME NEW x \in Services, faults' = 0
        PROVE  cached'[x] = cached[x] \/ cached'[x] = NoDesc \/ cached'[x][2] = revision[x]
    BY <1>0, <2>2, <2>8, <2>9 DEF OnionTypeOK
  <2>10. Local(t, r)
    BY <1>1, <1>2, <1>3, <1>4, <2>3, <2>4, <2>5, <2>6, <2>7, <2>9 DEF Local, Aside
  <2>11. ASSUME faults' = 0, t \notin pushed PROVE Survives(t)'
    <3>1. th'[t] = r
      BY <1>0, <2>3, <2>5, OneMoves
    <3>2. Survives(t)
      BY <1>2, <2>11 DEF OnionInv, Surviving
    <3>3. ~th[t].stream /\ (th[t].tries < changes \/ (th[t].tries = changes /\ Undisturbed(t)))
      BY <1>1, <3>2 DEF Survives, At
    <3>4. ASSUME Undisturbed(t) PROVE Undisturbed(t)'
      <4>1. th[t].cred = Period(consensus) /\ th[t].ring.for = consensus
        BY <1>1, <3>4 DEF Undisturbed, Current, At
      <4>2. Current(t)' /\ r.desc[1] = r.cred
        BY <1>1, <2>1, <2>4, <3>1, <4>1 DEF Current, Period, Aside
      <4>3. r.known = FALSE /\ r.intro = 1
        BY <1>1, <2>4, <3>4 DEF Undisturbed
      <4>4. Met(t)'
        BY <2>4, <3>1, <4>3 DEF Met, At
      <4>5. Recognized(t)'
        BY <1>1, <2>4, <2>8, <2>11, <3>1 DEF Recognized, Aside
      <4> QED
        BY <1>1, <2>4, <3>1, <4>2, <4>3, <4>4, <4>5 DEF Undisturbed, At
    <3> QED
      BY <1>1, <2>4, <3>1, <3>3, <3>4 DEF Survives, At, Aside
  <2>12. circuit' = circuit
    BY <1>1 DEF Aside
  <2> QED
    BY <2>10, <2>11, <2>12, QuietKeeps
<1> QED
  BY <1>6, <1>7

-----------------------------------------------------------------------------
(* The steps of rendezvous::establish that change no circuit.              *)

\* The thread goes to another point, or past the last: as far as the circuits and
\* the rest go this is a step by itself.
Onward(t, r) ==
    /\ r \in ThreadRecords /\ th' = [th EXCEPT ![t] = r]
    /\ r.pc = "introduce" /\ r.circ = th[t].circ /\ r.svc = th[t].svc /\ r.cred = th[t].cred
    /\ r.desc = th[t].desc /\ r.again = th[t].again /\ r.tries = th[t].tries
    /\ r.stream = th[t].stream

\* A thread at another point is a thread.
LEMMA PointType ==
    ASSUME NEW x \in ThreadRecords, NEW kn \in BOOLEAN, NEW i \in Nat
    PROVE  [x EXCEPT !.known = kn, !.intro = i, !.pc = "introduce"] \in ThreadRecords
BY DEF ThreadRecords, OnionPlaces

\* What becomes of a thread whose introduction has failed.
LEMMA NextPointOnward ==
    ASSUME OnionTypeOK, NEW t \in Threads, NEW how \in BOOLEAN, NextPoint(t, how)
    PROVE  \E r : Onward(t, r) /\ r.known = (th[t].known \/ ~how) /\ r.intro = th[t].intro + 1
<1> DEFINE r == [th[t] EXCEPT !.known = th[t].known \/ ~how, !.intro = @ + 1, !.pc = "introduce"]
<1>0. th[t] \in ThreadRecords /\ th \in [Threads -> ThreadRecords]
  BY ThreadParts DEF OnionTypeOK
<1>1. th' = [th EXCEPT ![t] = r]
  BY <1>0 DEF NextPoint
<1>2. r \in ThreadRecords
  <2>1. (th[t].known \/ ~how) \in BOOLEAN
    OBVIOUS
  <2>2. PICK kn \in BOOLEAN : kn = (th[t].known \/ ~how)
    BY <2>1
  <2>3. PICK i \in Nat : i = th[t].intro + 1
    BY ThreadParts
  <2>4. r = [th[t] EXCEPT !.known = kn, !.intro = i, !.pc = "introduce"]
    BY <2>2, <2>3, Zenon
  <2> QED
    BY <1>0, <2>4, PointType
<1>3. /\ r.pc = "introduce" /\ r.circ = th[t].circ /\ r.svc = th[t].svc /\ r.cred = th[t].cred
      /\ r.desc = th[t].desc /\ r.again = th[t].again /\ r.tries = th[t].tries
      /\ r.stream = th[t].stream /\ r.known = (th[t].known \/ ~how) /\ r.intro = th[t].intro + 1
  BY <1>0 DEF ThreadRecords
<1> QED
  BY <1>1, <1>2, <1>3 DEF Onward

\* Going on is a step of the thread by itself.
LEMMA OnwardLocal ==
    ASSUME OnionInv, NEW t \in Threads, NEW r, Onward(t, r), th[t].pc \in {"introduce", "await"},
           open' = open, consensus' = consensus, clearing' = clearing, revision' = revision,
           changes' = changes, pushed' = pushed, cached' = cached, ring' = ring,
           building' = building, faults' \in Nat, faults' = 0 => faults = 0
    PROVE  Local(t, r)
<1>1. /\ ring' \in RingRecords /\ building' \in Threads \cup {None}
      /\ cached' \in [Services -> Nat \X Nat]
  BY DEF OnionInv, OnionTypeOK
<1>2. faults' = 0 => (ring'.for # 0 => WholeOf(ring'))
  BY DEF OnionInv, RingWhole, WholeOf
<1>3. r.pc \in Building /\ th[t].pc \in Building /\ r.circ = th[t].circ
  BY DEF Onward, Building
<1>4. r.pc \notin {"begin", "open", "desc", "build", "fetch"}
  BY DEF Onward
<1> QED
  BY <1>1, <1>2, <1>3, <1>4 DEF Local, Onward

\* The point does not know the key: only a stale descriptor, or a thread that was
\* disturbed, comes here.
LEMMA KeepsIntroduceUnknown ==
    ASSUME OnionInv, NEW t \in Threads, IntroduceUnknown(t)
    PROVE  OnionInv'
<1>0. OnionTypeOK
  BY DEF OnionInv
<1>1. /\ Aside /\ cached' = cached /\ ring' = ring /\ building' = building /\ faults' = faults
      /\ th[t].pc = "introduce" /\ ~Recognized(t) /\ NextPoint(t, TRUE)
  BY DEF IntroduceUnknown, Introducing, Aside, directory, service, At
<1>2. PICK r : Onward(t, r) /\ r.known = (th[t].known \/ ~TRUE) /\ r.intro = th[t].intro + 1
  BY <1>0, <1>1, NextPointOnward
<1>3. faults' \in Nat
  BY <1>0, <1>1 DEF OnionTypeOK
<1>4. Local(t, r)
  BY <1>1, <1>2, <1>3, OnwardLocal DEF Aside
<1>5. ASSUME faults' = 0, t \notin pushed PROVE Survives(t)'
  <2>1. th'[t] = r
    BY <1>0, <1>2, OneMoves DEF Onward
  <2>2. Survives(t)
    BY <1>1, <1>5 DEF OnionInv, Surviving
  <2>3. ~th[t].stream /\ (th[t].tries < changes \/ (th[t].tries = changes /\ Undisturbed(t)))
    BY <1>1, <2>2 DEF Survives, At
  <2>4. ASSUME Undisturbed(t) PROVE Undisturbed(t)'
    <3>1. /\ th[t].known = FALSE /\ Current(t) /\ th[t].desc[1] = th[t].cred /\ ~th[t].again
      BY <1>1, <2>4 DEF Undisturbed, At
    <3>2. Current(t)' /\ r.desc[1] = r.cred /\ r.known = FALSE /\ ~r.again
      BY <1>1, <1>2, <2>1, <3>1 DEF Current, Period, Aside, Onward
    <3>3. ~Recognized(t)'
      BY <1>1, <1>2, <2>1 DEF Recognized, Aside, Onward
    <3> QED
      BY <1>2, <2>1, <3>2, <3>3 DEF Undisturbed, At, Onward
  <2> QED
    BY <1>1, <1>2, <2>1, <2>3, <2>4 DEF Survives, At, Aside, Onward
<1>6. circuit' = circuit
  BY <1>1 DEF Aside
<1> QED
  BY <1>4, <1>5, <1>6, QuietKeeps

\* The deadline has passed, which is a fault.
LEMMA KeepsOutOfTime ==
    ASSUME OnionInv, NEW t \in Threads, OutOfTime(t)
    PROVE  OnionInv'
<1>0. /\ OnionTypeOK /\ th[t] \in ThreadRecords /\ th \in [Threads -> ThreadRecords]
      /\ IntroPoints + 1 \in Nat
  BY ThreadParts, OnionConstants DEF OnionInv, OnionTypeOK
<1>1. /\ Aside /\ cached' = cached /\ ring' = ring /\ building' = building
      /\ th[t].pc = "introduce" /\ faults' \in Nat /\ faults' # 0
  BY <1>0, FaultCounts DEF OutOfTime, Introducing, Aside, directory, service, At
<1> DEFINE r == [th[t] EXCEPT !.known = @ \/ th[t].intro = 1, !.intro = IntroPoints + 1]
<1>2. th' = [th EXCEPT ![t] = r]
  BY <1>0 DEF OutOfTime
<1>3. r \in ThreadRecords
  <2>1. (th[t].known \/ th[t].intro = 1) \in BOOLEAN
    OBVIOUS
  <2>2. PICK kn \in BOOLEAN : kn = (th[t].known \/ th[t].intro = 1)
    BY <2>1
  <2>3. PICK i \in Nat : i = IntroPoints + 1
    BY <1>0
  <2>4. r = [th[t] EXCEPT !.known = kn, !.intro = i]
    BY <2>2, <2>3, Zenon
  <2>5. [th[t] EXCEPT !.known = kn, !.intro = i] \in ThreadRecords
    BY <1>0 DEF ThreadRecords
  <2> QED
    BY <2>4, <2>5
<1>4. /\ r.pc = "introduce" /\ r.circ = th[t].circ /\ r.svc = th[t].svc /\ r.cred = th[t].cred
      /\ r.desc = th[t].desc /\ r.again = th[t].again /\ r.tries = th[t].tries
      /\ r.stream = th[t].stream
  BY <1>0, <1>1 DEF ThreadRecords
<1> HIDE DEF r
<1>5. Onward(t, r)
  BY <1>2, <1>3, <1>4 DEF Onward
<1>6. Local(t, r)
  BY <1>1, <1>5, OnwardLocal DEF Aside
<1>7. circuit' = circuit
  BY <1>1 DEF Aside
<1> QED
  BY <1>1, <1>6, <1>7, QuietKeeps

\* A thread waits in vain only by a fault, or because it was disturbed.
LEMMA KeepsAwaitFails ==
    ASSUME OnionInv, NEW t \in Threads, AwaitFails(t)
    PROVE  OnionInv'
<1>0. OnionTypeOK
  BY DEF OnionInv
<1>1. /\ Aside /\ cached' = cached /\ ring' = ring /\ building' = building
      /\ th[t].pc = "await" /\ NextPoint(t, FALSE) /\ circuit[th[t].circ].mail = 0
  BY DEF AwaitFails, Aside, directory, service, At
<1>2. PICK r : Onward(t, r)
  BY <1>0, <1>1, NextPointOnward
<1>3. faults' \in Nat /\ (faults' = 0 => faults = 0 /\ Fine)
  <2>1. Fine \/ Fault
    BY DEF AwaitFails
  <2> QED
    BY <1>0, <2>1, FaultCounts DEF Fine, OnionTypeOK
<1>4. Local(t, r)
  BY <1>1, <1>2, <1>3, OnwardLocal DEF Aside
<1>5. ASSUME faults' = 0, t \notin pushed PROVE Survives(t)'
  <2>1. th'[t] = r
    BY <1>0, <1>2, OneMoves DEF Onward
  <2>2. Survives(t) /\ faults = 0
    BY <1>3, <1>5 DEF OnionInv, Surviving
  <2>3. ~th[t].stream /\ (th[t].tries < changes \/ (th[t].tries = changes /\ Undisturbed(t)))
    BY <1>1, <2>2 DEF Survives, At
  <2>4. circuit[th[t].circ].state = "open"
    BY <1>1, <1>5, <2>2 DEF OnionInv, ClosedByOthers, IsOpen, Holding, Building
  <2>5. ASSUME Undisturbed(t) PROVE FALSE
    <3>1. Met(t)
      BY <1>1, <2>5 DEF Undisturbed, At
    <3>2. circuit[th[t].circ].met = 0 /\ circuit[th[t].circ].meets = {1}
      BY <1>1, <3>1 DEF Met, At
    <3>3. Fault
      BY <2>4, <3>2 DEF AwaitFails
    <3> QED
      BY <1>0, <1>5, <3>3, FaultCounts
  <2> QED
    BY <1>1, <1>2, <2>1, <2>3, <2>5 DEF Survives, At, Aside, Onward
<1>6. circuit' = circuit
  BY <1>1 DEF Aside
<1> QED
  BY <1>4, <1>5, <1>6, QuietKeeps

\* The stream is there, or the service says no.
LEMMA KeepsBegin ==
    ASSUME OnionInv, NEW t \in Threads, Begin(t)
    PROVE  OnionInv'
<1>0. OnionTypeOK /\ th[t] \in ThreadRecords /\ th \in [Threads -> ThreadRecords] /\ th[t].tries \in Nat
  BY ThreadParts DEF OnionInv, OnionTypeOK
<1>1. /\ Aside /\ cached' = cached /\ ring' = ring /\ building' = building /\ th[t].pc = "begin"
  BY DEF Begin, Aside, directory, service, At
<1>2. /\ ring' \in RingRecords /\ building' \in Threads \cup {None}
      /\ cached' \in [Services -> Nat \X Nat] /\ faults \in Nat
  BY <1>0, <1>1 DEF OnionTypeOK
<1>3. CASE GiveUp(t) /\ Fault
  BY <1>0, <1>1, <1>2, <1>3, FaultCounts, EndsKeeps
<1>4. CASE Fine /\ th' = [th EXCEPT ![t].pc = "open", ![t].stream = TRUE,
                                    ![t].tries = IF th[t].stream THEN @ ELSE 0]
  <2>1. PICK n \in Nat : n = (IF th[t].stream THEN th[t].tries ELSE 0)
    BY <1>0
  <2> DEFINE r == [th[t] EXCEPT !.pc = "open", !.stream = TRUE, !.tries = n]
  <2>2. th' = [th EXCEPT ![t] = r]
    BY <1>0, <1>4, <2>1
  <2>3. r \in ThreadRecords
    BY <1>0, <2>1 DEF ThreadRecords, OnionPlaces
  <2>4. r.pc = "open" /\ r.circ = th[t].circ /\ r.svc = th[t].svc
    BY <1>0 DEF ThreadRecords
  <2> HIDE DEF r
  <2>5. r.pc \notin Building \cup {"desc", "build", "fetch"}
    BY <2>4 DEF Building
  <2>6. faults' = 0 => (ring'.for # 0 => WholeOf(ring'))
    BY <1>1, <1>4 DEF OnionInv, RingWhole, WholeOf, Fine
  <2>7. Local(t, r)
    BY <1>1, <1>2, <1>4, <2>2, <2>3, <2>4, <2>5, <2>6 DEF Local, Aside, Fine
  <2>8. Survives(t)'
    <3>1. th'[t] = r
      BY <1>0, <2>2, <2>3, OneMoves
    <3> QED
      BY <2>4, <3>1 DEF Survives, At
  <2>9. circuit' = circuit
    BY <1>1 DEF Aside
  <2> QED
    BY <2>7, <2>8, <2>9, QuietKeeps
<1> QED
  BY <1>3, <1>4 DEF Begin

-----------------------------------------------------------------------------
(* The steps of rendezvous::establish that change the circuit it builds.   *)

\* One circuit becomes k, and is neither opened nor closed by that.
LEMMA OwnCircuit ==
    ASSUME OnionInv, NEW t \in Threads, NEW r, NEW k \in CircuitRecords, th[t].pc \in Building,
           circuit' = [circuit EXCEPT ![th[t].circ] = k],
           k.state = circuit[th[t].circ].state, k.aged = circuit[th[t].circ].aged,
           k.state = "open" => /\ k.hop # 0 => k.met = k.hop
                               /\ k.mail # 0 => k.met = k.mail
    PROVE  LocalCircuit(t, r) /\ Keyed' /\ circuit'[th[t].circ] = k
<1>1. th[t].circ \in Circuits /\ circuit \in [Circuits -> CircuitRecords]
  BY DEF OnionInv, OnionTypeOK, HasCircuit, Holding
<1>2. /\ circuit' \in [Circuits -> CircuitRecords] /\ circuit'[th[t].circ] = k
      /\ \A c \in Circuits : c # th[t].circ => circuit'[c] = circuit[c]
  BY <1>1
<1>3. LocalCircuit(t, r)
  BY <1>2 DEF LocalCircuit
<1>4. Keyed'
  BY <1>2 DEF OnionInv, Keyed, IsOpen
<1> QED
  BY <1>2, <1>3, <1>4

\* What a delivered introduction leaves of the circuit.
LEMMA DeliveredIs ==
    ASSUME OnionInv, NEW t \in Threads, th[t].pc = "introduce",
           circuit' = circuit \/ circuit' = Delivered(t)
    PROVE  \E k \in CircuitRecords :
              /\ circuit' = [circuit EXCEPT ![th[t].circ] = k]
              /\ k.state = circuit[th[t].circ].state /\ k.aged = circuit[th[t].circ].aged
              /\ k.hop = circuit[th[t].circ].hop /\ k.met = circuit[th[t].circ].met
              /\ k.mail = circuit[th[t].circ].mail
<1> DEFINE c == th[t].circ
           k1 == [circuit[c] EXCEPT !.meets = @ \cup {th[t].intro}]
<1>1. /\ c \in Circuits /\ circuit \in [Circuits -> CircuitRecords] /\ th[t].intro \in Nat
      /\ circuit[c] \in CircuitRecords
  BY ThreadParts DEF OnionInv, OnionTypeOK, HasCircuit, Holding, Building
<1>2. k1 \in CircuitRecords
  BY <1>1 DEF CircuitRecords
<1>3. /\ k1.state = circuit[c].state /\ k1.aged = circuit[c].aged /\ k1.hop = circuit[c].hop
      /\ k1.met = circuit[c].met /\ k1.mail = circuit[c].mail
  BY <1>1 DEF CircuitRecords
<1>4. CASE circuit' = circuit
  <2>1. circuit' = [circuit EXCEPT ![c] = circuit[c]]
    BY <1>1, <1>4
  <2> QED
    BY <1>1, <2>1
<1>5. CASE circuit' = [circuit EXCEPT ![c] = k1]
  BY <1>2, <1>3, <1>5
<1>6. circuit' = circuit \/ circuit' = [circuit EXCEPT ![c] = k1]
  BY DEF Delivered
<1> QED
  BY <1>4, <1>5, <1>6

\* An introduction fails by a fault, and may have been delivered.
LEMMA KeepsIntroduceFails ==
    ASSUME OnionInv, NEW t \in Threads, IntroduceFails(t)
    PROVE  OnionInv'
<1>0. OnionTypeOK
  BY DEF OnionInv
<1>1. /\ open' = open /\ consensus' = consensus /\ clearing' = clearing /\ revision' = revision
      /\ changes' = changes /\ pushed' = pushed /\ cached' = cached /\ ring' = ring
      /\ building' = building /\ th[t].pc = "introduce" /\ NextPoint(t, FALSE)
      /\ faults' \in Nat /\ faults' # 0
  BY <1>0, FaultCounts DEF IntroduceFails, Introducing, directory, service, At
<1>2. PICK r : Onward(t, r)
  BY <1>0, <1>1, NextPointOnward
<1>3. Local(t, r)
  BY <1>1, <1>2, OnwardLocal
<1>4. PICK k \in CircuitRecords :
              /\ circuit' = [circuit EXCEPT ![th[t].circ] = k]
              /\ k.state = circuit[th[t].circ].state /\ k.aged = circuit[th[t].circ].aged
              /\ k.hop = circuit[th[t].circ].hop /\ k.met = circuit[th[t].circ].met
              /\ k.mail = circuit[th[t].circ].mail
  BY <1>1, DeliveredIs DEF IntroduceFails
<1>5. th[t].pc \in Building /\ th[t].circ \in Circuits
  BY <1>1 DEF Building, OnionInv, HasCircuit, Holding
<1>6. k.state = "open" => (k.hop # 0 => k.met = k.hop) /\ (k.mail # 0 => k.met = k.mail)
  BY <1>4, <1>5 DEF OnionInv, Keyed, IsOpen
<1>7. LocalCircuit(t, r) /\ Keyed'
  BY <1>4, <1>5, <1>6, OwnCircuit
<1> QED
  BY <1>1, <1>3, <1>7, LocalKeeps

\* The introduction is acknowledged; if nothing disturbed the attempt the service has it.
LEMMA KeepsIntroduceAcked ==
    ASSUME OnionInv, NEW t \in Threads, IntroduceAcked(t)
    PROVE  OnionInv'
<1> DEFINE r == [th[t] EXCEPT !.pc = "await"]
<1>0. OnionTypeOK /\ th[t] \in ThreadRecords /\ th \in [Threads -> ThreadRecords]
  BY ThreadParts DEF OnionInv, OnionTypeOK
<1>1. /\ open' = open /\ consensus' = consensus /\ clearing' = clearing /\ revision' = revision
      /\ changes' = changes /\ pushed' = pushed /\ cached' = cached /\ ring' = ring
      /\ building' = building /\ th[t].pc = "introduce" /\ faults' = faults
      /\ circuit' = Delivered(t) /\ Recognized(t)
  BY DEF IntroduceAcked, Introducing, directory, service, At
<1>2. th' = [th EXCEPT ![t] = r]
  BY <1>0 DEF IntroduceAcked
<1>3. r \in ThreadRecords
  BY <1>0 DEF ThreadRecords, OnionPlaces
<1>4. /\ r.pc = "await" /\ r.circ = th[t].circ /\ r.svc = th[t].svc /\ r.cred = th[t].cred
      /\ r.desc = th[t].desc /\ r.again = th[t].again /\ r.tries = th[t].tries
      /\ r.stream = th[t].stream /\ r.known = th[t].known /\ r.intro = th[t].intro
  BY <1>0 DEF ThreadRecords
<1> HIDE DEF r
<1>5. /\ ring' \in RingRecords /\ building' \in Threads \cup {None} /\ faults' \in Nat
      /\ cached' \in [Services -> Nat \X Nat]
  BY <1>0, <1>1 DEF OnionTypeOK
<1>6. faults' = 0 => (ring'.for # 0 => WholeOf(ring'))
  BY <1>1 DEF OnionInv, RingWhole, WholeOf
<1>7. r.pc \in Building /\ th[t].pc \in Building /\ th[t].circ \in Circuits
  BY <1>1, <1>4 DEF Building, OnionInv, HasCircuit, Holding
<1>8. Local(t, r)
  BY <1>1, <1>2, <1>3, <1>4, <1>5, <1>6, <1>7 DEF Local
<1>9. PICK k \in CircuitRecords :
              /\ circuit' = [circuit EXCEPT ![th[t].circ] = k]
              /\ k.state = circuit[th[t].circ].state /\ k.aged = circuit[th[t].circ].aged
              /\ k.hop = circuit[th[t].circ].hop /\ k.met = circuit[th[t].circ].met
              /\ k.mail = circuit[th[t].circ].mail
  BY <1>1, DeliveredIs
<1>10. k.state = "open" => (k.hop # 0 => k.met = k.hop) /\ (k.mail # 0 => k.met = k.mail)
  BY <1>7, <1>9 DEF OnionInv, Keyed, IsOpen
<1>11. LocalCircuit(t, r) /\ Keyed' /\ circuit'[th[t].circ] = k
  BY <1>7, <1>9, <1>10, OwnCircuit
<1>12. ASSUME faults' = 0, t \notin pushed PROVE Survives(t)'
  <2>1. th'[t] = r
    BY <1>0, <1>2, <1>3, OneMoves
  <2>2. Survives(t)
    BY <1>1, <1>12 DEF OnionInv, Surviving
  <2>3. ~th[t].stream /\ (th[t].tries < changes \/ (th[t].tries = changes /\ Undisturbed(t)))
    BY <1>1, <2>2 DEF Survives, At
  <2>4. ASSUME Undisturbed(t) PROVE Undisturbed(t)'
    <3>1. Current(t) /\ th[t].desc[1] = th[t].cred /\ Met(t) /\ th[t].known = FALSE
      BY <1>1, <2>4 DEF Undisturbed, At
    <3>2. /\ th[t].intro = 1 /\ circuit[th[t].circ].met = 0 /\ circuit[th[t].circ].meets = {}
          /\ circuit[th[t].circ].mail = 0
      BY <1>1, <3>1 DEF Met, At
    <3>3. IsOpen(th[t].circ)
      BY <1>1, <1>12 DEF OnionInv, ClosedByOthers, Holding, Building
    <3>4. circuit' = [circuit EXCEPT ![th[t].circ].meets = @ \cup {th[t].intro}]
      BY <1>1, <3>1, <3>2, <3>3 DEF Delivered
    <3>5. k.meets = {1}
      <4>1. circuit[th[t].circ] \in CircuitRecords /\ circuit \in [Circuits -> CircuitRecords]
        BY <1>0, <1>7 DEF OnionTypeOK
      <4>2. circuit'[th[t].circ].meets = circuit[th[t].circ].meets \cup {1}
        BY <1>7, <3>2, <3>4, <4>1 DEF CircuitRecords
      <4> QED
        BY <1>11, <3>2, <4>2
    <3>6. Met(t)'
      BY <1>4, <1>9, <1>11, <2>1, <3>2, <3>5 DEF Met, At
    <3>7. Current(t)' /\ r.desc[1] = r.cred
      BY <1>1, <1>4, <2>1, <3>1 DEF Current, Period
    <3>8. Recognized(t)'
      BY <1>1, <1>4, <2>1 DEF Recognized
    <3> QED
      BY <1>4, <2>1, <3>1, <3>6, <3>7, <3>8 DEF Undisturbed, At
  <2> QED
    BY <1>1, <1>4, <2>1, <2>3, <2>4 DEF Survives, At
<1> QED
  BY <1>8, <1>11, <1>12, LocalKeeps

\* The reply that waits: the keys it gives are the service's, and an attempt that nothing
\* disturbed takes it.
LEMMA KeepsFinish ==
    ASSUME OnionInv, NEW t \in Threads, Finish(t)
    PROVE  OnionInv'
<1>0. /\ OnionTypeOK /\ th[t] \in ThreadRecords /\ th \in [Threads -> ThreadRecords]
      /\ th[t].svc \in Services /\ th[t].tries \in Nat /\ th[t].stream \in BOOLEAN
      /\ th[t].intro \in Nat
  BY ThreadParts DEF OnionInv, OnionTypeOK
<1>1. /\ open' = open /\ consensus' = consensus /\ clearing' = clearing /\ revision' = revision
      /\ changes' = changes /\ pushed' = pushed /\ cached' = cached /\ ring' = ring
      /\ building' = building /\ th[t].pc = "await" /\ faults' = faults
      /\ circuit[th[t].circ].mail # 0
  BY DEF Finish, directory, service, At
<1>2. th[t].pc \in Building /\ th[t].circ \in Circuits
  BY <1>1 DEF Building, OnionInv, HasCircuit, Holding
<1>3. circuit \in [Circuits -> CircuitRecords] /\ circuit[th[t].circ] \in CircuitRecords
  BY <1>0, <1>2 DEF OnionTypeOK
<1>4. /\ ring' \in RingRecords /\ building' \in Threads \cup {None} /\ faults' \in Nat
      /\ cached' \in [Services -> Nat \X Nat]
  BY <1>0, <1>1 DEF OnionTypeOK
<1>5. faults' = 0 => (ring'.for # 0 => WholeOf(ring'))
  BY <1>1 DEF OnionInv, RingWhole, WholeOf
<1>6. ASSUME faults' = 0, t \notin pushed
      PROVE  ~th[t].stream /\ (th[t].tries < changes \/ (th[t].tries = changes /\ Undisturbed(t)))
  <2>1. Survives(t)
    BY <1>1, <1>6 DEF OnionInv, Surviving
  <2> QED
    BY <1>1, <2>1 DEF Survives, At
<1>7. CASE circuit[th[t].circ].mail = th[t].intro
  <2> DEFINE r == [Asking(th[t].svc, th[t].tries) EXCEPT
                     !.pc = "insert", !.circ = th[t].circ, !.stream = th[t].stream]
             k == [circuit[th[t].circ] EXCEPT !.hop = th[t].intro, !.mail = 0]
  <2>1. th' = [th EXCEPT ![t] = r]
    BY <1>7 DEF Finish, Finishes
  <2>2. circuit' = [circuit EXCEPT ![th[t].circ] = k]
    BY <1>3, <1>7 DEF Finish, Finishes
  <2>3. r \in ThreadRecords
    <3>1. Asking(th[t].svc, th[t].tries) \in ThreadRecords
      BY <1>0, AskingType
    <3>2. PICK x \in ThreadRecords : x = Asking(th[t].svc, th[t].tries)
      BY <3>1
    <3>3. [x EXCEPT !.pc = "insert", !.circ = th[t].circ, !.stream = th[t].stream] \in ThreadRecords
      BY <1>0, <1>2, <3>2 DEF ThreadRecords, OnionPlaces
    <3> QED
      BY <3>2, <3>3
  <2>4. /\ r.pc = "insert" /\ r.circ = th[t].circ /\ r.stream = th[t].stream
        /\ r.tries = th[t].tries /\ r.known = FALSE
    BY DEF Asking
  <2>5. /\ k \in CircuitRecords /\ k.hop = th[t].intro /\ k.mail = 0
        /\ k.state = circuit[th[t].circ].state /\ k.aged = circuit[th[t].circ].aged
        /\ k.met = circuit[th[t].circ].met
    BY <1>0, <1>3 DEF CircuitRecords
  <2> HIDE DEF r, k
  <2>6. k.state = "open" => (k.hop # 0 => k.met = k.hop) /\ (k.mail # 0 => k.met = k.mail)
    BY <1>1, <1>2, <1>7, <2>5 DEF OnionInv, Keyed, IsOpen
  <2>7. LocalCircuit(t, r) /\ Keyed'
    BY <1>2, <2>2, <2>5, <2>6, OwnCircuit
  <2>8. r.pc \in Building /\ r.pc \notin {"begin", "open", "desc", "build", "fetch"}
    BY <2>4 DEF Building
  <2>9. Local(t, r)
    BY <1>1, <1>2, <1>4, <1>5, <2>1, <2>3, <2>4, <2>8 DEF Local
  <2>10. ASSUME faults' = 0, t \notin pushed PROVE Survives(t)'
    <3>1. th'[t] = r
      BY <1>0, <2>1, <2>3, OneMoves
    <3>2. Undisturbed(t)'
      BY <2>4, <3>1 DEF Undisturbed, At
    <3> QED
      BY <1>1, <1>6, <2>4, <2>10, <3>1, <3>2 DEF Survives, At
  <2> QED
    BY <2>7, <2>9, <2>10, LocalKeeps
<1>8. CASE circuit[th[t].circ].mail # th[t].intro
  <2> DEFINE k == [circuit[th[t].circ] EXCEPT !.mail = 0]
  <2>1. NextPoint(t, FALSE) /\ circuit' = [circuit EXCEPT ![th[t].circ].mail = 0]
    BY <1>8 DEF Finish, Finishes
  <2>2. circuit' = [circuit EXCEPT ![th[t].circ] = k]
    BY <1>3, <2>1
  <2>3. PICK r : Onward(t, r)
    BY <1>0, <2>1, NextPointOnward
  <2>4. Local(t, r)
    BY <1>1, <1>4, <2>3, OnwardLocal
  <2>5. /\ k \in CircuitRecords /\ k.mail = 0 /\ k.hop = circuit[th[t].circ].hop
        /\ k.state = circuit[th[t].circ].state /\ k.aged = circuit[th[t].circ].aged
        /\ k.met = circuit[th[t].circ].met
    BY <1>3 DEF CircuitRecords
  <2> HIDE DEF k
  <2>6. k.state = "open" => (k.hop # 0 => k.met = k.hop) /\ (k.mail # 0 => k.met = k.mail)
    BY <1>2, <2>5 DEF OnionInv, Keyed, IsOpen
  <2>7. LocalCircuit(t, r) /\ Keyed'
    BY <1>2, <2>2, <2>5, <2>6, OwnCircuit
  <2>8. ASSUME faults' = 0, t \notin pushed PROVE Survives(t)'
    <3>1. th'[t] = r
      BY <1>0, <2>3, OneMoves DEF Onward
    <3>2. ASSUME Undisturbed(t) PROVE FALSE
      <4>1. Met(t)
        BY <1>1, <3>2 DEF Undisturbed, At
      <4>2. th[t].intro = 1 /\ (circuit[th[t].circ].mail = 0 \/ circuit[th[t].circ].mail = 1)
        BY <1>1, <4>1 DEF Met, At
      <4> QED
        BY <1>1, <1>8, <4>2
    <3> QED
      BY <1>1, <1>6, <2>3, <2>8, <3>1, <3>2 DEF Survives, At, Onward
  <2> QED
    BY <2>4, <2>7, <2>8, LocalKeeps
<1> QED
  BY <1>7, <1>8

\* Circuits are closed.
LEMMA ClosedIs ==
    ASSUME OnionTypeOK, NEW cs
    PROVE  /\ Closed(cs) \in [Circuits -> CircuitRecords]
           /\ \A c \in Circuits : c \in cs => Closed(cs)[c].state = "closed"
           /\ \A c \in Circuits : c \notin cs => Closed(cs)[c] = circuit[c]
<1>1. ASSUME NEW c \in Circuits
      PROVE  [Unused EXCEPT !.state = "closed", !.mail = circuit[c].mail] \in CircuitRecords
  <2>1. circuit[c].mail \in Nat
    BY DEF OnionTypeOK, CircuitRecords
  <2> QED
    BY <2>1 DEF Unused, CircuitRecords
<1>2. Closed(cs) \in [Circuits -> CircuitRecords]
  BY <1>1 DEF Closed, OnionTypeOK
<1>3. \A c \in Circuits : c \in cs => Closed(cs)[c].state = "closed"
  BY DEF Closed, Unused
<1>4. \A c \in Circuits : c \notin cs => Closed(cs)[c] = circuit[c]
  BY DEF Closed
<1> QED
  BY <1>2, <1>3, <1>4

\* The points are exhausted: without a change or a fault that is a stale descriptor,
\* which is fetched again.
LEMMA KeepsNotMet ==
    ASSUME OnionInv, NEW t \in Threads, NotMet(t)
    PROVE  OnionInv'
<1>0. /\ OnionTypeOK /\ th[t] \in ThreadRecords /\ th \in [Threads -> ThreadRecords]
      /\ th[t].svc \in Services /\ Retried(t) \in ThreadRecords
      /\ cached \in [Services -> Nat \X Nat]
  BY ThreadParts, RetriedType DEF OnionInv, OnionTypeOK
<1>1. /\ open' = open /\ consensus' = consensus /\ clearing' = clearing /\ revision' = revision
      /\ changes' = changes /\ pushed' = pushed /\ ring' = ring
      /\ building' = building /\ th[t].pc = "introduce" /\ faults' = faults
      /\ th[t].intro \notin Points /\ circuit' = Closed({th[t].circ})
  BY DEF NotMet, directory, service, At
<1>2. th[t].pc \in Building /\ th[t].circ \in Circuits /\ None \notin Circuits
  BY <1>1, OnionConstants DEF Building, OnionInv, HasCircuit, Holding
<1>3. /\ circuit' \in [Circuits -> CircuitRecords] /\ circuit'[th[t].circ].state = "closed"
      /\ \A c \in Circuits : c # th[t].circ => circuit'[c] = circuit[c]
  BY <1>0, <1>1, <1>2, ClosedIs
<1>4. ASSUME NEW r, r.circ = None PROVE LocalCircuit(t, r)
  BY <1>2, <1>3, <1>4 DEF LocalCircuit
<1>5. Keyed'
  BY <1>3 DEF OnionInv, Keyed, IsOpen
<1>6. ring' \in RingRecords /\ building' \in Threads \cup {None} /\ faults' \in Nat
  BY <1>0, <1>1 DEF OnionTypeOK
<1>7. faults' = 0 => (ring'.for # 0 => WholeOf(ring'))
  BY <1>1 DEF OnionInv, RingWhole, WholeOf
<1>8. ASSUME faults' = 0, t \notin pushed
      PROVE  /\ Survives(t) /\ ~th[t].stream
             /\ \/ th[t].tries < changes
                \/ th[t].tries = changes /\ Undisturbed(t) /\ ~th[t].known /\ ~th[t].again
  <2>1. Survives(t)
    BY <1>1, <1>8 DEF OnionInv, Surviving
  <2>2. ~th[t].stream /\ (th[t].tries < changes \/ (th[t].tries = changes /\ Undisturbed(t)))
    BY <1>1, <2>1 DEF Survives, At
  <2>3. ASSUME Undisturbed(t) PROVE ~th[t].known /\ ~th[t].again
    <3>1. th[t].intro # 1
      BY <1>1, OnionConstants DEF Points
    <3>2. ~Recognized(t)
      BY <1>1, <2>3, <3>1 DEF Undisturbed, Met, At
    <3> QED
      BY <1>1, <2>3, <3>2 DEF Undisturbed, At
  <2> QED
    BY <2>1, <2>2, <2>3
<1>9. CASE /\ ~th[t].known /\ ~th[t].again
           /\ cached' = [cached EXCEPT ![th[t].svc] = NoDesc]
           /\ th' = [th EXCEPT ![t].again = TRUE, ![t].pc = "ring", ![t].circ = None,
                               ![t].intro = 1, ![t].desc = NoDesc]
  <2> DEFINE r == [th[t] EXCEPT !.again = TRUE, !.pc = "ring", !.circ = None, !.intro = 1,
                                !.desc = NoDesc]
  <2>1. th' = [th EXCEPT ![t] = r]
    BY <1>0, <1>9
  <2>2. r \in ThreadRecords
    BY <1>0 DEF ThreadRecords, OnionPlaces, NoDesc
  <2>3. /\ r.pc = "ring" /\ r.circ = None /\ r.svc = th[t].svc /\ r.cred = th[t].cred
        /\ r.again = TRUE /\ r.tries = th[t].tries
        /\ r.stream = th[t].stream /\ r.known = th[t].known /\ r.intro = 1
    BY <1>0 DEF ThreadRecords
  <2> HIDE DEF r
  <2>4. r.pc \notin Building \cup {"begin", "open", "desc", "build", "fetch"}
    BY <2>3 DEF Building
  <2>5. /\ cached' \in [Services -> Nat \X Nat] /\ cached'[th[t].svc] = NoDesc
        /\ \A s \in Services : cached'[s] = cached[s] \/ cached'[s] = NoDesc
    <3>1. NoDesc \in Nat \X Nat
      BY DEF NoDesc
    <3> QED
      BY <1>0, <1>9, <3>1
  <2>6. Local(t, r)
    BY <1>1, <1>6, <1>7, <2>1, <2>2, <2>3, <2>4, <2>5 DEF Local
  <2>7. ASSUME faults' = 0, t \notin pushed PROVE Survives(t)'
    <3>1. th'[t] = r
      BY <1>0, <2>1, <2>2, OneMoves
    <3>2. ASSUME Undisturbed(t) PROVE Undisturbed(t)'
      <4>1. Current(t) /\ th[t].known = FALSE
        BY <1>1, <3>2 DEF Undisturbed, At
      <4>2. Current(t)'
        BY <1>1, <2>3, <3>1, <4>1 DEF Current, Period
      <4> QED
        BY <2>3, <2>5, <3>1, <4>1, <4>2 DEF Undisturbed, At
    <3> QED
      BY <1>1, <1>8, <2>3, <2>7, <3>1, <3>2 DEF Survives, At
  <2> QED
    BY <1>4, <1>5, <2>3, <2>6, <2>7, LocalKeeps
<1>10. CASE (th[t].known \/ th[t].again) /\ Retry(t) /\ UNCHANGED cached
  <2> DEFINE r == Retried(t)
  <2>1. th' = [th EXCEPT ![t] = r] /\ r \in ThreadRecords
    BY <1>0, <1>10 DEF Retry
  <2>2. r.circ = None /\ r.pc \in {"lookup", "failed"}
    BY DEF Retried, Asking
  <2>3. th'[t] = Retried(t)
    BY <1>0, <2>1, OneMoves
  <2> HIDE DEF r
  <2>4. r.pc \notin Building \cup {"begin", "open", "desc", "build", "fetch"}
    BY <2>2 DEF Building
  <2>5. Local(t, r)
    BY <1>0, <1>1, <1>6, <1>7, <1>10, <2>1, <2>2, <2>4 DEF Local
  <2>6. ASSUME faults' = 0, t \notin pushed PROVE Survives(t)'
    BY <1>0, <1>1, <1>8, <1>10, <2>3, <2>6, RetrySurvives
  <2> QED
    BY <1>4, <1>5, <2>2, <2>5, <2>6, LocalKeeps
<1> QED
  BY <1>9, <1>10 DEF NotMet

-----------------------------------------------------------------------------
(* The steps that change the map of circuits: onion_circuit and its end.   *)

\* The thread becomes r, some circuits that were in the map are closed, and what is left
\* in the map was there, or is the circuit that the thread has built.
Mapped(t, r, ended) ==
    /\ r \in ThreadRecords /\ th' = [th EXCEPT ![t] = r]
    /\ circuit' = Closed(ended) /\ pushed' = pushed \cup Holders(t, ended)
    /\ \A c \in ended : c # None /\ \E s \in Services : open[s] = c
    /\ open' \in [Services -> Circuits \cup {None}]
    /\ \A s \in Services : \/ open'[s] = None \/ open'[s] = open[s]
                           \/ th[t].pc = "insert" /\ open'[s] = th[t].circ
    /\ \A s \in Services : /\ open[s] \in Circuits /\ open[s] \notin ended
                           /\ IsOpen(open[s]) /\ ~circuit[open[s]].aged
                           => open'[s] = open[s]
    /\ \/ r.pc \in {"ring", "lookup", "failed"} /\ (r.circ = None \/ r.circ = th[t].circ)
       \/ /\ r.pc = "begin" /\ r.circ \in Circuits /\ open'[r.svc] = r.circ
          /\ \/ th[t].pc = "insert" /\ r.circ = th[t].circ
             \/ ended = {} /\ IsOpen(r.circ) /\ open[r.svc] = r.circ /\ r.svc \in Services
    /\ cached' = cached /\ ring' = ring /\ building' = building /\ consensus' = consensus
    /\ clearing' = clearing /\ revision' = revision
    /\ faults' = faults \/ faults' = faults + 1
    /\ changes' = changes \/ changes' = changes + 1

\* What is closed by such a step, and for whom.
LEMMA MappedCircuits ==
    ASSUME OnionInv, NEW t \in Threads, NEW r, NEW ended, Mapped(t, r, ended)
    PROVE  /\ circuit' \in [Circuits -> CircuitRecords]
           /\ \A c \in Circuits : c \in ended => circuit'[c].state = "closed"
           /\ \A c \in Circuits : c \notin ended => circuit'[c] = circuit[c]
           /\ \A u \in Threads : th[u].pc \in Building => th[u].circ \notin ended
           /\ \A u \in Threads : u # t /\ th[u].circ \in ended => u \in pushed'
           /\ pushed \subseteq pushed' /\ pushed' \in SUBSET Threads
<1>1. /\ circuit' = Closed(ended) /\ pushed' = pushed \cup Holders(t, ended) /\ OnionTypeOK
      /\ \A c \in ended : \E s \in Services : open[s] = c
  BY DEF Mapped, OnionInv
<1>2. /\ circuit' \in [Circuits -> CircuitRecords]
      /\ \A c \in Circuits : c \in ended => circuit'[c].state = "closed"
      /\ \A c \in Circuits : c \notin ended => circuit'[c] = circuit[c]
  BY <1>1, ClosedIs
<1>3. \A u \in Threads : th[u].pc \in Building => th[u].circ \notin ended
  BY <1>1 DEF OnionInv, Owned
<1>4. \A u \in Threads : u # t /\ th[u].circ \in ended => u \in pushed'
  BY <1>1 DEF Holders
<1>5. pushed \subseteq pushed' /\ pushed' \in SUBSET Threads
  BY <1>1 DEF Holders, OnionTypeOK
<1> QED
  BY <1>2, <1>3, <1>4, <1>5

\* Such a step keeps the invariant, if it keeps how its own thread fares.
LEMMA MappedKeeps ==
    ASSUME OnionInv, NEW t \in Threads, NEW r, NEW ended, Mapped(t, r, ended),
           faults' = 0 /\ t \notin pushed' => Survives(t)'
    PROVE  OnionInv'
<1>0. OnionTypeOK /\ None \notin Circuits
  BY OnionConstants DEF OnionInv
<1>1. th' \in [Threads -> ThreadRecords] /\ th'[t] = r /\ \A u \in Threads : u # t => th'[u] = th[u]
  BY <1>0, OneMoves DEF Mapped
<1>2. /\ circuit' \in [Circuits -> CircuitRecords]
      /\ \A c \in Circuits : c \in ended => circuit'[c].state = "closed"
      /\ \A c \in Circuits : c \notin ended => circuit'[c] = circuit[c]
  BY MappedCircuits
<1>3. \A u \in Threads : th[u].pc \in Building => th[u].circ \notin ended
  BY MappedCircuits
<1>4. \A u \in Threads : u # t /\ th[u].circ \in ended => u \in pushed'
  BY MappedCircuits
<1>5. pushed \subseteq pushed' /\ pushed' \in SUBSET Threads
  BY MappedCircuits
<1>6. /\ cached' = cached /\ ring' = ring /\ building' = building /\ consensus' = consensus
      /\ clearing' = clearing /\ revision' = revision
      /\ open' \in [Services -> Circuits \cup {None}]
      /\ faults' \in Nat /\ faults <= faults' /\ faults \in Nat
  BY <1>0 DEF Mapped, OnionTypeOK
<1>7. changes' \in Nat /\ (changes' = changes \/ changes' = changes + 1)
  BY <1>0 DEF Mapped, OnionTypeOK
<1>8. \A s \in Services : \/ open'[s] = None \/ open'[s] = open[s]
                          \/ th[t].pc = "insert" /\ open'[s] = th[t].circ
  BY DEF Mapped
<1>9. \/ r.pc \in {"ring", "lookup", "failed"} /\ (r.circ = None \/ r.circ = th[t].circ)
      \/ /\ r.pc = "begin" /\ r.circ \in Circuits /\ open'[r.svc] = r.circ
         /\ \/ th[t].pc = "insert" /\ r.circ = th[t].circ
            \/ ended = {} /\ IsOpen(r.circ) /\ open[r.svc] = r.circ /\ r.svc \in Services
  BY DEF Mapped
<1>10. th[t].pc = "insert" => th[t].circ \in Circuits /\ th[t].pc \in Building /\ th[t].pc \in Holding
  BY DEF OnionInv, HasCircuit, Holding, Building
<1>11. OnionTypeOK'
  <2>1. /\ ring' \in RingRecords /\ building' \in Threads \cup {None} /\ faults' \in Nat
        /\ cached' \in [Services -> Nat \X Nat] /\ consensus' \in Nat \ {0}
        /\ clearing' \in BOOLEAN /\ revision' \in [Services -> Nat]
    BY <1>0, <1>6 DEF OnionTypeOK
  <2> QED
    BY <1>1, <1>2, <1>5, <1>6, <1>7, <2>1 DEF OnionTypeOK
<1>12. Keyed'
  BY <1>2 DEF OnionInv, Keyed, IsOpen
<1>13. \A c \in Circuits : circuit[c].state # "unused" => circuit'[c].state # "unused"
  BY <1>2
<1>14. HasCircuit'
  <2>1. ASSUME NEW u \in Threads
        PROVE  /\ th'[u].pc \in Holding => th'[u].circ \in Circuits
               /\ th'[u].circ \in Circuits => circuit'[th'[u].circ].state # "unused"
    <3>1. CASE u # t
      BY <1>1, <1>13, <3>1 DEF OnionInv, HasCircuit
    <3>2. CASE u = t
      <4>1. r.pc \in Holding => r.circ \in Circuits
        BY <1>9 DEF Holding, Building
      <4>2. r.circ \in Circuits => circuit[r.circ].state # "unused"
        BY <1>0, <1>9 DEF OnionInv, HasCircuit
      <4> QED
        BY <1>1, <1>13, <3>2, <4>1, <4>2
    <3> QED
      BY <3>1, <3>2
  <2>2. ASSUME NEW s \in Services, open'[s] \in Circuits
        PROVE  circuit'[open'[s]].state # "unused"
    <3>1. circuit[open'[s]].state # "unused"
      BY <1>0, <1>8, <2>2 DEF OnionInv, HasCircuit
    <3> QED
      BY <1>13, <2>2, <3>1
  <2> QED
    BY <2>1, <2>2 DEF HasCircuit
<1>15. Owned'
  <2>1. ASSUME NEW u \in Threads, th'[u].pc \in Building
        PROVE  /\ \A v \in Threads \ {u} : th'[v].circ # th'[u].circ
               /\ \A s \in Services : open'[s] # th'[u].circ
    <3>1. u # t
      BY <1>1, <1>9, <2>1 DEF Building
    <3>2. /\ th'[u] = th[u] /\ th[u].circ \in Circuits
          /\ \A v \in Threads \ {u} : th[v].circ # th[u].circ
          /\ \A s \in Services : open[s] # th[u].circ
      BY <1>1, <2>1, <3>1 DEF OnionInv, HasCircuit, Holding, Owned
    <3>3. r.circ # th[u].circ
      BY <1>0, <1>9, <3>1, <3>2
    <3>4. \A s \in Services : open'[s] # th[u].circ
      BY <1>0, <1>8, <3>1, <3>2
    <3> QED
      BY <1>1, <3>1, <3>2, <3>3, <3>4
  <2> QED
    BY <2>1 DEF Owned
<1>16. InMap'
  <2>1. ASSUME NEW u \in Threads, th'[u].pc \in {"begin", "open"},
               circuit'[th'[u].circ].state = "open", ~circuit'[th'[u].circ].aged
        PROVE  open'[th'[u].svc] = th'[u].circ
    <3>1. CASE u = t
      BY <1>1, <1>9, <2>1, <3>1
    <3>2. CASE u # t
      <4>1. th'[u] = th[u] /\ th[u].circ \in Circuits /\ th[u].svc \in Services
        BY <1>0, <1>1, <2>1, <3>2, ThreadParts DEF OnionInv, HasCircuit, Holding
      <4>2. th[u].circ \notin ended /\ circuit'[th[u].circ] = circuit[th[u].circ]
        BY <1>2, <2>1, <4>1
      <4>3. open[th[u].svc] = th[u].circ /\ IsOpen(th[u].circ) /\ ~circuit[th[u].circ].aged
        BY <2>1, <4>1, <4>2 DEF OnionInv, InMap, IsOpen
      <4> QED
        BY <4>1, <4>2, <4>3 DEF Mapped
    <3> QED
      BY <3>1, <3>2
  <2> QED
    BY <2>1 DEF InMap, IsOpen
<1>17. ClosedByOthers'
  <2>1. ASSUME NEW u \in Threads, th'[u].pc \in Holding, circuit'[th'[u].circ].state # "open"
        PROVE  faults' > 0 \/ u \in pushed'
    <3>1. CASE u = t
      <4>1. r.pc = "begin" /\ r.circ \in Circuits
        BY <1>1, <1>9, <2>1, <3>1 DEF Holding, Building
      <4>2. r.circ \notin ended
        BY <1>3, <1>9, <1>10, <4>1
      <4>3. circuit'[r.circ] = circuit[r.circ]
        BY <1>2, <4>1, <4>2
      <4>4. th[t].pc = "insert" /\ r.circ = th[t].circ /\ ~IsOpen(th[t].circ)
        BY <1>1, <1>9, <2>1, <3>1, <4>1, <4>3 DEF IsOpen
      <4> QED
        BY <1>5, <1>6, <1>10, <3>1, <4>4 DEF OnionInv, ClosedByOthers
    <3>2. CASE u # t
      <4>1. th'[u] = th[u] /\ th[u].circ \in Circuits
        BY <1>1, <2>1, <3>2 DEF OnionInv, HasCircuit
      <4>2. CASE th[u].circ \in ended
        BY <1>4, <3>2, <4>2
      <4>3. CASE th[u].circ \notin ended
        <5>1. circuit'[th[u].circ] = circuit[th[u].circ]
          BY <1>2, <4>1, <4>3
        <5> QED
          BY <1>5, <1>6, <2>1, <4>1, <5>1 DEF OnionInv, ClosedByOthers, IsOpen
      <4> QED
        BY <4>2, <4>3
    <3> QED
      BY <3>1, <3>2
  <2> QED
    BY <2>1 DEF ClosedByOthers, IsOpen
<1>18. Snapped'
  BY <1>1, <1>9 DEF OnionInv, Snapped
<1>19. RingWhole'
  <2>1. ASSUME faults' = 0, NEW u \in Threads, th'[u].pc = "desc" PROVE WholeOf(th'[u].ring)
    <3>1. u # t
      BY <1>1, <1>9, <2>1
    <3> QED
      BY <1>1, <1>6, <2>1, <3>1 DEF OnionInv, RingWhole
  <2>2. faults' = 0 => (ring'.for # 0 => WholeOf(ring'))
    BY <1>6 DEF OnionInv, RingWhole, WholeOf
  <2> QED
    BY <2>1, <2>2 DEF RingWhole, WholeOf
<1>20. Surviving'
  <2>1. ASSUME NEW u \in Threads, faults' = 0, u \notin pushed' PROVE Survives(u)'
    <3>1. CASE u = t
      BY <2>1, <3>1
    <3>2. CASE u # t
      <4>1. th'[u] = th[u] /\ Survives(u)
        BY <1>1, <1>5, <1>6, <2>1, <3>2 DEF OnionInv, Surviving
      <4>2. CASE changes' = changes + 1
        BY <1>0, <4>1, <4>2, SurvivesChange
      <4>3. CASE changes' = changes
        <5>1. th[u].pc \in {"introduce", "await"} => circuit'[th[u].circ] = circuit[th[u].circ]
          BY <1>2, <1>3 DEF OnionInv, HasCircuit, Holding, Building
        <5>2. cached'[th[u].svc] = cached[th[u].svc]
          BY <1>6
        <5> QED
          BY <1>6, <4>1, <4>3, <5>1, <5>2, SurvivesStays
      <4> QED
        BY <1>7, <4>2, <4>3
    <3> QED
      BY <3>1, <3>2
  <2> QED
    BY <2>1 DEF Surviving
<1> QED
  BY <1>11, <1>12, <1>14, <1>15, <1>16, <1>17, <1>18, <1>19, <1>20 DEF OnionInv

\* retain: what is kept was in the map and is open, and what is open and has not aged is kept.
LEMMA KeptIs ==
    ASSUME OnionTypeOK
    PROVE  /\ Kept \in [Services -> Circuits \cup {None}]
           /\ \A s \in Services : Kept[s] = None \/ (Kept[s] = open[s] /\ IsOpen(Kept[s]))
           /\ \A s \in Services : open[s] \in Circuits /\ IsOpen(open[s]) /\ ~circuit[open[s]].aged
                                  => Kept[s] = open[s]
<1>1. open \in [Services -> Circuits \cup {None}] /\ None \notin Circuits
  BY OnionConstants DEF OnionTypeOK
<1>2. Kept \in [Services -> Circuits \cup {None}]
  BY <1>1 DEF Kept
<1>3. \A s \in Services : Kept[s] = None \/ (Kept[s] = open[s] /\ IsOpen(Kept[s]))
  BY <1>1 DEF Kept
<1>4. \A s \in Services : open[s] \in Circuits /\ IsOpen(open[s]) /\ ~circuit[open[s]].aged
                          => Kept[s] = open[s]
  BY <1>1 DEF Kept
<1> QED
  BY <1>2, <1>3, <1>4

\* The circuit the service has, or on to the ring.
LEMMA KeepsLookup ==
    ASSUME OnionInv, NEW t \in Threads, Lookup(t)
    PROVE  OnionInv'
<1>0. /\ OnionTypeOK /\ th[t] \in ThreadRecords /\ th \in [Threads -> ThreadRecords]
      /\ th[t].svc \in Services /\ circuit \in [Circuits -> CircuitRecords] /\ None \notin Circuits
  BY ThreadParts, OnionConstants DEF OnionInv, OnionTypeOK
<1>1. /\ consensus' = consensus /\ clearing' = clearing /\ revision' = revision
      /\ changes' = changes /\ pushed' = pushed /\ ring' = ring /\ cached' = cached
      /\ building' = building /\ th[t].pc = "lookup" /\ faults' = faults
      /\ circuit' = circuit /\ open' = Kept
  BY DEF Lookup, directory, service, At
<1>2. circuit' = Closed({}) /\ pushed' = pushed \cup Holders(t, {})
  <2>1. circuit' = Closed({})
    BY <1>0, <1>1 DEF Closed
  <2>2. Holders(t, {}) = {}
    BY DEF Holders
  <2> QED
    BY <1>1, <2>1, <2>2
<1>3. /\ Kept \in [Services -> Circuits \cup {None}]
      /\ \A s \in Services : Kept[s] = None \/ (Kept[s] = open[s] /\ IsOpen(Kept[s]))
      /\ \A s \in Services : open[s] \in Circuits /\ IsOpen(open[s]) /\ ~circuit[open[s]].aged
                                  => Kept[s] = open[s]
  BY <1>0, KeptIs
<1>4. ASSUME faults' = 0, t \notin pushed'
      PROVE  ~th[t].stream /\ (th[t].tries < changes \/ (th[t].tries = changes /\ Undisturbed(t)))
  <2>1. Survives(t)
    BY <1>1, <1>4 DEF OnionInv, Surviving
  <2> QED
    BY <1>1, <2>1 DEF Survives, At
<1>5. CASE Kept[th[t].svc] # None
  <2> DEFINE r == [th[t] EXCEPT !.circ = Kept[th[t].svc], !.pc = "begin"]
  <2>1. th' = [th EXCEPT ![t] = r]
    BY <1>0, <1>5 DEF Lookup
  <2>2. Kept[th[t].svc] \in Circuits
    BY <1>0, <1>3, <1>5
  <2>3. r \in ThreadRecords
    BY <1>0, <2>2 DEF ThreadRecords, OnionPlaces
  <2>4. /\ r.pc = "begin" /\ r.circ = Kept[th[t].svc] /\ r.svc = th[t].svc /\ r.known = th[t].known
        /\ r.tries = th[t].tries /\ r.stream = th[t].stream
    BY <1>0 DEF ThreadRecords
  <2> HIDE DEF r
  <2>5. /\ r.pc = "begin" /\ r.circ \in Circuits /\ open'[r.svc] = r.circ
        /\ IsOpen(r.circ) /\ open[r.svc] = r.circ /\ r.svc \in Services
    BY <1>0, <1>1, <1>3, <1>5, <2>2, <2>4
  <2>6. Mapped(t, r, {})
    BY <1>1, <1>2, <1>3, <2>1, <2>3, <2>5 DEF Mapped
  <2>7. ASSUME faults' = 0, t \notin pushed' PROVE Survives(t)'
    <3>1. th'[t] = r
      BY <1>0, <2>1, <2>3, OneMoves
    <3>2. ASSUME Undisturbed(t) PROVE Undisturbed(t)'
      BY <2>4, <3>1, <3>2 DEF Undisturbed, At
    <3> QED
      BY <1>1, <1>4, <2>4, <2>7, <3>1, <3>2 DEF Survives, At
  <2> QED
    BY <2>6, <2>7, MappedKeeps
<1>6. CASE Kept[th[t].svc] = None
  <2> DEFINE r == [th[t] EXCEPT !.pc = "ring"]
  <2>1. th' = [th EXCEPT ![t] = r]
    BY <1>0, <1>6 DEF Lookup, Goto
  <2>2. r \in ThreadRecords
    BY <1>0 DEF ThreadRecords, OnionPlaces
  <2>3. /\ r.pc = "ring" /\ r.circ = th[t].circ /\ r.svc = th[t].svc /\ r.known = th[t].known
        /\ r.tries = th[t].tries /\ r.stream = th[t].stream /\ r.cred = th[t].cred
        /\ r.again = th[t].again /\ r.intro = th[t].intro
    BY <1>0 DEF ThreadRecords
  <2> HIDE DEF r
  <2>4. Mapped(t, r, {})
    BY <1>1, <1>2, <1>3, <2>1, <2>2, <2>3 DEF Mapped
  <2>5. ASSUME faults' = 0, t \notin pushed' PROVE Survives(t)'
    <3>1. th'[t] = r
      BY <1>0, <2>1, <2>2, OneMoves
    <3>2. ASSUME Undisturbed(t) PROVE Undisturbed(t)'
      BY <1>1, <2>3, <3>1, <3>2 DEF Undisturbed, At, Current, Period
    <3> QED
      BY <1>1, <1>4, <2>3, <2>5, <3>1, <3>2 DEF Survives, At
  <2> QED
    BY <2>4, <2>5, MappedKeeps
<1> QED
  BY <1>5, <1>6

\* The new circuit takes its place: the one it displaces and those that make room are closed.
LEMMA KeepsInsert ==
    ASSUME OnionInv, NEW t \in Threads, Insert(t)
    PROVE  OnionInv'
<1>0. /\ OnionTypeOK /\ th[t] \in ThreadRecords /\ th \in [Threads -> ThreadRecords]
      /\ th[t].svc \in Services /\ None \notin Circuits
  BY ThreadParts, OnionConstants DEF OnionInv, OnionTypeOK
<1>1. /\ consensus' = consensus /\ clearing' = clearing /\ revision' = revision
      /\ changes' = changes /\ ring' = ring /\ cached' = cached
      /\ building' = building /\ th[t].pc = "insert" /\ faults' = faults
  BY DEF Insert, directory, service, At
<1>2. th[t].circ \in Circuits
  BY <1>1 DEF OnionInv, HasCircuit, Holding, Building
<1>3. /\ Kept \in [Services -> Circuits \cup {None}]
      /\ \A s \in Services : Kept[s] = None \/ (Kept[s] = open[s] /\ IsOpen(Kept[s]))
      /\ \A s \in Services : open[s] \in Circuits /\ IsOpen(open[s]) /\ ~circuit[open[s]].aged
                                  => Kept[s] = open[s]
  BY <1>0, KeptIs
<1>4. PICK out \in Evictions :
          LET left == [s \in Services |-> IF s \in out THEN None ELSE Kept[s]]
              over == Displaced(left[th[t].svc]) \cup {Kept[s] : s \in out}
          IN  /\ open' = [left EXCEPT ![th[t].svc] = th[t].circ]
              /\ circuit' = Closed(over) /\ pushed' = pushed \cup Holders(t, over)
  BY DEF Insert
<1>5. out \subseteq {s \in Services : Kept[s] # None}
  BY <1>4 DEF Evictions
<1> DEFINE left == [s \in Services |-> IF s \in out THEN None ELSE Kept[s]]
           ended == Displaced(left[th[t].svc]) \cup {Kept[s] : s \in out}
           r == [th[t] EXCEPT !.pc = "begin"]
<1>6. /\ open' = [left EXCEPT ![th[t].svc] = th[t].circ]
      /\ circuit' = Closed(ended) /\ pushed' = pushed \cup Holders(t, ended)
  BY <1>4
<1>7. left \in [Services -> Circuits \cup {None}]
  BY <1>3
<1>8. \A s \in Services : left[s] = (IF s \in out THEN None ELSE Kept[s])
  OBVIOUS
<1> HIDE DEF left
<1>9. \A c : c \in ended <=> \/ c = left[th[t].svc] /\ c # None
                             \/ \E s \in out : c = Kept[s]
  BY DEF Displaced
<1> HIDE DEF ended
<1>10. th' = [th EXCEPT ![t] = r]
  BY <1>0 DEF Insert, Goto
<1>11. r \in ThreadRecords
  BY <1>0 DEF ThreadRecords, OnionPlaces
<1>12. /\ r.pc = "begin" /\ r.circ = th[t].circ /\ r.svc = th[t].svc /\ r.known = th[t].known
       /\ r.tries = th[t].tries /\ r.stream = th[t].stream
  BY <1>0 DEF ThreadRecords
<1> HIDE DEF r
<1>13. /\ open' \in [Services -> Circuits \cup {None}] /\ open'[th[t].svc] = th[t].circ
       /\ \A s \in Services : s # th[t].svc => open'[s] = left[s]
  BY <1>0, <1>2, <1>6, <1>7
<1>14. ASSUME NEW c \in ended PROVE c # None /\ \E s \in Services : open[s] = c
  <2>1. CASE c = left[th[t].svc] /\ c # None
    BY <1>0, <1>3, <1>8, <2>1
  <2>2. CASE \E s \in out : c = Kept[s]
    BY <1>3, <1>5, <2>2
  <2> QED
    BY <1>9, <2>1, <2>2
<1>15. \A s \in Services : open'[s] = None \/ open'[s] = open[s] \/ open'[s] = th[t].circ
  BY <1>3, <1>8, <1>13
<1>16. ASSUME NEW s \in Services, open[s] \in Circuits, open[s] \notin ended, IsOpen(open[s]),
              ~circuit[open[s]].aged
       PROVE  open'[s] = open[s]
  <2>1. Kept[s] = open[s] /\ open[s] # None
    BY <1>0, <1>3, <1>16
  <2>2. s \notin out
    BY <1>9, <1>16, <2>1
  <2>3. left[s] = open[s]
    BY <1>8, <2>1, <2>2
  <2>4. s # th[t].svc
    BY <1>9, <1>16, <2>1, <2>3
  <2> QED
    BY <1>13, <2>3, <2>4
<1>17. Mapped(t, r, ended)
  BY <1>1, <1>2, <1>6, <1>10, <1>11, <1>12, <1>13, <1>14, <1>15, <1>16 DEF Mapped
<1>18. ASSUME faults' = 0, t \notin pushed' PROVE Survives(t)'
  <2>1. th'[t] = r
    BY <1>0, <1>10, <1>11, OneMoves
  <2>2. t \notin pushed
    BY <1>6, <1>18
  <2>3. Survives(t)
    BY <1>1, <1>18, <2>2 DEF OnionInv, Surviving
  <2>4. ~th[t].stream /\ (th[t].tries < changes \/ (th[t].tries = changes /\ Undisturbed(t)))
    BY <1>1, <2>3 DEF Survives, At
  <2>5. ASSUME Undisturbed(t) PROVE Undisturbed(t)'
    BY <1>12, <2>1, <2>5 DEF Undisturbed, At
  <2> QED
    BY <1>1, <1>12, <2>1, <2>4, <2>5 DEF Survives, At
<1> QED
  BY <1>17, <1>18, MappedKeeps

\* A thread that finds its circuit ended takes whatever circuit its service has from the map.
LEMMA DiscardMaps ==
    ASSUME OnionInv, NEW t \in Threads, NEW r \in ThreadRecords, Discard(t),
           th' = [th EXCEPT ![t] = r], r.pc \in {"lookup", "failed"}, r.circ = None,
           th[t].pc \in Holding, (faults' = faults /\ ~IsOpen(th[t].circ)) \/ faults' = faults + 1,
           cached' = cached, ring' = ring, building' = building, consensus' = consensus,
           clearing' = clearing, revision' = revision,
           changes' = changes \/ changes' = changes + 1
    PROVE  OnionInv'
<1> DEFINE ended == {open[th[t].svc]} \ {None}
<1>0. OnionTypeOK /\ th[t].svc \in Services /\ open \in [Services -> Circuits \cup {None}]
  BY ThreadParts DEF OnionInv, OnionTypeOK
<1>1. /\ open' = [open EXCEPT ![th[t].svc] = None]
      /\ circuit' = Closed(ended) /\ pushed' = pushed \cup Holders(t, ended)
  BY DEF Discard
<1>2. /\ open' \in [Services -> Circuits \cup {None}]
      /\ \A s \in Services : open'[s] = None \/ open'[s] = open[s]
      /\ \A s \in Services : s # th[t].svc => open'[s] = open[s]
  BY <1>0, <1>1
<1>3. \A c \in ended : c # None /\ \E s \in Services : open[s] = c
  BY <1>0
<1>4. \A s \in Services : open[s] \in Circuits /\ open[s] \notin ended => s # th[t].svc
  BY OnionConstants
<1> HIDE DEF ended
<1>5. Mapped(t, r, ended)
  BY <1>1, <1>2, <1>3, <1>4 DEF Mapped
<1>6. faults' > 0 \/ t \in pushed
  BY <1>0 DEF OnionInv, ClosedByOthers, OnionTypeOK
<1>7. ~(faults' = 0 /\ t \notin pushed')
  BY <1>0, <1>1, <1>6 DEF OnionTypeOK
<1> QED
  BY <1>5, <1>7, MappedKeeps

\* A BEGIN that finds the circuit ended, or to which no answer comes.
LEMMA KeepsBeginFails ==
    ASSUME OnionInv, NEW t \in Threads, BeginFails(t)
    PROVE  OnionInv'
<1> DEFINE r == Retried(t)
<1>1. r \in ThreadRecords /\ th' = [th EXCEPT ![t] = r]
  BY RetriedType DEF BeginFails, Retry, OnionInv
<1>2. r.pc \in {"lookup", "failed"} /\ r.circ = None
  BY DEF Retried, Asking
<1> HIDE DEF r
<1>3. /\ cached' = cached /\ ring' = ring /\ building' = building /\ consensus' = consensus
      /\ clearing' = clearing /\ revision' = revision /\ changes' = changes
      /\ (faults' = faults /\ ~IsOpen(th[t].circ)) \/ faults' = faults + 1
      /\ th[t].pc \in Holding /\ Discard(t)
  BY DEF BeginFails, Fault, Fine, directory, service, At, Holding
<1> QED
  BY <1>1, <1>2, <1>3, DiscardMaps

\* A stream that moves.
LEMMA KeepsMove ==
    ASSUME OnionInv, NEW t \in Threads, Move(t)
    PROVE  OnionInv'
<1> DEFINE r == [Asking(th[t].svc, th[t].tries + 1) EXCEPT !.stream = TRUE]
<1>0. th[t].svc \in Services /\ th[t].tries + 1 \in Nat
  BY ThreadParts DEF OnionInv
<1>1. th' = [th EXCEPT ![t] = r]
  BY DEF Move
<1>2. r \in ThreadRecords
  <2>1. PICK x \in ThreadRecords : x = Asking(th[t].svc, th[t].tries + 1)
    BY <1>0, AskingType
  <2>2. [x EXCEPT !.stream = TRUE] \in ThreadRecords
    BY <2>1 DEF ThreadRecords
  <2> QED
    BY <2>1, <2>2
<1>3. r.pc \in {"lookup", "failed"} /\ r.circ = None
  BY DEF Asking
<1> HIDE DEF r
<1>4. /\ cached' = cached /\ ring' = ring /\ building' = building /\ consensus' = consensus
      /\ clearing' = clearing /\ revision' = revision /\ faults' = faults
      /\ changes' = changes + 1
      /\ th[t].pc \in Holding /\ ~IsOpen(th[t].circ) /\ Discard(t)
  BY DEF Move, Change, directory, At, Holding
<1> QED
  BY <1>1, <1>2, <1>3, <1>4, DiscardMaps

\* A circuit that is built for a thread is one that nobody has.
LEMMA KeepsEstablished ==
    ASSUME OnionInv, NEW t \in Threads, Established(t)
    PROVE  OnionInv'
<1>0. /\ OnionTypeOK /\ th[t] \in ThreadRecords /\ th \in [Threads -> ThreadRecords]
      /\ circuit \in [Circuits -> CircuitRecords] /\ None \notin Circuits
  BY ThreadParts, OnionConstants DEF OnionInv, OnionTypeOK
<1>1. /\ consensus' = consensus /\ clearing' = clearing /\ revision' = revision
      /\ changes' = changes /\ pushed' = pushed /\ ring' = ring /\ cached' = cached
      /\ building' = building /\ th[t].pc = "establish" /\ faults' = faults /\ open' = open
  BY DEF Established, directory, service, At
<1>2. PICK c \in Fresh : /\ circuit' = [circuit EXCEPT ![c] = [Unused EXCEPT !.state = "open"]]
                         /\ th' = [th EXCEPT ![t].circ = c, ![t].pc = "introduce"]
  BY DEF Established
<1>3. c \in Circuits /\ \A u \in Threads : th[u].circ # c
  BY <1>2 DEF Fresh, OnionInv, HasCircuit
<1>4. \A s \in Services : open[s] # c
  BY <1>2 DEF Fresh, OnionInv, HasCircuit
<1> DEFINE r == [th[t] EXCEPT !.circ = c, !.pc = "introduce"]
           k == [Unused EXCEPT !.state = "open"]
<1>5. k \in CircuitRecords /\ k.state = "open" /\ k.hop = 0 /\ k.mail = 0 /\ k.met = 0 /\ k.meets = {}
  BY DEF Unused, CircuitRecords
<1>6. th' = [th EXCEPT ![t] = r]
  BY <1>0, <1>2
<1>7. r \in ThreadRecords
  BY <1>0, <1>3 DEF ThreadRecords, OnionPlaces
<1>8. /\ r.pc = "introduce" /\ r.circ = c /\ r.svc = th[t].svc /\ r.known = th[t].known
      /\ r.tries = th[t].tries /\ r.stream = th[t].stream /\ r.cred = th[t].cred
      /\ r.again = th[t].again /\ r.intro = th[t].intro /\ r.desc = th[t].desc
  BY <1>0 DEF ThreadRecords
<1>9. circuit' = [circuit EXCEPT ![c] = k]
  BY <1>2
<1> HIDE DEF r, k
<1>10. th' \in [Threads -> ThreadRecords] /\ th'[t] = r /\ \A u \in Threads : u # t => th'[u] = th[u]
  BY <1>0, <1>6, <1>7, OneMoves
<1>11. /\ circuit' \in [Circuits -> CircuitRecords] /\ circuit'[c] = k
       /\ \A d \in Circuits : d # c => circuit'[d] = circuit[d]
  BY <1>0, <1>3, <1>5, <1>9
<1>12. \A u \in Threads : u # t /\ th[u].circ \in Circuits => circuit'[th[u].circ] = circuit[th[u].circ]
  BY <1>3, <1>11
<1>13. OnionTypeOK'
  BY <1>0, <1>1, <1>10, <1>11 DEF OnionTypeOK
<1>14. Keyed'
  BY <1>5, <1>11 DEF OnionInv, Keyed, IsOpen
<1>15. HasCircuit'
  <2>1. ASSUME NEW u \in Threads
        PROVE  /\ th'[u].pc \in Holding => th'[u].circ \in Circuits
               /\ th'[u].circ \in Circuits => circuit'[th'[u].circ].state # "unused"
    <3>1. CASE u = t
      BY <1>3, <1>5, <1>8, <1>10, <1>11, <3>1
    <3>2. CASE u # t
      BY <1>10, <1>12, <3>2 DEF OnionInv, HasCircuit
    <3> QED
      BY <3>1, <3>2
  <2>2. \A s \in Services : open'[s] \in Circuits => circuit'[open'[s]].state # "unused"
    BY <1>1, <1>4, <1>11 DEF OnionInv, HasCircuit
  <2> QED
    BY <2>1, <2>2 DEF HasCircuit
<1>16. Owned'
  <2>1. ASSUME NEW u \in Threads, th'[u].pc \in Building
        PROVE  /\ \A v \in Threads \ {u} : th'[v].circ # th'[u].circ
               /\ \A s \in Services : open'[s] # th'[u].circ
    <3>1. CASE u = t
      BY <1>1, <1>3, <1>4, <1>8, <1>10, <3>1
    <3>2. CASE u # t
      BY <1>1, <1>3, <1>8, <1>10, <2>1, <3>2 DEF OnionInv, Owned
    <3> QED
      BY <3>1, <3>2
  <2> QED
    BY <2>1 DEF Owned
<1>17. InMap'
  <2>1. ASSUME NEW u \in Threads, th'[u].pc \in {"begin", "open"},
               circuit'[th'[u].circ].state = "open", ~circuit'[th'[u].circ].aged
        PROVE  open'[th'[u].svc] = th'[u].circ
    <3>1. u # t
      BY <1>8, <1>10, <2>1
    <3>2. th'[u] = th[u] /\ th[u].circ \in Circuits
      BY <1>10, <2>1, <3>1 DEF OnionInv, HasCircuit, Holding
    <3>3. circuit'[th[u].circ] = circuit[th[u].circ]
      BY <1>12, <3>1, <3>2
    <3> QED
      BY <1>1, <2>1, <3>2, <3>3 DEF OnionInv, InMap, IsOpen
  <2> QED
    BY <2>1 DEF InMap, IsOpen
<1>18. ClosedByOthers'
  <2>1. ASSUME NEW u \in Threads, th'[u].pc \in Holding, circuit'[th'[u].circ].state # "open"
        PROVE  faults' > 0 \/ u \in pushed'
    <3>1. u # t
      BY <1>5, <1>8, <1>10, <1>11, <2>1
    <3>2. th'[u] = th[u] /\ th[u].circ \in Circuits
      BY <1>10, <2>1, <3>1 DEF OnionInv, HasCircuit
    <3>3. circuit'[th[u].circ] = circuit[th[u].circ]
      BY <1>12, <3>1, <3>2
    <3> QED
      BY <1>1, <2>1, <3>2, <3>3 DEF OnionInv, ClosedByOthers, IsOpen
  <2> QED
    BY <2>1 DEF ClosedByOthers, IsOpen
<1>19. Snapped'
  BY <1>8, <1>10 DEF OnionInv, Snapped
<1>20. RingWhole'
  <2>1. ASSUME faults' = 0, NEW u \in Threads, th'[u].pc = "desc" PROVE WholeOf(th'[u].ring)
    <3>1. u # t
      BY <1>8, <1>10, <2>1
    <3> QED
      BY <1>1, <1>10, <2>1, <3>1 DEF OnionInv, RingWhole
  <2>2. faults' = 0 => (ring'.for # 0 => WholeOf(ring'))
    BY <1>1 DEF OnionInv, RingWhole, WholeOf
  <2> QED
    BY <2>1, <2>2 DEF RingWhole, WholeOf
<1>21. Surviving'
  <2>1. ASSUME NEW u \in Threads, faults' = 0, u \notin pushed' PROVE Survives(u)'
    <3>0. Survives(u)
      BY <1>1, <2>1 DEF OnionInv, Surviving
    <3>1. CASE u = t
      <4>1. ~th[t].stream /\ (th[t].tries < changes \/ (th[t].tries = changes /\ Undisturbed(t)))
        BY <1>1, <3>0, <3>1 DEF Survives, At
      <4>2. ASSUME Undisturbed(t) PROVE Undisturbed(t)'
        <5>1. /\ Current(t) /\ th[t].desc[1] = th[t].cred /\ th[t].known = FALSE /\ th[t].intro = 1
              /\ Recognized(t) \/ ~th[t].again
          BY <1>1, <4>2 DEF Undisturbed, At
        <5>2. Current(t)' /\ r.desc[1] = r.cred
          BY <1>1, <1>8, <1>10, <5>1 DEF Current, Period
        <5>3. Recognized(t)' = Recognized(t)
          BY <1>1, <1>8, <1>10 DEF Recognized
        <5>4. Met(t)'
          BY <1>5, <1>8, <1>10, <1>11, <5>1 DEF Met, At
        <5> QED
          BY <1>8, <1>10, <5>1, <5>2, <5>3, <5>4 DEF Undisturbed, At
      <4> QED
        BY <1>1, <1>8, <1>10, <3>1, <4>1, <4>2 DEF Survives, At
    <3>2. CASE u # t
      <4>1. th'[u] = th[u]
        BY <1>10, <3>2
      <4>2. th[u].pc \in {"introduce", "await"} => circuit'[th[u].circ] = circuit[th[u].circ]
        BY <1>12, <3>2 DEF OnionInv, HasCircuit, Holding, Building
      <4>3. cached'[th[u].svc] = cached[th[u].svc]
        BY <1>1
      <4> QED
        BY <1>1, <3>0, <4>1, <4>2, <4>3, SurvivesStays
    <3> QED
      BY <3>1, <3>2
  <2> QED
    BY <2>1 DEF Surviving
<1> QED
  BY <1>13, <1>14, <1>15, <1>16, <1>17, <1>18, <1>19, <1>20, <1>21 DEF OnionInv

-----------------------------------------------------------------------------
(* The rest of the client, the network and the services.                   *)

\* No thread steps and the map stays; a circuit is closed, or aged, only by a fault.
Outside ==
    /\ th' = th /\ open' = open /\ pushed' = pushed
    /\ consensus' \in Nat \ {0} /\ clearing' \in BOOLEAN /\ building' = building
    /\ ring' = ring \/ ring' = NoRing
    /\ cached' \in [Services -> Nat \X Nat] /\ revision' \in [Services -> Nat] /\ changes' \in Nat
    /\ faults' \in Nat /\ (faults = faults' \/ faults' # 0)
    /\ circuit' \in [Circuits -> CircuitRecords]
    /\ \A c \in Circuits :
          /\ circuit[c].state # "unused" => circuit'[c].state # "unused"
          /\ circuit'[c].state = "open" => circuit[c].state = "open"
          /\ circuit'[c].state # "open" => circuit[c].state # "open" \/ faults' # 0
          /\ circuit[c].aged /\ circuit'[c].state = "open" => circuit'[c].aged

\* Such a step keeps the invariant, if it keeps how the threads fare.
LEMMA OutsideKeeps ==
    ASSUME OnionInv, Outside, Keyed', Surviving'
    PROVE  OnionInv'
<1>0. OnionTypeOK /\ None \notin Circuits
  BY OnionConstants DEF OnionInv
<1>1. /\ th' = th /\ open' = open /\ pushed' = pushed /\ faults' \in Nat
      /\ (faults = faults' \/ faults' # 0)
  BY DEF Outside
<1>2. OnionTypeOK'
  <2>1. ring' \in RingRecords
    BY <1>0, OnionConstants DEF Outside, OnionTypeOK, NoRing, RingRecords
  <2> QED
    BY <1>0, <2>1 DEF Outside, OnionTypeOK
<1>3. HasCircuit'
  BY <1>1 DEF Outside, OnionInv, HasCircuit
<1>4. Owned'
  BY <1>1 DEF OnionInv, Owned
<1>5. InMap'
  <2>1. ASSUME NEW u \in Threads, th[u].pc \in {"begin", "open"},
               circuit'[th[u].circ].state = "open", ~circuit'[th[u].circ].aged
        PROVE  open[th[u].svc] = th[u].circ
    <3>1. th[u].circ \in Circuits
      BY <2>1 DEF OnionInv, HasCircuit, Holding
    <3>2. circuit[th[u].circ].state = "open" /\ ~circuit[th[u].circ].aged
      BY <2>1, <3>1 DEF Outside
    <3> QED
      BY <2>1, <3>2 DEF OnionInv, InMap, IsOpen
  <2> QED
    BY <1>1, <2>1 DEF InMap, IsOpen
<1>6. ClosedByOthers'
  <2>1. ASSUME NEW u \in Threads, th[u].pc \in Holding, circuit'[th[u].circ].state # "open"
        PROVE  faults' > 0 \/ u \in pushed
    <3>1. th[u].circ \in Circuits
      BY <2>1 DEF OnionInv, HasCircuit
    <3>2. circuit[th[u].circ].state # "open" \/ faults' # 0
      BY <2>1, <3>1 DEF Outside
    <3> QED
      BY <1>1, <2>1, <3>2 DEF OnionInv, ClosedByOthers, IsOpen
  <2> QED
    BY <1>1, <2>1 DEF ClosedByOthers, IsOpen
<1>7. Snapped'
  BY <1>1 DEF OnionInv, Snapped
<1>8. RingWhole'
  BY <1>1 DEF Outside, OnionInv, RingWhole, WholeOf, NoRing
<1> QED
  BY <1>2, <1>3, <1>4, <1>5, <1>6, <1>7, <1>8 DEF OnionInv

\* A new consensus, a new descriptor, one that has passed its lifetime: each is a change.
LEMMA KeepsChange ==
    ASSUME OnionInv, Turn \/ \E s \in Services : Republish(s) \/ Expire(s)
    PROVE  OnionInv'
<1>0. OnionTypeOK
  BY DEF OnionInv
<1>1. /\ th' = th /\ open' = open /\ pushed' = pushed /\ building' = building /\ ring' = ring
      /\ circuit' = circuit /\ faults' = faults /\ Change
  BY DEF Turn, Republish, Expire, directory
<1>2. changes' = changes + 1 /\ changes \in Nat
  BY <1>0, <1>1 DEF Change, OnionTypeOK
<1>3. /\ consensus' \in Nat \ {0} /\ clearing' \in BOOLEAN
      /\ cached' \in [Services -> Nat \X Nat] /\ revision' \in [Services -> Nat]
  <2>1. CASE Turn
    BY <1>0, <2>1 DEF Turn, OnionTypeOK
  <2>2. ASSUME NEW s \in Services, Republish(s)
        PROVE  /\ consensus' \in Nat \ {0} /\ clearing' \in BOOLEAN
               /\ cached' \in [Services -> Nat \X Nat] /\ revision' \in [Services -> Nat]
    BY <1>0, <2>2 DEF Republish, directory, OnionTypeOK
  <2>3. ASSUME NEW s \in Services, Expire(s)
        PROVE  /\ consensus' \in Nat \ {0} /\ clearing' \in BOOLEAN
               /\ cached' \in [Services -> Nat \X Nat] /\ revision' \in [Services -> Nat]
    <3>1. NoDesc \in Nat \X Nat
      BY DEF NoDesc
    <3> QED
      BY <1>0, <2>3, <3>1 DEF Expire, directory, OnionTypeOK
  <2> QED
    BY <2>1, <2>2, <2>3
<1>4. Outside
  BY <1>0, <1>1, <1>2, <1>3 DEF Outside, OnionTypeOK
<1>5. Keyed'
  BY <1>1 DEF OnionInv, Keyed, IsOpen
<1>6. Surviving'
  <2>1. ASSUME NEW u \in Threads, faults' = 0, u \notin pushed' PROVE Survives(u)'
    <3>1. Survives(u) /\ th'[u] = th[u]
      BY <1>1, <2>1 DEF OnionInv, Surviving
    <3> QED
      BY <1>0, <1>2, <3>1, SurvivesChange
  <2> QED
    BY <2>1 DEF Surviving
<1> QED
  BY <1>4, <1>5, <1>6, OutsideKeeps

\* The ring of the last consensus is dropped.
LEMMA KeepsCleared ==
    ASSUME OnionInv, Cleared
    PROVE  OnionInv'
<1>0. OnionTypeOK
  BY DEF OnionInv
<1>1. /\ th' = th /\ open' = open /\ pushed' = pushed /\ building' = building /\ ring' = NoRing
      /\ circuit' = circuit /\ faults' = faults /\ changes' = changes /\ revision' = revision
      /\ cached' = cached /\ consensus' = consensus /\ clearing' = FALSE
  BY DEF Cleared, service
<1>2. Outside
  BY <1>0, <1>1 DEF Outside, OnionTypeOK
<1>3. Keyed'
  BY <1>1 DEF OnionInv, Keyed, IsOpen
<1>4. Surviving'
  <2>1. ASSUME NEW u \in Threads, faults' = 0, u \notin pushed' PROVE Survives(u)'
    <3>1. Survives(u) /\ th'[u] = th[u]
      BY <1>1, <2>1 DEF OnionInv, Surviving
    <3>2. cached'[th[u].svc] = cached[th[u].svc] /\ circuit'[th[u].circ] = circuit[th[u].circ]
      BY <1>1
    <3> QED
      BY <1>1, <3>1, <3>2, SurvivesStays
  <2> QED
    BY <2>1 DEF Surviving
<1> QED
  BY <1>2, <1>3, <1>4, OutsideKeeps

\* A circuit fails, or ages: a fault.
LEMMA KeepsDieAge ==
    ASSUME OnionInv, NEW c \in Circuits, Die(c) \/ Age(c)
    PROVE  OnionInv'
<1>0. OnionTypeOK /\ circuit \in [Circuits -> CircuitRecords] /\ circuit[c] \in CircuitRecords
  BY DEF OnionInv, OnionTypeOK
<1>1. /\ th' = th /\ open' = open /\ pushed' = pushed /\ building' = building /\ ring' = ring
      /\ changes' = changes /\ revision' = revision
      /\ cached' = cached /\ consensus' = consensus /\ clearing' = clearing
      /\ faults' \in Nat /\ faults' # 0
  BY <1>0, FaultCounts DEF Die, Age, directory, service
<1>2. \E k \in CircuitRecords :
          /\ circuit'[c] = k /\ circuit' \in [Circuits -> CircuitRecords]
          /\ \A d \in Circuits : d # c => circuit'[d] = circuit[d]
          /\ \/ k.state = "closed"
             \/ /\ k.state = circuit[c].state /\ k.aged /\ k.hop = circuit[c].hop
                /\ k.met = circuit[c].met /\ k.mail = circuit[c].mail
  <2>1. CASE Die(c)
    <3>1. circuit' = Closed({c})
      BY <2>1 DEF Die
    <3>2. /\ circuit' \in [Circuits -> CircuitRecords] /\ circuit'[c].state = "closed"
          /\ \A d \in Circuits : d # c => circuit'[d] = circuit[d]
      BY <1>0, <3>1, ClosedIs
    <3> QED
      BY <3>2
  <2>2. CASE Age(c)
    <3> DEFINE k == [circuit[c] EXCEPT !.aged = TRUE]
    <3>1. circuit' = [circuit EXCEPT ![c] = k]
      BY <1>0, <2>2 DEF Age
    <3>2. /\ k \in CircuitRecords /\ k.state = circuit[c].state /\ k.aged = TRUE
          /\ k.hop = circuit[c].hop /\ k.met = circuit[c].met /\ k.mail = circuit[c].mail
      BY <1>0 DEF CircuitRecords
    <3> HIDE DEF k
    <3> QED
      BY <1>0, <3>1, <3>2
  <2> QED
    BY <2>1, <2>2
<1>3. Outside
  <2>1. /\ ring' = ring /\ building' = building /\ changes' \in Nat /\ consensus' \in Nat \ {0}
        /\ clearing' \in BOOLEAN
        /\ cached' \in [Services -> Nat \X Nat] /\ revision' \in [Services -> Nat]
    BY <1>0, <1>1 DEF OnionTypeOK
  <2> QED
    BY <1>1, <1>2, <2>1 DEF Outside
<1>4. Keyed'
  BY <1>2 DEF OnionInv, Keyed, IsOpen
<1>5. Surviving'
  BY <1>1 DEF Surviving
<1> QED
  BY <1>3, <1>4, <1>5, OutsideKeeps

\* The service comes: its end is keyed for the introduction its reply is for, and the
\* thread that waits for it has made no other if nothing disturbed it.
LEMMA KeepsMeet ==
    ASSUME OnionInv, NEW c \in Circuits, Meet(c)
    PROVE  OnionInv'
<1>0. /\ OnionTypeOK /\ circuit \in [Circuits -> CircuitRecords] /\ circuit[c] \in CircuitRecords
      /\ None \notin Circuits
  BY OnionConstants DEF OnionInv, OnionTypeOK
<1>1. /\ th' = th /\ open' = open /\ pushed' = pushed /\ building' = building /\ ring' = ring
      /\ changes' = changes /\ revision' = revision /\ faults' = faults
      /\ cached' = cached /\ consensus' = consensus /\ clearing' = clearing
      /\ circuit[c].state = "open" /\ circuit[c].met = 0
  BY DEF Meet, directory, service, IsOpen
<1>2. PICK i \in circuit[c].meets :
          circuit' = [circuit EXCEPT ![c].met = i, ![c].mail = i, ![c].meets = {}]
  BY DEF Meet
<1> DEFINE k == [circuit[c] EXCEPT !.met = i, !.mail = i, !.meets = {}]
<1>3. i \in Nat
  BY <1>0, <1>2 DEF CircuitRecords
<1>4. circuit' = [circuit EXCEPT ![c] = k]
  BY <1>0, <1>2
<1>5. /\ k \in CircuitRecords /\ k.state = circuit[c].state /\ k.aged = circuit[c].aged
      /\ k.hop = circuit[c].hop /\ k.met = i /\ k.mail = i
  BY <1>0, <1>3 DEF CircuitRecords
<1> HIDE DEF k
<1>6. /\ circuit' \in [Circuits -> CircuitRecords] /\ circuit'[c] = k
      /\ \A d \in Circuits : d # c => circuit'[d] = circuit[d]
  BY <1>0, <1>4, <1>5
<1>7. Outside
  <2>1. /\ faults' \in Nat /\ building' = building /\ changes' \in Nat /\ consensus' \in Nat \ {0}
        /\ clearing' \in BOOLEAN
        /\ cached' \in [Services -> Nat \X Nat] /\ revision' \in [Services -> Nat]
    BY <1>0, <1>1 DEF OnionTypeOK
  <2> QED
    BY <1>1, <1>5, <1>6, <2>1 DEF Outside
<1>8. Keyed'
  <2>1. circuit[c].hop = 0
    BY <1>1 DEF OnionInv, Keyed, IsOpen
  <2> QED
    BY <1>5, <1>6, <2>1 DEF OnionInv, Keyed, IsOpen
<1>9. Surviving'
  <2>1. ASSUME NEW u \in Threads, faults' = 0, u \notin pushed' PROVE Survives(u)'
    <3>1. Survives(u) /\ th'[u] = th[u]
      BY <1>1, <2>1 DEF OnionInv, Surviving
    <3>2. cached'[th[u].svc] = cached[th[u].svc]
      BY <1>1
    <3>3. CASE th[u].circ # c \/ th[u].pc \notin {"introduce", "await"}
      <4>1. th[u].pc \in {"introduce", "await"} => circuit'[th[u].circ] = circuit[th[u].circ]
        BY <1>6, <3>3 DEF OnionInv, HasCircuit, Holding, Building
      <4> QED
        BY <1>1, <3>1, <3>2, <4>1, SurvivesStays
    <3>4. CASE th[u].circ = c /\ th[u].pc \in {"introduce", "await"}
      <4>1. ASSUME Undisturbed(u) PROVE Undisturbed(u)'
        <5>1. /\ Current(u) /\ th[u].desc[1] = th[u].cred /\ th[u].known = FALSE
              /\ \/ Recognized(u) /\ Met(u)
                 \/ ~Recognized(u) /\ ~th[u].again /\ ~At(u, "await")
          BY <3>4, <4>1 DEF Undisturbed
        <5>2. Current(u)' /\ Recognized(u)' = Recognized(u) /\ At(u, "await")' = At(u, "await")
          BY <1>1, <3>1, <5>1 DEF Current, Period, Recognized, At
        <5>3. ASSUME Met(u) PROVE Met(u)'
          <6>1. At(u, "await")
            BY <1>2, <3>4, <5>3 DEF Met, At
          <6>2. th[u].intro = 1 /\ i = 1
            BY <1>1, <1>2, <3>4, <5>3, <6>1 DEF Met
          <6>3. circuit'[th[u].circ].met = 1 /\ circuit'[th[u].circ].mail = 1
            BY <1>5, <1>6, <3>4, <6>2
          <6> QED
            BY <3>1, <6>1, <6>2, <6>3 DEF Met, At
        <5> QED
          BY <3>1, <3>4, <5>1, <5>2, <5>3 DEF Undisturbed, At
      <4> QED
        BY <1>1, <3>1, <3>4, <4>1 DEF Survives, At
    <3> QED
      BY <3>3, <3>4
  <2> QED
    BY <2>1 DEF Surviving
<1> QED
  BY <1>7, <1>8, <1>9, OutsideKeeps

-----------------------------------------------------------------------------
(* The whole.                                                              *)

\* The invariant holds when the first threads ask.
LEMMA OnionStarts == Init => OnionInv
<1> SUFFICES ASSUME Init PROVE OnionInv
  OBVIOUS
<1>0. None \notin Circuits /\ Earlier \in [Services -> Circuits \cup {None}]
  BY OnionAssumption
<1>1. PICK want \in [Threads -> Services] : th = [t \in Threads |-> Asking(want[t], 0)]
  BY DEF Init
<1>2. ASSUME NEW t \in Threads
      PROVE  /\ th[t] \in ThreadRecords /\ th[t].pc = "lookup" /\ th[t].circ = None
             /\ th[t].stream = FALSE /\ th[t].tries = 0 /\ th[t].known = FALSE /\ th[t].cred = 0
             /\ th[t].again = FALSE /\ th[t].intro = 1
  <2>1. th[t] = Asking(want[t], 0) /\ want[t] \in Services
    BY <1>1
  <2>2. th[t] \in ThreadRecords
    BY <2>1, AskingType
  <2> QED
    BY <2>1, <2>2 DEF Asking
<1> DEFINE k == [Unused EXCEPT !.state = "open", !.hop = 1, !.met = 1]
<1>3. /\ k \in CircuitRecords /\ k.state = "open" /\ k.hop = 1 /\ k.met = 1 /\ k.mail = 0
      /\ Unused \in CircuitRecords /\ Unused.state = "unused"
  BY DEF Unused, CircuitRecords
<1>4. circuit = [c \in Circuits |-> IF \E s \in Services : Earlier[s] = c THEN k ELSE Unused]
  BY DEF Init
<1> HIDE DEF k
<1>5. /\ circuit \in [Circuits -> CircuitRecords]
      /\ \A c \in Circuits : circuit[c] = k \/ circuit[c] = Unused
      /\ \A s \in Services : Earlier[s] \in Circuits => circuit[Earlier[s]] = k
  BY <1>3, <1>4
<1>6. /\ consensus = 1 /\ clearing = FALSE /\ ring = NoRing /\ building = None
      /\ cached = [s \in Services |-> NoDesc] /\ open = Earlier
      /\ revision = [s \in Services |-> 1] /\ changes = 0 /\ faults = 0 /\ pushed = {}
  BY DEF Init
<1>7. OnionTypeOK
  <2>1. th \in [Threads -> ThreadRecords]
    BY <1>1, <1>2
  <2>2. ring \in RingRecords /\ revision \in [Services -> Nat]
    BY <1>6, OnionConstants DEF NoRing, RingRecords
  <2>3. NoDesc \in Nat \X Nat
    BY DEF NoDesc
  <2>4. cached \in [Services -> Nat \X Nat]
    BY <1>6, <2>3
  <2>5. open \in [Services -> Circuits \cup {None}] /\ consensus \in Nat \ {0}
    BY <1>0, <1>6
  <2> QED
    BY <1>5, <1>6, <2>1, <2>2, <2>4, <2>5 DEF OnionTypeOK
<1>8. Keyed
  BY <1>3, <1>5 DEF Keyed, IsOpen
<1>9. HasCircuit
  BY <1>0, <1>2, <1>3, <1>5, <1>6 DEF HasCircuit, Holding, Building
<1>10. Owned /\ InMap /\ ClosedByOthers /\ Snapped
  BY <1>2 DEF Owned, InMap, ClosedByOthers, Snapped, Holding, Building
<1>11. RingWhole
  BY <1>2, <1>6 DEF RingWhole, NoRing
<1>12. Surviving
  <2>1. ASSUME NEW t \in Threads PROVE Survives(t)
    <3>1. Undisturbed(t)
      BY <1>2 DEF Undisturbed, At
    <3> QED
      BY <1>2, <1>6, <3>1 DEF Survives, At
  <2> QED
    BY <2>1 DEF Surviving
<1> QED
  BY <1>7, <1>8, <1>9, <1>10, <1>11, <1>12 DEF OnionInv

\* Nothing changed, nothing to prove.
LEMMA OnionStutters ==
    ASSUME OnionInv, UNCHANGED vars
    PROVE  OnionInv'
<1>0. OnionTypeOK
  BY DEF OnionInv
<1>1. /\ th' = th /\ open' = open /\ pushed' = pushed /\ building' = building /\ ring' = ring
      /\ circuit' = circuit /\ faults' = faults /\ changes' = changes /\ revision' = revision
      /\ cached' = cached /\ consensus' = consensus /\ clearing' = clearing
  BY DEF vars
<1>2. Outside
  BY <1>0, <1>1 DEF Outside, OnionTypeOK
<1>3. Keyed'
  BY <1>1 DEF OnionInv, Keyed, IsOpen
<1>4. Surviving'
  <2>1. ASSUME NEW u \in Threads, faults' = 0, u \notin pushed' PROVE Survives(u)'
    <3>1. Survives(u) /\ th'[u] = th[u]
      BY <1>1, <2>1 DEF OnionInv, Surviving
    <3>2. cached'[th[u].svc] = cached[th[u].svc] /\ circuit'[th[u].circ] = circuit[th[u].circ]
      BY <1>1
    <3> QED
      BY <1>1, <3>1, <3>2, SurvivesStays
  <2> QED
    BY <2>1 DEF Surviving
<1> QED
  BY <1>2, <1>3, <1>4, OutsideKeeps

\* Every step of a thread keeps the invariant.
LEMMA OnionThreadKeeps ==
    ASSUME OnionInv, NEW t \in Threads, Step(t)
    PROVE  OnionInv'
<1>1. CASE RingLook(t)
  BY <1>1, KeepsRingLook
<1>2. CASE RingLock(t)
  BY <1>2, KeepsRingLock
<1>3. CASE RingBuilt(t)
  BY <1>3, KeepsRingBuilt
<1>4. CASE RingFails(t)
  BY <1>4, KeepsRingFails
<1>5. CASE DescHeld(t)
  BY <1>5, KeepsDescHeld
<1>6. CASE DescFetch(t)
  BY <1>6, KeepsDescFetch
<1>7. CASE Established(t)
  BY <1>7, KeepsEstablished
<1>8. CASE EstablishFails(t)
  BY <1>8, KeepsEstablishFails
<1>9. CASE IntroduceAcked(t)
  BY <1>9, KeepsIntroduceAcked
<1>10. CASE IntroduceUnknown(t)
  BY <1>10, KeepsIntroduceUnknown
<1>11. CASE IntroduceFails(t)
  BY <1>11, KeepsIntroduceFails
<1>12. CASE OutOfTime(t)
  BY <1>12, KeepsOutOfTime
<1>13. CASE Finish(t)
  BY <1>13, KeepsFinish
<1>14. CASE AwaitFails(t)
  BY <1>14, KeepsAwaitFails
<1>15. CASE NotMet(t)
  BY <1>15, KeepsNotMet
<1>16. CASE Lookup(t)
  BY <1>16, KeepsLookup
<1>17. CASE Insert(t)
  BY <1>17, KeepsInsert
<1>18. CASE Begin(t)
  BY <1>18, KeepsBegin
<1>19. CASE BeginFails(t)
  BY <1>19, KeepsBeginFails
<1>20. CASE Move(t)
  BY <1>20, KeepsMove
<1>21. CASE Cut(t)
  BY <1>21, KeepsCut
<1> QED
  BY <1>1, <1>2, <1>3, <1>4, <1>5, <1>6, <1>7, <1>8, <1>9, <1>10, <1>11, <1>12, <1>13, <1>14,
     <1>15, <1>16, <1>17, <1>18, <1>19, <1>20, <1>21 DEF Step

\* Every step keeps the invariant.
LEMMA OnionKeeps == OnionInv /\ [Next]_vars => OnionInv'
<1> SUFFICES ASSUME OnionInv, [Next]_vars PROVE OnionInv'
  OBVIOUS
<1>1. CASE \E t \in Threads : Step(t)
  BY <1>1, OnionThreadKeeps
<1>2. CASE Turn \/ \E s \in Services : Republish(s) \/ Expire(s)
  BY <1>2, KeepsChange
<1>3. CASE Cleared
  BY <1>3, KeepsCleared
<1>4. CASE \E c \in Circuits : Meet(c) \/ Die(c) \/ Age(c)
  BY <1>4, KeepsMeet, KeepsDieAge
<1>5. CASE UNCHANGED vars
  BY <1>5, OnionStutters
<1> QED
  BY <1>1, <1>2, <1>3, <1>4, <1>5 DEF Next

\* What connections to onion services keep, for any number of threads, services, circuits,
\* nodes, replicas, changes and faults: types, whose each circuit is and with which keys,
\* and what an attempt that nothing disturbed has in hand.
THEOREM OnionInvariant == Spec => []OnionInv
<1>1. Init => OnionInv
  BY OnionStarts
<1>2. OnionInv /\ [Next]_vars => OnionInv'
  BY OnionKeeps
<1> QED
  BY <1>1, <1>2, PTL DEF Spec

\* The virtual hop of a circuit is keyed for the introduction the service answered.
THEOREM KeysAgreeAlways == Spec => []KeysAgree
<1>1. OnionInv => KeysAgree
  BY DEF OnionInv, Keyed, KeysAgree
<1> QED
  BY <1>1, OnionInvariant, PTL

\* All streams to one service are on one circuit, whoever raced to build it.
THEOREM OneCircuitAlways == Spec => []OneCircuit
<1>1. OnionInv => OneCircuit
  BY DEF OnionInv, InMap, OneCircuit
<1> QED
  BY <1>1, OnionInvariant, PTL

\* No turn of a period and no new descriptor makes a connection fail, unless there is one
\* for each attempt it has.
THEOREM TurnSurvivedAlways == Spec => []TurnSurvived
<1>1. OnionInv => TurnSurvived
  <2> SUFFICES ASSUME OnionInv, NEW t \in Threads, At(t, "failed")
               PROVE  faults > 0 \/ t \in pushed \/ changes >= ConnectAttempts
    BY DEF TurnSurvived
  <2>1. faults \in Nat
    BY DEF OnionInv, OnionTypeOK
  <2>2. faults = 0 /\ t \notin pushed => Survives(t)
    BY DEF OnionInv, Surviving
  <2> QED
    BY <2>1, <2>2 DEF Survives
<1> QED
  BY <1>1, OnionInvariant, PTL
=============================================================================
