------------------------------- MODULE DataLemmas -------------------------------
(* Facts about the sequences used as queues and registries, and about sets *)
(* of numbers.                                                             *)
EXTENDS Integers, Sequences, FiniteSets, SequenceTheorems, FiniteSetTheorems,
        WellFoundedInduction, TLAPS

(* Putting the head back in front of the tail gives the sequence again.    *)
LEMMA HeadBeforeTail ==
  ASSUME NEW S, NEW q \in Seq(S), q # <<>>
  PROVE  <<Head(q)>> \o Tail(q) = q
<1>1. Head(q) \in S /\ Tail(q) \in Seq(S) /\ Len(Tail(q)) = Len(q) - 1
      /\ \A i \in 1 .. Len(Tail(q)) : Tail(q)[i] = q[i + 1]
  BY HeadTailProperties
<1>2. <<Head(q)>> \in Seq(S) /\ Len(<<Head(q)>>) = 1
  BY <1>1
<1>3. Len(q) \in Nat
  BY LenProperties
<1>4. <<Head(q)>> \o Tail(q) \in Seq(S) /\ Len(<<Head(q)>> \o Tail(q)) = Len(q)
  BY <1>1, <1>2, <1>3, ConcatProperties
<1>5. ASSUME NEW i \in 1 .. Len(q)
      PROVE  (<<Head(q)>> \o Tail(q))[i] = q[i]
  <2>1. (<<Head(q)>> \o Tail(q))[i]
          = IF i <= 1 THEN <<Head(q)>>[i] ELSE Tail(q)[i - 1]
    BY <1>1, <1>2, <1>3, ConcatProperties
  <2>. QED  BY <2>1, <1>1, <1>3
<1>. QED  BY <1>4, <1>5, SeqEqual

(* The first element of a sequence built in front of another.              *)
LEMMA HeadTailOfCons ==
  ASSUME NEW S, NEW q \in Seq(S), NEW e \in S
  PROVE  /\ <<e>> \o q # <<>>
         /\ Head(<<e>> \o q) = e
         /\ Tail(<<e>> \o q) = q
<1>. DEFINE c == <<e>> \o q
<1>0. <<e>> \in Seq(S) /\ Len(<<e>>) = 1 /\ Len(q) \in Nat
  BY LenProperties
<1>1. /\ c \in Seq(S)
      /\ Len(c) = 1 + Len(q)
      /\ \A i \in 1 .. 1 + Len(q) : c[i] = IF i <= 1 THEN <<e>>[i] ELSE q[i - 1]
  BY <1>0, ConcatProperties
<1>2. c # <<>>
  BY <1>0, <1>1
<1>3. /\ Tail(c) \in Seq(S)
      /\ Len(Tail(c)) = Len(c) - 1
      /\ \A i \in 1 .. Len(Tail(c)) : Tail(c)[i] = c[i + 1]
  BY <1>1, <1>2, HeadTailProperties
<1>4. Tail(c) = q
  <2>1. Len(Tail(c)) = Len(q)
    BY <1>0, <1>1, <1>3
  <2>2. \A i \in 1 .. Len(Tail(c)) : Tail(c)[i] = q[i]
    BY <1>0, <1>1, <1>3, <2>1
  <2>. HIDE DEF c
  <2>. QED  BY <1>3, <2>1, <2>2, SeqEqual
<1>5. Head(c) = e
  <2>1. c[1] = e
    BY <1>0, <1>1
  <2>. HIDE DEF c
  <2>. QED  BY <1>1, <1>2, <2>1
<1>. QED  BY <1>2, <1>4, <1>5

(* Appending to the last of several concatenated sequences appends to the  *)
(* whole.                                                                  *)
LEMMA ConcatAppend ==
  ASSUME NEW S, NEW s \in Seq(S), NEW q \in Seq(S), NEW e \in S
  PROVE  s \o Append(q, e) = Append(s \o q, e)
<1>1. <<e>> \in Seq(S) /\ s \o q \in Seq(S)
  BY ConcatProperties
<1>2. Append(q, e) = q \o <<e>> /\ Append(s \o q, e) = (s \o q) \o <<e>>
  BY <1>1, AppendIsConcat
<1>. QED  BY <1>1, <1>2, ConcatAssociative

(* Dropping the first elements leaves elements of the same set.            *)
LEMMA SuffixType ==
  ASSUME NEW S, NEW s \in Seq(S), NEW k \in Nat
  PROVE  SubSeq(s, k + 1, Len(s)) \in Seq(S)
<1>1. Len(s) \in Nat
  BY LenProperties
<1>2. \A i \in k + 1 .. Len(s) : s[i] \in S
  BY <1>1, ElementOfSeq
<1>. QED  BY <1>1, <1>2, SubSeqProperties

(* Taking one element out moves the later ones one place down.             *)
LEMMA RemoveOne ==
  ASSUME NEW S, NEW s \in Seq(S), NEW i \in 1 .. Len(s)
  PROVE  LET w == SubSeq(s, 1, i - 1) \o SubSeq(s, i + 1, Len(s))
         IN  /\ w \in Seq(S)
             /\ Len(w) = Len(s) - 1
             /\ \A j \in 1 .. Len(w) : w[j] = s[IF j < i THEN j ELSE j + 1]
<1>. DEFINE a == SubSeq(s, 1, i - 1)
            b == SubSeq(s, i + 1, Len(s))
<1>0. Len(s) \in Nat /\ i \in Nat /\ i >= 1 /\ i <= Len(s)
  BY LenProperties
<1>1. /\ a \in Seq(S)
      /\ Len(a) = i - 1
      /\ \A j \in 1 .. i - 1 : a[j] = s[j]
  <2>1. \A j \in 1 .. i - 1 : s[j] \in S
    BY <1>0, ElementOfSeq
  <2>2. /\ a \in Seq(S)
        /\ Len(a) = IF 1 <= i - 1 THEN (i - 1) - 1 + 1 ELSE 0
        /\ \A j \in 1 .. (i - 1) - 1 + 1 : a[j] = s[1 + j - 1]
    BY <1>0, <2>1, SubSeqProperties
  <2>. QED  BY <1>0, <2>2
<1>2. /\ b \in Seq(S)
      /\ Len(b) = Len(s) - i
      /\ \A j \in 1 .. Len(s) - i : b[j] = s[i + j]
  <2>1. \A j \in i + 1 .. Len(s) : s[j] \in S
    BY <1>0, ElementOfSeq
  <2>2. /\ b \in Seq(S)
        /\ Len(b) = IF i + 1 <= Len(s) THEN Len(s) - (i + 1) + 1 ELSE 0
        /\ \A j \in 1 .. Len(s) - (i + 1) + 1 : b[j] = s[(i + 1) + j - 1]
    BY <1>0, <2>1, SubSeqProperties
  <2>. QED  BY <1>0, <2>2
<1>. HIDE DEF a, b
<1>3. /\ a \o b \in Seq(S)
      /\ Len(a \o b) = Len(a) + Len(b)
      /\ \A j \in 1 .. Len(a) + Len(b) :
            (a \o b)[j] = IF j <= Len(a) THEN a[j] ELSE b[j - Len(a)]
  BY <1>1, <1>2, ConcatProperties
<1>4. Len(a \o b) = Len(s) - 1
  BY <1>0, <1>1, <1>2, <1>3
<1>5. ASSUME NEW j \in 1 .. Len(s) - 1
      PROVE  (a \o b)[j] = s[IF j < i THEN j ELSE j + 1]
  <2>1. CASE j < i
    BY <1>0, <1>1, <1>2, <1>3, <2>1
  <2>2. CASE j >= i
    <3>1. j - (i - 1) \in 1 .. Len(s) - i /\ i + (j - (i - 1)) = j + 1
      BY <1>0, <2>2
    <3>2. b[j - (i - 1)] = s[j + 1]
      BY <1>2, <3>1
    <3>. QED  BY <1>0, <1>1, <1>2, <1>3, <2>2, <3>2
  <2>3. j < i \/ j >= i
    BY <1>0
  <2>. QED  BY <2>1, <2>2, <2>3, Zenon
<1>. QED  BY <1>3, <1>4, <1>5 DEF a, b

(* The elements of a queue one is appended to.                             *)
LEMMA AppendElements ==
  ASSUME NEW S, NEW q \in Seq(S), NEW e \in S
  PROVE  /\ Append(q, e) \in Seq(S) /\ Len(q) \in Nat /\ Len(Append(q, e)) = Len(q) + 1
         /\ \A i \in 1 .. Len(Append(q, e)) :
               \/ i \in 1 .. Len(q) /\ Append(q, e)[i] = q[i]
               \/ i = Len(q) + 1 /\ Append(q, e)[i] = e
<1>1. /\ Append(q, e) \in Seq(S) /\ Len(Append(q, e)) = Len(q) + 1
      /\ Append(q, e)[Len(q) + 1] = e
      /\ \A i \in 1 .. Len(q) : Append(q, e)[i] = q[i]
  BY AppendProperties
<1>2. Len(q) \in Nat
  BY LenProperties
<1>. QED  BY <1>1, <1>2

(* The elements of a queue whose head is taken.                            *)
LEMMA TailElements ==
  ASSUME NEW S, NEW q \in Seq(S), q # <<>>
  PROVE  /\ Tail(q) \in Seq(S) /\ Len(q) \in Nat /\ Len(Tail(q)) = Len(q) - 1
         /\ Head(q) \in S /\ 1 \in 1 .. Len(q) /\ Head(q) = q[1]
         /\ \A i \in 1 .. Len(Tail(q)) : i + 1 \in 1 .. Len(q) /\ Tail(q)[i] = q[i + 1]
<1>1. /\ Head(q) \in S /\ Tail(q) \in Seq(S) /\ Len(Tail(q)) = Len(q) - 1
      /\ \A i \in 1 .. Len(Tail(q)) : Tail(q)[i] = q[i + 1]
  BY HeadTailProperties
<1>2. Len(q) \in Nat /\ Len(q) # 0
  BY LenProperties, EmptySeq
<1>3. Head(q) = q[1]
  OBVIOUS
<1>. QED  BY <1>1, <1>2, <1>3

-------------------------------------------------------------------------------
(* The least and the greatest of a set of numbers.  The sets 0 .. n, for   *)
(* the n of a set, have one that no other is a part of; so have the sets   *)
(* of its elements from n on, if it is finite.                             *)

LEMMA LeastSet ==
  ASSUME NEW T \in SUBSET FiniteSubsetsOf(Nat), T # {}
  PROVE  \E x \in T : \A y \in T : ~ (y \subseteq x /\ y # x)
<1>1. PICK x \in T : \A y \in T : ~ (<<y, x>> \in StrictSubsetOrdering(Nat))
  BY FS_StrictSubsetOrderingWellFounded, WFMin
<1>2. \A y \in T : y \in SUBSET Nat
  BY DEF FiniteSubsetsOf
<1>3. \A y \in T : ~ (y \subseteq x /\ y # x)
  BY <1>1, <1>2 DEF StrictSubsetOrdering
<1>. QED  BY <1>3

LEMMA LeastNumber ==
  ASSUME NEW S \in SUBSET Nat, S # {}
  PROVE  \E m \in S : \A n \in S : m <= n
<1>. DEFINE T == {0 .. n : n \in S}
<1>1. T \in SUBSET FiniteSubsetsOf(Nat) /\ T # {}
  <2>1. \A n \in S : 0 .. n \in SUBSET Nat /\ IsFiniteSet(0 .. n)
    BY FS_Interval
  <2>. QED  BY <2>1 DEF FiniteSubsetsOf
<1>2. PICK m \in S : \A y \in T : ~ (y \subseteq 0 .. m /\ y # 0 .. m)
  <2>1. \E x \in T : \A y \in T : ~ (y \subseteq x /\ y # x)
    <3>. HIDE DEF T
    <3>. QED  BY <1>1, LeastSet
  <2>. QED  BY <2>1
<1>3. ASSUME NEW n \in S PROVE m <= n
  <2>1. ~ (0 .. n \subseteq 0 .. m /\ 0 .. n # 0 .. m)
    BY <1>2
  <2>2. n < m => 0 .. n \subseteq 0 .. m /\ m \in 0 .. m /\ m \notin 0 .. n
    OBVIOUS
  <2>. QED  BY <2>1, <2>2
<1>. QED  BY <1>3

LEMMA GreatestNumber ==
  ASSUME NEW S \in SUBSET Nat, S # {}, IsFiniteSet(S)
  PROVE  \E m \in S : \A n \in S : m >= n
<1>. DEFINE From(n) == {k \in S : k >= n}
            T == {From(n) : n \in S}
<1>1. T \in SUBSET FiniteSubsetsOf(Nat) /\ T # {}
  <2>1. \A n \in S : From(n) \in SUBSET Nat /\ IsFiniteSet(From(n))
    BY FS_Subset
  <2>. QED  BY <2>1 DEF FiniteSubsetsOf
<1>2. PICK m \in S : \A y \in T : ~ (y \subseteq From(m) /\ y # From(m))
  <2>1. \E x \in T : \A y \in T : ~ (y \subseteq x /\ y # x)
    <3>. HIDE DEF T
    <3>. QED  BY <1>1, LeastSet
  <2>. QED  BY <2>1
<1>3. ASSUME NEW n \in S PROVE m >= n
  <2>1. ~ (From(n) \subseteq From(m) /\ From(n) # From(m))
    BY <1>2
  <2>2. m \in From(m) /\ (n > m => m \notin From(n))
    OBVIOUS
  <2>3. ASSUME n > m, NEW k \in From(n) PROVE k \in From(m)
    <3>1. k \in Nat /\ k \in S /\ k >= n /\ n \in Nat /\ m \in Nat
      OBVIOUS
    <3>. QED  BY <2>3, <3>1
  <2>4. n > m => From(n) \subseteq From(m)
    BY <2>3
  <2>. QED  BY <2>1, <2>2, <2>4
<1>. QED  BY <1>3
=================================================================================
