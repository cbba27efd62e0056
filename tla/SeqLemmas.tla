------------------------------ MODULE SeqLemmas ------------------------------
(***************************************************************************)
(* Facts about the natural numbers and about sequences that the proofs of   *)
(* the components share: induction in the form of a set of numbers, and     *)
(* what the head, the tail and the rest of a sequence are.                  *)
(***************************************************************************)
EXTENDS Integers, Sequences, SequencesExt, FiniteSetTheorems, SequenceTheorems,
        WellFoundedInduction, TLAPS

(* A set of natural numbers has a least one. *)
LEMMA LeastOf ==
    ASSUME NEW S, S \subseteq Nat, S # {}
    PROVE  \E x \in S : \A r \in S : x <= r
<1> DEFINE R == {p \in Nat \X Nat : p[1] < p[2]}
<1>1. OpToRel(<, Nat) = R
  BY DEF OpToRel
<1>2. IsWellFoundedOn(R, Nat)
  BY <1>1, NatLessThanWellFounded
<1>3. \E x \in S : \A y \in S : ~(<<y, x>> \in R)
  BY <1>2, WFMin, Zenon
<1>4. PICK x \in S : \A y \in S : ~(<<y, x>> \in R)
  BY <1>3
<1>5. ASSUME NEW y \in S PROVE x <= y
  <2>1. <<y, x>> \notin R
    BY <1>4
  <2>2. y \in Nat /\ x \in Nat
    BY <1>4
  <2>3. <<y, x>> \in Nat \X Nat /\ <<y, x>>[1] = y /\ <<y, x>>[2] = x
    BY <2>2
  <2>4. ~(y < x)
    BY <2>1, <2>3
  <2> QED  BY <2>2, <2>4
<1> QED  BY <1>5

(* Induction: a set with 0 that has i + 1 with every i has every number. *)
LEMMA Stepwise ==
    ASSUME NEW T, 0 \in T, \A i \in Nat : i \in T => i + 1 \in T
    PROVE  Nat \subseteq T
<1> SUFFICES ASSUME Nat \ T # {} PROVE FALSE
  OBVIOUS
<1>1. PICK x \in Nat \ T : \A r \in Nat \ T : x <= r
  BY LeastOf
<1>2. x # 0 /\ x - 1 \in Nat /\ ~(x <= x - 1) /\ (x - 1) + 1 = x
  BY <1>1
<1>3. x - 1 \in T
  BY <1>1, <1>2
<1> QED  BY <1>1, <1>2, <1>3

(* The same as far as n. *)
LEMMA StepsTo ==
    ASSUME NEW n \in Nat, NEW T, 0 \in T, \A i \in Nat : i + 1 <= n /\ i \in T => i + 1 \in T
    PROVE  n \in T
<1> DEFINE U == {i \in Nat : i <= n => i \in T}
<1>1. 0 \in U
  OBVIOUS
<1>2. ASSUME NEW i \in Nat, i \in U PROVE i + 1 \in U
  <2>1. CASE i + 1 <= n
    BY <1>2, <2>1
  <2>2. CASE ~(i + 1 <= n)
    BY <2>2
  <2> QED  BY <2>1, <2>2
<1>3. Nat \subseteq U
  <2> HIDE DEF U
  <2> QED  BY <1>1, <1>2, Stepwise
<1> QED  BY <1>3
-----------------------------------------------------------------------------
(* The tail of a sequence: its length and its elements. *)
LEMMA TailParts ==
    ASSUME NEW S, NEW q \in Seq(S), q # <<>>
    PROVE  /\ Tail(q) \in Seq(S) /\ Head(q) = q[1] /\ Head(q) \in S /\ 1 \in DOMAIN q
           /\ DOMAIN Tail(q) = 1..Len(q)-1 /\ DOMAIN q = 1..Len(q) /\ Len(q) \in Nat \ {0}
           /\ \A i \in DOMAIN Tail(q) : i + 1 \in DOMAIN q /\ Tail(q)[i] = q[i + 1]
<1>1. Len(q) \in Nat \ {0} /\ DOMAIN q = 1..Len(q)
  BY EmptySeq, LenProperties
<1>2. Head(q) = q[1] /\ Head(q) \in S /\ Tail(q) \in Seq(S) /\ Len(Tail(q)) = Len(q) - 1
      /\ \A i \in 1..Len(Tail(q)) : Tail(q)[i] = q[i + 1]
  BY HeadTailProperties
<1>3. DOMAIN Tail(q) = 1..Len(q)-1
  BY <1>2, LenProperties
<1> QED  BY <1>1, <1>2, <1>3

(* A sequence with one element more: its length and its elements. *)
LEMMA AppendParts ==
    ASSUME NEW S, NEW q \in Seq(S), NEW m \in S
    PROVE  /\ Append(q, m) \in Seq(S) /\ Len(q) \in Nat
           /\ DOMAIN q = 1..Len(q) /\ DOMAIN Append(q, m) = 1..Len(q)+1
           /\ \A i \in DOMAIN q : Append(q, m)[i] = q[i]
           /\ Append(q, m)[Len(q) + 1] = m
BY AppendProperties, LenProperties

(* What is left of q after i elements. *)
Rest(q, i) == SubSeq(q, i + 1, Len(q))

(* Going through a sequence: the head of what is left is the next element. *)
LEMMA RestParts ==
    ASSUME NEW S, NEW q \in Seq(S)
    PROVE  /\ Rest(q, 0) = q /\ Rest(q, Len(q)) = <<>>
           /\ \A i \in 1..Len(q) :
                 /\ Rest(q, i - 1) \in Seq(S) /\ Rest(q, i - 1) # <<>>
                 /\ Head(Rest(q, i - 1)) = q[i] /\ Tail(Rest(q, i - 1)) = Rest(q, i)
<1>1. Len(q) \in Nat /\ DOMAIN q = 1..Len(q)
  BY LenProperties
<1>2. Rest(q, 0) = q
  BY <1>1 DEF Rest
<1>3. Rest(q, Len(q)) = <<>>
  BY <1>1 DEF Rest
<1>4. ASSUME NEW i \in 1..Len(q)
      PROVE  /\ Rest(q, i - 1) \in Seq(S) /\ Rest(q, i - 1) # <<>>
             /\ Head(Rest(q, i - 1)) = q[i] /\ Tail(Rest(q, i - 1)) = Rest(q, i)
  <2>0. Rest(q, i - 1) = SubSeq(q, i, Len(q)) /\ Rest(q, i) = SubSeq(q, i + 1, Len(q))
    BY <1>1 DEF Rest
  <2>1. /\ Head(SubSeq(q, i, Len(q))) = q[i]
        /\ Tail(SubSeq(q, i, Len(q))) = SubSeq(q, i + 1, Len(q))
    <3>1. Len(q) \in i..Len(q)
      BY <1>1
    <3> QED  BY <3>1, HeadTailOfSubSeq
  <2>2. /\ SubSeq(q, i, Len(q)) \in Seq(S)
        /\ Len(SubSeq(q, i, Len(q))) = Len(q) - i + 1
    <3>1. \A j \in i..Len(q) : q[j] \in S
      BY <1>1, ElementOfSeq
    <3> QED  BY <1>1, <3>1, SubSeqProperties
  <2>3. SubSeq(q, i, Len(q)) # <<>>
    <3>1. Len(q) - i + 1 # 0
      BY <1>1
    <3> QED  BY <2>2, <3>1, EmptySeq
  <2> QED  BY <2>0, <2>1, <2>2, <2>3
<1> QED  BY <1>2, <1>3, <1>4

(* The head and the tail of a sequence that another one follows. *)
LEMMA ConcatTail ==
    ASSUME NEW S, NEW q \in Seq(S), q # <<>>, NEW r \in Seq(S)
    PROVE  /\ q \o r \in Seq(S) /\ q \o r # <<>> /\ Head(q \o r) = Head(q)
           /\ Tail(q \o r) = Tail(q) \o r
<1>1. Len(q) \in Nat \ {0} /\ Len(r) \in Nat
  BY EmptySeq, LenProperties
<1>2. /\ q \o r \in Seq(S) /\ Len(q \o r) = Len(q) + Len(r)
      /\ \A i \in 1..Len(q)+Len(r) : (q \o r)[i] = IF i <= Len(q) THEN q[i] ELSE r[i - Len(q)]
  BY ConcatProperties
<1>3. q \o r # <<>>
  BY <1>1, <1>2, EmptySeq
<1>4. Head(q) = q[1] /\ Head(q \o r) = (q \o r)[1]
  BY <1>2, <1>3, TailParts
<1>5. Head(q \o r) = Head(q)
  BY <1>1, <1>2, <1>4
<1>6. /\ Tail(q) \in Seq(S) /\ Len(Tail(q)) = Len(q) - 1
      /\ \A i \in 1..Len(q)-1 : Tail(q)[i] = q[i + 1]
  BY HeadTailProperties
<1>7. /\ Tail(q \o r) \in Seq(S) /\ Len(Tail(q \o r)) = Len(q) + Len(r) - 1
      /\ \A i \in 1..Len(q)+Len(r)-1 : Tail(q \o r)[i] = (q \o r)[i + 1]
  BY <1>2, <1>3, HeadTailProperties
<1>8. /\ Tail(q) \o r \in Seq(S) /\ Len(Tail(q) \o r) = Len(q) - 1 + Len(r)
      /\ \A i \in 1..Len(q)-1+Len(r) :
            (Tail(q) \o r)[i] = IF i <= Len(q) - 1 THEN Tail(q)[i] ELSE r[i - (Len(q) - 1)]
  BY <1>6, ConcatProperties
<1>9. \A i \in 1..Len(Tail(q \o r)) : Tail(q \o r)[i] = (Tail(q) \o r)[i]
  BY <1>1, <1>2, <1>6, <1>7, <1>8
<1>10. Tail(q \o r) = Tail(q) \o r
  BY <1>1, <1>7, <1>8, <1>9, SeqEqual
<1> QED  BY <1>2, <1>3, <1>5, <1>10

(* A sequence is what comes before an element followed by the rest. *)
LEMMA SplitAt ==
    ASSUME NEW S, NEW q \in Seq(S), NEW n \in 1..Len(q)
    PROVE  /\ SubSeq(q, 1, n - 1) \in Seq(S) /\ SubSeq(q, n, Len(q)) \in Seq(S)
           /\ SubSeq(q, 1, n - 1) \o SubSeq(q, n, Len(q)) = q
<1> DEFINE a == SubSeq(q, 1, n - 1)
           b == SubSeq(q, n, Len(q))
<1>1. Len(q) \in Nat /\ n \in Nat \ {0} /\ n <= Len(q) /\ \A i \in 1..Len(q) : q[i] \in S
  BY LenProperties, ElementOfSeq
<1>2. /\ a \in Seq(S) /\ Len(a) = n - 1 /\ \A i \in 1..n-1 : a[i] = q[i]
  <2>1. \A i \in 1..n-1 : q[i] \in S
    BY <1>1
  <2>2. 1 \in Int /\ n - 1 \in Int
    BY <1>1
  <2>3. /\ a \in Seq(S) /\ Len(a) = IF 1 <= n - 1 THEN (n - 1) - 1 + 1 ELSE 0
        /\ \A i \in 1..(n - 1) - 1 + 1 : a[i] = q[1 + i - 1]
    BY <2>1, <2>2, SubSeqProperties
  <2> HIDE DEF a
  <2> QED  BY <1>1, <2>3
<1>3. /\ b \in Seq(S) /\ Len(b) = Len(q) - n + 1 /\ \A i \in 1..Len(q)-n+1 : b[i] = q[n + i - 1]
  <2>1. \A i \in n..Len(q) : q[i] \in S
    BY <1>1
  <2>2. /\ b \in Seq(S) /\ Len(b) = IF n <= Len(q) THEN Len(q) - n + 1 ELSE 0
        /\ \A i \in 1..Len(q) - n + 1 : b[i] = q[n + i - 1]
    BY <1>1, <2>1, SubSeqProperties
  <2> HIDE DEF b
  <2> QED  BY <1>1, <2>2
<1> HIDE DEF a, b
<1>4. /\ a \o b \in Seq(S) /\ Len(a \o b) = Len(a) + Len(b)
      /\ \A i \in 1..Len(a)+Len(b) : (a \o b)[i] = IF i <= Len(a) THEN a[i] ELSE b[i - Len(a)]
  BY <1>2, <1>3, ConcatProperties
<1>5. Len(a \o b) = Len(q)
  BY <1>1, <1>2, <1>3, <1>4
<1>6. ASSUME NEW i \in 1..Len(q) PROVE (a \o b)[i] = q[i]
  <2>1. CASE i <= n - 1
    BY <1>1, <1>2, <1>3, <1>4, <2>1
  <2>2. CASE ~(i <= n - 1)
    <3>1. i - (n - 1) \in 1..Len(q)-n+1 /\ n + (i - (n - 1)) - 1 = i
      BY <1>1, <2>2
    <3>2. (a \o b)[i] = b[i - (n - 1)]
      BY <1>1, <1>2, <1>3, <1>4, <2>2
    <3>3. b[i - (n - 1)] = q[n + (i - (n - 1)) - 1]
      BY <1>3, <3>1
    <3> QED  BY <3>1, <3>2, <3>3
  <2> QED  BY <2>1, <2>2
<1>7. a \o b = q
  BY <1>4, <1>5, <1>6, SeqEqual
<1> QED  BY <1>2, <1>3, <1>7 DEF a, b
=============================================================================
