------------------------------ MODULE FoldProofs ------------------------------
(***************************************************************************)
(* What a fold from the left computes, for any operator.  A loop over a     *)
(* queue is a FoldLeft of its handler in the models; this module is         *)
(* instantiated with the handler, and FoldRuns gives the results after each *)
(* element, along which an invariant is carried by StepsTo of SeqLemmas.    *)
(***************************************************************************)
EXTENDS SeqLemmas
CONSTANT Op(_, _)

(* The last of the numbers up to n + 1. *)
LEMMA MaxPrefix ==
    ASSUME NEW n \in Nat, NEW t, t \subseteq 1..n+1, n+1 \in t
    PROVE  Max(t) = n+1
<1>1. \A y \in t : n+1 >= y
  OBVIOUS
<1>2. \A x \in t : (\A y \in t : x >= y) => x = n + 1
  OBVIOUS
<1>3. Max(t) \in t /\ \A y \in t : Max(t) >= y
  BY <1>1 DEF Max
<1> QED BY <1>2, <1>3

(* g is the function that MapThenFoldSet chooses, for the subsets of 1..n. *)
Solves(g, base, q, n) ==
  g = [t \in SUBSET (1..n) |-> IF t = {} THEN base ELSE Op(g[t \ {Max(t)}], q[Max(t)])]

(* There is such a function: by induction on n. *)
LEMMA Solvable ==
  ASSUME NEW base, NEW q PROVE \A n \in Nat : \E g : Solves(g, base, q, n)
<1> DEFINE Bad == {n \in Nat : ~ \E g : Solves(g, base, q, n)}
<1> SUFFICES ASSUME Bad # {} PROVE FALSE
  OBVIOUS
<1>1. PICK x \in Bad : \A r \in Bad : x <= r
  BY LeastOf
<1>2. x # 0
  <2> DEFINE g == [t \in SUBSET (1..0) |-> base]
  <2>1. SUBSET (1..0) = {{}}
    OBVIOUS
  <2>2. Solves(g, base, q, 0)
    BY <2>1 DEF Solves
  <2> QED  BY <1>1, <2>2
<1>3. PICK n \in Nat : x = n + 1
  <2>1. x \in Nat /\ x - 1 \in Nat /\ x = (x - 1) + 1
    BY <1>1, <1>2
  <2> QED  BY <2>1
<1>4. n \notin Bad
  BY <1>1, <1>3
<1>5. PICK g : Solves(g, base, q, n)
  BY <1>4
<1> DEFINE h == [t \in SUBSET (1..n+1) |-> IF t \subseteq 1..n THEN g[t] ELSE Op(g[t \ {n+1}], q[n+1])]
<1>6. ASSUME NEW t \in SUBSET (1..n+1)
      PROVE  h[t] = IF t = {} THEN base ELSE Op(h[t \ {Max(t)}], q[Max(t)])
  <2>1. CASE t \subseteq 1..n
    <3>1. t \ {Max(t)} \subseteq 1..n /\ t \ {Max(t)} \in SUBSET (1..n+1)
      BY <2>1
    <3>2. h[t] = g[t] /\ h[t \ {Max(t)}] = g[t \ {Max(t)}]
      BY <2>1, <3>1
    <3>3. g[t] = IF t = {} THEN base ELSE Op(g[t \ {Max(t)}], q[Max(t)])
      BY <1>5, <2>1 DEF Solves
    <3> QED  BY <3>2, <3>3
  <2>2. CASE ~(t \subseteq 1..n)
    <3>1. n + 1 \in t
      BY <2>2
    <3>2. Max(t) = n + 1
      BY <3>1, MaxPrefix
    <3>3. t \ {n+1} \subseteq 1..n /\ t \ {n+1} \in SUBSET (1..n+1)
      OBVIOUS
    <3>4. h[t \ {n+1}] = g[t \ {n+1}]
      BY <3>3
    <3>5. h[t] = Op(g[t \ {n+1}], q[n+1])
      BY <2>2
    <3> QED  BY <3>1, <3>2, <3>4, <3>5
  <2> QED  BY <2>1, <2>2
<1>7. Solves(h, base, q, n+1)
  <2> DEFINE k == [t \in SUBSET (1..n+1) |-> IF t = {} THEN base ELSE Op(h[t \ {Max(t)}], q[Max(t)])]
  <2>1. \A t \in SUBSET (1..n+1) : h[t] = k[t]
    BY <1>6
  <2>2. h = k
    BY <2>1
  <2> QED  BY <2>2 DEF Solves
<1> QED  BY <1>1, <1>3, <1>7

(* r holds the results after each element of q. *)
IsRun(r, base, q) ==
    /\ r = [i \in 0..Len(q) |-> r[i]]
    /\ r[0] = base
    /\ \A i \in 1..Len(q) : r[i] = Op(r[i - 1], q[i])

(* FoldLeft(Op, base, q), with the operators it is defined by expanded. *)
Fold(base, q) ==
    (CHOOSE iter : iter = [s \in SUBSET (DOMAIN q) |->
        IF s = {} THEN base ELSE Op(iter[s \ {Max(s)}], q[Max(s)])])[DOMAIN q]

(* A fold is the last of the results of a run: the loop that FoldLeft stands *)
(* for takes one element of the queue after the other.                       *)
THEOREM FoldRuns ==
    ASSUME NEW S, NEW q \in Seq(S), NEW base
    PROVE  \E r : IsRun(r, base, q) /\ Fold(base, q) = r[Len(q)]
<1> DEFINE n == Len(q)
           f == CHOOSE iter : Solves(iter, base, q, n)
           r == [i \in 0..n |-> f[1..i]]
<1>1. n \in Nat /\ DOMAIN q = 1..n
  BY LenProperties
<1>2. Solves(f, base, q, n)
  BY <1>1, Solvable
<1>3. Fold(base, q) = f[1..n]
  <2> QED  BY <1>1 DEF Fold, Solves
<1> HIDE DEF f
<1>4. r[0] = base
  <2>1. 1..0 = {} /\ {} \in SUBSET (1..n)
    OBVIOUS
  <2>2. f[{}] = base
    BY <2>1, <1>2 DEF Solves
  <2> QED  BY <2>1, <2>2, <1>1
<1>5. ASSUME NEW i \in 1..n PROVE r[i] = Op(r[i - 1], q[i])
  <2> DEFINE j == i - 1
  <2>0. j \in Nat /\ i = j + 1 /\ j \in 0..n /\ i \in 0..n
    BY <1>1
  <2>1. 1..i \in SUBSET (1..n) /\ 1..i # {} /\ i \in 1..i
    <3> HIDE DEF n
    <3> QED  BY <1>1
  <2>2. Max(1..i) = i
    <3> HIDE DEF j
    <3>1. 1..i \subseteq 1..j+1 /\ j + 1 \in 1..i
      BY <2>0, <2>1
    <3> QED  BY <3>1, <2>0, MaxPrefix
  <2>3. (1..i) \ {i} = 1..j
    BY <2>0
  <2>4. f[1..i] = Op(f[(1..i) \ {Max(1..i)}], q[Max(1..i)])
    BY <1>2, <2>1 DEF Solves
  <2>5. f[1..i] = Op(f[1..j], q[i])
    BY <2>2, <2>3, <2>4
  <2>6. r[i] = f[1..i] /\ r[j] = f[1..j]
    BY <2>0
  <2> QED  BY <2>5, <2>6
<1>6. r = [i \in 0..n |-> r[i]] /\ r[n] = f[1..n]
  BY <1>1
<1>7. IsRun(r, base, q)
  BY <1>4, <1>5, <1>6 DEF IsRun
<1> QED  BY <1>3, <1>6, <1>7
==============================================================================
