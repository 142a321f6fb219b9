----------------------------- MODULE LoopProofs -----------------------------
(***************************************************************************)
(* What the proofs about loops and sequences rest on.  A loop has an       *)
(* invariant of what it has done so far; that it holds after all items is  *)
(* proved by the least index at which it would not (UpTo), since the       *)
(* induction theorems of the library take an operator, which the prover    *)
(* cannot instantiate.                                                     *)
(***************************************************************************)
EXTENDS Loops, SequencesExt, SequenceTheorems, WellFoundedInduction, TLAPS

-----------------------------------------------------------------------------
(* Loops                                                                   *)

(* A set of natural numbers has a least one.                               *)
LEMMA LeastNatural ==
    ASSUME NEW T \in SUBSET Nat, T # {}
    PROVE  \E n \in T : \A m \in T : n <= m
<1>1. PICK n \in T : \A m \in T : <<m, n>> \notin OpToRel(<, Nat)
  BY NatLessThanWellFounded, WFMin
<1>2. \A m \in T : ~ (m < n)
  BY <1>1 DEF OpToRel
<1> QED
  BY <1>2

(* What holds before the first item and is kept by each holds after all.   *)
LEMMA UpTo ==
    ASSUME NEW n \in Nat, NEW S, 0 \in S, \A i \in 1..n : i - 1 \in S => i \in S
    PROVE  \A i \in 0..n : i \in S
<1> DEFINE T == {i \in 0..n : i \notin S}
<1>1. SUFFICES ASSUME T # {} PROVE FALSE
  OBVIOUS
<1>2. T \in SUBSET Nat
  OBVIOUS
<1>3. PICK k \in T : \A i \in T : k <= i
  <2> HIDE DEF T
  <2> QED
    BY <1>1, <1>2, LeastNatural
<1>4. k # 0 /\ k \in 1..n /\ k - 1 \in 0..n /\ k - 1 \notin T
  BY <1>3
<1> QED
  BY <1>3, <1>4

(* A loop over n items is a function: F[i] is what the i-th does to     *)
(* what was done before it, in D.                                          *)
Loop(f, D, before, F, n) ==
    /\ f \in [0..n -> D]
    /\ f[0] = before
    /\ \A i \in 1..n : f[i] = F[i][f[i - 1]]

(* A loop whose steps stay in D, from one in D, is such a function.        *)
LEMMA LoopExists ==
    ASSUME NEW n \in Nat, NEW D, NEW before \in D, NEW F,
           \A i \in 1..n : \A d \in D : F[i][d] \in D
    PROVE  \E f : Loop(f, D, before, F, n)
<1> DEFINE S == {k \in 0..n : \E f : Loop(f, D, before, F, k)}
<1>1. 0 \in S
  <2>1. Loop([i \in 0..0 |-> before], D, before, F, 0)
    BY DEF Loop
  <2> QED
    BY <2>1
<1>2. ASSUME NEW k \in 1..n, k - 1 \in S
      PROVE  k \in S
  <2>1. PICK f : Loop(f, D, before, F, k - 1)
    BY <1>2
  <2> DEFINE g == [i \in 0..k |-> IF i = k THEN F[k][f[k - 1]] ELSE f[i]]
  <2>2. f[k - 1] \in D /\ F[k][f[k - 1]] \in D
    BY <2>1 DEF Loop
  <2>3. g \in [0..k -> D] /\ g[0] = before
    BY <2>1, <2>2 DEF Loop
  <2>4. ASSUME NEW i \in 1..k
        PROVE  g[i] = F[i][g[i - 1]]
    <3>1. CASE i = k
      BY <3>1
    <3>2. CASE i # k
      <4>1. i \in 1..(k - 1) /\ i - 1 \in 0..(k - 1) /\ i - 1 # k
        BY <3>2
      <4> QED
        BY <3>2, <4>1, <2>1 DEF Loop
    <3> QED
      BY <3>1, <3>2
  <2>5. Loop(g, D, before, F, k)
    <3> HIDE DEF g
    <3> QED
      BY <2>3, <2>4 DEF Loop
  <2> QED
    BY <2>5
<1>3. \A i \in 0..n : i \in S
  <2> HIDE DEF S
  <2> QED
    BY <1>1, <1>2, UpTo
<1> QED
  BY <1>3

(* A function that each step keeps in D is one to D.                       *)
LEMMA LoopStays ==
    ASSUME NEW n \in Nat, NEW D, NEW h, h = [i \in 0..n |-> h[i]], h[0] \in D,
           \A i \in 1..n : h[i - 1] \in D => h[i] \in D
    PROVE  h \in [0..n -> D]
<1> DEFINE S == {j \in 0..n : h[j] \in D}
<1>1. 0 \in S /\ \A i \in 1..n : i - 1 \in S => i \in S
  OBVIOUS
<1>2. \A i \in 0..n : i \in S
  <2> HIDE DEF S
  <2> QED
    BY <1>1, UpTo
<1> QED
  BY <1>2
-----------------------------------------------------------------------------
(* A sequence and what is appended to it.                                  *)
LEMMA Appended ==
    ASSUME NEW D, NEW s \in Seq(D), NEW x \in D
    PROVE  /\ Append(s, x) \in Seq(D) /\ Len(Append(s, x)) = Len(s) + 1
           /\ \A i \in 1..Len(s) : Append(s, x)[i] = s[i]
           /\ Append(s, x)[Len(s) + 1] = x
           /\ Last(Append(s, x)) = x
           /\ Append(s, x) # <<>>
BY AppendProperties DEF Last

(* All but the last.                                                       *)
LEMMA FrontOf ==
    ASSUME NEW D, NEW s \in Seq(D), s # <<>>
    PROVE  /\ Front(s) \in Seq(D) /\ Len(Front(s)) = Len(s) - 1
           /\ \A i \in 1..(Len(s) - 1) : Front(s)[i] = s[i]
<1>0. Len(s) \in Nat \ {0}
  BY EmptySeq
<1> DEFINE n == Len(s) - 1
<1>1. \A i \in 1..n : s[i] \in D
  BY <1>0
<1>2. n \in Int /\ 1 \in Int /\ Front(s) = SubSeq(s, 1, n)
  BY <1>0 DEF Front
<1>3. /\ SubSeq(s, 1, n) \in Seq(D)
      /\ Len(SubSeq(s, 1, n)) = IF 1 <= n THEN n - 1 + 1 ELSE 0
      /\ \A i \in 1..(n - 1 + 1) : SubSeq(s, 1, n)[i] = s[1 + i - 1]
  <2> HIDE DEF n
  <2> QED
    BY <1>1, <1>2, SubSeqProperties
<1>4. n \in Nat
  BY <1>0
<1> HIDE DEF n
<1>5. /\ Front(s) \in Seq(D) /\ Len(Front(s)) = n
      /\ \A i \in 1..n : Front(s)[i] = s[i]
  <2>1. n - 1 + 1 = n /\ (IF 1 <= n THEN n - 1 + 1 ELSE 0) = n
    BY <1>4
  <2>2. \A i \in 1..n : 1 + i - 1 = i
    BY <1>4
  <2> QED
    BY <1>2, <1>3, <2>1, <2>2
<1> QED
  BY <1>5 DEF n

(* The last one replaced.                                                  *)
LEMMA Replaced ==
    ASSUME NEW D, NEW s \in Seq(D), s # <<>>, NEW x \in D
    PROVE  LET t == Append(Front(s), x)
           IN /\ t \in Seq(D) /\ Len(t) = Len(s)
              /\ \A i \in 1..(Len(s) - 1) : t[i] = s[i]
              /\ t[Len(s)] = x /\ Last(t) = x
<1>1. Len(s) \in Nat \ {0} /\ \A i \in 1..Len(s) : s[i] \in D
  BY EmptySeq, ElementOfSeq
<1>2. /\ Front(s) \in Seq(D) /\ Len(Front(s)) = Len(s) - 1
      /\ \A i \in 1..(Len(s) - 1) : Front(s)[i] = s[i]
  BY FrontOf
<1> QED
  BY <1>1, <1>2, Appended

(* A function on the first numbers is a sequence.                          *)
LEMMA IsSequence ==
    ASSUME NEW D, NEW n \in Nat, NEW g, g = [i \in 1..n |-> g[i]], \A i \in 1..n : g[i] \in D
    PROVE  g \in Seq(D) /\ Len(g) = n
<1>1. g \in [1..n -> D]
  OBVIOUS
<1> QED
  BY <1>1

(* Joining sequences is a loop over them.                                  *)
LEMMA FlattenLoop ==
    ASSUME NEW D, NEW s \in Seq(Seq(D))
    PROVE  \E f \in [0..Len(s) -> Seq(D)] :
              /\ f[0] = <<>> /\ \A i \in 1..Len(s) : f[i] = f[i - 1] \o s[i]
              /\ FlattenSeq(s) = f[Len(s)]
<1> DEFINE n == Len(s)
           Done(g) == g = [i \in 1..n |-> IF i = 1 THEN s[i] ELSE g[i - 1] \o s[i]]
           h == CHOOSE g : Done(g)
           F == [i \in 1..n |-> [d \in Seq(D) |-> d \o s[i]]]
<1>1. n \in Nat /\ \A i \in 1..n : s[i] \in Seq(D)
  OBVIOUS
<1>2. \A i \in 1..n : \A d \in Seq(D) : F[i][d] = d \o s[i] /\ F[i][d] \in Seq(D)
  BY <1>1
<1>3. <<>> \in Seq(D) /\ \A d \in Seq(D) : <<>> \o d = d
  BY ConcatEmptySeq, EmptySeq
<1>4. FlattenSeq(s) = IF n = 0 THEN s ELSE h[n]
  BY DEF FlattenSeq
<1>5. n = 0 => s = <<>>
  BY EmptySeq
<1> HIDE DEF n, F
<1>6. PICK f : Loop(f, Seq(D), <<>>, F, n)
  BY <1>1, <1>2, <1>3, LoopExists
<1>7. /\ f \in [0..n -> Seq(D)] /\ f[0] = <<>>
      /\ \A i \in 1..n : f[i] = F[i][f[i - 1]] /\ f[i - 1] \in Seq(D)
  BY <1>1, <1>6 DEF Loop
<1>8. \A i \in 1..n : f[i] = f[i - 1] \o s[i]
  BY <1>2, <1>7
<1>9. CASE n = 0
  BY <1>4, <1>5, <1>7, <1>8, <1>9 DEF n
<1>10. CASE n # 0
  <2> DEFINE k == [i \in 1..n |-> f[i]]
  <2>1. ASSUME NEW i \in 1..n
        PROVE  f[i] = IF i = 1 THEN s[i] ELSE k[i - 1] \o s[i]
    <3>1. CASE i = 1
      <4>0. i - 1 = 0
        BY <3>1
      <4>1. f[i] = <<>> \o s[i] /\ s[i] \in Seq(D)
        BY <1>1, <1>7, <1>8, <4>0
      <4> QED
        BY <1>3, <3>1, <4>1
    <3>2. CASE i # 1
      <4>1. k[i - 1] = f[i - 1]
        BY <1>1, <3>2
      <4> QED
        BY <1>8, <3>2, <4>1
    <3> QED
      BY <3>1, <3>2
  <2>2. Done(k)
    <3>1. k = [i \in 1..n |-> f[i]]
      OBVIOUS
    <3> HIDE DEF k
    <3> QED
      BY <2>1, <3>1
  <2>3. Done(h)
    <3> HIDE DEF Done, k
    <3> QED
      BY <2>2
  <2> HIDE DEF h
  <2>4. \A i \in 1..n : h[i] = IF i = 1 THEN s[i] ELSE h[i - 1] \o s[i]
    BY <2>3
  <2> DEFINE S == {i \in 0..n : i = 0 \/ h[i] = f[i]}
  <2>5. 0 \in S /\ \A i \in 1..n : i - 1 \in S => i \in S
    <3> HIDE DEF Done
    <3> SUFFICES ASSUME NEW i \in 1..n, i - 1 \in S PROVE h[i] = f[i]
      BY <1>1
    <3>1. CASE i = 1
      <4>1. i - 1 = 0 /\ f[i - 1] = <<>> /\ s[i] \in Seq(D)
        BY <1>1, <1>7, <3>1
      <4> QED
        BY <1>3, <1>8, <2>4, <3>1, <4>1
    <3>2. CASE i # 1
      <4>0. i - 1 # 0 /\ i - 1 \in Int
        BY <1>1, <3>2
      <4>1. h[i - 1] = f[i - 1]
        BY <4>0
      <4> QED
        BY <1>8, <2>4, <3>2, <4>1
    <3> QED
      BY <3>1, <3>2
  <2>6. \A i \in 0..n : i \in S
    <3> HIDE DEF S
    <3> QED
      BY <1>1, <2>5, UpTo
  <2>7. h[n] = f[n]
    BY <1>1, <1>10, <2>6
  <2> QED
    BY <1>4, <1>7, <1>8, <1>10, <2>7 DEF n
<1> QED
  BY <1>9, <1>10

(* Sequences, one after the other, are a sequence.                         *)
LEMMA Flattened ==
    ASSUME NEW D, NEW s \in Seq(Seq(D))
    PROVE  FlattenSeq(s) \in Seq(D)
<1>1. PICK f \in [0..Len(s) -> Seq(D)] : FlattenSeq(s) = f[Len(s)]
  BY FlattenLoop
<1> QED
  BY <1>1

LEMMA FlattenedNone == FlattenSeq(<<>>) = <<>>
BY DEF FlattenSeq

(* What comes last is joined last.                                         *)
LEMMA FlattenedMore ==
    ASSUME NEW D, NEW s \in Seq(Seq(D)), NEW x \in Seq(D)
    PROVE  FlattenSeq(Append(s, x)) = FlattenSeq(s) \o x
<1> DEFINE t == Append(s, x)
           n == Len(s)
<1>1. /\ t \in Seq(Seq(D)) /\ Len(t) = n + 1 /\ t[n + 1] = x
      /\ \A i \in 1..n : t[i] = s[i]
  BY Appended
<1>2. n \in Nat
  OBVIOUS
<1> HIDE DEF t
<1>3. PICK f \in [0..Len(s) -> Seq(D)] :
          /\ f[0] = <<>> /\ \A i \in 1..Len(s) : f[i] = f[i - 1] \o s[i]
          /\ FlattenSeq(s) = f[Len(s)]
  BY FlattenLoop
<1>4. PICK g \in [0..Len(t) -> Seq(D)] :
          /\ g[0] = <<>> /\ \A i \in 1..Len(t) : g[i] = g[i - 1] \o t[i]
          /\ FlattenSeq(t) = g[Len(t)]
  BY <1>1, FlattenLoop
<1>5. /\ f[0] = <<>> /\ \A i \in 1..n : f[i] = f[i - 1] \o s[i]
      /\ FlattenSeq(s) = f[n]
  BY <1>3
<1>6. /\ g[0] = <<>> /\ \A i \in 1..(n + 1) : g[i] = g[i - 1] \o t[i]
      /\ FlattenSeq(t) = g[n + 1]
  BY <1>1, <1>4
<1> HIDE DEF n
<1> DEFINE S == {i \in 0..n : f[i] = g[i]}
<1>7. 0 \in S
  BY <1>2, <1>5, <1>6
<1>8. ASSUME NEW i \in 1..n, i - 1 \in S
      PROVE  i \in S
  <2>1. i \in 1..(n + 1) /\ i \in 0..n /\ f[i - 1] = g[i - 1]
    BY <1>2, <1>8
  <2> QED
    BY <1>1, <1>5, <1>6, <2>1
<1>9. \A i \in 0..n : i \in S
  <2> HIDE DEF S
  <2> QED
    BY <1>2, <1>7, <1>8, UpTo
<1>10. f[n] = g[n] /\ n + 1 \in 1..(n + 1) /\ n + 1 - 1 = n
  BY <1>2, <1>9
<1>11. g[n + 1] = g[n] \o t[n + 1]
  <2> DEFINE m == n + 1
  <2>1. m \in 1..(n + 1) /\ m - 1 = n
    BY <1>2
  <2> HIDE DEF m
  <2>2. g[m] = g[m - 1] \o t[m]
    BY <1>6, <2>1, Zenon
  <2> QED
    BY <2>1, <2>2 DEF m
<1> QED
  BY <1>1, <1>5, <1>6, <1>10, <1>11 DEF t

(* Joining one, and joining two.                                           *)
LEMMA FlattenedFew ==
    ASSUME NEW D, NEW s \in Seq(Seq(D))
    PROVE  /\ Len(s) = 1 => FlattenSeq(s) = s[1]
           /\ Len(s) = 2 => FlattenSeq(s) = s[1] \o s[2]
<1>1. PICK f \in [0..Len(s) -> Seq(D)] :
          /\ f[0] = <<>> /\ \A i \in 1..Len(s) : f[i] = f[i - 1] \o s[i]
          /\ FlattenSeq(s) = f[Len(s)]
  BY FlattenLoop
<1>2. ASSUME Len(s) >= 1
      PROVE  f[1] = s[1]
  <2>1. 1 \in 1..Len(s) /\ 1 - 1 = 0
    BY <1>2
  <2>2. f[1] = <<>> \o s[1]
    BY <1>1, <2>1
  <2>3. s[1] \in Seq(D)
    BY <2>1
  <2> QED
    BY <2>2, <2>3, ConcatEmptySeq
<1>3. ASSUME Len(s) = 2
      PROVE  f[2] = s[1] \o s[2]
  <2>1. 2 \in 1..Len(s) /\ 2 - 1 = 1 /\ f[1] = s[1]
    BY <1>2, <1>3
  <2> QED
    BY <1>1, <2>1
<1>4. Len(s) = 1 => FlattenSeq(s) = f[1] /\ Len(s) >= 1
  BY <1>1
<1>5. Len(s) = 2 => FlattenSeq(s) = f[2]
  BY <1>1
<1> QED
  BY <1>2, <1>3, <1>4, <1>5
=============================================================================
