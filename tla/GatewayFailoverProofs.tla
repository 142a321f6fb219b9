----------------------- MODULE GatewayFailoverProofs -----------------------
(***************************************************************************)
(* Theorems about the gateway mode of kiro-go, for any number of requests, *)
(* accounts, models and attempts.                                          *)
(*                                                                         *)
(* Of SmoothRotation, the picks of one list: that they are fair, whatever  *)
(* the weights.  Of GatewayFailover, the calls that use such picks: their  *)
(* types, that a client is failed only when its attempts or the accounts   *)
(* are used up, and that the running scores stay numbers for the accounts  *)
(* it has (a pick charges a sum over the candidates).                      *)
(*                                                                         *)
(* The prover cannot instantiate the induction theorems of the library,    *)
(* which take an operator.  Where a fact holds of every finite set, its    *)
(* lemma here assumes a set that it does not hold of, takes a smallest one *)
(* (SmallestSet, by the well-foundedness of <) and refutes it.             *)
(***************************************************************************)
EXTENDS GatewayFailover, SmoothRotation, FiniteSetTheorems, WellFoundedInduction, TLAPS

-----------------------------------------------------------------------------
(* Smallest counterexamples                                                *)

(* A set of natural numbers has a least one.                               *)
LEMMA LeastNatural ==
    ASSUME NEW T \in SUBSET Nat, T # {}
    PROVE  \E n \in T : \A m \in T : n <= m
<1>1. PICK n \in T : \A m \in T : <<m, n>> \notin OpToRel(<, Nat)
  BY NatLessThanWellFounded, WFMin
<1>2. \A m \in T : ~ (m < n)
  BY <1>1 DEF OpToRel
<1> QED
  BY <1>2

(* Of some subsets of a finite set, one has none of the others inside.     *)
LEMMA SmallestSet ==
    ASSUME NEW S, IsFiniteSet(S), NEW Bad \in SUBSET SUBSET S, Bad # {}
    PROVE  \E T \in Bad : \A U \in SUBSET T : U # T => U \notin Bad
<1> DEFINE sizes == {Cardinality(T) : T \in Bad}
<1>1. \A T \in SUBSET S : IsFiniteSet(T) /\ Cardinality(T) \in Nat
  BY FS_Subset, FS_CardinalityType
<1>2. sizes \in SUBSET Nat /\ sizes # {}
  BY <1>1
<1>3. PICK n \in sizes : \A m \in sizes : n <= m
  <2> HIDE DEF sizes
  <2> QED
    BY <1>2, LeastNatural
<1>4. PICK T \in Bad : Cardinality(T) = n
  BY <1>3
<1>5. ASSUME NEW U \in SUBSET T, U # T, U \in Bad
      PROVE  FALSE
  <2>1. Cardinality(U) <= Cardinality(T) /\ Cardinality(U) # Cardinality(T)
    BY <1>1, <1>5, FS_Subset
  <2>2. n <= Cardinality(U)
    BY <1>3, <1>5
  <2> QED
    BY <1>1, <1>4, <1>5, <2>1, <2>2
<1> QED
  BY <1>4, <1>5

-----------------------------------------------------------------------------
(* Sums                                                                    *)

(* MapThenFoldSet adds up the members in the order that CHOOSE takes them, *)
(* by a function on the subsets, itself chosen: it exists, and all such    *)
(* functions agree.                                                        *)
First(s) == CHOOSE x \in s : TRUE
Sums(f, S, g) ==
    g = [s \in SUBSET S |-> IF s = {} THEN 0 ELSE f[First(s)] + g[s \ {First(s)}]]

LEMMA SumOfSums ==
    ASSUME NEW f, NEW S
    PROVE  SumOf(f, S) = (CHOOSE g : Sums(f, S, g))[S]
BY DEF SumOf, MapThenSumSet, MapThenFoldSet, Sums, First

LEMMA SumsAgree ==
    ASSUME NEW S, IsFiniteSet(S), NEW f, NEW g, Sums(f, S, g),
           NEW T \in SUBSET S, NEW h, Sums(f, T, h)
    PROVE  g[T] = h[T]
<1> DEFINE Bad == {s \in SUBSET T : g[s] # h[s]}
<1>0. IsFiniteSet(T)
  BY FS_Subset
<1>1. SUFFICES ASSUME Bad # {} PROVE FALSE
  OBVIOUS
<1>2. PICK s \in Bad : \A u \in SUBSET s : u # s => u \notin Bad
  <2>1. IsFiniteSet(T) /\ Bad \in SUBSET SUBSET T
    BY <1>0
  <2> HIDE DEF Bad
  <2> QED
    BY <1>1, <2>1, SmallestSet
<1>3. s # {} => First(s) \in s
  BY DEF First
<1>4. g[s] = IF s = {} THEN 0 ELSE f[First(s)] + g[s \ {First(s)}]
  BY <1>2 DEF Sums
<1>5. h[s] = IF s = {} THEN 0 ELSE f[First(s)] + h[s \ {First(s)}]
  BY <1>2 DEF Sums
<1>6. s # {} => g[s \ {First(s)}] = h[s \ {First(s)}]
  BY <1>2, <1>3
<1> QED
  BY <1>2, <1>4, <1>5, <1>6

LEMMA SumsExist ==
    ASSUME NEW S, IsFiniteSet(S), NEW f
    PROVE  \E g : Sums(f, S, g)
<1> DEFINE Bad == {s \in SUBSET S : ~ \E g : Sums(f, s, g)}
<1>1. SUFFICES ASSUME Bad # {} PROVE FALSE
  OBVIOUS
<1>2. PICK T \in Bad : \A u \in SUBSET T : u # T => u \notin Bad
  <2>1. IsFiniteSet(S) /\ Bad \in SUBSET SUBSET S
    OBVIOUS
  <2> HIDE DEF Bad
  <2> QED
    BY <1>1, <2>1, SmallestSet
<1>3. \A u \in SUBSET T : u # T => Sums(f, u, CHOOSE g : Sums(f, u, g))
  BY <1>2
<1> DEFINE of(u) == (CHOOSE g : Sums(f, u, g))[u]
           g == [s \in SUBSET T |-> IF s = {} THEN 0 ELSE f[First(s)] + of(s \ {First(s)})]
<1>4. ASSUME NEW u \in SUBSET T, u # T
      PROVE  g[u] = of(u)
  <2>1. Sums(f, u, CHOOSE h : Sums(f, u, h))
    BY <1>3, <1>4
  <2>2. of(u) = IF u = {} THEN 0
                ELSE f[First(u)] + (CHOOSE h : Sums(f, u, h))[u \ {First(u)}]
    BY <2>1 DEF Sums
  <2>3. ASSUME u # {}
        PROVE  (CHOOSE h : Sums(f, u, h))[u \ {First(u)}] = of(u \ {First(u)})
    <3>1. IsFiniteSet(u)
      BY FS_Subset
    <3>2. u \ {First(u)} \in SUBSET T /\ u \ {First(u)} # T
      BY <1>4
    <3>3. Sums(f, u \ {First(u)}, CHOOSE h : Sums(f, u \ {First(u)}, h))
      BY <3>2, <1>3
    <3> QED
      BY <2>1, <3>1, <3>3, SumsAgree
  <2> QED
    BY <1>4, <2>2, <2>3
<1>5. Sums(f, T, g)
  <2>1. \A s \in SUBSET T : s # {} => /\ s \ {First(s)} \in SUBSET T
                                     /\ s \ {First(s)} # T
    BY DEF First
  <2>2. \A s \in SUBSET T : s # {} => of(s \ {First(s)}) = g[s \ {First(s)}]
    BY <2>1, <1>4
  <2>3. g = [s \in SUBSET T |->
                IF s = {} THEN 0 ELSE f[First(s)] + of(s \ {First(s)})]
    OBVIOUS
  <2> HIDE DEF g, of
  <2> QED
    BY <2>2, <2>3 DEF Sums
<1> QED
  BY <1>2, <1>5

LEMMA SumEquation ==
    ASSUME NEW S, IsFiniteSet(S), NEW f
    PROVE  SumOf(f, S) = IF S = {} THEN 0
                         ELSE f[First(S)] + SumOf(f, S \ {First(S)})
<1> DEFINE of(u) == CHOOSE g : Sums(f, u, g)
<1>1. \A u \in SUBSET S : Sums(f, u, of(u)) /\ SumOf(f, u) = of(u)[u]
  BY SumsExist, SumOfSums, FS_Subset
<1>2. of(S)[S] = IF S = {} THEN 0 ELSE f[First(S)] + of(S)[S \ {First(S)}]
  <2>1. Sums(f, S, of(S))
    BY <1>1
  <2> HIDE DEF of
  <2> QED
    BY <2>1 DEF Sums
<1>3. of(S)[S \ {First(S)}] = of(S \ {First(S)})[S \ {First(S)}]
  <2>1. Sums(f, S, of(S)) /\ Sums(f, S \ {First(S)}, of(S \ {First(S)}))
    BY <1>1
  <2> HIDE DEF of
  <2> QED
    BY <2>1, SumsAgree
<1>4. SumOf(f, S) = of(S)[S]
  BY <1>1
<1>5. SumOf(f, S \ {First(S)}) = of(S \ {First(S)})[S \ {First(S)}]
  BY <1>1
<1> HIDE DEF of
<1> QED
  BY <1>2, <1>3, <1>4, <1>5

LEMMA SumEmpty ==
    ASSUME NEW f
    PROVE  SumOf(f, {}) = 0
BY SumEquation, FS_EmptySet

LEMMA SumType ==
    ASSUME NEW S, IsFiniteSet(S), NEW f, \A a \in S : f[a] \in Int
    PROVE  SumOf(f, S) \in Int
<1> DEFINE Bad == {s \in SUBSET S : SumOf(f, s) \notin Int}
<1>1. SUFFICES ASSUME Bad # {} PROVE FALSE
  OBVIOUS
<1>2. PICK T \in Bad : \A u \in SUBSET T : u # T => u \notin Bad
  <2>1. IsFiniteSet(S) /\ Bad \in SUBSET SUBSET S
    OBVIOUS
  <2> HIDE DEF Bad
  <2> QED
    BY <1>1, <2>1, SmallestSet
<1>3. IsFiniteSet(T) /\ (T # {} => First(T) \in T)
  BY FS_Subset DEF First
<1>4. SumOf(f, T) = IF T = {} THEN 0 ELSE f[First(T)] + SumOf(f, T \ {First(T)})
  BY <1>3, SumEquation
<1>5. T # {} => SumOf(f, T \ {First(T)}) \in Int
  BY <1>2, <1>3
<1> QED
  BY <1>2, <1>3, <1>4, <1>5

(* Any element may be taken out first.                                     *)
LEMMA SumRemove ==
    ASSUME NEW S, IsFiniteSet(S), NEW f, \A a \in S : f[a] \in Int, NEW a \in S
    PROVE  SumOf(f, S) = f[a] + SumOf(f, S \ {a})
<1> DEFINE Bad == {s \in SUBSET S : \E b \in s : SumOf(f, s) # f[b] + SumOf(f, s \ {b})}
<1>1. SUFFICES ASSUME Bad # {} PROVE FALSE
  OBVIOUS
<1>2. PICK T \in Bad : \A u \in SUBSET T : u # T => u \notin Bad
  <2>1. IsFiniteSet(S) /\ Bad \in SUBSET SUBSET S
    OBVIOUS
  <2> HIDE DEF Bad
  <2> QED
    BY <1>1, <2>1, SmallestSet
<1>3. PICK b \in T : SumOf(f, T) # f[b] + SumOf(f, T \ {b})
  BY <1>2
<1> DEFINE x == First(T)
<1>4. x \in T
  BY <1>3 DEF First
<1> HIDE DEF x
<1>5. \A u \in SUBSET S : IsFiniteSet(u) /\ SumOf(f, u) \in Int
  <2>1. \A u \in SUBSET S : IsFiniteSet(u) /\ \A c \in u : f[c] \in Int
    BY FS_Subset
  <2> QED
    BY <2>1, SumType
<1>6. SumOf(f, T) = f[x] + SumOf(f, T \ {x})
  BY <1>3, <1>5, SumEquation DEF x
<1>7. x # b
  BY <1>3, <1>6
<1>8. SumOf(f, T \ {x}) = f[b] + SumOf(f, (T \ {x}) \ {b})
  BY <1>2, <1>4, <1>7
<1>9. SumOf(f, T \ {b}) = f[x] + SumOf(f, (T \ {b}) \ {x})
  BY <1>2, <1>4, <1>7
<1>10. (T \ {x}) \ {b} = (T \ {b}) \ {x}
  OBVIOUS
<1> DEFINE s == SumOf(f, (T \ {x}) \ {b})
<1>11. s \in Int /\ f[x] \in Int /\ f[b] \in Int
  BY <1>2, <1>4, <1>5
<1>12. SumOf(f, T) = f[x] + (f[b] + s) /\ f[b] + SumOf(f, T \ {b}) = f[b] + (f[x] + s)
  BY <1>6, <1>8, <1>9, <1>10
<1> HIDE DEF s
<1> QED
  BY <1>3, <1>11, <1>12
(* A sum is of the values on its set only.                                 *)
LEMMA SumSame ==
    ASSUME NEW S, IsFiniteSet(S), NEW f, NEW g, \A a \in S : f[a] = g[a]
    PROVE  SumOf(f, S) = SumOf(g, S)
<1> DEFINE Bad == {s \in SUBSET S : SumOf(f, s) # SumOf(g, s)}
<1>1. SUFFICES ASSUME Bad # {} PROVE FALSE
  OBVIOUS
<1>2. PICK T \in Bad : \A u \in SUBSET T : u # T => u \notin Bad
  <2>1. IsFiniteSet(S) /\ Bad \in SUBSET SUBSET S
    OBVIOUS
  <2> HIDE DEF Bad
  <2> QED
    BY <1>1, <2>1, SmallestSet
<1>3. IsFiniteSet(T) /\ (T # {} => First(T) \in T)
  BY FS_Subset DEF First
<1>4. /\ SumOf(f, T) = IF T = {} THEN 0 ELSE f[First(T)] + SumOf(f, T \ {First(T)})
      /\ SumOf(g, T) = IF T = {} THEN 0 ELSE g[First(T)] + SumOf(g, T \ {First(T)})
  BY <1>3, SumEquation
<1>5. T # {} => SumOf(f, T \ {First(T)}) = SumOf(g, T \ {First(T)})
  BY <1>2, <1>3
<1> QED
  BY <1>2, <1>3, <1>4, <1>5

(* Larger values, larger sum; and strictly so when one is.                 *)
LEMMA SumMonotone ==
    ASSUME NEW S, IsFiniteSet(S), NEW f, NEW g,
           \A a \in S : f[a] \in Int /\ g[a] \in Int /\ f[a] <= g[a]
    PROVE  SumOf(f, S) <= SumOf(g, S)
<1> DEFINE Bad == {s \in SUBSET S : ~ (SumOf(f, s) <= SumOf(g, s))}
<1>1. SUFFICES ASSUME Bad # {} PROVE FALSE
  OBVIOUS
<1>2. PICK T \in Bad : \A u \in SUBSET T : u # T => u \notin Bad
  <2>1. IsFiniteSet(S) /\ Bad \in SUBSET SUBSET S
    OBVIOUS
  <2> HIDE DEF Bad
  <2> QED
    BY <1>1, <2>1, SmallestSet
<1>3. IsFiniteSet(T) /\ (T # {} => First(T) \in T)
  BY FS_Subset DEF First
<1>4. /\ SumOf(f, T) = IF T = {} THEN 0 ELSE f[First(T)] + SumOf(f, T \ {First(T)})
      /\ SumOf(g, T) = IF T = {} THEN 0 ELSE g[First(T)] + SumOf(g, T \ {First(T)})
  BY <1>3, SumEquation
<1>5. T # {} => SumOf(f, T \ {First(T)}) <= SumOf(g, T \ {First(T)})
  BY <1>2, <1>3
<1>6. SumOf(f, T \ {First(T)}) \in Int /\ SumOf(g, T \ {First(T)}) \in Int
  <2>1. IsFiniteSet(T \ {First(T)}) /\ T \ {First(T)} \subseteq S
    BY <1>3, FS_Subset
  <2> QED
    BY <2>1, SumType
<1> QED
  BY <1>2, <1>3, <1>4, <1>5, <1>6

LEMMA SumStrict ==
    ASSUME NEW S, IsFiniteSet(S), NEW f, NEW g,
           \A a \in S : f[a] \in Int /\ g[a] \in Int /\ f[a] <= g[a],
           SumOf(f, S) = SumOf(g, S), NEW a \in S
    PROVE  f[a] = g[a]
<1>1. IsFiniteSet(S \ {a})
  BY FS_Subset
<1>2. SumOf(f, S) = f[a] + SumOf(f, S \ {a}) /\ SumOf(g, S) = g[a] + SumOf(g, S \ {a})
  BY SumRemove
<1>3. SumOf(f, S \ {a}) <= SumOf(g, S \ {a})
  BY <1>1, SumMonotone
<1>4. SumOf(f, S \ {a}) \in Int /\ SumOf(g, S \ {a}) \in Int
  BY <1>1, SumType
<1>5. f[a] \in Int /\ g[a] \in Int /\ f[a] <= g[a]
  OBVIOUS
<1> DEFINE left == SumOf(f, S \ {a})  right == SumOf(g, S \ {a})
<1>6. left \in Int /\ right \in Int /\ left <= right /\ f[a] + left = g[a] + right
  BY <1>2, <1>3, <1>4
<1>7. \A x, y, u, v \in Int : x <= y /\ u <= v /\ x + u = y + v => x = y
  OBVIOUS
<1> HIDE DEF left, right
<1> QED
  BY <1>5, <1>6, <1>7, Zenon

LEMMA SumPlus ==
    ASSUME NEW S, IsFiniteSet(S), NEW f, NEW g, NEW h,
           \A a \in S : f[a] \in Int /\ g[a] \in Int /\ h[a] = f[a] + g[a]
    PROVE  SumOf(h, S) = SumOf(f, S) + SumOf(g, S)
<1> DEFINE Bad == {s \in SUBSET S : SumOf(h, s) # SumOf(f, s) + SumOf(g, s)}
<1>1. SUFFICES ASSUME Bad # {} PROVE FALSE
  OBVIOUS
<1>2. PICK T \in Bad : \A u \in SUBSET T : u # T => u \notin Bad
  <2>1. IsFiniteSet(S) /\ Bad \in SUBSET SUBSET S
    OBVIOUS
  <2> HIDE DEF Bad
  <2> QED
    BY <1>1, <2>1, SmallestSet
<1>3. IsFiniteSet(T) /\ (T # {} => First(T) \in T)
  BY FS_Subset DEF First
<1> DEFINE x == First(T)
           rest == T \ {x}
<1>4. /\ SumOf(f, T) = IF T = {} THEN 0 ELSE f[x] + SumOf(f, rest)
      /\ SumOf(g, T) = IF T = {} THEN 0 ELSE g[x] + SumOf(g, rest)
      /\ SumOf(h, T) = IF T = {} THEN 0 ELSE h[x] + SumOf(h, rest)
  BY <1>3, SumEquation
<1>5. T # {} => SumOf(h, rest) = SumOf(f, rest) + SumOf(g, rest)
  BY <1>2, <1>3
<1>6. SumOf(f, rest) \in Int /\ SumOf(g, rest) \in Int
  <2>1. IsFiniteSet(rest) /\ rest \subseteq S
    BY <1>3, FS_Subset
  <2> QED
    BY <2>1, SumType
<1>7. T # {} => f[x] \in Int /\ g[x] \in Int /\ h[x] = f[x] + g[x]
  BY <1>2, <1>3
<1>8. SumOf(h, T) # SumOf(f, T) + SumOf(g, T)
  BY <1>2
<1> HIDE DEF x, rest
<1> QED
  BY <1>4, <1>5, <1>6, <1>7, <1>8

LEMMA SumZero ==
    ASSUME NEW S, IsFiniteSet(S), NEW f, \A a \in S : f[a] = 0
    PROVE  SumOf(f, S) = 0
<1>1. \A a \in S : f[a] \in Int /\ f[a] = f[a] + f[a]
  OBVIOUS
<1>2. SumOf(f, S) = SumOf(f, S) + SumOf(f, S)
  BY <1>1, SumPlus
<1>3. SumOf(f, S) \in Int
  BY <1>1, SumType
<1>4. \A n \in Int : n = n + n => n = 0
  OBVIOUS
<1> QED
  BY <1>2, <1>3, <1>4, Zenon

LEMMA SumUnion ==
    ASSUME NEW S, IsFiniteSet(S), NEW R, IsFiniteSet(R), S \cap R = {},
           NEW f, \A a \in S \cup R : f[a] \in Int
    PROVE  SumOf(f, S \cup R) = SumOf(f, S) + SumOf(f, R)
<1> DEFINE Bad == {s \in SUBSET S : SumOf(f, s \cup R) # SumOf(f, s) + SumOf(f, R)}
<1>1. SUFFICES ASSUME Bad # {} PROVE FALSE
  OBVIOUS
<1>2. PICK T \in Bad : \A u \in SUBSET T : u # T => u \notin Bad
  <2>1. IsFiniteSet(S) /\ Bad \in SUBSET SUBSET S
    OBVIOUS
  <2> HIDE DEF Bad
  <2> QED
    BY <1>1, <2>1, SmallestSet
<1>3. SumOf(f, R) \in Int
  BY SumType
<1>4. T # {}
  <2>1. SumOf(f, {} \cup R) = SumOf(f, R)
    <3>1. {} \cup R = R
      OBVIOUS
    <3> QED
      BY <3>1
  <2>2. SumOf(f, {}) = 0
    BY SumEmpty
  <2>3. SumOf(f, T \cup R) # SumOf(f, T) + SumOf(f, R)
    BY <1>2
  <2>4. SumOf(f, {} \cup R) = SumOf(f, {}) + SumOf(f, R)
    <3> DEFINE right == SumOf(f, R)
    <3>1. SumOf(f, {} \cup R) = right /\ right \in Int
      BY <1>3, <2>1
    <3>2. 0 + right = right
      BY <3>1
    <3> HIDE DEF right
    <3>3. SumOf(f, {}) + right = right
      BY <2>2, <3>2
    <3> QED
      BY <3>1, <3>3 DEF right
  <2> QED
    BY <2>3, <2>4
<1> DEFINE x == First(T)
           rest == T \ {x}
<1>5. x \in T
  BY <1>4 DEF First
<1>6. IsFiniteSet(T) /\ IsFiniteSet(T \cup R) /\ IsFiniteSet(rest)
  BY FS_Subset, FS_Union
<1>7. SumOf(f, T) = f[x] + SumOf(f, rest)
  BY <1>2, <1>5, <1>6, SumRemove
<1>8. SumOf(f, T \cup R) = f[x] + SumOf(f, (T \cup R) \ {x})
  BY <1>2, <1>5, <1>6, SumRemove
<1>9. (T \cup R) \ {x} = rest \cup R
  BY <1>2, <1>5
<1>10. SumOf(f, rest \cup R) = SumOf(f, rest) + SumOf(f, R)
  BY <1>2, <1>5
<1>11. SumOf(f, rest) \in Int /\ f[x] \in Int
  BY <1>2, <1>5, <1>6, SumType
<1>12. SumOf(f, T \cup R) = f[x] + (SumOf(f, rest) + SumOf(f, R))
  BY <1>8, <1>9, <1>10
<1>13. SumOf(f, T \cup R) # SumOf(f, T) + SumOf(f, R)
  BY <1>2
<1> DEFINE first == f[x]  others == SumOf(f, rest)  right == SumOf(f, R)
<1> HIDE DEF first, others, right
<1>14. first \in Int /\ others \in Int /\ right \in Int
  BY <1>3, <1>11 DEF first, others, right
<1>15. SumOf(f, T \cup R) = first + (others + right) /\ SumOf(f, T) = first + others
  BY <1>7, <1>12 DEF first, others, right
<1> QED
  BY <1>13, <1>14, <1>15 DEF right

(* Values of at most c add up to at most c each.                           *)
LEMMA SumBounded ==
    ASSUME NEW S, IsFiniteSet(S), NEW f, NEW c \in Int,
           \A a \in S : f[a] \in Int /\ f[a] <= c
    PROVE  SumOf(f, S) <= Cardinality(S) * c
<1> DEFINE Bad == {s \in SUBSET S : ~ (SumOf(f, s) <= Cardinality(s) * c)}
<1>1. SUFFICES ASSUME Bad # {} PROVE FALSE
  BY FS_CardinalityType
<1>2. PICK T \in Bad : \A u \in SUBSET T : u # T => u \notin Bad
  <2>1. IsFiniteSet(S) /\ Bad \in SUBSET SUBSET S
    OBVIOUS
  <2> HIDE DEF Bad
  <2> QED
    BY <1>1, <2>1, SmallestSet
<1> DEFINE x == First(T)
           rest == T \ {x}
           n == Cardinality(rest)
<1>3. T # {}
  <2>1. SumOf(f, {}) = 0 /\ Cardinality({}) = 0
    BY SumEmpty, FS_EmptySet
  <2>2. ~ (SumOf(f, T) <= Cardinality(T) * c)
    BY <1>2
  <2>3. ~ (0 <= 0 * c) => FALSE
    OBVIOUS
  <2> QED
    BY <2>1, <2>2, <2>3
<1>4. x \in T
  BY <1>3 DEF First
<1>5. IsFiniteSet(T) /\ IsFiniteSet(rest)
  BY FS_Subset
<1>6. SumOf(f, T) = f[x] + SumOf(f, rest)
  BY <1>2, <1>4, <1>5, SumRemove
<1>7. SumOf(f, rest) <= n * c
  BY <1>2, <1>4
<1>8. n \in Nat /\ Cardinality(T) = n + 1
  BY <1>4, <1>5, FS_CardinalityType, FS_RemoveElement
<1>9. SumOf(f, rest) \in Int /\ f[x] \in Int /\ f[x] <= c
  BY <1>2, <1>4, <1>5, SumType
<1>10. ~ (SumOf(f, T) <= Cardinality(T) * c)
  BY <1>2
<1>11. (n + 1) * c = n * c + c
  BY <1>8
<1> HIDE DEF x, rest, n
<1> QED
  BY <1>6, <1>7, <1>8, <1>9, <1>10, <1>11

-----------------------------------------------------------------------------
(* What a pick does to the scores                                          *)

(* The inequality behind DebtKept: X and w are score and weight of the     *)
(* winner, P the scores of the others of a set of k accounts, Q and V the  *)
(* scores and weights of the m candidates outside it, n the number of      *)
(* accounts and W their weights.                                           *)
LEMMA BoundArithmetic ==
    ASSUME NEW X \in Int, NEW P \in Int, NEW Q \in Int, NEW V \in Int, NEW w \in Int,
           NEW W \in Nat, NEW m \in Nat \ {0}, NEW k \in Nat, NEW n \in Nat,
           Q + V <= m * (X + w), V + w <= W,
           2 * P + ((k - 1) * (n - (k - 1))) * W >= 0,
           2 * (X + P + Q) + ((k + m) * (n - (k + m))) * W >= 0
    PROVE  2 * ((X + P) - V) + (k * (n - k)) * W >= 0
<1> DEFINE c == k * (n - k)
           d == (k - 1) * (n - (k - 1))
           e == (k + m) * (n - (k + m))
           G == 2 * ((X + P) - V) + c * W
<1>1. m * d + e = (m + 1) * c - m * (m + 1)
  OBVIOUS
<1>2. m * (2 * P + d * W) + (2 * (X + P + Q) + e * W) >= 0
  <2>1. \A x, y \in Int : x >= 0 /\ y >= 0 => m * x + y >= 0
    OBVIOUS
  <2>2. 2 * P + d * W \in Int /\ 2 * (X + P + Q) + e * W \in Int
    OBVIOUS
  <2> HIDE DEF d, e
  <2> QED
    BY <2>1, <2>2 DEF d, e
<1>3. (m + 1) * G = 2 * (m + 1) * ((X + P) - V) + (m + 1) * c * W
  OBVIOUS
<1>4. (m * d + e) * W = (m + 1) * c * W - m * (m + 1) * W
  BY <1>1
<1>5. m * (2 * P + d * W) + (2 * (X + P + Q) + e * W)
        = 2 * m * P + 2 * (X + P + Q) + (m * d + e) * W
  OBVIOUS
<1>6. m * (X + w) = m * X + m * w /\ m * (V + w) <= m * W /\ m * (V + w) = m * V + m * w
  OBVIOUS
<1>7. 2 * (m + 1) * ((X + P) - V) >= 2 * m * P + 2 * (X + P + Q) - 2 * m * W
  BY <1>6
<1>8. m * (m + 1) * W >= 2 * m * W
  OBVIOUS
<1>9. (m + 1) * G >= 0
  <2> DEFINE A == 2 * (m + 1) * ((X + P) - V)  B == (m + 1) * c * W
             C == 2 * m * P + 2 * (X + P + Q)  D == m * (m + 1) * W  E == 2 * m * W
  <2>1. A \in Int /\ B \in Int /\ C \in Int /\ D \in Int /\ E \in Int
    OBVIOUS
  <2>2. (m + 1) * G = A + B
    BY <1>3
  <2>3. C + (B - D) >= 0
    BY <1>2, <1>4, <1>5
  <2>4. A >= C - E /\ D >= E
    BY <1>7, <1>8
  <2> HIDE DEF A, B, C, D, E, G
  <2> QED
    BY <2>1, <2>2, <2>3, <2>4
<1>10. G \in Int
  OBVIOUS
<1>11. \A x \in Int : (m + 1) * x >= 0 => x >= 0
  OBVIOUS
<1> HIDE DEF G
<1>12. G >= 0
  BY <1>9, <1>10, <1>11
<1> QED
  BY <1>12 DEF G

(* What a pick does to the sum of the scores of any set of accounts: its   *)
(* candidates are credited, and the winner, if among them, pays for all    *)
(* candidates.                                                             *)
PaidBy(a, before, w, C, after, S) ==
    /\ before \in [S -> Int] /\ w \in [S -> Nat] /\ after \in [S -> Int]
    /\ C \in SUBSET S /\ a \in C
    /\ \A b \in S : after[b] = (before[b] + (IF b \in C THEN w[b] ELSE 0))
                                       - (IF b = a THEN SumOf(w, C) ELSE 0)

SumsPaid(a, before, w, C, after, S) ==
    \A T \in SUBSET S :
        SumOf(after, T) = IF a \in T THEN SumOf(before, T) - SumOf(w, C \ T)
                                     ELSE SumOf(before, T) + SumOf(w, T \cap C)

LEMMA ChargedSum ==
    ASSUME NEW S, IsFiniteSet(S), NEW before, NEW w, NEW C, NEW a, NEW after,
           PaidBy(a, before, w, C, after, S)
    PROVE  SumsPaid(a, before, w, C, after, S)
<1> SUFFICES ASSUME NEW T \in SUBSET S
             PROVE  SumOf(after, T) = IF a \in T THEN SumOf(before, T) - SumOf(w, C \ T)
                                                 ELSE SumOf(before, T) + SumOf(w, T \cap C)
  BY DEF SumsPaid
<1> DEFINE credit == [b \in S |-> IF b \in C THEN w[b] ELSE 0]
           credited == [b \in S |-> before[b] + credit[b]]
<1>0. /\ before \in [S -> Int] /\ w \in [S -> Nat] /\ after \in [S -> Int]
      /\ C \in SUBSET S /\ a \in C
  BY DEF PaidBy
<1>1. \A U \in SUBSET S : /\ IsFiniteSet(U)
                          /\ \A b \in U : before[b] \in Int /\ w[b] \in Int /\ after[b] \in Int
                                          /\ credit[b] \in Int /\ credited[b] \in Int
  BY <1>0, FS_Subset
<1>2. \A U \in SUBSET S : /\ SumOf(before, U) \in Int /\ SumOf(w, U) \in Int
                          /\ SumOf(credit, U) \in Int /\ SumOf(credited, U) \in Int
                          /\ SumOf(after, U) \in Int
  <2> HIDE DEF credit, credited
  <2> QED
    BY <1>1, SumType
<1>3. \A U \in SUBSET S : SumOf(credit, U) = SumOf(w, U \cap C)
  <2> TAKE U \in SUBSET S
  <2>1. SumOf(credit, U \cap C) = SumOf(w, U \cap C)
    <3>1. \A b \in U \cap C : credit[b] = w[b]
      BY <1>0
    <3>2. IsFiniteSet(U \cap C)
      BY <1>1
    <3> HIDE DEF credit
    <3> QED
      BY <3>1, <3>2, SumSame
  <2>2. SumOf(credit, U \ C) = 0
    <3>1. \A b \in U \ C : credit[b] = 0
      OBVIOUS
    <3>2. IsFiniteSet(U \ C)
      BY <1>1
    <3> HIDE DEF credit
    <3> QED
      BY <3>1, <3>2, SumZero
  <2>3. SumOf(credit, U) = SumOf(credit, U \cap C) + SumOf(credit, U \ C)
    <3>1. U = (U \cap C) \cup (U \ C) /\ (U \cap C) \cap (U \ C) = {}
      OBVIOUS
    <3>2. IsFiniteSet(U \cap C) /\ IsFiniteSet(U \ C)
      BY <1>1
    <3>3. \A b \in (U \cap C) \cup (U \ C) : credit[b] \in Int
      BY <1>1
    <3> HIDE DEF credit
    <3>4. SumOf(credit, (U \cap C) \cup (U \ C)) = SumOf(credit, U \cap C) + SumOf(credit, U \ C)
      BY <3>1, <3>2, <3>3, SumUnion
    <3> QED
      BY <3>1, <3>4
  <2>4. SumOf(w, U \cap C) \in Int
    BY <1>2
  <2> HIDE DEF credit
  <2> QED
    BY <2>1, <2>2, <2>3, <2>4
<1>4. \A U \in SUBSET S : SumOf(credited, U) = SumOf(before, U) + SumOf(w, U \cap C)
  <2> TAKE U \in SUBSET S
  <2>1. \A b \in U : before[b] \in Int /\ credit[b] \in Int /\ credited[b] = before[b] + credit[b]
    BY <1>1
  <2> HIDE DEF credited, credit
  <2>2. SumOf(credited, U) = SumOf(before, U) + SumOf(credit, U)
    BY <1>1, <2>1, SumPlus
  <2> QED
    BY <1>3, <2>2
<1>5. ASSUME a \notin T
      PROVE  SumOf(after, T) = SumOf(before, T) + SumOf(w, T \cap C)
  <2>1. \A b \in T : after[b] = credited[b]
    BY <1>0, <1>5 DEF PaidBy
  <2> HIDE DEF credited, credit
  <2>2. SumOf(after, T) = SumOf(credited, T)
    BY <1>1, <2>1, SumSame
  <2> QED
    BY <1>4, <2>2
<1>6. ASSUME a \in T
      PROVE  SumOf(after, T) = SumOf(before, T) - SumOf(w, C \ T)
  <2> DEFINE rest == T \ {a}
  <2>1. rest \in SUBSET S /\ rest # T /\ a \in S
    BY <1>0, <1>6
  <2>2. \A b \in rest : after[b] = credited[b]
    BY <1>0 DEF PaidBy
  <2>3. after[a] = credited[a] - SumOf(w, C)
    <3>1. after[a] = (before[a] + w[a]) - SumOf(w, C)
      BY <1>0 DEF PaidBy
    <3>2. credited[a] = before[a] + w[a]
      BY <1>0
    <3> QED
      BY <3>1, <3>2, Zenon
  <2> HIDE DEF credited, credit
  <2>4. SumOf(after, rest) = SumOf(credited, rest)
    <3>1. IsFiniteSet(rest)
      BY <1>1
    <3> QED
      BY <2>2, <3>1, SumSame
  <2>5. SumOf(after, T) = after[a] + SumOf(after, rest)
    BY <1>1, <1>6, SumRemove
  <2>6. SumOf(credited, T) = credited[a] + SumOf(credited, rest)
    BY <1>1, <1>6, SumRemove
  <2>7. SumOf(w, C) = SumOf(w, T \cap C) + SumOf(w, C \ T)
    <3>1. C = (T \cap C) \cup (C \ T) /\ (T \cap C) \cap (C \ T) = {}
      OBVIOUS
    <3>2. IsFiniteSet(T \cap C) /\ IsFiniteSet(C \ T)
      BY <1>0, <1>1
    <3>3. \A b \in (T \cap C) \cup (C \ T) : w[b] \in Int
      BY <1>0, <1>1
    <3>4. SumOf(w, (T \cap C) \cup (C \ T)) = SumOf(w, T \cap C) + SumOf(w, C \ T)
      BY <3>1, <3>2, <3>3, SumUnion
    <3> QED
      BY <3>1, <3>4
  <2> DEFINE x == credited[a]  y == SumOf(credited, rest)  s == SumOf(before, T)
             u == SumOf(w, T \cap C)  v == SumOf(w, C \ T)
  <2>8. x \in Int /\ y \in Int /\ s \in Int /\ u \in Int /\ v \in Int
    BY <1>0, <1>1, <1>2, <2>1
  <2>9. SumOf(after, T) = (x - (u + v)) + y /\ s + u = x + y
    BY <1>4, <2>3, <2>4, <2>5, <2>6, <2>7
  <2> HIDE DEF x, y, s, u, v
  <2>10. SumOf(after, T) = s - v
    BY <2>8, <2>9
  <2> QED
    BY <2>10 DEF s, v
<1> QED
  BY <1>5, <1>6

(* k of n accounts together owe at most k (n - k) / 2 rounds.              *)
Debt(before, w, S) ==
    \A T \in SUBSET S :
        2 * SumOf(before, T)
          + (Cardinality(T) * (Cardinality(S) - Cardinality(T))) * SumOf(w, S) >= 0

(* Whoever is picked: if it is of the k accounts and some candidates are   *)
(* not, its score was above each of theirs, so that the debt of the k - 1  *)
(* others and the debt with the candidates' added bound what it pays.      *)
LEMMA DebtKept ==
    ASSUME NEW S, IsFiniteSet(S), NEW before, NEW w, NEW C, NEW a, NEW after,
           \A b \in C : before[b] + w[b] <= before[a] + w[a],
           PaidBy(a, before, w, C, after, S),
           Debt(before, w, S)
    PROVE  Debt(after, w, S)
<1> SUFFICES ASSUME NEW T \in SUBSET S
             PROVE  2 * SumOf(after, T)
                      + (Cardinality(T) * (Cardinality(S) - Cardinality(T))) * SumOf(w, S) >= 0
  BY DEF Debt
<1> DEFINE n == Cardinality(S)  k == Cardinality(T)  W == SumOf(w, S)
           D == C \ T  m == Cardinality(D)  rest == T \ {a}
<1>0. /\ before \in [S -> Int] /\ w \in [S -> Nat] /\ after \in [S -> Int]
      /\ C \in SUBSET S /\ a \in C
  BY DEF PaidBy
<1>1. \A U \in SUBSET S : /\ IsFiniteSet(U) /\ Cardinality(U) \in Nat
                          /\ SumOf(before, U) \in Int /\ SumOf(w, U) \in Nat
                          /\ SumOf(after, U) \in Int
  <2> TAKE U \in SUBSET S
  <2>1. IsFiniteSet(U) /\ Cardinality(U) \in Nat
    BY FS_Subset, FS_CardinalityType
  <2>2. \A b \in U : before[b] \in Int /\ w[b] \in Int /\ after[b] \in Int
    BY <1>0
  <2>3. SumOf(before, U) \in Int /\ SumOf(w, U) \in Int /\ SumOf(after, U) \in Int
    BY <2>1, <2>2, SumType
  <2>4. SumOf(w, U) >= 0
    <3> DEFINE zero == [b \in S |-> 0]
    <3>1. \A b \in U : zero[b] \in Int /\ w[b] \in Int /\ zero[b] <= w[b] /\ zero[b] = 0
      BY <1>0
    <3> HIDE DEF zero
    <3>2. SumOf(zero, U) <= SumOf(w, U) /\ SumOf(zero, U) = 0
      BY <2>1, <3>1, SumMonotone, SumZero
    <3> QED
      BY <2>3, <3>2
  <2> QED
    BY <2>1, <2>3, <2>4
<1>2. SumOf(after, T) = IF a \in T THEN SumOf(before, T) - SumOf(w, C \ T)
                                   ELSE SumOf(before, T) + SumOf(w, T \cap C)
  <2>1. SumsPaid(a, before, w, C, after, S)
    BY ChargedSum
  <2> QED
    BY <2>1 DEF SumsPaid
<1>3. 2 * SumOf(before, T) + (k * (n - k)) * W >= 0
  BY DEF Debt
<1>4. n \in Nat /\ k \in Nat /\ W \in Nat /\ m \in Nat
  BY <1>0, <1>1
<1>5. CASE a \notin T
  <2> DEFINE x == SumOf(before, T)  u == SumOf(w, T \cap C)  K == (k * (n - k)) * W
  <2>1. x \in Int /\ u \in Nat /\ K \in Int /\ SumOf(after, T) = x + u /\ 2 * x + K >= 0
    <3>1. T \cap C \in SUBSET S
      OBVIOUS
    <3> QED
      BY <1>0, <1>1, <1>2, <1>3, <1>4, <1>5, <3>1
  <2> HIDE DEF x, u, K
  <2>2. 2 * (x + u) + K >= 0
    BY <2>1
  <2> QED
    BY <2>1, <2>2 DEF K
<1>6. CASE a \in T /\ D = {}
  <2>1. SumOf(w, D) = 0
    BY <1>6, SumEmpty
  <2>2. SumOf(after, T) = SumOf(before, T)
    BY <1>1, <1>2, <1>6, <2>1
  <2> QED
    BY <1>3, <2>2
<1>7. CASE a \in T /\ D # {}
  <2> DEFINE X == before[a]  P == SumOf(before, rest)  Q == SumOf(before, D)
             V == SumOf(w, D)  wa == w[a]
  <2>1. X \in Int /\ P \in Int /\ Q \in Int /\ V \in Nat /\ wa \in Nat
    BY <1>0, <1>1
  <2>2. m \in Nat \ {0}
    BY <1>0, <1>1, <1>7, FS_EmptySet
  <2>3. Q + V <= m * (X + wa)
    <3> DEFINE credited == [b \in S |-> before[b] + w[b]]
    <3>1. \A b \in D : /\ before[b] \in Int /\ w[b] \in Int /\ credited[b] \in Int
                       /\ credited[b] = before[b] + w[b] /\ credited[b] <= X + wa
      BY <1>0
    <3> HIDE DEF credited
    <3>2. SumOf(credited, D) = Q + V
      BY <1>0, <1>1, <3>1, SumPlus
    <3>3. X + wa \in Int
      BY <2>1
    <3>4. SumOf(credited, D) <= Cardinality(D) * (X + wa)
      <4>1. IsFiniteSet(D) /\ \A b \in D : credited[b] \in Int /\ credited[b] <= X + wa
        BY <1>0, <1>1, <3>1
      <4> HIDE DEF X, wa, D
      <4> QED
        BY <3>3, <4>1, SumBounded
    <3> QED
      BY <3>2, <3>4
  <2>4. V + wa <= W
    <3>1. SumOf(w, D \cup {a}) = w[a] + SumOf(w, (D \cup {a}) \ {a})
      <4>1. IsFiniteSet(D \cup {a}) /\ \A b \in D \cup {a} : w[b] \in Int
        BY <1>0, <1>1
      <4> QED
        BY <4>1, SumRemove
    <3>2. (D \cup {a}) \ {a} = D
      BY <1>7
    <3>3. S = (D \cup {a}) \cup (S \ (D \cup {a}))
      BY <1>0
    <3> DEFINE inside == D \cup {a}  outside == S \ (D \cup {a})
    <3>4. SumOf(w, inside \cup outside) = SumOf(w, inside) + SumOf(w, outside)
      <4>1. /\ IsFiniteSet(inside) /\ IsFiniteSet(outside) /\ inside \cap outside = {}
            /\ \A b \in inside \cup outside : w[b] \in Int
        BY <1>0, <1>1
      <4> HIDE DEF inside, outside
      <4> QED
        BY <4>1, SumUnion
    <3>5. SumOf(w, outside) \in Nat /\ SumOf(w, inside) = wa + V
      BY <1>0, <1>1, <3>1, <3>2
    <3>6. W = (wa + V) + SumOf(w, outside)
      BY <3>3, <3>4, <3>5
    <3> HIDE DEF V, wa, W, outside
    <3> QED
      BY <2>1, <3>5, <3>6, <1>4
  <2>5. SumOf(before, T) = X + P /\ SumOf(after, T) = (X + P) - V
    <3>1. SumOf(before, T) = X + P
      BY <1>0, <1>1, <1>7, SumRemove
    <3>2. SumOf(after, T) = SumOf(before, T) - SumOf(w, D)
      BY <1>2, <1>7
    <3> QED
      BY <3>1, <3>2
  <2>6. Cardinality(rest) = k - 1
    BY <1>1, <1>7, FS_RemoveElement
  <2>7. 2 * P + ((k - 1) * (n - (k - 1))) * W >= 0
    BY <2>6 DEF Debt
  <2>8. SumOf(before, T \cup D) = X + P + Q
    <3>1. SumOf(before, T \cup D) = SumOf(before, T) + SumOf(before, D)
      <4>1. /\ IsFiniteSet(T) /\ IsFiniteSet(D) /\ T \cap D = {}
            /\ \A b \in T \cup D : before[b] \in Int
        BY <1>0, <1>1
      <4> HIDE DEF D
      <4> QED
        BY <4>1, SumUnion
    <3> QED
      BY <2>5, <3>1
  <2>9. Cardinality(T \cup D) = k + m
    <3>1. T \cap D = {} /\ Cardinality({}) = 0
      BY FS_EmptySet
    <3>2. Cardinality(T \cup D) = (k + m) - Cardinality(T \cap D)
      <4>1. IsFiniteSet(T) /\ IsFiniteSet(D)
        BY <1>0, <1>1
      <4>2. Cardinality(T \cup D) = k + m - Cardinality(T \cap D)
        BY <4>1, FS_Union
      <4>3. Cardinality(T \cap D) = 0
        BY <3>1
      <4> HIDE DEF k, m
      <4> QED
        BY <1>4, <4>2, <4>3
    <3>3. (k + m) - 0 = k + m
      BY <1>4
    <3> QED
      BY <3>1, <3>2, <3>3
  <2>10. 2 * (X + P + Q) + ((k + m) * (n - (k + m))) * W >= 0
    <3>1. T \cup D \in SUBSET S
      BY <1>0
    <3> HIDE DEF D
    <3> QED
      BY <2>8, <2>9, <3>1 DEF Debt
  <2> HIDE DEF X, P, Q, V, wa, W, m, k, n
  <2>11. 2 * ((X + P) - V) + (k * (n - k)) * W >= 0
    BY <1>4, <2>1, <2>2, <2>3, <2>4, <2>7, <2>10, BoundArithmetic
  <2> QED
    BY <2>5, <2>11 DEF k, n, W
<1> QED
  BY <1>5, <1>6, <1>7

-----------------------------------------------------------------------------
(* The rotation                                                            *)

LEMMA ListedFinite == IsFiniteSet(Listed) /\ Cardinality(Listed) = NumListed
<1>1. NumListed - 1 + 1 = NumListed /\ (1 > NumListed <=> NumListed = 0)
  BY RotationAssumption
<1> QED
  BY <1>1, RotationAssumption, FS_Interval DEF Listed

(* The weights of the code's candidates are the configured ones, as those  *)
(* are positive here.                                                      *)
LEMMA TotalIsSum ==
    ASSUME NEW w \in [Listed -> 1..MaxWeight], NEW C \in SUBSET Listed
    PROVE  TotalWeight(w, C) = SumOf(w, C)
<1> DEFINE f == [a \in C |-> EffectiveWeight(w[a])]
<1>1. \A a \in C : f[a] = w[a]
  BY RotationAssumption DEF EffectiveWeight
<1>2. IsFiniteSet(C)
  BY ListedFinite, FS_Subset
<1>3. TotalWeight(w, C) = SumOf(f, C)
  BY DEF TotalWeight
<1> HIDE DEF f
<1> QED
  BY <1>1, <1>2, <1>3, SumSame

LEMMA SumsOfWeights ==
    ASSUME NEW w \in [Listed -> 1..MaxWeight]
    PROVE  /\ SumOf(w, Listed) \in Nat
           /\ Listed # {} => SumOf(w, Listed) > 0
           /\ w \in [Listed -> Nat]
<1>1. \A a \in Listed : w[a] \in Int /\ w[a] \in Nat /\ w[a] > 0
  BY RotationAssumption
<1>2. SumOf(w, Listed) \in Int
  BY <1>1, ListedFinite, SumType
<1> DEFINE zero == [a \in Listed |-> 0]
<1>3. \A a \in Listed : zero[a] \in Int /\ zero[a] = 0 /\ zero[a] <= w[a]
  BY <1>1
<1> HIDE DEF zero
<1>4. SumOf(zero, Listed) = 0 /\ SumOf(zero, Listed) <= SumOf(w, Listed)
  BY <1>1, <1>3, ListedFinite, SumZero, SumMonotone
<1>5. SumOf(w, Listed) = 0 => \A a \in Listed : zero[a] = w[a]
  BY <1>1, <1>3, <1>4, ListedFinite, SumStrict
<1> QED
  BY <1>1, <1>2, <1>3, <1>4, <1>5

(* How the scores follow from the weights and the picks of the round.      *)
Scored(before, w, done, S) ==
    \A a \in S : /\ before[a] = w[a] * SumOf(done, S) - done[a] * SumOf(w, S)
                 /\ before[a] > -SumOf(w, S)

(* At the end of a round the picks are the weights: none can exceed its    *)
(* weight, and they add up to the same.                                    *)
LEMMA RoundExact ==
    ASSUME NEW before, NEW w \in [Listed -> 1..MaxWeight], NEW done \in [Listed -> Nat],
           Scored(before, w, done, Listed), SumOf(done, Listed) = SumOf(w, Listed)
    PROVE  \A a \in Listed : done[a] = w[a] /\ before[a] = 0
<1> DEFINE R == SumOf(w, Listed)
<1>1. R \in Nat /\ (Listed # {} => R > 0)
  BY SumsOfWeights
<1>2. \A a \in Listed : w[a] \in Int /\ w[a] \in Nat /\ done[a] \in Int
  BY RotationAssumption
<1>3. \A a \in Listed : done[a] <= w[a]
  <2> TAKE a \in Listed
  <2>1. w[a] * R - done[a] * R > -R
    BY DEF Scored
  <2>2. \A x, y \in Int : x * R - y * R > -R => y <= x
    <3> TAKE x, y \in Int
    <3>1. x * R - y * R = (x - y) * R
      BY <1>1
    <3>2. \A z \in Int : z * R > -R => z >= 0
      <4> SUFFICES ASSUME NEW z \in Int, z * R > -R, z < 0
                   PROVE  FALSE
        OBVIOUS
      <4>1. (z + 1) * R = z * R + R
        BY <1>1
      <4>2. z + 1 <= 0 /\ (z + 1) * R > 0
        BY <1>1, <4>1
      <4>3. (z + 1) * R <= 0
        BY <1>1, <4>2
      <4> QED
        BY <1>1, <4>2, <4>3
    <3> QED
      BY <3>1, <3>2
  <2> HIDE DEF R
  <2> QED
    BY <1>2, <2>1, <2>2
<1>4. \A a \in Listed : done[a] = w[a]
  BY <1>2, <1>3, ListedFinite, SumStrict
<1>5. \A a \in Listed : before[a] = w[a] * R - w[a] * R
  BY <1>4 DEF Scored
<1>6. \A a \in Listed : w[a] * R \in Int
  BY <1>1, <1>2
<1> QED
  BY <1>4, <1>5, <1>6

(* One more pick, all accounts being candidates.                           *)
LEMMA ScoredKept ==
    ASSUME NEW before, NEW w \in [Listed -> 1..MaxWeight],
           NEW done \in [Listed -> Nat], NEW after, NEW a,
           SumOf(before, Listed) = 0,
           \A b \in Listed : before[b] + w[b] <= before[a] + w[a],
           PaidBy(a, before, w, Listed, after, Listed),
           Scored(before, w, done, Listed)
    PROVE  Scored(after, w, [done EXCEPT ![a] = @ + 1], Listed)
<1> DEFINE R == SumOf(w, Listed)  M == SumOf(done, Listed)
           more == [done EXCEPT ![a] = @ + 1]
<1>0. /\ before \in [Listed -> Int] /\ after \in [Listed -> Int] /\ a \in Listed
      /\ \A b \in Listed : after[b] = (before[b] + w[b]) - (IF b = a THEN R ELSE 0)
  BY DEF PaidBy
<1>1. R \in Nat /\ R > 0
  BY <1>0, SumsOfWeights
<1>2. \A b \in Listed : /\ w[b] \in Nat /\ w[b] > 0 /\ w[b] \in Int /\ before[b] \in Int
                        /\ done[b] \in Int
  BY <1>0, RotationAssumption
<1>3. M \in Int
  BY <1>2, ListedFinite, SumType
<1>4. SumOf(more, Listed) = M + 1
  <2> DEFINE rest == Listed \ {a}
  <2>1. SumOf(done, Listed) = done[a] + SumOf(done, rest)
    BY <1>0, <1>2, ListedFinite, SumRemove
  <2>2. \A b \in Listed : more[b] \in Int
    OBVIOUS
  <2>3. more[a] = done[a] + 1 /\ \A b \in rest : done[b] = more[b]
    BY <1>0
  <2> HIDE DEF more
  <2>4. SumOf(more, Listed) = more[a] + SumOf(more, rest)
    BY <1>0, <2>2, ListedFinite, SumRemove
  <2>5. IsFiniteSet(rest) /\ rest \subseteq Listed
    BY ListedFinite, FS_Subset
  <2>6. SumOf(done, rest) = SumOf(more, rest)
    BY <2>3, <2>5, SumSame
  <2>7. SumOf(done, rest) \in Int /\ done[a] \in Int
    <3>1. \A b \in rest : done[b] \in Int
      BY <1>2
    <3> QED
      BY <1>0, <1>2, <2>5, <3>1, SumType
  <2> HIDE DEF rest
  <2> QED
    BY <2>1, <2>3, <2>4, <2>6, <2>7
<1>5. before[a] + w[a] > 0
  <2> DEFINE credited == [b \in Listed |-> before[b] + w[b]]
             c == before[a] + w[a]
  <2>1. \A b \in Listed : /\ before[b] \in Int /\ w[b] \in Int /\ credited[b] \in Int
                          /\ credited[b] = before[b] + w[b] /\ credited[b] <= c
    BY <1>2
  <2>2. c \in Int
    BY <1>0, <1>2
  <2> HIDE DEF credited, c
  <2>3. SumOf(credited, Listed) = SumOf(before, Listed) + R
    BY <2>1, ListedFinite, SumPlus
  <2>4. SumOf(credited, Listed) <= Cardinality(Listed) * c
    BY <2>1, <2>2, ListedFinite, SumBounded
  <2>5. NumListed * c > 0
    BY <1>1, <2>2, <2>3, <2>4, ListedFinite, RotationAssumption
  <2>6. c > 0
    BY <2>2, <2>5, RotationAssumption
  <2> QED
    BY <2>6 DEF c
<1>6. ASSUME NEW b \in Listed
      PROVE  /\ after[b] = w[b] * (M + 1) - more[b] * R
             /\ after[b] > -R
  <2>1. before[b] = w[b] * M - done[b] * R /\ before[b] > -R
    BY DEF Scored
  <2>2. w[b] * (M + 1) = w[b] * M + w[b]
    BY <1>2, <1>3
  <2>3. CASE b = a
    <3>1. more[b] = done[b] + 1 /\ after[b] = (before[b] + w[b]) - R
      BY <1>0, <2>3
    <3>2. (done[b] + 1) * R = done[b] * R + R
      BY <1>1, <1>2
    <3>3. w[b] * M \in Int /\ done[b] * R \in Int
      BY <1>1, <1>2, <1>3
    <3>4. after[b] > -R
      BY <1>1, <1>2, <1>5, <2>3, <3>1
    <3>5. after[b] = w[b] * (M + 1) - more[b] * R
      <4> DEFINE x == w[b] * M  y == done[b] * R  v == w[b]
      <4>1. x \in Int /\ y \in Int /\ v \in Int /\ before[b] = x - y
        BY <1>2, <2>1, <3>3
      <4>2. after[b] = (before[b] + v) - R /\ w[b] * (M + 1) = x + v /\ more[b] * R = y + R
        BY <2>2, <3>1, <3>2
      <4> HIDE DEF x, y, v, R
      <4> QED
        BY <1>1, <4>1, <4>2
    <3> QED
      BY <3>4, <3>5
  <2>4. CASE b # a
    <3>1. more[b] = done[b] /\ after[b] = before[b] + w[b]
      BY <1>0, <1>2, <2>4
    <3>3. w[b] * M \in Int /\ done[b] * R \in Int
      BY <1>1, <1>2, <1>3
    <3>4. after[b] > -R
      BY <1>1, <1>2, <2>1, <3>1
    <3>5. after[b] = w[b] * (M + 1) - more[b] * R
      <4> DEFINE x == w[b] * M  y == done[b] * R  v == w[b]
      <4>1. x \in Int /\ y \in Int /\ v \in Int /\ before[b] = x - y
        BY <1>2, <2>1, <3>3
      <4>2. after[b] = before[b] + v /\ w[b] * (M + 1) = x + v /\ more[b] * R = y
        BY <2>2, <3>1
      <4> HIDE DEF x, y, v, R
      <4> QED
        BY <1>1, <4>1, <4>2
    <3> QED
      BY <3>4, <3>5
  <2> QED
    BY <2>3, <2>4
<1> QED
  BY <1>4, <1>6 DEF Scored

(* The inductive invariant: the bound on the scores is only kept when it   *)
(* is known of all sets of accounts, and the fairness within a round when  *)
(* the scores are known to follow from the picks.                          *)
RotationTypeOK ==
    /\ weight \in [Listed -> 1..MaxWeight]
    /\ score \in [Listed -> Int]
    /\ picked \in [Listed -> Nat]
    /\ churning \in BOOLEAN

RotationInv ==
    /\ RotationTypeOK
    /\ SumOf(score, Listed) = 0
    /\ Debt(score, weight, Listed)
    /\ ~churning => Scored(score, weight, picked, Listed)

LEMMA RoundTotal == RotationTypeOK => Round = SumOf(weight, Listed)
BY TotalIsSum DEF RotationTypeOK, Round

LEMMA RotationInitial == RotationInit => RotationInv
<1> SUFFICES ASSUME RotationInit
             PROVE  RotationInv
  OBVIOUS
<1>1. RotationTypeOK
  BY DEF RotationInit, RotationTypeOK
<1>2. \A a \in Listed : score[a] = 0 /\ picked[a] = 0
  BY DEF RotationInit
<1>3. \A T \in SUBSET Listed : SumOf(score, T) = 0 /\ SumOf(picked, T) = 0
  <2> TAKE T \in SUBSET Listed
  <2>1. IsFiniteSet(T) /\ \A a \in T : score[a] = 0 /\ picked[a] = 0
    BY <1>2, ListedFinite, FS_Subset
  <2> QED
    BY <2>1, SumZero
<1>4. SumOf(weight, Listed) \in Nat /\ (Listed # {} => SumOf(weight, Listed) > 0)
  BY <1>1, SumsOfWeights DEF RotationTypeOK
<1>5. Debt(score, weight, Listed)
  <2> DEFINE W == SumOf(weight, Listed)
  <2> SUFFICES ASSUME NEW T \in SUBSET Listed
               PROVE  2 * SumOf(score, T)
                        + (Cardinality(T) * (Cardinality(Listed) - Cardinality(T))) * W >= 0
    BY DEF Debt
  <2> DEFINE k == Cardinality(T)  n == Cardinality(Listed)
  <2>1. k \in Nat /\ n \in Nat /\ k <= n
    BY ListedFinite, FS_Subset, FS_CardinalityType
  <2>2. W \in Nat /\ SumOf(score, T) = 0
    BY <1>3, <1>4
  <2> HIDE DEF k, n, W
  <2>3. k * (n - k) >= 0
    BY <2>1
  <2>4. (k * (n - k)) * W >= 0
    BY <2>1, <2>2, <2>3
  <2>5. (k * (n - k)) * W \in Int
    BY <2>1, <2>2
  <2>6. 2 * 0 + (k * (n - k)) * W >= 0
    BY <2>4, <2>5
  <2> QED
    BY <2>2, <2>6 DEF k, n
<1>6. Scored(score, weight, picked, Listed)
  <2>1. \A a \in Listed : weight[a] \in Int
    BY <1>1, RotationAssumption DEF RotationTypeOK
  <2>2. SumOf(picked, Listed) = 0
    BY <1>3
  <2> SUFFICES ASSUME NEW a \in Listed
               PROVE  /\ score[a] = weight[a] * SumOf(picked, Listed)
                                      - picked[a] * SumOf(weight, Listed)
                      /\ score[a] > -SumOf(weight, Listed)
    BY DEF Scored
  <2>3. weight[a] * 0 - 0 * SumOf(weight, Listed) = 0
    BY <1>4, <2>1
  <2> QED
    BY <1>2, <1>4, <2>2, <2>3
<1> QED
  BY <1>1, <1>3, <1>5, <1>6 DEF RotationInv

LEMMA RotationStep == RotationInv /\ RotationNext => RotationInv'
<1> SUFFICES ASSUME RotationInv, NEW candidates \in SUBSET Listed \ {{}},
                    churning \/ candidates = Listed, Pick(candidates)
             PROVE  RotationInv'
  BY DEF RotationNext
<1> DEFINE credited == Credited(score, weight, candidates)
           start == IF Made = Round THEN [a \in Listed |-> 0] ELSE picked
<1>1. PICK a \in candidates : /\ Wins(a, credited, candidates)
                              /\ score' = Charged(a, credited, weight, candidates)
                              /\ picked' = [start EXCEPT ![a] = @ + 1]
                              /\ UNCHANGED <<weight, churning>>
  BY DEF Pick
<1>2. RotationTypeOK
  BY DEF RotationInv
<1>3. \A b \in Listed : /\ weight[b] \in Nat /\ weight[b] \in Int /\ score[b] \in Int
                        /\ EffectiveWeight(weight[b]) = weight[b]
  BY <1>2, RotationAssumption DEF RotationTypeOK, EffectiveWeight
<1>4. credited = [b \in Listed |-> IF b \in candidates THEN score[b] + weight[b]
                                                       ELSE score[b]]
  BY <1>2, <1>3 DEF Credited, RotationTypeOK
<1>5. SumOf(weight, candidates) = TotalWeight(weight, candidates)
      /\ SumOf(weight, candidates) \in Int
  <2>1. IsFiniteSet(candidates) /\ \A b \in candidates : weight[b] \in Int
    BY <1>3, ListedFinite, FS_Subset
  <2> QED
    BY <1>2, <2>1, TotalIsSum, SumType DEF RotationTypeOK
<1>6. score' = [credited EXCEPT ![a] = @ - SumOf(weight, candidates)]
  BY <1>1, <1>5 DEF Charged
<1>7. score' \in [Listed -> Int]
  <2>1. credited \in [Listed -> Int]
    BY <1>3, <1>4
  <2> HIDE DEF credited
  <2> QED
    BY <1>5, <1>6, <2>1
<1>8. PaidBy(a, score, weight, candidates, score', Listed)
  <2>1. \A b \in Listed :
           score'[b] = (score[b] + (IF b \in candidates THEN weight[b] ELSE 0))
                         - (IF b = a THEN SumOf(weight, candidates) ELSE 0)
    <3> TAKE b \in Listed
    <3>1. credited[b] = score[b] + (IF b \in candidates THEN weight[b] ELSE 0)
      BY <1>3, <1>4
    <3>2. score'[b] = IF b = a THEN credited[b] - SumOf(weight, candidates)
                               ELSE credited[b]
      BY <1>4, <1>6
    <3>3. credited[b] \in Int
      BY <1>3, <3>1
    <3> HIDE DEF credited
    <3> QED
      BY <3>1, <3>2, <3>3
  <2>2. weight \in [Listed -> Nat]
    BY <1>2, SumsOfWeights DEF RotationTypeOK
  <2> QED
    BY <1>2, <1>7, <2>1, <2>2 DEF PaidBy, RotationTypeOK
<1>9. \A b \in candidates : score[b] + weight[b] <= score[a] + weight[a]
  <2> TAKE b \in candidates
  <2>1. credited[b] = score[b] + weight[b] /\ credited[a] = score[a] + weight[a]
    BY <1>4
  <2>2. IF b < a THEN credited[b] < credited[a] ELSE credited[b] <= credited[a]
    BY <1>1 DEF Wins
  <2>3. credited[b] \in Int /\ credited[a] \in Int
    BY <1>3, <2>1
  <2> HIDE DEF credited
  <2>4. credited[b] <= credited[a]
    BY <2>2, <2>3
  <2> QED
    BY <2>1, <2>4
<1>10. Debt(score', weight, Listed)
  <2>1. Debt(score, weight, Listed)
    BY DEF RotationInv
  <2> QED
    BY <1>8, <1>9, <2>1, ListedFinite, DebtKept
<1>11. SumOf(score', Listed) = 0
  <2>1. SumsPaid(a, score, weight, candidates, score', Listed)
    BY <1>8, ListedFinite, ChargedSum
  <2>2. SumOf(score', Listed) = SumOf(score, Listed) - SumOf(weight, candidates \ Listed)
    BY <2>1 DEF SumsPaid
  <2>3. candidates \ Listed = {}
    OBVIOUS
  <2> QED
    BY <2>2, <2>3, SumEmpty DEF RotationInv
<1>12. start \in [Listed -> Nat]
  BY <1>2 DEF RotationTypeOK
<1>13. ~churning => Scored(score, weight, start, Listed)
  <2> SUFFICES ASSUME ~churning PROVE Scored(score, weight, start, Listed)
    OBVIOUS
  <2>1. Scored(score, weight, picked, Listed)
    BY DEF RotationInv
  <2>2. CASE Made = Round
    <3>1. \A b \in Listed : score[b] = 0
      BY <1>2, <2>1, <2>2, RoundTotal, RoundExact DEF RotationTypeOK, Made
    <3>2. \A b \in Listed : start[b] = 0
      BY <2>2
    <3> HIDE DEF start
    <3>3. SumOf(start, Listed) = 0
      BY <3>2, ListedFinite, SumZero
    <3>4. SumOf(weight, Listed) \in Nat /\ SumOf(weight, Listed) > 0
      BY <1>2, SumsOfWeights DEF RotationTypeOK
    <3>5. \A b \in Listed : weight[b] * 0 - 0 * SumOf(weight, Listed) = 0
      BY <1>3, <3>4
    <3> SUFFICES ASSUME NEW b \in Listed
                 PROVE  /\ score[b] = weight[b] * SumOf(start, Listed)
                                        - start[b] * SumOf(weight, Listed)
                        /\ score[b] > -SumOf(weight, Listed)
      BY DEF Scored
    <3> QED
      BY <3>1, <3>2, <3>3, <3>4, <3>5
  <2>3. CASE Made # Round
    BY <2>1, <2>3
  <2> QED
    BY <2>2, <2>3
<1>14. ~churning => Scored(score', weight, picked', Listed)
  <2> SUFFICES ASSUME ~churning PROVE Scored(score', weight, picked', Listed)
    OBVIOUS
  <2>1. candidates = Listed /\ Scored(score, weight, start, Listed)
    BY <1>13
  <2>2. picked' = [start EXCEPT ![a] = @ + 1]
    BY <1>1
  <2>3. SumOf(score, Listed) = 0
    BY DEF RotationInv
  <2>4. weight \in [Listed -> 1..MaxWeight]
    BY <1>2 DEF RotationTypeOK
  <2>5. \A b \in Listed : score[b] + weight[b] <= score[a] + weight[a]
    BY <1>9, <2>1
  <2>6. PaidBy(a, score, weight, Listed, score', Listed)
    BY <1>8, <2>1
  <2> HIDE DEF start
  <2> QED
    BY <1>12, <2>1, <2>2, <2>3, <2>4, <2>5, <2>6, ScoredKept
<1>15. RotationTypeOK'
  <2>1. picked' \in [Listed -> Nat]
    <3> HIDE DEF start
    <3> QED
      BY <1>1, <1>12
  <2> QED
    BY <1>1, <1>2, <1>7, <2>1 DEF RotationTypeOK
<1> QED
  BY <1>1, <1>10, <1>11, <1>14, <1>15 DEF RotationInv

LEMMA RotationInvariant == RotationSpec => []RotationInv
<1>1. RotationInv /\ UNCHANGED rotationVars => RotationInv'
  BY DEF RotationInv, RotationTypeOK, rotationVars
<1>2. RotationInv /\ [RotationNext]_rotationVars => RotationInv'
  BY <1>1, RotationStep
<1> QED
  BY <1>2, RotationInitial, PTL DEF RotationSpec

LEMMA BoundFromDebt == RotationInv => ScoresBounded
<1> SUFFICES ASSUME RotationInv, NEW a \in Listed
             PROVE  /\ 2 * score[a] <= (NumListed - 1) * Round
                    /\ -2 * score[a] <= (NumListed - 1) * Round
  BY DEF ScoresBounded, RotationInv
<1> DEFINE n == NumListed  rest == Listed \ {a}  others == SumOf(score, rest)
<1>1. /\ RotationTypeOK /\ Debt(score, weight, Listed) /\ SumOf(score, Listed) = 0
      /\ Round = SumOf(weight, Listed) /\ Round \in Nat
  BY RoundTotal, SumsOfWeights DEF RotationInv, RotationTypeOK
<1>2. \A b \in Listed : score[b] \in Int
  BY <1>1 DEF RotationTypeOK
<1>3. n \in Nat /\ Cardinality(Listed) = n
  BY ListedFinite, RotationAssumption
<1>4. Cardinality({a}) = 1 /\ Cardinality(rest) = n - 1
  BY <1>3, ListedFinite, FS_Singleton, FS_RemoveElement
<1>5. SumOf(score, {a}) = score[a]
  <2>1. SumOf(score, {a}) = score[a] + SumOf(score, {a} \ {a})
    <3>1. IsFiniteSet({a}) /\ a \in {a} /\ \A b \in {a} : score[b] \in Int
      BY <1>2, FS_Singleton
    <3> QED
      BY <3>1, SumRemove
  <2>2. {a} \ {a} = {}
    OBVIOUS
  <2> QED
    BY <1>2, <2>1, <2>2, SumEmpty
<1>6. others \in Int /\ score[a] + others = 0
  <2>1. SumOf(score, Listed) = score[a] + SumOf(score, rest)
    BY <1>2, ListedFinite, SumRemove
  <2>2. IsFiniteSet(rest) /\ \A b \in rest : score[b] \in Int
    BY <1>2, ListedFinite, FS_Subset
  <2>3. others \in Int
    BY <2>2, SumType
  <2> QED
    BY <1>1, <2>1, <2>3
<1>7. /\ 2 * score[a] + (1 * (n - 1)) * Round >= 0
      /\ 2 * others + ((n - 1) * (n - (n - 1))) * Round >= 0
  <2>1. {a} \in SUBSET Listed /\ rest \in SUBSET Listed
    OBVIOUS
  <2> HIDE DEF rest
  <2> QED
    BY <1>1, <1>3, <1>4, <1>5, <2>1 DEF Debt
<1>8. 1 * (n - 1) = n - 1 /\ (n - 1) * (n - (n - 1)) = n - 1
  BY <1>3
<1> DEFINE x == score[a]  B == (n - 1) * Round
<1>9. x \in Int /\ B \in Int
  BY <1>1, <1>2, <1>3
<1>10. 2 * x + B >= 0 /\ 2 * others + B >= 0 /\ x + others = 0
  BY <1>6, <1>7, <1>8
<1> HIDE DEF x, B, others
<1>11. 2 * x <= B /\ -2 * x <= B
  BY <1>6, <1>9, <1>10
<1> QED
  BY <1>11 DEF x, B

LEMMA SharedFromScores == RotationInv => SharedExactly
<1> SUFFICES ASSUME RotationInv, ~churning
             PROVE  /\ \A a \in Listed : picked[a] * Round < weight[a] * Made + Round
                    /\ \A a \in Listed : score[a] = weight[a] * Made - picked[a] * Round
                    /\ Made = Round => \A a \in Listed : picked[a] = weight[a]
  BY DEF SharedExactly
<1>1. RotationTypeOK /\ Scored(score, weight, picked, Listed)
  BY DEF RotationInv
<1>2. Round = SumOf(weight, Listed) /\ Round \in Nat
  BY <1>1, RoundTotal, SumsOfWeights DEF RotationTypeOK
<1>3. \A a \in Listed : picked[a] \in Int /\ weight[a] \in Int
  BY <1>1, RotationAssumption DEF RotationTypeOK
<1>4. Made \in Int
  BY <1>3, ListedFinite, SumType DEF Made
<1>5. \A a \in Listed : /\ score[a] = weight[a] * Made - picked[a] * Round
                        /\ score[a] > -Round
  BY <1>1, <1>2 DEF Scored, Made
<1>6. ASSUME NEW a \in Listed
      PROVE  picked[a] * Round < weight[a] * Made + Round
  <2> DEFINE x == weight[a] * Made  y == picked[a] * Round
  <2>1. x \in Int /\ y \in Int /\ x - y > -Round
    BY <1>2, <1>3, <1>4, <1>5
  <2> HIDE DEF x, y
  <2>2. y < x + Round
    BY <1>2, <2>1
  <2> QED
    BY <2>2 DEF x, y
<1>7. Made = Round => \A a \in Listed : picked[a] = weight[a]
  BY <1>1, <1>2, RoundExact DEF RotationTypeOK, Made
<1> QED
  BY <1>5, <1>6, <1>7

(* The scores stay bounded and the picks fair, for any number of accounts  *)
(* and any weights (pool/account.go:183).                                  *)
THEOREM FairShareHolds == RotationSpec => []FairShare
<1>1. RotationInv => FairShare
  BY BoundFromDebt, SharedFromScores DEF FairShare
<1> QED
  BY <1>1, RotationInvariant, PTL
-----------------------------------------------------------------------------
(* The calls                                                               *)

(* A call that selects has an attempt left, one under way has used an      *)
(* attempt on the account it is sent with.                                 *)
AttemptsCounted ==
    \A r \in Requests :
        LET q == request[r]
        IN /\ q.phase = "select" => Cardinality(q.tried) < MaxAttempts(q.model)
           /\ q.phase = "upstream" => /\ Cardinality(q.tried) <= MaxAttempts(q.model)
                                      /\ q.account \in Accounts

CallsInv == CallsTypeOK /\ AttemptsCounted

LEMMA CallTypes ==
    /\ NotServed \in Calls /\ NotServed.phase = "idle"
    /\ NotServed.tried = {}
BY DEF NotServed, Calls, Asked

LEMMA AttemptsType ==
    ASSUME NEW model \in Asked
    PROVE  MaxAttempts(model) \in Nat \ {0}
BY FailoverAssumption DEF MaxAttempts

LEMMA TriedFinite ==
    ASSUME NEW tried \in SUBSET Accounts
    PROVE  /\ IsFiniteSet(tried) /\ Cardinality(tried) \in Nat
           /\ \A a \in Accounts \ tried :
                  Cardinality(tried \cup {a}) = Cardinality(tried) + 1
BY FailoverAssumption, FS_Subset, FS_CardinalityType, FS_AddElement

(* One call takes a step: what must hold of its new record, and no other.  *)
LEMMA CallStep ==
    ASSUME CallsInv, eligible' \in SUBSET Accounts,
           rejected' \in [Models -> (0..FallbackTime) \cup {NotRejected}],
           NEW r \in Requests, NEW q \in Calls, request' = [request EXCEPT ![r] = q],
           q.phase = "select" => Cardinality(q.tried) < MaxAttempts(q.model),
           q.phase = "upstream" => /\ Cardinality(q.tried) <= MaxAttempts(q.model)
                                   /\ q.account \in Accounts
    PROVE  CallsInv' /\ request'[r] = q /\ \A p \in Requests \ {r} : request'[p] = request[p]
<1>1. /\ request' \in [Requests -> Calls] /\ request'[r] = q
      /\ \A p \in Requests \ {r} : request'[p] = request[p]
  BY DEF CallsInv, CallsTypeOK
<1>2. AttemptsCounted'
  <2> SUFFICES ASSUME NEW p \in Requests
               PROVE  /\ request'[p].phase = "select" =>
                            Cardinality(request'[p].tried) < MaxAttempts(request'[p].model)
                      /\ request'[p].phase = "upstream" =>
                            /\ Cardinality(request'[p].tried) <= MaxAttempts(request'[p].model)
                            /\ request'[p].account \in Accounts
    BY DEF AttemptsCounted
  <2>1. CASE p = r
    BY <1>1, <2>1
  <2>2. CASE p # r
    BY <1>1, <2>2 DEF CallsInv, AttemptsCounted
  <2> QED
    BY <2>1, <2>2
<1> QED
  BY <1>1, <1>2 DEF CallsInv, CallsTypeOK
-----------------------------------------------------------------------------
LEMMA ArriveKeeps ==
    ASSUME CallsInv, NEW r \in Requests, NEW model \in Asked, Arrive(r, model)
    PROVE  CallsInv' /\ request'[r].phase = "select"
                     /\ \A p \in Requests \ {r} : request'[p] = request[p]
<1> DEFINE active == IF model \in Models /\ rejected[model] # NotRejected
                     THEN FallbackModel ELSE model
           q == [NotServed EXCEPT !.phase = "select", !.model = model, !.active = active]
<1>1. active \in Asked
  BY DEF Asked
<1> HIDE DEF active
<1>2. q \in Calls /\ q.phase = "select" /\ q.tried = {} /\ q.model = model
  BY <1>1 DEF NotServed, Calls, Asked
<1>3. Cardinality({}) < MaxAttempts(model)
  BY AttemptsType, FS_EmptySet
<1>4. request' = [request EXCEPT ![r] = q]
  BY DEF Arrive, active
<1>5. /\ eligible' \in SUBSET Accounts
      /\ rejected' \in [Models -> (0..FallbackTime) \cup {NotRejected}]
  BY DEF Arrive, CallsInv, CallsTypeOK
<1> HIDE DEF q
<1> QED
  BY <1>2, <1>3, <1>4, <1>5, CallStep

LEMMA SendKeeps ==
    ASSUME CallsInv, NEW r \in Requests, Send(r)
    PROVE  CallsInv' /\ request'[r].phase = "upstream"
                     /\ \A p \in Requests \ {r} : request'[p] = request[p]
<1>1. PICK a \in Candidates(r) :
          request' = [request EXCEPT ![r] =
              [request[r] EXCEPT !.phase = "upstream", !.sent = request[r].active,
                                 !.account = a, !.tried = request[r].tried \cup {a}]]
  BY Zenon DEF Send
<1> DEFINE q == [request[r] EXCEPT !.phase = "upstream", !.sent = request[r].active,
                                   !.account = a, !.tried = request[r].tried \cup {a}]
<1>2. request[r] \in Calls /\ eligible \in SUBSET Accounts
  BY DEF CallsInv, CallsTypeOK
<1>3. a \in Accounts \ request[r].tried
  BY <1>2 DEF Candidates
<1>4. /\ q \in Calls /\ q.phase = "upstream" /\ q.tried = request[r].tried \cup {a}
      /\ q.model = request[r].model /\ q.account = a
  BY <1>2, <1>3 DEF Calls
<1>5. Cardinality(request[r].tried \cup {a}) <= MaxAttempts(request[r].model)
  <2>1. Cardinality(request[r].tried) < MaxAttempts(request[r].model)
    BY DEF Send, CallsInv, AttemptsCounted
  <2>2. request[r].tried \in SUBSET Accounts /\ request[r].model \in Asked
    BY <1>2 DEF Calls
  <2> QED
    BY <1>3, <2>1, <2>2, TriedFinite, AttemptsType
<1>6. /\ eligible' \in SUBSET Accounts
      /\ rejected' \in [Models -> (0..FallbackTime) \cup {NotRejected}]
  BY DEF Send, CallsInv, CallsTypeOK
<1>7. request' = [request EXCEPT ![r] = q]
  BY <1>1
<1> HIDE DEF q
<1> QED
  BY <1>3, <1>4, <1>5, <1>6, <1>7, CallStep

LEMMA NoneLeftKeeps ==
    ASSUME CallsInv, NEW r \in Requests, NoneLeft(r)
    PROVE  CallsInv' /\ eligible \subseteq request'[r].tried
                     /\ \A p \in Requests \ {r} : request'[p] = request[p]
<1> DEFINE q == [request[r] EXCEPT !.phase = "done"]
<1>1. request[r] \in Calls
  BY DEF CallsInv, CallsTypeOK
<1>2. q \in Calls /\ q.phase = "done" /\ q.tried = request[r].tried
  BY <1>1 DEF Calls
<1>3. request' = [request EXCEPT ![r] = q]
  BY DEF NoneLeft
<1>4. /\ eligible' \in SUBSET Accounts
      /\ rejected' \in [Models -> (0..FallbackTime) \cup {NotRejected}]
  BY DEF NoneLeft, CallsInv, CallsTypeOK
<1>5. eligible \subseteq request[r].tried
  BY DEF NoneLeft, Candidates
<1> HIDE DEF q
<1> QED
  BY <1>2, <1>3, <1>4, <1>5, CallStep

(* An account's failure is passed on only with no attempt left.            *)
LEMMA AnswerKeeps ==
    ASSUME CallsInv, NEW r \in Requests, NEW outcome \in Outcomes, Answer(r, outcome)
    PROVE  /\ CallsInv'
           /\ request'[r].phase = "done" /\ request'[r].last \in Failing \cup {"none"} =>
                  Cardinality(request'[r].tried) = MaxAttempts(request'[r].model)
           /\ \A p \in Requests \ {r} : request'[p] = request[p]
<1> DEFINE old == request[r]
           rewrites == outcome = "invalid_model" /\ FallsBack(r) /\ Rewritable(old.model)
           again == (rewrites \/ FailsOver(outcome))
                        /\ Cardinality(old.tried) < MaxAttempts(old.model)
           q == [old EXCEPT !.phase = IF again THEN "select" ELSE "done",
                            !.active = IF rewrites THEN FallbackModel ELSE old.active,
                            !.last = outcome]
<1>1. old \in Calls /\ old.phase = "upstream"
  BY DEF Answer, CallsInv, CallsTypeOK
<1>2. /\ Cardinality(old.tried) <= MaxAttempts(old.model)
      /\ Cardinality(old.tried) \in Nat /\ MaxAttempts(old.model) \in Nat
  BY <1>1, TriedFinite, AttemptsType DEF CallsInv, AttemptsCounted, Calls
<1>3. request' = [request EXCEPT ![r] = q]
  BY DEF Answer
<1>4. /\ eligible' \in SUBSET Accounts
      /\ rejected' \in [Models -> (0..FallbackTime) \cup {NotRejected}]
  BY FailoverAssumption DEF Answer, Marked, CallsInv, CallsTypeOK
<1>5. FailsOver(outcome) => again \/ Cardinality(old.tried) = MaxAttempts(old.model)
  BY <1>2
<1> HIDE DEF rewrites
<1>6. again => Cardinality(old.tried) < MaxAttempts(old.model)
  OBVIOUS
<1> HIDE DEF again
<1>7. /\ q \in Calls /\ q.phase = (IF again THEN "select" ELSE "done")
      /\ q.tried = old.tried /\ q.model = old.model /\ q.last = outcome
  BY <1>1 DEF Calls, Asked
<1> HIDE DEF q
<1>8. CallsInv' /\ request'[r] = q /\ \A p \in Requests \ {r} : request'[p] = request[p]
  BY <1>3, <1>4, <1>6, <1>7, CallStep
<1>9. outcome \in Failing \cup {"none"} => FailsOver(outcome)
  BY DEF FailsOver, Outcomes, Failing
<1> QED
  BY <1>5, <1>7, <1>8, <1>9

LEMMA ReturnKeeps ==
    ASSUME CallsInv, NEW r \in Requests, Return(r)
    PROVE  CallsInv' /\ request'[r].phase = "idle"
                     /\ \A p \in Requests \ {r} : request'[p] = request[p]
<1>1. /\ eligible' \in SUBSET Accounts
      /\ rejected' \in [Models -> (0..FallbackTime) \cup {NotRejected}]
  BY DEF Return, CallsInv, CallsTypeOK
<1>2. request' = [request EXCEPT ![r] = NotServed]
  BY DEF Return
<1> QED
  BY <1>1, <1>2, CallTypes, CallStep
-----------------------------------------------------------------------------
(* Steps of no request                                                     *)

LEMMA OtherKeeps ==
    ASSUME CallsInv, request' = request, eligible' \in SUBSET Accounts,
           rejected' \in [Models -> (0..FallbackTime) \cup {NotRejected}]
    PROVE  CallsInv'
BY DEF CallsInv, CallsTypeOK, AttemptsCounted

LEMMA PoolKeeps ==
    ASSUME CallsInv,
           \/ \E a \in Accounts : Reload(a) \/ ForceOpenCircuit(a) \/ CloseCircuit(a)
           \/ BreakerSnapshot \/ Tick \/ UNCHANGED failoverVars
    PROVE  CallsInv' /\ request' = request
<1>1. ASSUME NEW a \in Accounts, Reload(a)
      PROVE  CallsInv' /\ request' = request
  <2>1. eligible' \in SUBSET Accounts
    BY <1>1 DEF Reload, CallsInv, CallsTypeOK
  <2> QED
    BY <1>1, <2>1, OtherKeeps DEF Reload, CallsInv, CallsTypeOK
<1>2. ASSUME NEW a \in Accounts, ForceOpenCircuit(a) \/ CloseCircuit(a)
      PROVE  CallsInv' /\ request' = request
  BY <1>2, OtherKeeps DEF ForceOpenCircuit, CloseCircuit, CallsInv, CallsTypeOK
<1>3. CASE BreakerSnapshot
  BY <1>3, OtherKeeps DEF BreakerSnapshot, CallsInv, CallsTypeOK
<1>4. CASE Tick
  <2>1. \A m \in Models : Expires(rejected[m]) \in (0..FallbackTime) \cup {NotRejected}
    BY FailoverAssumption DEF CallsInv, CallsTypeOK, Expires, NotRejected
  <2>2. rejected' \in [Models -> (0..FallbackTime) \cup {NotRejected}]
    BY <1>4, <2>1 DEF Tick
  <2> QED
    BY <1>4, <2>2, OtherKeeps DEF Tick, CallsInv, CallsTypeOK
<1>5. CASE UNCHANGED failoverVars
  BY <1>5, OtherKeeps DEF failoverVars, CallsInv, CallsTypeOK
<1> QED
  BY <1>1, <1>2, <1>3, <1>4, <1>5

LEMMA InitCallsInv == Init => CallsInv
BY CallTypes DEF Init, CallsInv, CallsTypeOK, AttemptsCounted

LEMMA NextCallsInv ==
    ASSUME CallsInv, [Next]_failoverVars
    PROVE  CallsInv'
BY ArriveKeeps, SendKeeps, NoneLeftKeeps, AnswerKeeps, ReturnKeeps, PoolKeeps
   DEF Next, RequestStep, Proceed

(* Every call of proxyWithFailover keeps its shape, tries only accounts of *)
(* the pool, and a mark on a model never lasts longer than the cooldown    *)
(* (handler.go, proxyWithFailover and markGatewayModelFallback).           *)
THEOREM CallsTypeCorrect == Spec => []CallsTypeOK
<1>1. CallsInv => CallsTypeOK
  BY DEF CallsInv
<1> QED
  BY <1>1, InitCallsInv, NextCallsInv, PTL DEF Spec

(* A pick leaves every account of the pool with a whole score, the winner, *)
(* the other candidates, and those whose scores are dropped.               *)
LEMMA PickKeepsScores ==
    ASSUME CallsInv, gatewayWeights \in [Accounts -> Int], NEW r \in Requests, Send(r)
    PROVE  gatewayWeights' \in [Accounts -> Int]
<1> DEFINE C == Candidates(r)
           credited == Credited(gatewayWeights, Weight, C)
<1>1. C \subseteq Accounts /\ IsFiniteSet(C)
  BY FailoverAssumption, FS_Subset DEF Candidates, CallsInv, CallsTypeOK
<1>2. TotalWeight(Weight, C) \in Int
  <2> DEFINE effective == [a \in C |-> EffectiveWeight(Weight[a])]
  <2>1. \A a \in C : effective[a] \in Int
    <3>1. \A w \in Int : EffectiveWeight(w) \in Int
      BY DEF EffectiveWeight, DefaultWeight
    <3>2. \A a \in C : Weight[a] \in Int
      BY <1>1, FailoverAssumption
    <3> HIDE DEF C
    <3> QED
      BY <3>1, <3>2
  <2>2. TotalWeight(Weight, C) = SumOf(effective, C)
    BY DEF TotalWeight
  <2> HIDE DEF effective, C
  <2> QED
    BY <1>1, <2>1, <2>2, SumType
<1>3. credited \in [Accounts -> Int]
  BY <1>1, FailoverAssumption DEF Credited, EffectiveWeight, DefaultWeight
<1>4. PICK a \in C :
          gatewayWeights' = Kept(Charged(a, credited, Weight, C), a, C)
  BY Zenon DEF Send
<1> HIDE DEF C, credited
<1>5. Charged(a, credited, Weight, C) \in [Accounts -> Int]
  BY <1>1, <1>2, <1>3, <1>4 DEF Charged
<1> QED
  BY <1>4, <1>5 DEF Kept

(* The accounts keep running scores, whatever requests pick and however    *)
(* accounts come and go (handler.go, pickSmoothWeightedGateway).           *)
THEOREM GatewayTypeCorrect == Spec => []TypeOK
<1> DEFINE Inv == CallsInv /\ gatewayWeights \in [Accounts -> Int]
<1>1. Init => Inv
  BY InitCallsInv DEF Init
<1>2. ASSUME Inv, [Next]_failoverVars
      PROVE  Inv'
  <2>1. CallsInv'
    BY <1>2, NextCallsInv
  <2>2. ASSUME NEW r \in Requests, Send(r)
        PROVE  gatewayWeights' \in [Accounts -> Int]
    BY <1>2, <2>2, PickKeepsScores
  <2>3. ASSUME NEW r \in Requests, NEW outcome \in Outcomes, Answer(r, outcome)
        PROVE  gatewayWeights' = gatewayWeights
    BY <2>3 DEF Answer
  <2>4. ASSUME NEW r \in Requests,
               \/ NoneLeft(r) \/ Return(r)
               \/ \E model \in Asked : Arrive(r, model)
        PROVE  gatewayWeights' = gatewayWeights
    BY <2>4 DEF NoneLeft, Return, Arrive
  <2>5. ASSUME \/ \E a \in Accounts : Reload(a) \/ ForceOpenCircuit(a) \/ CloseCircuit(a)
               \/ BreakerSnapshot \/ Tick \/ UNCHANGED failoverVars
        PROVE  gatewayWeights' = gatewayWeights
    BY <2>5 DEF Reload, ForceOpenCircuit, CloseCircuit, BreakerSnapshot, Tick, failoverVars
  <2> QED
    BY <1>2, <2>1, <2>2, <2>3, <2>4, <2>5 DEF Next, RequestStep, Proceed
<1>3. Inv => TypeOK
  BY DEF CallsInv, TypeOK
<1> HIDE DEF Inv
<1> QED
  BY <1>1, <1>2, <1>3, PTL DEF Spec

(* A client is passed an account's failure, or told that none is           *)
(* available, only after its attempts are used up or every account that    *)
(* could serve it has been tried for it, however requests, reloads and     *)
(* rejected models interleave (handler.go, proxyWithFailover).             *)
THEOREM ClientsFailedExhausted == Spec => FailsOnlyExhausted
<1>1. ASSUME CallsInv, [Next]_failoverVars
      PROVE  [FailsExhausted]_failoverVars
  <2> SUFFICES ASSUME NEW p \in Requests, request[p].phase # "done",
                      request'[p].phase = "done",
                      request'[p].last \in Failing \cup {"none"}
               PROVE  \/ Cardinality(request'[p].tried) = MaxAttempts(request'[p].model)
                      \/ eligible \subseteq request'[p].tried
    BY <1>1 DEF FailsExhausted, CallsInv, CallsTypeOK
  <2>1. ASSUME NEW r \in Requests, NEW model \in Asked, Arrive(r, model)
        PROVE  FALSE
    BY <1>1, <2>1, ArriveKeeps
  <2>2. ASSUME NEW r \in Requests, Send(r)
        PROVE  FALSE
    BY <1>1, <2>2, SendKeeps
  <2>3. ASSUME NEW r \in Requests, NoneLeft(r)
        PROVE  eligible \subseteq request'[p].tried
    BY <1>1, <2>3, NoneLeftKeeps
  <2>4. ASSUME NEW r \in Requests, NEW outcome \in Outcomes, Answer(r, outcome)
        PROVE  Cardinality(request'[p].tried) = MaxAttempts(request'[p].model)
    BY <1>1, <2>4, AnswerKeeps
  <2>5. ASSUME NEW r \in Requests, Return(r)
        PROVE  FALSE
    BY <1>1, <2>5, ReturnKeeps
  <2>6. request' # request
    OBVIOUS
  <2> QED
    BY <1>1, <2>1, <2>2, <2>3, <2>4, <2>5, <2>6, PoolKeeps
       DEF Next, RequestStep, Proceed
<1> QED
  BY <1>1, InitCallsInv, NextCallsInv, PTL DEF Spec, FailsOnlyExhausted
=============================================================================
