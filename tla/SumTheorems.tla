------------------------------ MODULE SumTheorems ------------------------------
(***************************************************************************)
(* Sums of integers over a finite set, as counters are added up over       *)
(* replicas and requests and values over the points of a chart, and the    *)
(* least number principle on which they rest: the facts that               *)
(* FoldFunctionOnSet, a recursive function, has whatever the set and the   *)
(* order of its elements.                                                  *)
(***************************************************************************)
EXTENDS Integers, Functions, FiniteSetTheorems, TLAPS

SumOn(f, S) == FoldFunctionOnSet(LAMBDA a, b : a + b, 0, f, S)

-----------------------------------------------------------------------------
(* A non-empty set of natural numbers has a least element.                 *)
LEMMA LeastNat ==
    ASSUME NEW T \in SUBSET Nat, T # {}
    PROVE  \E x \in T : \A y \in T : x <= y
<1>1. \E x \in T : \A y \in T : ~ (<<y, x>> \in OpToRel(<, Nat))
  BY NatLessThanWellFounded, WFMin
<1>2. OpToRel(<, Nat) = {ss \in Nat \X Nat : ss[1] < ss[2]}
  BY DEF OpToRel
<1>3. PICK x \in T : \A y \in T : ~ (<<y, x>> \in {ss \in Nat \X Nat : ss[1] < ss[2]})
  BY <1>1, <1>2, Zenon
<1>4. ASSUME NEW y \in T PROVE x <= y
  <2>1. x \in Nat /\ y \in Nat
    OBVIOUS
  <2>2. ~ (<<y, x>> \in {ss \in Nat \X Nat : ss[1] < ss[2]})
    BY <1>3
  <2>3. ~ (y < x)
    BY <2>1, <2>2
  <2>4. QED
    BY <2>1, <2>2, <2>3
<1>5. QED
  BY <1>4

(* Induction, as a statement about sets of natural numbers.                *)
LEMMA NatSets ==
    ASSUME NEW S \in SUBSET Nat, 0 \in S, \A n \in S : n + 1 \in S
    PROVE  S = Nat
<1> SUFFICES ASSUME Nat \ S # {} PROVE FALSE
  OBVIOUS
<1>1. PICK x \in Nat \ S : \A y \in Nat \ S : x <= y
  BY LeastNat
<1>2. x # 0 /\ x - 1 \in Nat /\ x - 1 < x
  BY <1>1
<1>3. x - 1 \in S
  BY <1>1, <1>2
<1>4. (x - 1) + 1 \in S
  BY <1>3
<1>5. QED
  BY <1>1, <1>4

(* Among subsets of a finite set there is one with the fewest elements.    *)
LEMMA SmallestSet ==
    ASSUME NEW S, IsFiniteSet(S), NEW F \in SUBSET SUBSET S, F # {}
    PROVE  \E T \in F : \A U \in F : Cardinality(T) <= Cardinality(U)
<1> DEFINE sizes == {Cardinality(T) : T \in F}
<1>1. \A T \in F : Cardinality(T) \in Nat
  BY FS_Subset, FS_CardinalityType
<1>2. sizes \in SUBSET Nat /\ sizes # {}
  BY <1>1
<1> HIDE DEF sizes
<1>3. PICK n \in sizes : \A m \in sizes : n <= m
  BY <1>2, LeastNat
<1>4. QED
  BY <1>3 DEF sizes

-----------------------------------------------------------------------------
(* g adds f up over every subset of S, whichever element comes last.       *)
IsSum(g, f, S) ==
    /\ g \in [SUBSET S -> Int]
    /\ g[{}] = 0
    /\ \A s \in SUBSET S : \A x \in s : g[s] = g[s \ {x}] + f[x]

(* A set of which f can be added up may grow by an element.                *)
LEMMA SumGrows ==
    ASSUME NEW f, NEW T, NEW x \in T, \A y \in T : f[y] \in Int, NEW g, IsSum(g, f, T \ {x})
    PROVE  \E h : IsSum(h, f, T)
<1> DEFINE h == [s \in SUBSET T |-> IF x \in s THEN g[s \ {x}] + f[x] ELSE g[s]]
<1>1. \A s \in SUBSET T : s \ {x} \in SUBSET (T \ {x})
  OBVIOUS
<1>2. \A s \in SUBSET T : x \notin s => s \in SUBSET (T \ {x})
  OBVIOUS
<1>3. \A s \in SUBSET T : g[s \ {x}] \in Int /\ (x \notin s => g[s] \in Int)
  BY <1>1, <1>2 DEF IsSum
<1>4. h \in [SUBSET T -> Int]
  <2>1. \A s \in SUBSET T : (IF x \in s THEN g[s \ {x}] + f[x] ELSE g[s]) \in Int
    BY <1>3
  <2>2. QED
    BY <2>1
<1>5. h[{}] = 0
  BY DEF IsSum
<1>6. ASSUME NEW s \in SUBSET T, NEW y \in s PROVE h[s] = h[s \ {y}] + f[y]
  <2>1. CASE y = x
    <3>1. h[s] = g[s \ {x}] + f[x]
      BY <2>1
    <3>2. h[s \ {y}] = g[s \ {x}]
      BY <2>1
    <3>3. QED
      BY <2>1, <3>1, <3>2
  <2>2. CASE y # x /\ x \notin s
    <3>1. h[s] = g[s] /\ h[s \ {y}] = g[s \ {y}]
      BY <2>2
    <3>2. QED
      BY <1>2, <2>2, <3>1 DEF IsSum
  <2>3. CASE y # x /\ x \in s
    <3>1. h[s] = g[s \ {x}] + f[x]
      BY <2>3
    <3>2. s \ {y} \in SUBSET T /\ x \in s \ {y}
      BY <2>3
    <3>3. PICK rest : rest = (s \ {x}) \ {y}
      OBVIOUS
    <3>4. (s \ {y}) \ {x} = rest
      BY <3>3
    <3>5. h[s \ {y}] = g[rest] + f[x]
      BY <3>2, <3>4
    <3>6. g[s \ {x}] = g[rest] + f[y]
      BY <1>1, <2>3, <3>3 DEF IsSum
    <3>7. g[s \ {x}] \in Int /\ g[rest] \in Int
      BY <1>1, <3>3 DEF IsSum
    <3>8. f[x] \in Int /\ f[y] \in Int
      OBVIOUS
    <3> HIDE DEF h
    <3>9. QED
      BY <3>1, <3>5, <3>6, <3>7, <3>8
  <2>4. QED
    BY <2>1, <2>2, <2>3
<1> HIDE DEF h
<1>7. IsSum(h, f, T)
  <2>1. \A s \in SUBSET T : \A y \in s : h[s] = h[s \ {y}] + f[y]
    BY <1>6
  <2>2. QED
    BY <1>4, <1>5, <2>1, Zenon DEF IsSum
<1>8. QED
  BY <1>7

(* Integers can be added up over every finite set.                         *)
LEMMA SumExists ==
    ASSUME NEW f, NEW S, IsFiniteSet(S), \A x \in S : f[x] \in Int
    PROVE  \E g : IsSum(g, f, S)
<1> DEFINE without == {T \in SUBSET S : ~ \E g : IsSum(g, f, T)}
<1>1. SUFFICES ASSUME without # {} PROVE FALSE
  OBVIOUS
<1>2. PICK T \in without : \A U \in without : Cardinality(T) <= Cardinality(U)
  BY <1>1, SmallestSet
<1>3. T \in SUBSET S /\ ~ \E g : IsSum(g, f, T)
  OBVIOUS
<1>4. ASSUME T = {} PROVE FALSE
  <2> DEFINE zero == [s \in SUBSET T |-> 0]
  <2>1. IsSum(zero, f, T)
    BY <1>4 DEF IsSum
  <2>2. QED
    BY <1>3, <2>1
<1>5. PICK x \in T : TRUE
  BY <1>4
<1>6. IsFiniteSet(T)
  BY <1>3, FS_Subset
<1>7. Cardinality(T \ {x}) = Cardinality(T) - 1 /\ Cardinality(T) \in Nat
  BY <1>5, <1>6, FS_RemoveElement, FS_CardinalityType
<1>8. T \ {x} \notin without
  BY <1>2, <1>7
<1>9. PICK g : IsSum(g, f, T \ {x})
  BY <1>3, <1>8
<1>10. QED
  BY <1>3, <1>5, <1>9, SumGrows

(* What adds f up over a set adds it up over each of its subsets.          *)
LEMMA SumOfSubset ==
    ASSUME NEW f, NEW g, NEW S, IsSum(g, f, S), NEW T \in SUBSET S
    PROVE  IsSum([s \in SUBSET T |-> g[s]], f, T)
  BY DEF IsSum

(* The fold over a finite set is such a sum.                               *)
LEMMA SumIs ==
    ASSUME NEW f, NEW g, NEW S, IsFiniteSet(S), \A y \in S : f[y] \in Int, IsSum(g, f, S)
    PROVE  SumOn(f, S) = g[S]
<1> DEFINE last(s) == CHOOSE x \in s : TRUE
           sums(i) == i = [s \in SUBSET S |-> IF s = {} THEN 0
                                              ELSE f[last(s)] + i[s \ {last(s)}]]
           iter == CHOOSE i : sums(i)
<1>1. \A s \in SUBSET S : s # {} => last(s) \in s
  OBVIOUS
<1>2. sums(g)
  <2>1. \A s \in SUBSET S : s # {} =>
          /\ g[s] = g[s \ {last(s)}] + f[last(s)]
          /\ g[s \ {last(s)}] \in Int /\ f[last(s)] \in Int
    BY <1>1 DEF IsSum
  <2> HIDE DEF last, iter
  <2>2. \A s \in SUBSET S : g[s] = IF s = {} THEN 0 ELSE f[last(s)] + g[s \ {last(s)}]
    <3>1. ASSUME NEW s \in SUBSET S, s # {} PROVE g[s] = f[last(s)] + g[s \ {last(s)}]
      <4>1. PICK l : l = last(s)
        OBVIOUS
      <4>2. g[s] = g[s \ {l}] + f[l] /\ g[s \ {l}] \in Int /\ f[l] \in Int
        BY <2>1, <3>1, <4>1
      <4>3. g[s] = f[l] + g[s \ {l}]
        BY <4>2
      <4>4. QED
        BY <4>1, <4>3
    <3>2. g[{}] = 0
      BY DEF IsSum
    <3>3. QED
      BY <3>1, <3>2
  <2>3. g = [s \in SUBSET S |-> g[s]]
    BY DEF IsSum
  <2>4. QED
    BY <2>2, <2>3
<1>3. SumOn(f, S) = iter[S]
  BY DEF SumOn, FoldFunctionOnSet, MapThenFoldSet
<1> HIDE DEF sums
<1>4. sums(iter)
  BY <1>2
<1> HIDE DEF iter
<1> DEFINE differ == {s \in SUBSET S : iter[s] # g[s]}
<1>5. ASSUME differ # {} PROVE FALSE
  <2>1. PICK s \in differ : \A u \in differ : Cardinality(s) <= Cardinality(u)
    BY <1>5, SmallestSet
  <2>2. s # {}
    BY <1>4, <2>1 DEF sums, IsSum
  <2>3. last(s) \in s
    BY <1>1, <2>1, <2>2
  <2> HIDE DEF last
  <2>4. IsFiniteSet(s)
    BY <2>1, FS_Subset
  <2>5. Cardinality(s \ {last(s)}) = Cardinality(s) - 1 /\ Cardinality(s) \in Nat
    BY <2>3, <2>4, FS_RemoveElement, FS_CardinalityType
  <2>6. iter[s \ {last(s)}] = g[s \ {last(s)}]
    BY <2>1, <2>5
  <2>7. iter[s] = f[last(s)] + iter[s \ {last(s)}]
    BY <1>4, <2>1, <2>2 DEF sums
  <2>8. g[s] = f[last(s)] + g[s \ {last(s)}]
    BY <1>2, <2>1, <2>2 DEF sums
  <2>9. QED
    BY <2>1, <2>6, <2>7, <2>8
<1>6. QED
  BY <1>3, <1>5

-----------------------------------------------------------------------------
(* The sum of nothing.                                                     *)
LEMMA SumEmpty == \A f : SumOn(f, {}) = 0
<1> SUFFICES ASSUME NEW f PROVE SumOn(f, {}) = 0
  OBVIOUS
<1>1. PICK g : IsSum(g, f, {})
  BY SumExists, FS_EmptySet
<1>2. QED
  BY <1>1, SumIs, FS_EmptySet DEF IsSum

(* The sum over a set is the sum over the rest and any one element.        *)
LEMMA SumSplit ==
    ASSUME NEW f, NEW S, IsFiniteSet(S), \A y \in S : f[y] \in Int, NEW x \in S
    PROVE  /\ SumOn(f, S) \in Int
           /\ SumOn(f, S \ {x}) \in Int
           /\ SumOn(f, S) = SumOn(f, S \ {x}) + f[x]
<1>1. PICK g : IsSum(g, f, S)
  BY SumExists
<1>2. SumOn(f, S) = g[S]
  BY <1>1, SumIs
<1>3. IsFiniteSet(S \ {x})
  BY FS_RemoveElement
<1> DEFINE T == S \ {x}
           h == [s \in SUBSET T |-> g[s]]
<1>4. IsSum(h, f, T)
  BY <1>1, SumOfSubset
<1> HIDE DEF h
<1>5. SumOn(f, T) = h[T]
  BY <1>3, <1>4, SumIs
<1>6. h[T] = g[T]
  BY DEF h
<1>7. g[S] \in Int /\ g[T] \in Int /\ g[S] = g[T] + f[x]
  BY <1>1 DEF IsSum
<1>8. QED
  BY <1>2, <1>5, <1>6, <1>7

(* A sum of integers is one.                                               *)
LEMMA SumType ==
    ASSUME NEW f, NEW S, IsFiniteSet(S), \A y \in S : f[y] \in Int
    PROVE  SumOn(f, S) \in Int
<1>1. CASE S = {}
  BY <1>1, SumEmpty
<1>2. CASE S # {}
  BY <1>2, SumSplit
<1>3. QED
  BY <1>1, <1>2

(* Functions that agree on a set have the same sum over it.                *)
LEMMA SumSame ==
    ASSUME NEW f, NEW h, NEW S, IsFiniteSet(S), \A y \in S : f[y] \in Int /\ h[y] = f[y]
    PROVE  SumOn(h, S) = SumOn(f, S)
<1>1. PICK g : IsSum(g, f, S)
  BY SumExists
<1>2. IsSum(g, h, S)
  BY <1>1 DEF IsSum
<1>3. QED
  BY <1>1, <1>2, SumIs

(* When one element changes, the sum changes as much.                      *)
LEMMA SumChanges ==
    ASSUME NEW f, NEW h, NEW S, IsFiniteSet(S), NEW x \in S,
           \A y \in S : f[y] \in Int, h[x] \in Int, \A y \in S \ {x} : h[y] = f[y]
    PROVE  /\ SumOn(f, S) \in Int /\ SumOn(h, S) \in Int
           /\ SumOn(h, S) + f[x] = SumOn(f, S) + h[x]
<1>1. \A y \in S : h[y] \in Int
  OBVIOUS
<1>2. /\ SumOn(f, S) \in Int /\ SumOn(f, S \ {x}) \in Int
      /\ SumOn(f, S) = SumOn(f, S \ {x}) + f[x]
  BY SumSplit
<1>3. /\ SumOn(h, S) \in Int /\ SumOn(h, S \ {x}) \in Int
      /\ SumOn(h, S) = SumOn(h, S \ {x}) + h[x]
  BY <1>1, SumSplit
<1>4. SumOn(h, S \ {x}) = SumOn(f, S \ {x})
  <2>1. IsFiniteSet(S \ {x})
    BY FS_RemoveElement
  <2>2. QED
    BY <2>1, SumSame
<1>5. QED
  BY <1>2, <1>3, <1>4

(* A sum of zeros is zero.                                                 *)
LEMMA SumZero ==
    ASSUME NEW f, NEW S, IsFiniteSet(S), \A y \in S : f[y] = 0
    PROVE  SumOn(f, S) = 0
<1> DEFINE zero == [s \in SUBSET S |-> 0]
<1>1. IsSum(zero, f, S)
  BY DEF IsSum
<1>2. SumOn(f, S) = zero[S]
  <2> HIDE DEF zero
  <2>1. QED
    BY <1>1, SumIs
<1>3. QED
  BY <1>2

(* Elements that add nothing may be left out.                              *)
LEMMA SumDrops ==
    ASSUME NEW f, NEW S, IsFiniteSet(S), NEW T \in SUBSET S,
           \A y \in S : f[y] \in Int, \A y \in S \ T : f[y] = 0
    PROVE  SumOn(f, T) = SumOn(f, S)
<1>1. PICK g : IsSum(g, f, S)
  BY SumExists
<1> DEFINE differ == {U \in SUBSET S : T \subseteq U /\ g[U] # g[T]}
<1>2. ASSUME differ # {} PROVE FALSE
  <2>1. PICK U \in differ : \A V \in differ : Cardinality(U) <= Cardinality(V)
    BY <1>2, SmallestSet
  <2>2. U \in SUBSET S /\ T \subseteq U /\ g[U] # g[T]
    BY <2>1
  <2>3. PICK x \in U : x \notin T
    <3>1. U # T
      BY <2>2
    <3>2. QED
      BY <2>2, <3>1
  <2>4. IsFiniteSet(U)
    BY <2>2, FS_Subset
  <2>5. /\ Cardinality(U) \in Nat /\ Cardinality(U \ {x}) = Cardinality(U) - 1
    BY <2>3, <2>4, FS_CardinalityType, FS_RemoveElement
  <2>6. g[U] = g[U \ {x}] + 0 /\ g[U \ {x}] \in Int
    BY <1>1, <2>2, <2>3 DEF IsSum
  <2>7. U \ {x} \in differ
    BY <2>2, <2>3, <2>6
  <2>8. QED
    BY <2>1, <2>5, <2>7
<1>3. g[S] = g[T]
  BY <1>2
<1>4. IsFiniteSet(T)
  BY FS_Subset
<1> DEFINE h == [s \in SUBSET T |-> g[s]]
<1>5. IsSum(h, f, T) /\ h[T] = g[T]
  BY <1>1, SumOfSubset
<1> HIDE DEF h
<1>6. QED
  BY <1>1, <1>3, <1>4, <1>5, SumIs

-----------------------------------------------------------------------------
(* What holds of nothing and of every further summand holds of a sum.      *)
LEMMA SumWithin ==
    ASSUME NEW f, NEW S, IsFiniteSet(S), \A y \in S : f[y] \in Int,
           NEW G \in SUBSET Int, 0 \in G, \A n \in G, x \in S : n + f[x] \in G
    PROVE  SumOn(f, S) \in G
<1>1. PICK g : IsSum(g, f, S)
  BY SumExists
<1> DEFINE out == {T \in SUBSET S : g[T] \notin G}
<1>2. ASSUME out # {} PROVE FALSE
  <2>1. PICK T \in out : \A U \in out : Cardinality(T) <= Cardinality(U)
    BY <1>2, SmallestSet
  <2>2. T \in SUBSET S /\ g[T] \notin G
    BY <2>1
  <2>3. PICK x \in T : TRUE
    BY <1>1, <2>2 DEF IsSum
  <2>4. IsFiniteSet(T)
    BY <2>2, FS_Subset
  <2>5. Cardinality(T) \in Nat /\ Cardinality(T \ {x}) = Cardinality(T) - 1
    BY <2>3, <2>4, FS_CardinalityType, FS_RemoveElement
  <2>6. T \ {x} \notin out /\ T \ {x} \in SUBSET S
    BY <2>1, <2>2, <2>5
  <2>7. g[T \ {x}] \in G /\ g[T] = g[T \ {x}] + f[x] /\ x \in S
    BY <1>1, <2>2, <2>3, <2>6 DEF IsSum
  <2>8. QED
    BY <2>2, <2>7
<1>3. SumOn(f, S) = g[S] /\ g[S] \in G
  BY <1>1, <1>2, SumIs
<1>4. QED
  BY <1>3

(* A sum of natural numbers is one.                                        *)
LEMMA SumNat ==
    ASSUME NEW f, NEW S, IsFiniteSet(S), \A y \in S : f[y] \in Nat
    PROVE  SumOn(f, S) \in Nat
<1>1. \A n \in Nat, x \in S : n + f[x] \in Nat
  OBVIOUS
<1>2. Nat \in SUBSET Int /\ 0 \in Nat /\ \A y \in S : f[y] \in Int
  OBVIOUS
<1>3. QED
  BY <1>1, <1>2, SumWithin

(* Two functions are added up together or one after the other.             *)
LEMMA SumAdds ==
    ASSUME NEW f, NEW d, NEW h, NEW S, IsFiniteSet(S),
           \A y \in S : f[y] \in Int /\ d[y] \in Int /\ h[y] = f[y] + d[y]
    PROVE  SumOn(h, S) = SumOn(f, S) + SumOn(d, S)
<1>1. PICK g : IsSum(g, f, S)
  BY SumExists
<1>2. PICK e : IsSum(e, d, S)
  BY SumExists
<1> DEFINE both == [s \in SUBSET S |-> g[s] + e[s]]
<1>3. IsSum(both, h, S)
  <2>1. \A s \in SUBSET S : g[s] \in Int /\ e[s] \in Int
    BY <1>1, <1>2 DEF IsSum
  <2>2. both \in [SUBSET S -> Int] /\ both[{}] = 0
    BY <1>1, <1>2, <2>1 DEF IsSum
  <2>3. ASSUME NEW s \in SUBSET S, NEW x \in s PROVE both[s] = both[s \ {x}] + h[x]
    <3>1. g[s] = g[s \ {x}] + f[x] /\ e[s] = e[s \ {x}] + d[x] /\ s \ {x} \in SUBSET S
      BY <1>1, <1>2 DEF IsSum
    <3>2. both[s] = g[s] + e[s] /\ both[s \ {x}] = g[s \ {x}] + e[s \ {x}]
      BY <3>1
    <3>3. /\ g[s \ {x}] \in Int /\ e[s \ {x}] \in Int
          /\ f[x] \in Int /\ d[x] \in Int /\ h[x] = f[x] + d[x]
      BY <2>1, <3>1
    <3> HIDE DEF both
    <3>4. QED
      BY <3>1, <3>2, <3>3
  <2> HIDE DEF both
  <2>4. QED
    BY <2>2, <2>3, Zenon DEF IsSum
<1>4. \A y \in S : h[y] \in Int
  OBVIOUS
<1>5. SumOn(f, S) = g[S] /\ SumOn(d, S) = e[S] /\ both[S] = g[S] + e[S]
  BY <1>1, <1>2, SumIs
<1> HIDE DEF both
<1>6. QED
  BY <1>3, <1>4, <1>5, SumIs

(* The larger the summands, the larger the sum.                            *)
LEMMA SumMonotone ==
    ASSUME NEW f, NEW h, NEW S, IsFiniteSet(S),
           \A y \in S : f[y] \in Int /\ h[y] \in Int /\ f[y] <= h[y]
    PROVE  /\ SumOn(f, S) \in Int /\ SumOn(h, S) \in Int
           /\ SumOn(f, S) <= SumOn(h, S)
<1> DEFINE d == [y \in S |-> h[y] - f[y]]
<1>1. \A y \in S : d[y] \in Nat /\ d[y] \in Int /\ h[y] = f[y] + d[y]
  OBVIOUS
<1> HIDE DEF d
<1>2. SumOn(d, S) \in Nat
  BY <1>1, SumNat
<1>3. SumOn(h, S) = SumOn(f, S) + SumOn(d, S)
  BY <1>1, SumAdds
<1>4. SumOn(f, S) \in Int
  BY SumType
<1>5. QED
  BY <1>2, <1>3, <1>4

(* A common factor may be taken out of a sum.                              *)
LEMMA SumScaled ==
    ASSUME NEW f, NEW h, NEW c \in Int, NEW S, IsFiniteSet(S),
           \A y \in S : f[y] \in Int /\ h[y] = f[y] * c
    PROVE  SumOn(h, S) = SumOn(f, S) * c
<1>1. PICK g : IsSum(g, f, S)
  BY SumExists
<1> DEFINE scaled == [s \in SUBSET S |-> g[s] * c]
<1>2. \A a, b \in Int : (a + b) * c = a * c + b * c /\ a * c \in Int
  OBVIOUS
<1>3. IsSum(scaled, h, S)
  <2>1. \A s \in SUBSET S : g[s] \in Int /\ g[s] * c \in Int
    BY <1>1, <1>2 DEF IsSum
  <2>2. scaled \in [SUBSET S -> Int] /\ scaled[{}] = 0
    BY <1>1, <2>1 DEF IsSum
  <2>3. ASSUME NEW s \in SUBSET S, NEW x \in s PROVE scaled[s] = scaled[s \ {x}] + h[x]
    <3>1. g[s] = g[s \ {x}] + f[x] /\ s \ {x} \in SUBSET S
      BY <1>1 DEF IsSum
    <3>2. scaled[s] = g[s] * c /\ scaled[s \ {x}] = g[s \ {x}] * c
      BY <3>1
    <3>3. g[s \ {x}] \in Int /\ f[x] \in Int /\ h[x] = f[x] * c
      BY <2>1, <3>1
    <3>4. (g[s \ {x}] + f[x]) * c = g[s \ {x}] * c + f[x] * c
      BY <1>2, <3>3
    <3> HIDE DEF scaled
    <3>5. QED
      BY <3>1, <3>2, <3>3, <3>4
  <2> HIDE DEF scaled
  <2>4. QED
    BY <2>2, <2>3, Zenon DEF IsSum
<1>4. \A y \in S : h[y] \in Int
  BY <1>2
<1>5. SumOn(f, S) = g[S] /\ scaled[S] = g[S] * c
  BY <1>1, SumIs
<1> HIDE DEF scaled
<1>6. QED
  BY <1>3, <1>4, <1>5, SumIs

(* Counting is adding ones.                                                *)
LEMMA SumOnes ==
    ASSUME NEW f, NEW S, IsFiniteSet(S), \A y \in S : f[y] = 1
    PROVE  SumOn(f, S) = Cardinality(S)
<1> DEFINE sizes == [s \in SUBSET S |-> Cardinality(s)]
<1>1. IsSum(sizes, f, S)
  <2>1. \A s \in SUBSET S : IsFiniteSet(s) /\ Cardinality(s) \in Nat
    BY FS_Subset, FS_CardinalityType
  <2>2. sizes \in [SUBSET S -> Int] /\ sizes[{}] = 0
    BY <2>1, FS_EmptySet
  <2>3. ASSUME NEW s \in SUBSET S, NEW x \in s PROVE sizes[s] = sizes[s \ {x}] + f[x]
    <3>1. Cardinality(s \ {x}) = Cardinality(s) - 1 /\ Cardinality(s) \in Nat
      BY <2>1, FS_RemoveElement
    <3>2. sizes[s] = Cardinality(s) /\ sizes[s \ {x}] = Cardinality(s \ {x}) /\ f[x] = 1
      OBVIOUS
    <3> HIDE DEF sizes
    <3>3. QED
      BY <3>1, <3>2
  <2> HIDE DEF sizes
  <2>4. QED
    BY <2>2, <2>3, Zenon DEF IsSum
<1>2. sizes[S] = Cardinality(S) /\ \A y \in S : f[y] \in Int
  OBVIOUS
<1> HIDE DEF sizes
<1>3. QED
  BY <1>1, <1>2, SumIs

\* The elements of S that k puts into group b.
GroupOf(S, k, b) == {y \in S : k[y] = b}

(* A sum may be taken group by group.                                      *)
LEMMA SumGroups ==
    ASSUME NEW f, NEW S, IsFiniteSet(S), \A y \in S : f[y] \in Int,
           NEW K, IsFiniteSet(K), NEW k, \A y \in S : k[y] \in K,
           NEW group, \A b \in K : group[b] = SumOn(f, GroupOf(S, k, b))
    PROVE  SumOn(group, K) = SumOn(f, S)
<1> DEFINE of(T) == [b \in K |-> SumOn(f, {y \in T : k[y] = b})]
           differ == {T \in SUBSET S : SumOn(of(T), K) # SumOn(f, T)}
<1>1. ASSUME differ # {} PROVE FALSE
  <2>1. PICK T \in differ : \A U \in differ : Cardinality(T) <= Cardinality(U)
    BY <1>1, SmallestSet
  <2>2. T \in SUBSET S /\ SumOn(of(T), K) # SumOn(f, T)
    BY <2>1
  <2>3. T # {}
    <3>1. SUFFICES ASSUME T = {} PROVE FALSE
      OBVIOUS
    <3>2. \A b \in K : of(T)[b] = 0
      <4>1. \A b \in K : {y \in T : k[y] = b} = {}
        BY <3>1
      <4>2. QED
        BY <4>1, SumEmpty
    <3> HIDE DEF of
    <3>3. SumOn(of(T), K) = 0
      BY <3>2, SumZero
    <3>4. QED
      BY <2>2, <3>1, <3>3, SumEmpty
  <2>4. PICK x \in T : TRUE
    BY <2>3
  <2>5. IsFiniteSet(T) /\ \A y \in T : f[y] \in Int
    BY <2>2, FS_Subset
  <2>6. Cardinality(T) \in Nat /\ Cardinality(T \ {x}) = Cardinality(T) - 1
    BY <2>4, <2>5, FS_CardinalityType, FS_RemoveElement
  <2> DEFINE R == T \ {x}
             old == of(R)
             new == of(T)
  <2>7. SumOn(old, K) = SumOn(f, R)
    BY <2>1, <2>2, <2>6
  <2>8. /\ SumOn(f, R) \in Int /\ SumOn(f, T) = SumOn(f, R) + f[x] /\ f[x] \in Int
    BY <2>4, <2>5, SumSplit
  <2>9. k[x] \in K
    BY <2>2, <2>4
  <2>10. \A b \in K : old[b] \in Int
    <3>1. ASSUME NEW b \in K PROVE SumOn(f, {y \in R : k[y] = b}) \in Int
      <4>1. IsFiniteSet({y \in R : k[y] = b}) /\ \A y \in {z \in R : k[z] = b} : f[y] \in Int
        BY <2>5, FS_Subset
      <4>2. QED
        BY <4>1, SumType
    <3>2. QED
      BY <3>1
  <2>11. \A b \in K \ {k[x]} : new[b] = old[b]
    <3>1. \A b \in K \ {k[x]} : {y \in T : k[y] = b} = {y \in R : k[y] = b}
      OBVIOUS
    <3>2. QED
      BY <3>1
  <2>12. new[k[x]] = old[k[x]] + f[x]
    <3> DEFINE all == {y \in T : k[y] = k[x]}
    <3>1. /\ IsFiniteSet(all) /\ x \in all /\ \A y \in all : f[y] \in Int
          /\ all \ {x} = {y \in R : k[y] = k[x]}
      BY <2>4, <2>5, FS_Subset
    <3>2. new[k[x]] = SumOn(f, all) /\ old[k[x]] = SumOn(f, {y \in R : k[y] = k[x]})
      BY <2>9
    <3> HIDE DEF all
    <3>3. SumOn(f, all) = SumOn(f, all \ {x}) + f[x]
      BY <3>1, SumSplit
    <3>4. QED
      BY <3>1, <3>2, <3>3
  <2> HIDE DEF old, new, of
  <2>13. new[k[x]] \in Int /\ old[k[x]] \in Int
    BY <2>8, <2>9, <2>10, <2>12
  <2>14. /\ SumOn(old, K) \in Int /\ SumOn(new, K) \in Int
         /\ SumOn(new, K) + old[k[x]] = SumOn(old, K) + new[k[x]]
    BY <2>9, <2>10, <2>11, <2>13, SumChanges
  <2>15. SumOn(new, K) = SumOn(f, T)
    <3> HIDE DEF R, differ
    <3>1. ASSUME NEW p, NEW q, NEW r \in Int, NEW m \in Int, NEW o \in Int, NEW g \in Int,
                 p \in Int, q = r + g, m = o + g, p + o = r + m
          PROVE  p = q
      BY <3>1
    <3>2. QED
      BY <2>7, <2>8, <2>12, <2>13, <2>14, <3>1
  <2>16. QED
    BY <2>2, <2>15 DEF new
<1>2. SumOn(of(S), K) = SumOn(f, S)
  BY <1>1
<1>3. \A b \in K : of(S)[b] \in Int /\ group[b] = of(S)[b]
  <2>1. ASSUME NEW b \in K PROVE SumOn(f, {y \in S : k[y] = b}) \in Int
    <3>1. IsFiniteSet({y \in S : k[y] = b})
      BY FS_Subset
    <3>2. \A y \in {z \in S : k[z] = b} : f[y] \in Int
      OBVIOUS
    <3>3. QED
      BY <3>1, <3>2, SumType
  <2>2. \A b \in K : group[b] = SumOn(f, {y \in S : k[y] = b})
    BY DEF GroupOf
  <2>3. QED
    BY <2>1, <2>2
<1> HIDE DEF of
<1>4. SumOn(group, K) = SumOn(of(S), K)
  BY <1>3, SumSame
<1>5. QED
  BY <1>2, <1>4

(* The folds of a function over its own domain.                            *)
LEMMA SumOfFunction == \A f : SumFunction(f) = SumOn(f, DOMAIN f)
  BY DEF SumFunction, SumFunctionOnSet, FoldFunctionOnSet, SumOn

-----------------------------------------------------------------------------
(* A sum over one more element.                                            *)
LEMMA SumPlus ==
    ASSUME NEW f, NEW S, IsFiniteSet(S), NEW b, b \notin S, \A i \in S \union {b} : f[i] \in Int
    PROVE  /\ SumOn(f, S \union {b}) = SumOn(f, S) + f[b]
           /\ SumOn(f, S) \in Int /\ f[b] \in Int
<1>1. PICK U : U = S \union {b}
  OBVIOUS
<1>2. IsFiniteSet(U) /\ b \in U /\ U \ {b} = S /\ \A i \in U : f[i] \in Int
  BY <1>1, FS_AddElement
<1>3. SumOn(f, U) = SumOn(f, U \ {b}) + f[b] /\ SumOn(f, U \ {b}) \in Int
  BY <1>2, SumSplit
<1>4. f[b] \in Int
  BY <1>2
<1>5. QED
  BY <1>1, <1>2, <1>3, <1>4

(* The gains of a counter of values v at each of n samples, and the values *)
(* before each of them.                                                    *)
AreGains(n, v, gain, hid) ==
    /\ \A i \in 1 .. n : v[i] \in Int
    /\ gain[1] = 0
    /\ \A i \in 2 .. n : gain[i] = IF v[i] < v[i - 1] THEN v[i] ELSE v[i] - v[i - 1]
    /\ \A i \in 2 .. n : hid[i] = v[i - 1]

(* The gains of a counter add up to what it gained from its first to its   *)
(* last value and what its resets hid.                                     *)
LEMMA GainsAddUp ==
    ASSUME NEW n \in Nat \ {0}, NEW v, NEW gain, NEW hid, AreGains(n, v, gain, hid)
    PROVE  SumOn(gain, 1 .. n) = v[n] - v[1] + SumOn(hid, {i \in 2 .. n : v[i] < v[i - 1]})
<1> DEFINE resets(m) == {i \in 2 .. m : v[i] < v[i - 1]}
           upto(m) == SumOn(gain, 1 .. m) = v[m] - v[1] + SumOn(hid, resets(m))
           good == {k \in Nat : k + 1 <= n => upto(k + 1)}
<1>1. 0 \in good
  <2>1. 1 .. 1 = {1} /\ 1 \in 1 .. n
    OBVIOUS
  <2>2. \A y \in {1} : gain[y] = 0
    BY DEF AreGains
  <2>3. SumOn(gain, 1 .. 1) = 0
    <3>1. PICK one : one = 1 .. 1
      OBVIOUS
    <3>2. one = {1}
      BY <2>1, <3>1
    <3>3. IsFiniteSet({1})
      BY FS_Singleton, Zenon
    <3>4. \A y \in one : gain[y] = 0
      BY <2>2, <3>2
    <3>5. SumOn(gain, one) = 0
      BY <3>2, <3>3, <3>4, SumZero
    <3>6. QED
      BY <3>1, <3>5
  <2>4. resets(1) = {}
    OBVIOUS
  <2>5. SumOn(hid, resets(1)) = 0
    BY <2>4, SumEmpty
  <2>6. v[1] \in Int
    BY <2>1 DEF AreGains
  <2> HIDE DEF resets
  <2>7. upto(1)
    BY <2>3, <2>5, <2>6
  <2>8. 0 + 1 = 1
    OBVIOUS
  <2> HIDE DEF upto
  <2>9. QED
    BY <2>7, <2>8
<1>2. ASSUME NEW k \in good PROVE k + 1 \in good
  <2>1. k \in Nat /\ (k + 1 <= n => upto(k + 1))
    OBVIOUS
  <2> SUFFICES ASSUME k + 2 <= n PROVE upto(k + 2)
    <3>1. k + 1 \in Nat /\ (k + 1) + 1 = k + 2
      BY <2>1
    <3> HIDE DEF upto
    <3>2. QED
      BY <2>1, <3>1
  <2>2. PICK a : a = k + 1
    OBVIOUS
  <2>3. PICK b : b = k + 2
    OBVIOUS
  <2>4. a \in Nat /\ a <= n /\ b = a + 1 /\ b <= n /\ a >= 1
    BY <2>1, <2>2, <2>3
  <2>5. PICK A : A = 1 .. a
    OBVIOUS
  <2>6. PICK R : R = resets(a)
    OBVIOUS
  <2>7. b \notin A /\ A \union {b} = 1 .. b /\ IsFiniteSet(A)
    <3>1. IsFiniteSet(1 .. a)
      BY <2>4, FS_Interval
    <3>2. \A i : i \in 1 .. b <=> i \in 1 .. a \/ i = b
      BY <2>4
    <3>3. b \notin 1 .. a
      BY <2>4
    <3>4. QED
      BY <2>5, <3>1, <3>2, <3>3
  <2>8. R \subseteq 2 .. a /\ R \subseteq A /\ b \notin R /\ IsFiniteSet(R)
    <3>1. R \subseteq 2 .. a /\ R \subseteq A /\ b \notin R
      BY <2>4, <2>5, <2>6
    <3>2. QED
      BY <2>7, <3>1, FS_Subset
  <2>9. /\ a \in 1 .. n /\ b \in 1 .. n /\ 1 \in 1 .. n /\ b \in 2 .. n /\ b - 1 = a
        /\ \A i \in A \union {b} : i = 1 \/ i \in 2 .. n
        /\ \A i \in 2 .. n : i \in 1 .. n /\ i - 1 \in 1 .. n
        /\ \A i \in R \union {b} : i \in 2 .. n
    <3>1. \A i \in A \union {b} : i = 1 \/ i \in 2 .. n
      BY <2>4, <2>5
    <3>2. \A i \in R \union {b} : i \in 2 .. n
      BY <2>4, <2>8
    <3>3. QED
      BY <2>4, <3>1, <3>2
  <2>10. \A i \in A \union {b} : gain[i] \in Int
    <3>1. \A i \in 2 .. n : v[i] \in Int /\ v[i - 1] \in Int
      BY <2>9 DEF AreGains
    <3>2. ASSUME NEW i \in 2 .. n PROVE gain[i] \in Int
      <4>1. gain[i] = IF v[i] < v[i - 1] THEN v[i] ELSE v[i] - v[i - 1]
        BY DEF AreGains
      <4>2. v[i] \in Int /\ v[i - 1] \in Int
        BY <3>1
      <4>3. QED
        BY <4>1, <4>2
    <3>3. gain[1] \in Int
      BY DEF AreGains
    <3>4. \A i \in A \union {b} : i = 1 \/ i \in 2 .. n
      BY <2>9
    <3>5. QED
      BY <3>2, <3>3, <3>4, Zenon
  <2>11. \A i \in R \union {b} : hid[i] \in Int
    BY <2>9 DEF AreGains
  <2>12. /\ v[a] \in Int /\ v[b] \in Int /\ v[1] \in Int /\ hid[b] = v[a]
         /\ gain[b] = IF v[b] < v[a] THEN v[b] ELSE v[b] - v[a]
    BY <2>9 DEF AreGains
  <2>13. SumOn(gain, A) = v[a] - v[1] + SumOn(hid, R)
    <3>1. upto(a)
      <4> HIDE DEF upto
      <4>1. QED
        BY <2>1, <2>2, <2>4
    <3> HIDE DEF resets
    <3>2. QED
      BY <2>5, <2>6, <3>1
  <2>14. resets(b) = IF v[b] < v[a] THEN R \union {b} ELSE R
    <3>1. \A i : i \in 2 .. b <=> i \in 2 .. a \/ i = b
      BY <2>4
    <3>2. QED
      BY <2>6, <2>9, <3>1
  <2>15. SumOn(gain, A \union {b}) = SumOn(gain, A) + gain[b]
    BY <2>7, <2>10, SumPlus
  <2>16. SumOn(hid, R \union {b}) = SumOn(hid, R) + v[a] /\ SumOn(hid, R) \in Int
    <3>1. SumOn(hid, R \union {b}) = SumOn(hid, R) + hid[b] /\ SumOn(hid, R) \in Int
      BY <2>8, <2>11, SumPlus
    <3>2. QED
      BY <2>12, <3>1
  <2> HIDE DEF resets
  <2>17. SumOn(gain, 1 .. b) = v[b] - v[1] + SumOn(hid, resets(b))
    <3>1. SumOn(gain, A) \in Int
      BY <2>12, <2>13, <2>16
    <3>2. SumOn(gain, 1 .. b) = v[a] - v[1] + SumOn(hid, R) + gain[b]
      BY <2>7, <2>13, <2>15
    <3>3. CASE v[b] < v[a]
      <4>1. resets(b) = R \union {b} /\ gain[b] = v[b]
        BY <2>12, <2>14, <3>3
      <4>2. SumOn(hid, resets(b)) = SumOn(hid, R) + v[a]
        BY <2>16, <4>1
      <4>3. QED
        BY <2>12, <2>16, <3>2, <4>1, <4>2
    <3>4. CASE ~ (v[b] < v[a])
      <4>1. resets(b) = R /\ gain[b] = v[b] - v[a]
        BY <2>12, <2>14, <3>4
      <4>2. QED
        BY <2>12, <2>16, <3>2, <4>1
    <3>5. QED
      BY <3>3, <3>4
  <2>18. QED
    BY <2>3, <2>17
<1>3. good = Nat
  <2> HIDE DEF upto
  <2>1. good \in SUBSET Nat
    OBVIOUS
  <2> HIDE DEF good
  <2>2. QED
    BY <1>1, <1>2, <2>1, NatSets
<1>4. n - 1 \in Nat /\ (n - 1) + 1 = n
  OBVIOUS
<1>5. upto(n)
  <2> HIDE DEF upto
  <2>1. n - 1 \in good
    BY <1>3, <1>4
  <2>2. (n - 1) + 1 <= n => upto((n - 1) + 1)
    BY <2>1
  <2>3. QED
    BY <1>4, <2>2
<1>6. QED
  BY <1>5

===============================================================================
