--------------------------- MODULE SpendTotals_proofs ---------------------------
(***************************************************************************)
(* Lemmas about the arithmetic of spend, for every finite set of rows:     *)
(* sums over finite sets, window buckets, and the running totals, which    *)
(* stay exact however the changes of rows are folded into them.            *)
(*                                                                         *)
(* Induction over a finite set is by SubsetInduction, which speaks of the  *)
(* set of the subsets for which a claim holds.                             *)
(***************************************************************************)
EXTENDS SpendTotals, FiniteSetTheorems, TLAPS

--------------------------------------------------------------------------------
(* Induction.                                                              *)

(* A set of numbers that has 0 and every successor of a member has them    *)
(* all: otherwise some number outside it is the least one.                 *)
LEMMA NumberInduction ==
  ASSUME NEW Good, 0 \in Good, \A n \in Nat : n \in Good => n + 1 \in Good
  PROVE  \A n \in Nat : n \in Good
  <1> DEFINE Less == OpToRel(<, Nat)
             Bad == Nat \ Good
  <1> SUFFICES ASSUME Bad # {} PROVE FALSE
    OBVIOUS
  <1>1. PICK n \in Bad : \A m \in Bad : <<m, n>> \notin Less
    <2>1. IsWellFoundedOn(Less, Nat)
      BY NatLessThanWellFounded
    <2> QED
      BY <2>1, WFMin
  <1>2. n # 0 /\ n - 1 \in Nat
    OBVIOUS
  <1>3. <<n - 1, n>> \in Less
    BY <1>2 DEF OpToRel
  <1>4. n - 1 \in Good
    BY <1>1, <1>2, <1>3
  <1> QED
    BY <1>2, <1>4, (n - 1) + 1 = n

(* A set of subsets of S that has the empty set, and every set that it has *)
(* without each of its elements, has them all.                             *)
LEMMA SubsetInduction ==
  ASSUME NEW S, IsFiniteSet(S), NEW Good, {} \in Good,
         \A T \in SUBSET S : T # {} /\ (\A x \in T : T \ {x} \in Good) => T \in Good
  PROVE  \A T \in SUBSET S : T \in Good
  <1> DEFINE Holds == {n \in Nat : \A T \in SUBSET S : Cardinality(T) = n => T \in Good}
  <1>1. \A T \in SUBSET S : /\ IsFiniteSet(T) /\ Cardinality(T) \in Nat
                            /\ Cardinality(T) = 0 => T = {}
    BY FS_Subset, FS_CardinalityType, FS_EmptySet
  <1>2. 0 \in Holds
    BY <1>1
  <1>3. ASSUME NEW n \in Nat, n \in Holds PROVE n + 1 \in Holds
    <2> SUFFICES ASSUME NEW T \in SUBSET S, Cardinality(T) = n + 1 PROVE T \in Good
      OBVIOUS
    <2>1. T # {}
      BY FS_EmptySet
    <2>2. ASSUME NEW x \in T PROVE T \ {x} \in Good
      <3>1. Cardinality(T \ {x}) = n
        BY <1>1, FS_RemoveElement
      <3> QED
        BY <1>3, <3>1
    <2> QED
      BY <2>1, <2>2
  <1>4. \A n \in Nat : n \in Holds
    <2> HIDE DEF Holds
    <2> QED
      BY <1>2, <1>3, NumberInduction
  <1> QED
    BY <1>1, <1>4

--------------------------------------------------------------------------------
(* Folds.                                                                  *)

(* The element that a fold takes first.                                    *)
Pick(T) == CHOOSE x \in T : TRUE

(* g is the fold of step over the subsets of S, from base.                 *)
IsFold(g, S, base, step) ==
  \A T \in SUBSET S :
    g[T] = IF T = {} THEN base ELSE step[Pick(T)][g[T \ {Pick(T)}]]

(* A fold over a finite set exists: a function of the set's subsets that   *)
(* obeys the recursion. It is built for one size of subset after another.  *)
LEMMA FoldExists ==
  ASSUME NEW S, IsFiniteSet(S), NEW V, NEW base \in V, NEW step \in [S -> [V -> V]]
  PROVE  \E g \in [SUBSET S -> V] : IsFold(g, S, base, step)
  <1> DEFINE Value(g, T) == IF T = {} THEN base ELSE step[Pick(T)][g[T \ {Pick(T)}]]
             Upto(n, g) == \A T \in SUBSET S : Cardinality(T) <= n => g[T] = Value(g, T)
             Good == {n \in Nat : \E g \in [SUBSET S -> V] : Upto(n, g)}
  <1>1. \A T \in SUBSET S : T # {} => Pick(T) \in T
    BY DEF Pick
  <1>2. \A T \in SUBSET S : /\ IsFiniteSet(T) /\ Cardinality(T) \in Nat
                            /\ Cardinality(T) = 0 => T = {}
    BY FS_Subset, FS_CardinalityType, FS_EmptySet
  <1>3. \A g \in [SUBSET S -> V], T \in SUBSET S : Value(g, T) \in V
    BY <1>1
  <1>4. 0 \in Good
    <2> DEFINE g == [T \in SUBSET S |-> base]
    <2>1. Upto(0, g)
      BY <1>2
    <2> QED
      BY <2>1
  <1>5. ASSUME NEW n \in Nat, n \in Good PROVE n + 1 \in Good
    <2>1. PICK g \in [SUBSET S -> V] : Upto(n, g)
      BY <1>5
    <2> DEFINE h == [T \in SUBSET S |-> Value(g, T)]
    <2>2. h \in [SUBSET S -> V]
      BY <1>3
    <2>3. ASSUME NEW T \in SUBSET S, Cardinality(T) <= n + 1
          PROVE  h[T] = Value(h, T)
      <3>1. CASE T = {}
        BY <3>1
      <3>2. CASE T # {}
        <4> DEFINE rest == T \ {Pick(T)}
        <4>1. Cardinality(rest) = Cardinality(T) - 1
          BY <1>1, <1>2, <3>2, FS_RemoveElement
        <4>2. Cardinality(rest) <= n /\ rest \in SUBSET S
          BY <1>2, <2>3, <4>1
        <4>3. h[rest] = g[rest]
          BY <2>1, <4>2
        <4> QED
          BY <3>2, <4>3
      <3> QED
        BY <3>1, <3>2
    <2>4. Upto(n + 1, h)
      BY <2>3
    <2> HIDE DEF h, Upto
    <2> QED
      BY <2>2, <2>4
  <1>6. Cardinality(S) \in Good
    <2> HIDE DEF Good
    <2> QED
      BY <1>2, <1>4, <1>5, NumberInduction, S \in SUBSET S
  <1>7. PICK g \in [SUBSET S -> V] : Upto(Cardinality(S), g)
    BY <1>6
  <1>8. \A T \in SUBSET S : Cardinality(T) <= Cardinality(S)
    BY FS_Subset
  <1> QED
    BY <1>7, <1>8 DEF IsFold

(* The recursion equation of a sum.                                        *)
SumValue(f, g, T) == IF T = {} THEN 0 ELSE f[Pick(T)] + g[T \ {Pick(T)}]

(* The partial sums of f over the subsets of S.                            *)
Sums(f, S) == CHOOSE g : g = [T \in SUBSET S |-> SumValue(f, g, T)]

LEMMA SumIsPartialSum ==
  ASSUME NEW f, NEW S
  PROVE  SumFunctionOnSet(f, S) = Sums(f, S)[S]
  BY DEF SumFunctionOnSet, FoldFunctionOnSet, MapThenFoldSet, Sums, SumValue, Pick

(* f gives every element of the finite set S an integer.                   *)
Summable(f, S) == IsFiniteSet(S) /\ \A x \in S : f[x] \in Int

LEMMA SumsRecur ==
  ASSUME NEW f, NEW S, Summable(f, S)
  PROVE  \A T \in SUBSET S : /\ Sums(f, S)[T] = SumValue(f, Sums(f, S), T)
                             /\ Sums(f, S)[T] \in Int
  <1> DEFINE V == Int
             zero == 0
             Body(g) == [T \in SUBSET S |-> SumValue(f, g, T)]
             step == [x \in S |-> [v \in V |-> f[x] + v]]
             sums == Sums(f, S)
  <1>1. \A T \in SUBSET S : T # {} => Pick(T) \in T
    BY DEF Pick
  <1>2. step \in [S -> [V -> V]] /\ zero \in V /\ IsFiniteSet(S)
    BY DEF Summable
  <1>3. PICK g \in [SUBSET S -> V] : IsFold(g, S, zero, step)
    <2> HIDE DEF step, V, zero
    <2> QED
      BY <1>2, FoldExists
  <1>4. \A T \in SUBSET S : T # {} => step[Pick(T)][g[T \ {Pick(T)}]]
                                        = f[Pick(T)] + g[T \ {Pick(T)}]
    BY <1>1
  <1>5. g = Body(g)
    BY <1>3, <1>4 DEF SumValue, IsFold
  <1>6. sums = Body(sums)
    <2>1. sums = CHOOSE h : h = Body(h)
      BY DEF Sums
    <2> HIDE DEF Body
    <2> QED
      BY <1>5, <2>1
  <1>7. \A T \in SUBSET S : sums[T] = SumValue(f, sums, T)
    BY <1>6
  <1>8. /\ sums[{}] = 0
        /\ \A T \in SUBSET S : T # {} => sums[T] = f[Pick(T)] + sums[T \ {Pick(T)}]
    BY <1>7 DEF SumValue
  <1> DEFINE Good == {T \in SUBSET S : sums[T] \in Int}
  <1> HIDE DEF sums
  <1>9. {} \in Good
    BY <1>8
  <1>10. \A T \in SUBSET S : T # {} /\ (\A x \in T : T \ {x} \in Good) => T \in Good
    <2> SUFFICES ASSUME NEW T \in SUBSET S, T # {}, \A x \in T : T \ {x} \in Good
                 PROVE  sums[T] \in Int
      OBVIOUS
    <2>1. Pick(T) \in T /\ sums[T \ {Pick(T)}] \in Int
      BY <1>1
    <2>2. f[Pick(T)] \in Int
      BY <2>1 DEF Summable
    <2>3. sums[T] = f[Pick(T)] + sums[T \ {Pick(T)}]
      BY <1>8
    <2> QED
      BY <2>1, <2>2, <2>3
  <1>11. \A T \in SUBSET S : T \in Good
    <2> HIDE DEF Good
    <2> QED
      BY <1>2, <1>9, <1>10, SubsetInduction
  <1> QED
    BY <1>7, <1>11 DEF sums

(* What is left of a sum without the element that the fold takes first.    *)
LEMMA SumFirst ==
  ASSUME NEW f, NEW S, Summable(f, S), S # {}
  PROVE  SumFunctionOnSet(f, S) = f[Pick(S)] + SumFunctionOnSet(f, S \ {Pick(S)})
  <1> DEFINE rest == S \ {Pick(S)}
             whole == Sums(f, S)
             part == Sums(f, rest)
             Good == {T \in SUBSET rest : whole[T] = part[T]}
  <1>1. Pick(S) \in S /\ \A T \in SUBSET S : T # {} => Pick(T) \in T
    BY DEF Pick
  <1>2. Summable(f, rest) /\ IsFiniteSet(rest)
    BY FS_Subset DEF Summable
  <1>3. \A T \in SUBSET rest : whole[T] = SumValue(f, whole, T)
    BY SumsRecur
  <1>4. \A T \in SUBSET rest : part[T] = SumValue(f, part, T)
    BY <1>2, SumsRecur
  <1>5. whole[S] = SumValue(f, whole, S)
    BY SumsRecur
  <1> HIDE DEF whole, part, rest
  <1>6. {} \in Good
    BY <1>3, <1>4 DEF SumValue
  <1>7. \A T \in SUBSET rest : T # {} /\ (\A x \in T : T \ {x} \in Good) => T \in Good
    <2> SUFFICES ASSUME NEW T \in SUBSET rest, T # {}, \A x \in T : T \ {x} \in Good
                 PROVE  whole[T] = part[T]
      OBVIOUS
    <2>1. Pick(T) \in T
      BY DEF Pick
    <2>2. whole[T \ {Pick(T)}] = part[T \ {Pick(T)}]
      BY <2>1
    <2> QED
      BY <1>3, <1>4, <2>2 DEF SumValue
  <1>8. rest \in Good
    <2> HIDE DEF Good
    <2> QED
      BY <1>2, <1>6, <1>7, SubsetInduction, rest \in SUBSET rest
  <1>9. whole[S] = f[Pick(S)] + part[rest]
    BY <1>5, <1>8 DEF SumValue, rest
  <1> QED
    BY <1>9, SumIsPartialSum DEF whole, part, rest

LEMMA SumEmpty == ASSUME NEW f PROVE SumFunctionOnSet(f, {}) = 0
  <1>1. Summable(f, {})
    BY FS_EmptySet DEF Summable
  <1> QED
    BY <1>1, SumsRecur, SumIsPartialSum DEF SumValue

LEMMA SumIsInteger ==
  ASSUME NEW f, NEW S, Summable(f, S)
  PROVE  SumFunctionOnSet(f, S) \in Int
  BY SumsRecur, SumIsPartialSum

(* Addition commutes, so the order in which a fold takes the elements is   *)
(* immaterial.                                                             *)
LEMMA SumWithout ==
  ASSUME NEW f, NEW S, Summable(f, S), NEW x \in S
  PROVE  SumFunctionOnSet(f, S) = f[x] + SumFunctionOnSet(f, S \ {x})
  <1> DEFINE Total(T) == SumFunctionOnSet(f, T)
             Good == {T \in SUBSET S : \A y \in T : Total(T) = f[y] + Total(T \ {y})}
  <1>1. \A T \in SUBSET S : Summable(f, T) /\ Total(T) \in Int
    BY FS_Subset, SumIsInteger DEF Summable
  <1>2. \A T \in SUBSET S : T # {} => /\ Pick(T) \in T
                                      /\ Total(T) = f[Pick(T)] + Total(T \ {Pick(T)})
    BY <1>1, SumFirst DEF Pick
  <1> HIDE DEF Total
  <1>3. \A T \in SUBSET S : T # {} /\ (\A y \in T : T \ {y} \in Good) => T \in Good
    <2> SUFFICES ASSUME NEW T \in SUBSET S, \A y \in T : T \ {y} \in Good, NEW y \in T
                 PROVE  Total(T) = f[y] + Total(T \ {y})
      OBVIOUS
    <2> DEFINE p == Pick(T)
    <2>1. p \in T /\ Total(T) = f[p] + Total(T \ {p})
      BY <1>2
    <2>2. CASE p = y
      BY <2>1, <2>2
    <2>3. CASE p # y
      <3>1. Total(T \ {p}) = f[y] + Total((T \ {p}) \ {y})
        BY <2>1, <2>3
      <3>2. Total(T \ {y}) = f[p] + Total((T \ {y}) \ {p})
        BY <2>1, <2>3
      <3>3. (T \ {p}) \ {y} = (T \ {y}) \ {p}
        OBVIOUS
      <3> DEFINE rest == Total((T \ {y}) \ {p})
      <3>4. f[p] \in Int /\ f[y] \in Int /\ rest \in Int
        BY <1>1, <2>1 DEF Summable
      <3>5. Total(T) = f[p] + (f[y] + rest) /\ Total(T \ {y}) = f[p] + rest
        BY <2>1, <3>1, <3>2, <3>3
      <3> HIDE DEF rest, p
      <3> QED
        BY <3>4, <3>5
    <2> QED
      BY <2>2, <2>3
  <1>4. S \in Good
    <2>1. {} \in Good /\ IsFiniteSet(S)
      BY DEF Summable
    <2> HIDE DEF Good
    <2> QED
      BY <1>3, <2>1, SubsetInduction, S \in SUBSET S
  <1> QED
    BY <1>4 DEF Total

(* Two functions that agree on a set have the same sum over it.            *)
LEMMA SumAgrees ==
  ASSUME NEW f, NEW g, NEW S, Summable(f, S), \A x \in S : g[x] = f[x]
  PROVE  SumFunctionOnSet(g, S) = SumFunctionOnSet(f, S)
  <1> DEFINE F(T) == SumFunctionOnSet(f, T)
             G(T) == SumFunctionOnSet(g, T)
             Good == {T \in SUBSET S : G(T) = F(T)}
  <1>1. \A T \in SUBSET S : Summable(f, T) /\ Summable(g, T)
    BY FS_Subset DEF Summable
  <1>2. ASSUME NEW T \in SUBSET S, NEW x \in T
        PROVE  F(T) = f[x] + F(T \ {x}) /\ G(T) = g[x] + G(T \ {x})
    <2>1. Summable(f, T) /\ Summable(g, T)
      BY <1>1
    <2> QED
      BY <2>1, SumWithout
  <1>3. {} \in Good
    BY SumEmpty
  <1> HIDE DEF F, G
  <1>4. \A T \in SUBSET S : T # {} /\ (\A x \in T : T \ {x} \in Good) => T \in Good
    BY <1>2
  <1>5. S \in Good
    <2> HIDE DEF Good
    <2> QED
      BY <1>3, <1>4, SubsetInduction, S \in SUBSET S DEF Summable
  <1> QED
    BY <1>5 DEF F, G

(* The sum over two disjoint sets is the sum of the sums.                  *)
LEMMA SumOfUnion ==
  ASSUME NEW f, NEW A, NEW B, Summable(f, A), Summable(f, B), A \cap B = {}
  PROVE  SumFunctionOnSet(f, A \cup B) = SumFunctionOnSet(f, A) + SumFunctionOnSet(f, B)
  <1> DEFINE F(T) == SumFunctionOnSet(f, T)
             Good == {T \in SUBSET B : F(A \cup T) = F(A) + F(T)}
  <1>1. \A T \in SUBSET B : /\ Summable(f, T) /\ Summable(f, A \cup T)
                            /\ F(T) \in Int /\ F(A) \in Int
    BY FS_Subset, FS_Union, SumIsInteger DEF Summable
  <1>2. ASSUME NEW T \in SUBSET B, NEW x \in T
        PROVE  F(T) = f[x] + F(T \ {x}) /\ F(A \cup T) = f[x] + F((A \cup T) \ {x})
    <2>1. Summable(f, T) /\ Summable(f, A \cup T) /\ x \in A \cup T
      BY <1>1
    <2> QED
      BY <2>1, SumWithout
  <1>3. {} \in Good
    BY <1>1, SumEmpty, A \cup {} = A
  <1> HIDE DEF F
  <1>4. \A T \in SUBSET B : T # {} /\ (\A x \in T : T \ {x} \in Good) => T \in Good
    <2> SUFFICES ASSUME NEW T \in SUBSET B, NEW x \in T, T \ {x} \in Good
                 PROVE  F(A \cup T) = F(A) + F(T)
      OBVIOUS
    <2>1. (A \cup T) \ {x} = A \cup (T \ {x})
      OBVIOUS
    <2>2. F(A \cup T) = f[x] + F(A \cup (T \ {x}))
      BY <1>2, <2>1
    <2>3. F(A \cup (T \ {x})) = F(A) + F(T \ {x})
      OBVIOUS
    <2>4. F(T) = f[x] + F(T \ {x})
      BY <1>2
    <2>5. f[x] \in Int /\ F(A) \in Int /\ F(T \ {x}) \in Int
      BY <1>1 DEF Summable
    <2> QED
      BY <2>2, <2>3, <2>4, <2>5
  <1>5. \A T \in SUBSET B : T \in Good
    <2>1. IsFiniteSet(B)
      BY DEF Summable
    <2> HIDE DEF Good
    <2> QED
      BY ONLY <1>3, <1>4, <2>1, SubsetInduction
  <1> QED
    BY <1>5, B \in SUBSET B DEF F

(* A sum of natural numbers is one, and zero if they all are.              *)
LEMMA SumOfNaturals ==
  ASSUME NEW f, NEW S, IsFiniteSet(S), \A x \in S : f[x] \in Nat
  PROVE  /\ SumFunctionOnSet(f, S) \in Nat
         /\ (\A x \in S : f[x] = 0) => SumFunctionOnSet(f, S) = 0
  <1> DEFINE F(T) == SumFunctionOnSet(f, T)
             Good == {T \in SUBSET S : /\ F(T) \in Nat
                                       /\ (\A x \in S : f[x] = 0) => F(T) = 0}
  <1>1. ASSUME NEW T \in SUBSET S, NEW x \in T PROVE F(T) = f[x] + F(T \ {x})
    <2>1. Summable(f, T)
      BY FS_Subset DEF Summable
    <2> QED
      BY <2>1, SumWithout
  <1>2. {} \in Good
    BY SumEmpty
  <1> HIDE DEF F
  <1>3. \A T \in SUBSET S : T # {} /\ (\A x \in T : T \ {x} \in Good) => T \in Good
    <2> SUFFICES ASSUME NEW T \in SUBSET S, NEW x \in T, T \ {x} \in Good
                 PROVE  T \in Good
      OBVIOUS
    <2>1. F(T) = f[x] + F(T \ {x}) /\ f[x] \in Nat /\ F(T \ {x}) \in Nat
      BY <1>1
    <2>2. ASSUME \A y \in S : f[y] = 0 PROVE F(T) = 0
      BY <2>1, <2>2
    <2> QED
      BY <2>1, <2>2
  <1>4. S \in Good
    <2> HIDE DEF Good
    <2> QED
      BY <1>2, <1>3, SubsetInduction, S \in SUBSET S
  <1> QED
    BY <1>4 DEF F

--------------------------------------------------------------------------------
(* Window buckets.                                                         *)

(* The bucket of an instant begins at the last boundary up to it.          *)
LEMMA WindowStartIsLast ==
  ASSUME NEW w \in Windows, NEW t \in Time
  PROVE  /\ WindowStart(w, t) \in Boundaries[w]
         /\ WindowStart(w, t) \in Nat /\ WindowStart(w, t) <= t
         /\ \A b \in Boundaries[w] : b <= t => b <= WindowStart(w, t)
  <1> DEFINE Less == OpToRel(<, Nat)
             past == {b \in Boundaries[w] : b <= t}
             slack == {t - b : b \in past}
  <1>1. t \in Nat /\ past \subseteq Nat /\ 0 \in past
    BY TimeAssumption DEF Time
  <1>2. slack \subseteq Nat /\ slack # {}
    BY <1>1
  <1>3. PICK d \in slack : \A x \in slack : <<x, d>> \notin Less
    <2>1. IsWellFoundedOn(Less, Nat)
      BY NatLessThanWellFounded
    <2> HIDE DEF slack
    <2> QED
      BY <1>2, <2>1, WFMin
  <1>4. PICK b \in past : d = t - b
    OBVIOUS
  <1>5. ASSUME NEW c \in past PROVE b >= c
    <2>1. <<t - c, t - b>> \notin Less
      BY <1>3, <1>4
    <2>2. t - c \in Nat /\ t - b \in Nat
      BY <1>1
    <2>3. ~(t - c < t - b)
      BY <2>1, <2>2 DEF OpToRel
    <2> QED
      BY <1>1, <2>3
  <1>6. /\ Max(past) \in past
        /\ \A c \in past : Max(past) >= c
    BY <1>5 DEF Max
  <1>7. WindowStart(w, t) = Max(past)
    BY DEF WindowStart
  <1> QED
    BY <1>1, <1>6, <1>7

(* Of two instants, the earlier one is in the same bucket exactly when it  *)
(* is not before the start of the bucket of the later one.                 *)
LEMMA SameBucket ==
  ASSUME NEW w \in Windows, NEW t \in Time, NEW u \in Time, t <= u
  PROVE  /\ WindowStart(w, t) <= WindowStart(w, u)
         /\ t >= WindowStart(w, u) <=> WindowStart(w, t) = WindowStart(w, u)
  <1>1. t \in Nat /\ u \in Nat
    BY TimeAssumption DEF Time
  <1> DEFINE a == WindowStart(w, t)
             b == WindowStart(w, u)
  <1>2. a \in Boundaries[w] /\ a \in Nat /\ a <= t /\ (b <= t => b <= a)
    BY WindowStartIsLast
  <1>3. b \in Boundaries[w] /\ b \in Nat /\ b <= u /\ (a <= u => a <= b)
    BY WindowStartIsLast
  <1> HIDE DEF a, b
  <1>4. a <= b
    BY <1>1, <1>2, <1>3
  <1>5. (t >= b) <=> (a = b)
    BY <1>1, <1>2, <1>3, <1>4
  <1> QED
    BY <1>4, <1>5 DEF a, b

--------------------------------------------------------------------------------
(* The spend of rows.                                                      *)

(* A finite table of rows, each with its instant and its contribution.     *)
Countable(rows) ==
  /\ IsFiniteSet(DOMAIN rows)
  /\ \A id \in DOMAIN rows : rows[id].created \in Time /\ Contribution(rows[id]) \in Nat

LEMMA SpendIsNatural ==
  ASSUME NEW rows, Countable(rows), NEW ids \in SUBSET DOMAIN rows
  PROVE  /\ SpendOf(rows, ids) \in Nat
         /\ (\A id \in ids : Contribution(rows[id]) = 0) => SpendOf(rows, ids) = 0
  <1> DEFINE f == [id \in DOMAIN rows |-> Contribution(rows[id])]
  <1>1. IsFiniteSet(ids) /\ \A id \in ids : f[id] = Contribution(rows[id]) /\ f[id] \in Nat
    BY FS_Subset DEF Countable
  <1>2. SpendOf(rows, ids) = SumFunctionOnSet(f, ids)
    BY DEF SpendOf
  <1> HIDE DEF f
  <1> QED
    BY <1>1, <1>2, SumOfNaturals

LEMMA SpendWithout ==
  ASSUME NEW rows, Countable(rows), NEW ids \in SUBSET DOMAIN rows, NEW id \in ids
  PROVE  SpendOf(rows, ids) = Contribution(rows[id]) + SpendOf(rows, ids \ {id})
  <1> DEFINE f == [x \in DOMAIN rows |-> Contribution(rows[x])]
  <1>1. Summable(f, ids) /\ f[id] = Contribution(rows[id])
    BY FS_Subset DEF Countable, Summable
  <1>2. \A T : SpendOf(rows, T) = SumFunctionOnSet(f, T)
    BY DEF SpendOf
  <1> HIDE DEF f
  <1> QED
    BY <1>1, <1>2, SumWithout

LEMMA SpendAgrees ==
  ASSUME NEW rows, NEW others, Countable(rows),
         NEW ids \in SUBSET (DOMAIN rows \cap DOMAIN others),
         \A id \in ids : Contribution(others[id]) = Contribution(rows[id])
  PROVE  SpendOf(others, ids) = SpendOf(rows, ids)
  <1> DEFINE f == [x \in DOMAIN rows |-> Contribution(rows[x])]
             g == [x \in DOMAIN others |-> Contribution(others[x])]
  <1>1. Summable(f, ids)
    BY FS_Subset DEF Countable, Summable
  <1>2. \A id \in ids : g[id] = f[id]
    OBVIOUS
  <1>3. SpendOf(rows, ids) = SumFunctionOnSet(f, ids)
    BY DEF SpendOf
  <1>4. SpendOf(others, ids) = SumFunctionOnSet(g, ids)
    BY DEF SpendOf
  <1> HIDE DEF f, g
  <1> QED
    BY <1>1, <1>2, <1>3, <1>4, SumAgrees

LEMMA SpendOfUnion ==
  ASSUME NEW rows, Countable(rows), NEW A \in SUBSET DOMAIN rows,
         NEW B \in SUBSET DOMAIN rows, A \cap B = {}
  PROVE  SpendOf(rows, A \cup B) = SpendOf(rows, A) + SpendOf(rows, B)
  <1> DEFINE f == [x \in DOMAIN rows |-> Contribution(rows[x])]
  <1>1. Summable(f, A) /\ Summable(f, B)
    BY FS_Subset DEF Countable, Summable
  <1>2. \A T : SpendOf(rows, T) = SumFunctionOnSet(f, T)
    BY DEF SpendOf
  <1> HIDE DEF f
  <1> QED
    BY <1>1, <1>2, SumOfUnion

--------------------------------------------------------------------------------
(* Running totals.                                                         *)

(* The total is that of its bucket of scope s, and no row of a later       *)
(* bucket adds anything; or it is marked for being rebuilt.                *)
Exact(total, s, rows) ==
  /\ total \in [start : Boundaries[s.window] \cup {Unknown}, spent : Int]
  /\ total.start = Unknown => total.spent = 0
  /\ total.start # Unknown =>
       /\ total.spent = SpendOf(rows, Bucket(rows, s, total.start))
       /\ \A id \in DOMAIN rows :
            /\ rows[id].entity = s.entity
            /\ WindowStart(s.window, rows[id].created) > total.start
            => Contribution(rows[id]) = 0

(* What a table says of row id: nothing if it has no such row.             *)
Old(rows, id) == IF id \in DOMAIN rows THEN Contribution(rows[id]) ELSE 0

(* rows with the row id of a scope inserted or updated.                    *)
OneRowChanged(rows, new, s, id) ==
  /\ DOMAIN new = DOMAIN rows \cup {id}
  /\ \A x \in DOMAIN rows \ {id} : new[x] = rows[x]
  /\ new[id].entity = s.entity
  /\ id \in DOMAIN rows => /\ rows[id].entity = s.entity
                           /\ rows[id].created = new[id].created

(* The spend of a bucket follows the change of one of its rows.            *)
LEMMA SpendFollowsChange ==
  ASSUME NEW s \in Scopes, NEW rows, NEW new, NEW id, Countable(rows), Countable(new),
         OneRowChanged(rows, new, s, id), NEW start
  PROVE  SpendOf(new, Bucket(new, s, start))
           = SpendOf(rows, Bucket(rows, s, start))
               + (IF WindowStart(s.window, new[id].created) = start
                  THEN Contribution(new[id]) - Old(rows, id) ELSE 0)
  <1> DEFINE here == WindowStart(s.window, new[id].created) = start
             was == Bucket(rows, s, start)
             is == Bucket(new, s, start)
  <1>1. was \subseteq DOMAIN rows /\ is \subseteq DOMAIN new
    BY DEF Bucket
  <1>2. is \ {id} = was \ {id}
    BY DEF Bucket, OneRowChanged
  <1>3. id \in is <=> here
    BY DEF Bucket, OneRowChanged
  <1>4. id \in was <=> here /\ id \in DOMAIN rows
    BY DEF Bucket, OneRowChanged
  <1>5. SpendOf(new, is \ {id}) = SpendOf(rows, was \ {id})
    <2>1. was \ {id} \in SUBSET (DOMAIN rows \cap DOMAIN new)
      BY <1>1, <1>2
    <2>2. \A x \in was \ {id} : Contribution(new[x]) = Contribution(rows[x])
      BY <1>1 DEF OneRowChanged
    <2> QED
      BY <1>2, <2>1, <2>2, SpendAgrees
  <1>6. SpendOf(rows, was \ {id}) \in Nat
    BY <1>1, SpendIsNatural
  <1>7. SpendOf(new, is) = IF here THEN Contribution(new[id]) + SpendOf(new, is \ {id})
                           ELSE SpendOf(new, is \ {id})
    <2>1. CASE here
      BY <1>1, <1>3, <2>1, SpendWithout
    <2>2. CASE ~here
      BY <1>3, <2>2, is \ {id} = is
    <2> QED
      BY <2>1, <2>2
  <1>8. SpendOf(rows, was) = IF here THEN Old(rows, id) + SpendOf(rows, was \ {id})
                             ELSE SpendOf(rows, was \ {id})
    <2>1. CASE id \in was
      BY <1>1, <1>4, <2>1, SpendWithout DEF Old
    <2>2. CASE id \notin was
      <3>1. was \ {id} = was
        BY <2>2
      <3>2. here => Old(rows, id) = 0
        BY <1>4, <2>2 DEF Old
      <3> QED
        BY <1>6, <3>1, <3>2
    <2> QED
      BY <2>1, <2>2
  <1>9. Old(rows, id) \in Nat /\ Contribution(new[id]) \in Nat
    BY DEF Old, Countable, OneRowChanged
  <1> HIDE DEF here, was, is
  <1>10. SpendOf(new, is) = SpendOf(rows, was)
                             + (IF here THEN Contribution(new[id]) - Old(rows, id) ELSE 0)
    BY <1>5, <1>6, <1>7, <1>8, <1>9
  <1> QED
    BY <1>10 DEF here, was, is

(* Folding one row's change into an exact total leaves it exact.           *)
LEMMA AbsorbIsExact ==
  ASSUME NEW s \in Scopes, NEW rows, NEW new, NEW id, Countable(rows), Countable(new),
         OneRowChanged(rows, new, s, id), NEW total, Exact(total, s, rows)
  PROVE  Exact(Absorb(total, s.window, new[id].created,
                      Contribution(new[id]) - Old(rows, id), id \notin DOMAIN rows), s, new)
  <1> DEFINE bucket == WindowStart(s.window, new[id].created)
             delta == Contribution(new[id]) - Old(rows, id)
             inserted == id \notin DOMAIN rows
             Spend(start) == SpendOf(rows, Bucket(rows, s, start))
             NewSpend(start) == SpendOf(new, Bucket(new, s, start))
             Starts == Boundaries[s.window] \cup {Unknown}
             Later(t, x) == t[x].entity = s.entity /\ WindowStart(s.window, t[x].created) > total.start
  <1>1. id \in DOMAIN new /\ new[id].created \in Time /\ s.window \in Windows
    BY DEF OneRowChanged, Countable, Scopes
  <1>2. bucket \in Boundaries[s.window] /\ bucket \in Nat /\ Unknown \notin Nat
    BY <1>1, WindowStartIsLast, NullAssumption
  <1>3. delta \in Int /\ inserted \in BOOLEAN
    BY <1>1 DEF Old, Countable
  <1>4. \A start : NewSpend(start) = Spend(start) + (IF bucket = start THEN delta ELSE 0)
    BY SpendFollowsChange
  <1>5. \A start : Spend(start) \in Nat
    BY SpendIsNatural DEF Bucket
  <1>6. /\ total \in [start : Starts, spent : Int]
        /\ total.start = Unknown => total.spent = 0
        /\ total.start # Unknown =>
             /\ total.start \in Nat
             /\ total.spent = Spend(total.start)
             /\ \A x \in DOMAIN rows : Later(rows, x) => Contribution(rows[x]) = 0
    <2>1. Boundaries[s.window] \subseteq Nat
      BY <1>1, TimeAssumption DEF Time
    <2> QED
      BY <2>1 DEF Exact
  <1>7. \A x \in DOMAIN new \ {id} : x \in DOMAIN rows /\ new[x] = rows[x]
    BY DEF OneRowChanged
  <1> HIDE DEF bucket, delta, inserted, Spend, NewSpend
  <1>8. CASE total.start = Unknown
    <2>1. Absorb(total, s.window, new[id].created, delta, inserted) = total
      BY <1>8 DEF Absorb
    <2> QED
      BY <1>6, <1>8, <2>1 DEF Exact, delta, inserted
  <1>9. CASE total.start # Unknown /\ bucket = total.start
    <2> DEFINE result == [start |-> total.start, spent |-> total.spent + delta]
    <2>1. Absorb(total, s.window, new[id].created, delta, inserted) = result
      BY <1>6, <1>9 DEF Absorb, bucket
    <2>2. result.spent = NewSpend(result.start) /\ result.spent \in Int
      BY <1>3, <1>4, <1>5, <1>6, <1>9
    <2>3. \A x \in DOMAIN new : Later(new, x) => Contribution(new[x]) = 0
      BY <1>2, <1>6, <1>7, <1>9 DEF bucket
    <2>4. result \in [start : Starts, spent : Int]
      BY <1>6, <2>2
    <2>5. result.start # Unknown
      BY <1>9
    <2> HIDE DEF result
    <2>6. Exact(result, s, new)
      BY <1>9, <2>2, <2>3, <2>4, <2>5 DEF Exact, NewSpend, result
    <2> QED
      BY <2>1, <2>6 DEF delta, inserted
  <1>10. CASE total.start # Unknown /\ bucket # total.start /\ inserted /\ bucket > total.start
    <2> DEFINE result == [start |-> bucket, spent |-> delta]
    <2>1. Absorb(total, s.window, new[id].created, delta, inserted) = result
      BY <1>6, <1>10 DEF Absorb, bucket
    <2>2. Spend(bucket) = 0
      <3>1. \A x \in Bucket(rows, s, bucket) : Contribution(rows[x]) = 0
        BY <1>6, <1>10 DEF Bucket
      <3> QED
        BY <3>1, SpendIsNatural DEF Bucket, Spend
    <2>3. delta = NewSpend(bucket)
      BY <1>3, <1>4, <2>2
    <2>4. \A x \in DOMAIN new :
            new[x].entity = s.entity /\ WindowStart(s.window, new[x].created) > bucket
              => Contribution(new[x]) = 0
      <3> SUFFICES ASSUME NEW x \in DOMAIN new, new[x].entity = s.entity,
                          WindowStart(s.window, new[x].created) > bucket
                   PROVE  Contribution(new[x]) = 0
        OBVIOUS
      <3>1. x # id
        BY <1>2 DEF bucket
      <3>2. x \in DOMAIN rows /\ new[x] = rows[x]
        BY <1>7, <3>1
      <3>3. WindowStart(s.window, rows[x].created) \in Nat
        BY <1>1, <3>2, WindowStartIsLast DEF Countable
      <3> QED
        BY <1>2, <1>6, <1>10, <3>2, <3>3
    <2> QED
      BY <1>2, <1>3, <2>1, <2>3, <2>4 DEF Exact, delta, inserted, NewSpend
  <1>11. CASE total.start # Unknown /\ bucket # total.start /\ ~inserted /\ bucket < total.start
    <2>1. Absorb(total, s.window, new[id].created, delta, inserted) = total
      BY <1>2, <1>6, <1>11 DEF Absorb, bucket
    <2>2. total.spent = NewSpend(total.start)
      BY <1>4, <1>5, <1>6, <1>11
    <2>3. \A x \in DOMAIN new : Later(new, x) => Contribution(new[x]) = 0
      BY <1>2, <1>6, <1>7, <1>11 DEF bucket
    <2> QED
      BY <1>6, <2>1, <2>2, <2>3 DEF Exact, delta, inserted, NewSpend
  <1>12. CASE /\ total.start # Unknown /\ bucket # total.start
              /\ ~(inserted /\ bucket > total.start) /\ ~(~inserted /\ bucket < total.start)
    <2> DEFINE result == [start |-> Unknown, spent |-> 0]
    <2>1. Absorb(total, s.window, new[id].created, delta, inserted) = result
      BY <1>6, <1>12 DEF Absorb, bucket
    <2> QED
      BY <2>1 DEF Exact, delta, inserted
  <1> QED
    BY <1>8, <1>9, <1>10, <1>11, <1>12

(* Rows of other scopes, and rows that add nothing, do not touch a total.  *)
LEMMA OtherRowsAreSilent ==
  ASSUME NEW s \in Scopes, NEW rows, NEW new, Countable(rows), Countable(new),
         DOMAIN rows \subseteq DOMAIN new,
         \A x \in DOMAIN rows :
           /\ new[x].entity = rows[x].entity /\ new[x].created = rows[x].created
           /\ rows[x].entity = s.entity => Contribution(new[x]) = Contribution(rows[x]),
         \A x \in DOMAIN new \ DOMAIN rows :
           new[x].entity = s.entity => Contribution(new[x]) = 0,
         NEW total, Exact(total, s, rows)
  PROVE  Exact(total, s, new)
  <1> SUFFICES ASSUME total.start # Unknown
               PROVE  /\ SpendOf(new, Bucket(new, s, total.start))
                           = SpendOf(rows, Bucket(rows, s, total.start))
                      /\ \A id \in DOMAIN new :
                           /\ new[id].entity = s.entity
                           /\ WindowStart(s.window, new[id].created) > total.start
                           => Contribution(new[id]) = 0
    BY DEF Exact
  <1> DEFINE was == Bucket(rows, s, total.start)
             is == Bucket(new, s, total.start)
             extra == is \ DOMAIN rows
  <1>1. is = was \cup extra /\ was \cap extra = {}
    BY DEF Bucket
  <1>2. was \subseteq DOMAIN rows /\ was \subseteq DOMAIN new /\ extra \subseteq DOMAIN new
    BY DEF Bucket
  <1>3. \A x \in was : Contribution(new[x]) = Contribution(rows[x])
    BY DEF Bucket
  <1>4. \A x \in extra : Contribution(new[x]) = 0
    BY DEF Bucket
  <1> HIDE DEF was, is, extra
  <1>5. SpendOf(new, extra) = 0
    BY <1>2, <1>4, SpendIsNatural
  <1>6. SpendOf(new, was) = SpendOf(rows, was) /\ SpendOf(new, was) \in Nat
    BY <1>2, <1>3, SpendAgrees, SpendIsNatural
  <1>7. SpendOf(new, is) = SpendOf(new, was) + SpendOf(new, extra)
    BY <1>1, <1>2, SpendOfUnion
  <1>8. SpendOf(new, is) = SpendOf(rows, was)
    BY <1>5, <1>6, <1>7
  <1> QED
    BY <1>8 DEF Exact, was, is

LEMMA AbsorbTyped ==
  ASSUME NEW w \in Windows, NEW created \in Time, NEW delta \in Int, NEW inserted \in BOOLEAN,
         NEW total \in [start : Boundaries[w] \cup {Unknown}, spent : Int]
  PROVE  Absorb(total, w, created, delta, inserted)
           \in [start : Boundaries[w] \cup {Unknown}, spent : Int]
  <1> DEFINE bucket == WindowStart(w, created)
             V == [start : Boundaries[w] \cup {Unknown}, spent : Int]
             counted == [start |-> total.start, spent |-> total.spent + delta]
             started == [start |-> bucket, spent |-> delta]
             unknown == [start |-> Unknown, spent |-> 0]
  <1>1. bucket \in Boundaries[w]
    BY WindowStartIsLast
  <1> HIDE DEF bucket
  <1>2. total.start \in Boundaries[w] \cup {Unknown} /\ total.spent \in Int
    OBVIOUS
  <1>3. counted \in V /\ started \in V /\ unknown \in V
    BY <1>1, <1>2
  <1> HIDE DEF V, counted, started, unknown
  <1>4. Absorb(total, w, created, delta, inserted) \in {total, counted, started, unknown}
    <2>1. CASE total.start = Unknown
      BY <2>1 DEF Absorb
    <2>2. CASE total.start # Unknown /\ bucket = total.start
      BY <2>2 DEF Absorb, bucket, counted
    <2>3. CASE total.start # Unknown /\ bucket # total.start /\ inserted /\ bucket > total.start
      BY <2>3 DEF Absorb, bucket, started
    <2>4. CASE total.start # Unknown /\ bucket # total.start /\ ~inserted
      BY <2>4 DEF Absorb, bucket, unknown
    <2>5. CASE /\ total.start # Unknown /\ bucket # total.start
               /\ inserted /\ ~(bucket > total.start)
      BY <2>5 DEF Absorb, bucket, unknown
    <2> QED
      BY <2>1, <2>2, <2>3, <2>4, <2>5
  <1> QED
    BY <1>3, <1>4 DEF V

(* new is rows after the insertion or the update of the rows of after,     *)
(* which before had.                                                       *)
RowsChanged(rows, new, before, after) ==
  /\ new = [x \in DOMAIN rows \cup DOMAIN after |->
              IF x \in DOMAIN after THEN after[x] ELSE rows[x]]
  /\ \A id \in DOMAIN after :
       /\ id \in DOMAIN before <=> id \in DOMAIN rows
       /\ id \in DOMAIN rows => /\ before[id] = rows[id]
                                /\ after[id].entity = rows[id].entity
                                /\ after[id].created = rows[id].created

(* Folding all the changes of one statement into an exact total leaves it  *)
(* exact, whatever order the rows come in.                                 *)
LEMMA RowChangesAreExact ==
  ASSUME NEW s \in Scopes, NEW rows, NEW new, NEW before, NEW after,
         Countable(rows), Countable(new), RowsChanged(rows, new, before, after),
         NEW total, Exact(total, s, rows)
  PROVE  Exact(ApplyRowChanges(total, s, before, after), s, new)
  <1> DEFINE Delta(id) == Contribution(after[id])
                            - (IF id \in DOMAIN before THEN Contribution(before[id]) ELSE 0)
             changed == {id \in DOMAIN after : after[id].entity = s.entity /\ Delta(id) # 0}
             silent == DOMAIN after \ changed
             V == [start : Boundaries[s.window] \cup {Unknown}, spent : Int]
             Value(id, v) == Absorb(v, s.window, after[id].created, Delta(id),
                                    id \notin DOMAIN before)
             step == [id \in changed |-> [v \in V |-> Value(id, v)]]
             Body(g) == [T \in SUBSET changed |->
                           IF T = {} THEN total ELSE Value(Pick(T), g[T \ {Pick(T)}])]
             fold == CHOOSE g : g = Body(g)
             Table(T) == [x \in DOMAIN rows \cup silent \cup T |->
                            IF x \in silent \cup T THEN after[x] ELSE rows[x]]
             Good == {T \in SUBSET changed : Exact(fold[T], s, Table(T))}
  <1>1. ApplyRowChanges(total, s, before, after) = fold[changed]
    BY DEF ApplyRowChanges, FoldSet, MapThenFoldSet, Pick
  <1>2. ASSUME NEW id \in DOMAIN after
        PROVE  /\ id \in DOMAIN new /\ new[id] = after[id]
               /\ after[id].created \in Time
               /\ Contribution(after[id]) \in Nat
               /\ Delta(id) = Contribution(after[id]) - Old(rows, id)
               /\ Delta(id) \in Int
    <2>1. id \in DOMAIN new /\ new[id] = after[id]
      BY DEF RowsChanged
    <2>2. after[id].created \in Time /\ Contribution(after[id]) \in Nat
      BY <2>1 DEF Countable
    <2>3. Delta(id) = Contribution(after[id]) - Old(rows, id) /\ Old(rows, id) \in Nat
      BY DEF RowsChanged, Old, Countable
    <2> QED
      BY <2>1, <2>2, <2>3
  <1>3. \A id \in DOMAIN rows \ DOMAIN after : id \in DOMAIN new /\ new[id] = rows[id]
    BY DEF RowsChanged
  <1>4. IsFiniteSet(changed)
    <2>1. changed \in SUBSET DOMAIN new
      BY <1>2
    <2> QED
      BY <2>1, FS_Subset DEF Countable
  <1>5. total \in V /\ s.window \in Windows
    BY DEF Exact, Scopes
  <1>6. \A id \in changed, v \in V : Value(id, v) \in V
    BY <1>2, <1>5, AbsorbTyped
  <1>7. fold = Body(fold)
    <2> HIDE DEF V, Value, changed
    <2>1. step \in [changed -> [V -> V]]
      BY <1>6
    <2>2. PICK g \in [SUBSET changed -> V] : IsFold(g, changed, total, step)
      <3> HIDE DEF step
      <3> QED
        BY <1>4, <1>5, <2>1, FoldExists
    <2>3. \A T \in SUBSET changed : T # {} => Pick(T) \in T
      BY DEF Pick
    <2>4. \A T \in SUBSET changed :
            T # {} => step[Pick(T)][g[T \ {Pick(T)}]] = Value(Pick(T), g[T \ {Pick(T)}])
      BY <2>3
    <2>5. g = Body(g)
      BY <2>2, <2>4 DEF IsFold
    <2> HIDE DEF Body
    <2> QED
      BY <2>5
  <1>8. /\ fold[{}] = total
        /\ \A T \in SUBSET changed :
             T # {} => fold[T] = Value(Pick(T), fold[T \ {Pick(T)}])
    <2> HIDE DEF fold, Value, changed
    <2> QED
      BY <1>7
  <1>9. \A T \in SUBSET changed : Countable(Table(T))
    <2> SUFFICES ASSUME NEW T \in SUBSET changed PROVE Countable(Table(T))
      OBVIOUS
    <2>1. DOMAIN Table(T) \in SUBSET DOMAIN new
      BY <1>2, <1>3
    <2>2. IsFiniteSet(DOMAIN Table(T))
      BY <2>1, FS_Subset DEF Countable
    <2>3. \A x \in DOMAIN Table(T) : /\ Table(T)[x].created \in Time
                                     /\ Contribution(Table(T)[x]) \in Nat
      BY <1>2 DEF Countable
    <2> QED
      BY <2>2, <2>3 DEF Countable
  <1>10. {} \in Good
    <2>1. Countable(Table({}))
      BY <1>9
    <2>2. \A x \in DOMAIN rows :
            /\ Table({})[x].entity = rows[x].entity /\ Table({})[x].created = rows[x].created
            /\ rows[x].entity = s.entity => Contribution(Table({})[x]) = Contribution(rows[x])
      BY <1>2 DEF RowsChanged, Countable, Old
    <2>3. \A x \in DOMAIN Table({}) \ DOMAIN rows :
            Table({})[x].entity = s.entity => Contribution(Table({})[x]) = 0
      BY <1>2 DEF Old
    <2>4. DOMAIN rows \subseteq DOMAIN Table({})
      OBVIOUS
    <2> HIDE DEF Table
    <2>5. Exact(total, s, Table({}))
      BY <2>1, <2>2, <2>3, <2>4, OtherRowsAreSilent
    <2> HIDE DEF fold, changed
    <2> QED
      BY <1>8, <2>5
  <1>11. \A T \in SUBSET changed : T # {} /\ (\A x \in T : T \ {x} \in Good) => T \in Good
    <2> SUFFICES ASSUME NEW T \in SUBSET changed, T # {}, \A x \in T : T \ {x} \in Good
                 PROVE  Exact(fold[T], s, Table(T))
      OBVIOUS
    <2> DEFINE id == Pick(T)
               rest == T \ {id}
    <2>1. id \in T /\ id \in changed
      BY DEF Pick
    <2>2. Exact(fold[rest], s, Table(rest)) /\ rest \in SUBSET changed
      BY <2>1
    <2>3. fold[T] = Value(id, fold[rest])
      BY <1>8
    <2> HIDE DEF id
    <2>4. OneRowChanged(Table(rest), Table(T), s, id)
      BY <2>1 DEF OneRowChanged, RowsChanged
    <2>5. /\ Table(T)[id] = after[id]
          /\ Old(Table(rest), id) = Old(rows, id)
          /\ id \in DOMAIN Table(rest) <=> id \in DOMAIN before
      BY <2>1 DEF Old, RowsChanged
    <2>6. Delta(id) = Contribution(Table(T)[id]) - Old(Table(rest), id)
      BY <1>2, <2>1, <2>5
    <2>7. Countable(Table(rest)) /\ Countable(Table(T))
      BY <1>9, <2>2
    <2> HIDE DEF Table, fold, rest, Delta, changed
    <2>8. Exact(Absorb(fold[rest], s.window, Table(T)[id].created,
                       Contribution(Table(T)[id]) - Old(Table(rest), id),
                       id \notin DOMAIN Table(rest)), s, Table(T))
      BY <2>2, <2>4, <2>7, AbsorbIsExact
    <2>9. (id \notin DOMAIN Table(rest)) = (id \notin DOMAIN before)
      BY <2>5
    <2> QED
      BY <2>3, <2>5, <2>6, <2>8, <2>9
  <1>12. \A T \in SUBSET changed : T \in Good
    <2> HIDE DEF Good, changed
    <2> QED
      BY ONLY <1>4, <1>10, <1>11, SubsetInduction
  <1>13. Table(changed) = new
    <2>1. DOMAIN rows \cup silent \cup changed = DOMAIN rows \cup DOMAIN after
      OBVIOUS
    <2>2. silent \cup changed = DOMAIN after
      OBVIOUS
    <2> HIDE DEF silent, changed
    <2> QED
      BY <2>1, <2>2 DEF RowsChanged
  <1>14. Exact(fold[changed], s, Table(changed))
    <2> HIDE DEF fold, Table, changed
    <2> QED
      BY <1>12, changed \in SUBSET changed
  <1> QED
    BY <1>1, <1>13, <1>14

(* A rebuilt total is exact when no row is of a later bucket.              *)
LEMMA RebuiltIsExact ==
  ASSUME NEW s \in Scopes, NEW rows, Countable(rows), NEW now \in Time,
         \A id \in DOMAIN rows :
           rows[id].entity = s.entity =>
             WindowStart(s.window, rows[id].created) <= WindowStart(s.window, now)
  PROVE  Exact(RebuiltTotal(rows, s, now), s, rows)
  <1> DEFINE start == WindowStart(s.window, now)
             counted == {id \in DOMAIN rows : /\ rows[id].entity = s.entity
                                              /\ rows[id].created >= start}
  <1>1. s.window \in Windows /\ \A id \in DOMAIN rows : rows[id].created \in Time
    BY DEF Scopes, Countable
  <1>2. start \in Boundaries[s.window] /\ start \in Nat /\ start <= now
    BY <1>1, WindowStartIsLast
  <1>3. \A t \in Time : t \in Nat
    BY TimeAssumption DEF Time
  <1>4. counted = Bucket(rows, s, start)
    <2> SUFFICES ASSUME NEW id \in DOMAIN rows, rows[id].entity = s.entity
                 PROVE  rows[id].created >= start
                          <=> WindowStart(s.window, rows[id].created) = start
      BY DEF Bucket
    <2> DEFINE created == rows[id].created
               bucket == WindowStart(s.window, created)
    <2>1. created \in Time
      BY <1>1
    <2>2. bucket <= start
      OBVIOUS
    <2>3. bucket \in Nat
      BY <1>1, <2>1, WindowStartIsLast
    <2> HIDE DEF created
    <2>4. CASE created <= now
      BY <1>1, <2>1, <2>4, SameBucket DEF created
    <2>5. CASE ~(created <= now)
      <3>1. now <= created
        BY <1>3, <2>1, <2>5
      <3>2. start <= bucket
        BY <1>1, <2>1, <3>1, SameBucket
      <3>3. created >= start
        BY <1>2, <1>3, <2>1, <3>1
      <3>4. bucket = start
        BY <1>2, <2>2, <2>3, <3>2
      <3> QED
        BY <3>3, <3>4 DEF created
    <2> QED
      BY <1>3, <2>1, <2>4, <2>5
  <1>5. RebuiltTotal(rows, s, now) = [start |-> start, spent |-> SpendOf(rows, Bucket(rows, s, start))]
    BY <1>4 DEF RebuiltTotal, SpendSince
  <1>6. SpendOf(rows, Bucket(rows, s, start)) \in Nat
    BY SpendIsNatural DEF Bucket
  <1>7. \A id \in DOMAIN rows :
          rows[id].entity = s.entity => ~(WindowStart(s.window, rows[id].created) > start)
    BY <1>1, <1>2, WindowStartIsLast
  <1>8. start # Unknown
    BY <1>2, NullAssumption
  <1> HIDE DEF start
  <1> QED
    BY <1>2, <1>5, <1>6, <1>7, <1>8 DEF Exact

(* What an exact total says of an instant's bucket is the bucket's spend.  *)
LEMMA SpentIsExact ==
  ASSUME NEW s \in Scopes, NEW rows, Countable(rows), NEW now \in Time,
         NEW total, Exact(total, s, rows),
         SpentInWindow(total, s.window, now) # Unknown
  PROVE  SpentInWindow(total, s.window, now)
           = SpendOf(rows, Bucket(rows, s, WindowStart(s.window, now)))
  <1> DEFINE current == WindowStart(s.window, now)
  <1>1. current \in Nat /\ s.window \in Windows
    BY WindowStartIsLast DEF Scopes
  <1>2. total.start # Unknown
    BY DEF SpentInWindow
  <1>3. CASE total.start = current
    BY <1>2, <1>3 DEF SpentInWindow, Exact
  <1>4. CASE total.start # current /\ total.start < current
    <2>1. SpentInWindow(total, s.window, now) = 0
      BY <1>2, <1>4 DEF SpentInWindow
    <2>2. \A id \in Bucket(rows, s, current) : Contribution(rows[id]) = 0
      BY <1>2, <1>4 DEF Exact, Bucket
    <2> QED
      BY <2>1, <2>2, SpendIsNatural DEF Bucket
  <1>5. CASE total.start # current /\ ~(total.start < current)
    BY <1>2, <1>5 DEF SpentInWindow
  <1> QED
    BY <1>3, <1>4, <1>5

================================================================================
