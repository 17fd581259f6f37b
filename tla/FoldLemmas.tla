------------------------------ MODULE FoldLemmas ------------------------------
(***************************************************************************)
(* Induction on numbers and finite sets, and what the folds of the         *)
(* community modules come to: sums over finite sets and sequences.         *)
(*                                                                         *)
(* The induction theorems of the library are about an operator; these are  *)
(* about a set, the numbers or subsets for which a formula holds.          *)
(***************************************************************************)
EXTENDS Naturals, Sequences, FiniteSetsExt, SequencesExt, FiniteSetTheorems,
        WellFoundedInduction, TLAPS

\* A set that has 0, and each successor of what it has, has every number.
LEMMA Induction ==
  ASSUME NEW S, 0 \in S, \A n \in Nat : n \in S => n + 1 \in S
  PROVE  Nat \subseteq S
  <1>1. ASSUME Nat \ S # {} PROVE FALSE
    <2>1. PICK k \in Nat \ S : \A j \in Nat \ S : ~(<<j, k>> \in OpToRel(<, Nat))
      BY <1>1, NatLessThanWellFounded, WFMin, Zenon
    <2>2. k \in Nat /\ k # 0
      OBVIOUS
    <2>3. k - 1 \in Nat /\ (k - 1) + 1 = k /\ k - 1 < k
      BY <2>2
    <2>4. <<k - 1, k>> \in OpToRel(<, Nat)
      BY <2>2, <2>3, Zenon DEF OpToRel
    <2>5. k - 1 \in S
      BY <2>1, <2>3, <2>4
    <2> QED
      BY <2>3, <2>5
  <1> QED
    BY <1>1

\* A set that has the empty sequence, and each sequence of what it has with one
\* element more, has every sequence.
LEMMA SeqInduction ==
  ASSUME NEW E, NEW C, <<>> \in C,
         \A s \in Seq(E) : \A e \in E : s \in C => Append(s, e) \in C
  PROVE  Seq(E) \subseteq C
  <1> DEFINE Good == {n \in Nat : \A s \in Seq(E) : Len(s) = n => s \in C}
  <1>1. 0 \in Good
    <2>1. \A s \in Seq(E) : Len(s) = 0 => s = <<>>
      OBVIOUS
    <2> QED
      BY <2>1
  <1>2. ASSUME NEW n \in Nat, n \in Good PROVE n + 1 \in Good
    <2> SUFFICES ASSUME NEW s \in Seq(E), Len(s) = n + 1 PROVE s \in C
      OBVIOUS
    <2>1. PICK t : t = [i \in 1..n |-> s[i]]
      OBVIOUS
    <2>2. s[n + 1] \in E /\ \A i \in 1..n : s[i] \in E
      OBVIOUS
    <2>3. t \in Seq(E) /\ Len(t) = n /\ \A i \in 1..n : t[i] = s[i]
      BY <2>1, <2>2
    <2>4. s = Append(t, s[n + 1])
      BY <2>2, <2>3
    <2>5. t \in C
      BY <1>2, <2>3
    <2> QED
      BY <2>2, <2>3, <2>4, <2>5
  <1>3. Nat \subseteq Good
    <2> HIDE DEF Good
    <2> QED
      BY <1>1, <1>2, Induction
  <1>4. \A s \in Seq(E) : Len(s) \in Nat
    OBVIOUS
  <1> QED
    BY <1>3, <1>4

\* A set of numbers has a least one, and one that is bounded a greatest.
LEMMA MinOfSet ==
  ASSUME NEW S \in SUBSET Nat, S # {}
  PROVE  Min(S) \in S /\ \A y \in S : Min(S) <= y
  <1>1. PICK k \in S : \A j \in S : ~(<<j, k>> \in OpToRel(<, Nat))
    BY NatLessThanWellFounded, WFMin, Zenon
  <1>2. ASSUME NEW j \in S, j < k PROVE <<j, k>> \in OpToRel(<, Nat)
    BY <1>2, Zenon DEF OpToRel
  <1>3. \A j \in S : ~(j < k)
    BY <1>1, <1>2, Zenon
  <1>4. \A j \in S : k <= j
    BY <1>3
  <1> QED
    BY <1>4, Zenon DEF Min

\* A set with a bound has a greatest number.
LEMMA MaxOfSet ==
  ASSUME NEW S \in SUBSET Nat, S # {}, NEW n \in Nat, \A y \in S : y <= n
  PROVE  Max(S) \in S /\ \A y \in S : Max(S) >= y
  <1> DEFINE bounds == {m \in Nat : \A y \in S : y <= m}
             k == Min(bounds)
  <1>1. k \in bounds /\ \A m \in bounds : k <= m
    <2>1. n \in bounds /\ bounds \in SUBSET Nat
      OBVIOUS
    <2> HIDE DEF bounds
    <2> QED
      BY <2>1, MinOfSet
  <1> HIDE DEF k
  <1>2. k \in S
    <2> SUFFICES ASSUME k \notin S PROVE FALSE
      OBVIOUS
    <2>1. \A y \in S : y <= k - 1
      <3>1. \A y \in S : y <= k /\ y # k /\ y \in Nat /\ k \in Nat
        BY <1>1
      <3> QED
        BY <3>1
    <2>2. k - 1 \in Nat
      <3>1. PICK y \in S : y <= k - 1
        BY <2>1
      <3> QED
        BY <1>1, <3>1
    <2> QED
      BY <1>1, <2>1, <2>2
  <1>3. k \in S /\ \A y \in S : k >= y
    BY <1>1, <1>2
  <1> QED
    BY <1>3, Zenon DEF Max

\* A collection that has the empty set, and each extension by one element of what
\* it has, has every subset of a finite set.
LEMMA SubsetInduction ==
  ASSUME NEW S, IsFiniteSet(S), NEW C, {} \in C,
         \A T \in SUBSET S : \A x \in S \ T : T \in C => T \cup {x} \in C
  PROVE  SUBSET S \subseteq C
  <1> DEFINE Good == {n \in Nat : \A T \in SUBSET S : Cardinality(T) = n => T \in C}
  <1>1. \A T \in SUBSET S : IsFiniteSet(T) /\ Cardinality(T) \in Nat
    BY FS_Subset, FS_CardinalityType
  <1>2. 0 \in Good
    BY <1>1, FS_EmptySet
  <1>3. ASSUME NEW n \in Nat, n \in Good PROVE n + 1 \in Good
    <2> SUFFICES ASSUME NEW T \in SUBSET S, Cardinality(T) = n + 1 PROVE T \in C
      OBVIOUS
    <2>0. T # {} /\ IsFiniteSet(T)
      BY <1>1, FS_EmptySet
    <2>1. PICK x : x \in T
      BY <2>0
    <2>2. Cardinality(T \ {x}) = Cardinality(T) - 1
      BY <2>0, <2>1, FS_RemoveElement, Zenon
    <2>3. Cardinality(T \ {x}) = n
      BY <2>2
    <2>4. T \ {x} \in C /\ x \in S \ (T \ {x}) /\ (T \ {x}) \cup {x} = T
      BY <1>3, <2>1, <2>3
    <2> QED
      BY <2>4
  <1>4. Nat \subseteq Good
    <2> HIDE DEF Good
    <2> QED
      BY <1>2, <1>3, Induction
  <1> QED
    BY <1>1, <1>4

\* A value for every subset of S: that of the empty set, and for others a step from
\* the value of the set without the element picked from it.
StepsFrom(S, pick, step, V) ==
  \A t \in SUBSET S : t # {} => pick[t] \in t /\ step[t] \in [V -> V]

IsSteps(f, S, pick, step, base) ==
  f[{}] = base /\ \A t \in SUBSET S : t # {} => f[t] = step[t][f[t \ {pick[t]}]]

\* For a finite set there are such values.
LEMMA SubsetSteps ==
  ASSUME NEW S, IsFiniteSet(S), NEW pick, NEW step, NEW V, StepsFrom(S, pick, step, V),
         NEW base \in V
  PROVE  \E f \in [SUBSET S -> V] : IsSteps(f, S, pick, step, base)
  <1> DEFINE Next(f) == [t \in SUBSET S |-> IF t = {} THEN base ELSE step[t][f[t \ {pick[t]}]]]
             Upto(f, n) == \A t \in SUBSET S : Cardinality(t) <= n => f[t] = Next(f)[t]
             Good == {n \in Nat : \E f \in [SUBSET S -> V] : Upto(f, n)}
  <1>1. \A t \in SUBSET S : IsFiniteSet(t) /\ Cardinality(t) \in Nat
    BY FS_Subset, FS_CardinalityType
  <1>2. \A f \in [SUBSET S -> V] : Next(f) \in [SUBSET S -> V]
    BY DEF StepsFrom
  <1>3. 0 \in Good
    <2> DEFINE zero == [t \in SUBSET S |-> base]
    <2>1. ASSUME NEW t \in SUBSET S, Cardinality(t) <= 0 PROVE t = {}
      BY <1>1, <2>1, FS_EmptySet
    <2>2. Upto(zero, 0) /\ zero \in [SUBSET S -> V]
      BY <2>1
    <2> QED
      BY <2>2
  <1>4. ASSUME NEW n \in Nat, n \in Good PROVE n + 1 \in Good
    <2>1. PICK f \in [SUBSET S -> V] : Upto(f, n)
      BY <1>4
    <2>2. ASSUME NEW t \in SUBSET S, Cardinality(t) <= n + 1
          PROVE  Next(f)[t] = Next(Next(f))[t]
      <3>1. CASE t # {}
        <4>0. pick[t] \in t /\ IsFiniteSet(t) /\ Cardinality(t) \in Nat
          BY <1>1, <3>1 DEF StepsFrom
        <4>1. Cardinality(t \ {pick[t]}) = Cardinality(t) - 1
          BY <4>0, FS_RemoveElement, Zenon
        <4>2. t \ {pick[t]} \in SUBSET S /\ Cardinality(t \ {pick[t]}) <= n
          BY <2>2, <4>0, <4>1
        <4>3. f[t \ {pick[t]}] = Next(f)[t \ {pick[t]}]
          BY <2>1, <4>2
        <4> QED
          BY <3>1, <4>2, <4>3
      <3> QED
        BY <3>1
    <2>3. Upto(Next(f), n + 1) /\ Next(f) \in [SUBSET S -> V]
      BY <1>2, <2>2
    <2>4. \E g \in [SUBSET S -> V] : Upto(g, n + 1)
      <3> HIDE DEF Upto, Next
      <3> QED
        BY <2>3
    <2>5. n + 1 \in Nat
      OBVIOUS
    <2> HIDE DEF Upto
    <2> QED
      BY <2>4, <2>5
  <1>5. Cardinality(S) \in Good
    <2> HIDE DEF Good
    <2> QED
      BY <1>1, <1>3, <1>4, Induction
  <1>6. PICK f \in [SUBSET S -> V] : Upto(f, Cardinality(S))
    BY <1>5
  <1>7. \A t \in SUBSET S : f[t] = Next(f)[t]
    BY <1>1, <1>6, FS_Subset
  <1> QED
    BY <1>7 DEF IsSteps

\* A number for every subset of S: for the element picked from it some number is
\* added to that of the others.
Picks(S, pick, val) == \A t \in SUBSET S : t # {} => pick[t] \in t /\ val[t] \in Nat

IsRecursion(f, S, pick, val) ==
  f[{}] = 0 /\ \A t \in SUBSET S : t # {} => f[t] = val[t] + f[t \ {pick[t]}]

\* For a finite set there are such numbers.
LEMMA SubsetRecursion ==
  ASSUME NEW S, IsFiniteSet(S), NEW pick, NEW val, Picks(S, pick, val)
  PROVE  \E f \in [SUBSET S -> Nat] : IsRecursion(f, S, pick, val)
  <1> DEFINE step == [t \in SUBSET S |-> [v \in Nat |-> val[t] + v]]
  <1>1. StepsFrom(S, pick, step, Nat)
    BY DEF Picks, StepsFrom
  <1>2. \A t \in SUBSET S : \A v \in Nat : step[t][v] = val[t] + v
    OBVIOUS
  <1> HIDE DEF step
  <1>3. PICK f \in [SUBSET S -> Nat] : IsSteps(f, S, pick, step, 0)
    BY <1>1, SubsetSteps
  <1>4. ASSUME NEW t \in SUBSET S, t # {}
        PROVE  f[t] = val[t] + f[t \ {pick[t]}]
    <2>1. f[t \ {pick[t]}] \in Nat
      OBVIOUS
    <2>2. f[t] = step[t][f[t \ {pick[t]}]]
      BY <1>3, <1>4 DEF IsSteps
    <2> QED
      BY <1>2, <2>1, <2>2
  <1>5. IsRecursion(f, S, pick, val)
    BY <1>3, <1>4 DEF IsSteps, IsRecursion
  <1> QED
    BY <1>5

-----------------------------------------------------------------------------
\* What the folds that sum c over the subsets of S, element by element, compute.
Chosen(t) == CHOOSE x \in t : TRUE

IsSum(f, c, S) ==
  f = [t \in SUBSET S |-> IF t = {} THEN 0 ELSE c[Chosen(t)] + f[t \ {Chosen(t)}]]

Sums(c, S) == CHOOSE f : IsSum(f, c, S)

SumOver(c, S) == Sums(c, S)[S]

\* There are such sums, and they are numbers.
LEMMA SumsExist ==
  ASSUME NEW S, IsFiniteSet(S), NEW c, \A x \in S : c[x] \in Nat
  PROVE  IsSum(Sums(c, S), c, S) /\ Sums(c, S) \in [SUBSET S -> Nat]
  <1> DEFINE pick == [t \in SUBSET S |-> Chosen(t)]
             val == [t \in SUBSET S |-> c[Chosen(t)]]
  <1>1. \A t \in SUBSET S : t # {} => Chosen(t) \in t /\ Chosen(t) \in S
    BY DEF Chosen
  <1>2. PICK f \in [SUBSET S -> Nat] : IsRecursion(f, S, pick, val)
    <2>1. Picks(S, pick, val)
      BY <1>1 DEF Picks
    <2> HIDE DEF pick, val
    <2> QED
      BY <2>1, SubsetRecursion
  <1>3. IsSum(f, c, S)
    BY <1>2 DEF IsSum, IsRecursion
  <1>4. IsSum(Sums(c, S), c, S)
    BY <1>3 DEF Sums
  <1> DEFINE g == Sums(c, S)
             C == {t \in SUBSET S : g[t] = f[t]}
  <1>5. \A t \in SUBSET S : /\ g[t] = IF t = {} THEN 0 ELSE c[Chosen(t)] + g[t \ {Chosen(t)}]
                            /\ f[t] = IF t = {} THEN 0 ELSE c[Chosen(t)] + f[t \ {Chosen(t)}]
    BY <1>3, <1>4 DEF IsSum
  <1> HIDE DEF g
  <1>6. \A t \in SUBSET S : g[t] = f[t]
    <2> DEFINE Good == {n \in Nat : \A t \in SUBSET S : Cardinality(t) = n => g[t] = f[t]}
    <2>1. \A t \in SUBSET S : IsFiniteSet(t) /\ Cardinality(t) \in Nat
      BY FS_Subset, FS_CardinalityType
    <2>2. 0 \in Good
      BY <1>5, <2>1, FS_EmptySet
    <2>3. ASSUME NEW n \in Nat, n \in Good PROVE n + 1 \in Good
      <3> SUFFICES ASSUME NEW t \in SUBSET S, Cardinality(t) = n + 1 PROVE g[t] = f[t]
        OBVIOUS
      <3>1. t # {} /\ IsFiniteSet(t)
        BY <2>1, FS_EmptySet
      <3>2. Cardinality(t \ {Chosen(t)}) = Cardinality(t) - 1
        BY <1>1, <3>1, FS_RemoveElement, Zenon
      <3>3. g[t \ {Chosen(t)}] = f[t \ {Chosen(t)}]
        BY <2>3, <3>2
      <3> QED
        BY <1>5, <3>1, <3>3
    <2>4. Nat \subseteq Good
      <3> HIDE DEF Good
      <3> QED
        BY <2>2, <2>3, Induction
    <2> QED
      BY <2>1, <2>4
  <1>7. g = [t \in SUBSET S |-> g[t]]
    BY <1>4 DEF IsSum, g
  <1> QED
    BY <1>4, <1>6, <1>7 DEF g

\* Sums by their elements.
LEMMA SumsAt ==
  ASSUME NEW S, IsFiniteSet(S), NEW c, \A x \in S : c[x] \in Nat
  PROVE  /\ Sums(c, S)[{}] = 0
         /\ \A t \in SUBSET S : Sums(c, S)[t] \in Nat
         /\ \A t \in SUBSET S : \A x \in t :
              Sums(c, S)[t] = c[x] + Sums(c, S)[t \ {x}]
  <1> DEFINE g == Sums(c, S)
  <1>0. IsSum(g, c, S) /\ g \in [SUBSET S -> Nat]
    BY SumsExist, Zenon
  <1>1. \A t \in SUBSET S : g[t] = IF t = {} THEN 0 ELSE c[Chosen(t)] + g[t \ {Chosen(t)}]
    <2> HIDE DEF g
    <2> QED
      BY <1>0 DEF IsSum
  <1> HIDE DEF g
  <1> DEFINE Good == {n \in Nat : \A t \in SUBSET S : Cardinality(t) = n =>
                        \A x \in t : g[t] = c[x] + g[t \ {x}]}
  <1>2. \A t \in SUBSET S : IsFiniteSet(t) /\ Cardinality(t) \in Nat
    BY FS_Subset, FS_CardinalityType
  <1>3. 0 \in Good
    BY <1>2, FS_EmptySet
  <1>4. ASSUME NEW n \in Nat, n \in Good PROVE n + 1 \in Good
    <2> SUFFICES ASSUME NEW t \in SUBSET S, Cardinality(t) = n + 1, NEW x \in t
                 PROVE  g[t] = c[x] + g[t \ {x}]
      OBVIOUS
    <2> DEFINE y == Chosen(t)
    <2>1. y \in t /\ g[t] = c[y] + g[t \ {y}]
      BY <1>1 DEF Chosen
    <2> HIDE DEF y
    <2>2. CASE x = y
      BY <2>1, <2>2
    <2>3. CASE x # y
      <3>1. Cardinality(t \ {x}) = Cardinality(t) - 1 /\ Cardinality(t \ {y}) = Cardinality(t) - 1
        BY <1>2, <2>1, FS_RemoveElement, Zenon
      <3>2. g[t \ {x}] = c[y] + g[(t \ {x}) \ {y}] /\ g[t \ {y}] = c[x] + g[(t \ {y}) \ {x}]
        BY <1>4, <2>1, <2>3, <3>1
      <3>3. PICK u \in SUBSET S : u = (t \ {x}) \ {y} /\ u = (t \ {y}) \ {x}
        OBVIOUS
      <3>4. c[x] \in Nat /\ c[y] \in Nat /\ g[u] \in Nat
        BY <1>0, <2>1
      <3>5. g[t \ {x}] = c[y] + g[u] /\ g[t] = c[y] + (c[x] + g[u])
        BY <2>1, <3>2, <3>3
      <3> QED
        BY <3>4, <3>5
    <2> QED
      BY <2>2, <2>3
  <1>5. Nat \subseteq Good
    <2> HIDE DEF Good
    <2> QED
      BY <1>3, <1>4, Induction
  <1>6. \A t \in SUBSET S : \A x \in t : g[t] = c[x] + g[t \ {x}]
    BY <1>2, <1>5
  <1> QED
    BY <1>0, <1>1, <1>6 DEF g

\* Functions that agree on a set have the same sum over it.
LEMMA SumsAgree ==
  ASSUME NEW S, IsFiniteSet(S), NEW c, \A x \in S : c[x] \in Nat,
         NEW T, IsFiniteSet(T), NEW d, \A x \in T : d[x] \in Nat,
         NEW U \in SUBSET (S \cap T), \A x \in U : c[x] = d[x]
  PROVE  Sums(c, S)[U] = Sums(d, T)[U]
  <1> DEFINE f == Sums(c, S)
             g == Sums(d, T)
             C == {t \in SUBSET U : f[t] = g[t]}
  <1>1. /\ f[{}] = 0 /\ \A t \in SUBSET S : \A x \in t : f[t] = c[x] + f[t \ {x}]
        /\ g[{}] = 0 /\ \A t \in SUBSET T : \A x \in t : g[t] = d[x] + g[t \ {x}]
    <2>1. /\ Sums(c, S)[{}] = 0
          /\ \A t \in SUBSET S : \A x \in t : Sums(c, S)[t] = c[x] + Sums(c, S)[t \ {x}]
      BY SumsAt
    <2>2. /\ Sums(d, T)[{}] = 0
          /\ \A t \in SUBSET T : \A x \in t : Sums(d, T)[t] = d[x] + Sums(d, T)[t \ {x}]
      BY SumsAt
    <2> QED
      BY <2>1, <2>2
  <1> HIDE DEF f, g
  <1>2. {} \in C
    BY <1>1
  <1>3. ASSUME NEW t \in SUBSET U, NEW x \in U \ t, t \in C PROVE t \cup {x} \in C
    <2>1. (t \cup {x}) \ {x} = t /\ x \in t \cup {x}
          /\ t \cup {x} \in SUBSET S /\ t \cup {x} \in SUBSET T
      OBVIOUS
    <2>2. f[t \cup {x}] = c[x] + f[t] /\ g[t \cup {x}] = d[x] + g[t]
      BY <1>1, <2>1
    <2> QED
      BY <1>3, <2>2
  <1>4. SUBSET U \subseteq C
    <2>1. IsFiniteSet(U)
      BY FS_Subset
    <2> HIDE DEF C
    <2> QED
      BY <1>2, <1>3, <2>1, SubsetInduction
  <1> QED
    BY <1>4 DEF f, g

\* The sum over a set: nothing, or one of its elements and the sum over the rest.
LEMMA SumOverSet ==
  ASSUME NEW S, IsFiniteSet(S), NEW c, \A x \in S : c[x] \in Nat
  PROVE  /\ SumOver(c, S) \in Nat
         /\ S = {} => SumOver(c, S) = 0
         /\ \A x \in S : SumOver(c, S) = c[x] + SumOver(c, S \ {x})
  <1>1. /\ Sums(c, S)[{}] = 0 /\ Sums(c, S)[S] \in Nat
        /\ \A x \in S : Sums(c, S)[S] = c[x] + Sums(c, S)[S \ {x}]
    BY SumsAt
  <1>2. ASSUME NEW x \in S PROVE Sums(c, S)[S \ {x}] = Sums(c, S \ {x})[S \ {x}]
    <2>1. IsFiniteSet(S \ {x}) /\ \A y \in S \ {x} : c[y] \in Nat
      BY FS_Subset
    <2> QED
      BY <2>1, SumsAgree
  <1> QED
    BY <1>1, <1>2 DEF SumOver

\* It depends on what is summed only.
LEMMA SumOverAgree ==
  ASSUME NEW S, IsFiniteSet(S), NEW c, NEW d, \A x \in S : c[x] \in Nat /\ c[x] = d[x]
  PROVE  SumOver(c, S) = SumOver(d, S)
  <1>1. \A x \in S : d[x] \in Nat
    OBVIOUS
  <1> QED
    BY <1>1, SumsAgree DEF SumOver

\* It is one more if one element counts one more, or if one is added that counts one.
LEMMA SumOneMore ==
  ASSUME NEW S, IsFiniteSet(S), NEW c, NEW d, NEW x \in S, d[x] = c[x] + 1,
         \A y \in S : c[y] \in Nat /\ d[y] \in Nat, \A y \in S \ {x} : c[y] = d[y]
  PROVE  SumOver(d, S) = SumOver(c, S) + 1
  <1>1. SumOver(c, S) = c[x] + SumOver(c, S \ {x}) /\ SumOver(d, S) = d[x] + SumOver(d, S \ {x})
    BY SumOverSet
  <1>2. IsFiniteSet(S \ {x})
    BY FS_Subset
  <1>3. SumOver(c, S \ {x}) = SumOver(d, S \ {x}) /\ SumOver(c, S \ {x}) \in Nat
    BY <1>2, SumOverAgree, SumOverSet
  <1> QED
    BY <1>1, <1>3

\* A sum over one element more, which is one, is one more.
LEMMA SumAdded ==
  ASSUME NEW S, IsFiniteSet(S), NEW c, NEW d, NEW x, x \notin S, d[x] = 1,
         \A y \in S : c[y] \in Nat /\ c[y] = d[y]
  PROVE  SumOver(d, S \cup {x}) = SumOver(c, S) + 1
  <1>1. IsFiniteSet(S \cup {x}) /\ \A y \in S \cup {x} : d[y] \in Nat
    BY FS_AddElement
  <1>2. SumOver(d, S \cup {x}) = d[x] + SumOver(d, (S \cup {x}) \ {x})
    BY <1>1, SumOverSet
  <1>3. (S \cup {x}) \ {x} = S /\ SumOver(c, S) = SumOver(d, S) /\ SumOver(c, S) \in Nat
    BY SumOverAgree, SumOverSet
  <1> QED
    BY <1>2, <1>3
==============================================================================
