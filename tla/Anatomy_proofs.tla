---------------------------- MODULE Anatomy_proofs ----------------------------
(***************************************************************************)
(* What anatomy.md keeps of the files that tools write, and what the hooks *)
(* count and estimate from it, for any files, sections, rules and texts,   *)
(* whatever the agent writes into it and broken entries are read as.       *)
(***************************************************************************)
EXTENDS Anatomy, FoldLemmas, SequenceTheorems

-----------------------------------------------------------------------------
\* R orders the elements of S strictly, one after the other.
IsOrder(S, R) ==
  /\ \A i, j \in S : i # j => <<i, j>> \in R \/ <<j, i>> \in R
  /\ \A i \in S : <<i, i>> \notin R
  /\ \A i, j, k \in S : <<i, j>> \in R /\ <<j, k>> \in R => <<i, k>> \in R

Below(S, R, i) == {j \in S : <<j, i>> \in R}

\* How many are before an element tells it from the others, in order.
LEMMA BelowGrows ==
  ASSUME NEW S, IsFiniteSet(S), NEW R, IsOrder(S, R)
  PROVE  /\ \A i \in S : Cardinality(Below(S, R, i)) \in 0..(Cardinality(S) - 1)
         /\ \A i, j \in S : <<i, j>> \in R =>
              Cardinality(Below(S, R, i)) < Cardinality(Below(S, R, j))
  <1>1. \A T \in SUBSET S : IsFiniteSet(T) /\ Cardinality(T) \in Nat
    BY FS_Subset, FS_CardinalityType
  <1>2. \A T, U \in SUBSET S : T \subseteq U /\ T # U => Cardinality(T) < Cardinality(U)
    <2> SUFFICES ASSUME NEW T \in SUBSET S, NEW U \in SUBSET S, T \subseteq U, T # U
                 PROVE  Cardinality(T) < Cardinality(U)
      OBVIOUS
    <2>1. Cardinality(T) <= Cardinality(U) /\ Cardinality(T) # Cardinality(U)
      BY <1>1, FS_Subset
    <2> QED
      BY <1>1, <2>1
  <1>3. ASSUME NEW i \in S PROVE Cardinality(Below(S, R, i)) \in 0..(Cardinality(S) - 1)
    <2>1. Below(S, R, i) \in SUBSET S /\ i \notin Below(S, R, i)
      BY DEF Below, IsOrder
    <2>2. Cardinality(Below(S, R, i)) < Cardinality(S)
      BY <1>2, <2>1
    <2>3. Cardinality(Below(S, R, i)) \in Nat /\ Cardinality(S) \in Nat
      BY <1>1, <2>1
    <2> QED
      BY <2>2, <2>3
  <1>4. ASSUME NEW i \in S, NEW j \in S, <<i, j>> \in R
        PROVE  Cardinality(Below(S, R, i)) < Cardinality(Below(S, R, j))
    <2>1. i \in Below(S, R, j) /\ i \notin Below(S, R, i)
      BY <1>4 DEF Below, IsOrder
    <2>2. Below(S, R, i) \subseteq Below(S, R, j)
      BY <1>4 DEF Below, IsOrder
    <2>3. Below(S, R, i) \in SUBSET S /\ Below(S, R, j) \in SUBSET S
      BY DEF Below
    <2> QED
      BY <1>2, <2>1, <2>2, <2>3
  <1> QED
    BY <1>3, <1>4

\* The element that k - 1 others are before.
At(S, R, k) == CHOOSE i \in S : Cardinality(Below(S, R, i)) = k - 1

\* There is one for each k up to the number of elements, and they are in order.
LEMMA AtInOrder ==
  ASSUME NEW S, IsFiniteSet(S), NEW R, IsOrder(S, R)
  PROVE  /\ \A k \in 1..Cardinality(S) : At(S, R, k) \in S
         /\ \A k, l \in 1..Cardinality(S) : k < l => <<At(S, R, k), At(S, R, l)>> \in R
         /\ \A i \in S : \E k \in 1..Cardinality(S) : At(S, R, k) = i
  <1> DEFINE n == Cardinality(S)
             count == [i \in S |-> Cardinality(Below(S, R, i))]
  <1>0. n \in Nat
    BY FS_CardinalityType
  <1>1. count \in [S -> 0..(n - 1)]
    BY BelowGrows
  <1>2. \A i, j \in S : <<i, j>> \in R => count[i] < count[j]
    BY BelowGrows
  <1>3. \A i, j \in S : count[i] = count[j] => i = j
    <2>1. \A i, j \in S : count[i] \in 0..(n - 1) /\ count[j] \in 0..(n - 1)
      BY <1>1
    <2>2. \A i, j \in S : count[i] = count[j] => ~(count[i] < count[j]) /\ ~(count[j] < count[i])
      BY <2>1, <1>0
    <2> HIDE DEF count
    <2> QED
      BY <1>2, <2>2 DEF IsOrder
  <1>4. \A m \in 0..(n - 1) : \E i \in S : count[i] = m
    <2>1. IsFiniteSet(0..(n - 1)) /\ Cardinality(0..(n - 1)) = n
      BY <1>0, FS_Interval
    <2> HIDE DEF count
    <2>2. count \in Injection(S, 0..(n - 1))
      BY <1>1, <1>3 DEF Injection, IsInjective
    <2>3. count \in Surjection(S, 0..(n - 1))
      BY <2>1, <2>2, FS_Injection
    <2> QED
      BY <2>3 DEF Surjection
  <1>5. \A k \in 1..n : At(S, R, k) \in S /\ count[At(S, R, k)] = k - 1
    <2> SUFFICES ASSUME NEW k \in 1..n PROVE At(S, R, k) \in S /\ count[At(S, R, k)] = k - 1
      OBVIOUS
    <2>1. k - 1 \in 0..(n - 1)
      BY <1>0
    <2>2. PICK i \in S : count[i] = k - 1
      BY <2>1, <1>4
    <2>3. Cardinality(Below(S, R, i)) = k - 1
      BY <2>2
    <2>4. At(S, R, k) \in S /\ Cardinality(Below(S, R, At(S, R, k))) = k - 1
      BY <2>3, Zenon DEF At
    <2> QED
      BY <2>4
  <1> HIDE DEF count
  <1>6. ASSUME NEW k \in 1..n, NEW l \in 1..n, k < l
        PROVE  <<At(S, R, k), At(S, R, l)>> \in R
    <2>1. /\ At(S, R, k) \in S /\ count[At(S, R, k)] = k - 1
          /\ At(S, R, l) \in S /\ count[At(S, R, l)] = l - 1
      BY <1>5
    <2>2. k - 1 # l - 1 /\ ~(l - 1 < k - 1)
      BY <1>0, <1>6
    <2>3. At(S, R, k) # At(S, R, l)
      BY <2>1, <2>2
    <2>4. ~(<<At(S, R, l), At(S, R, k)>> \in R)
      BY <1>2, <2>1, <2>2
    <2> QED
      BY <2>1, <2>3, <2>4 DEF IsOrder
  <1>7. ASSUME NEW i \in S PROVE \E k \in 1..n : At(S, R, k) = i
    <2>1. count[i] \in 0..(n - 1)
      BY <1>1
    <2>2. PICK k : k = count[i] + 1
      OBVIOUS
    <2>3. k \in 1..n /\ k - 1 = count[i]
      BY <1>0, <2>1, <2>2
    <2> QED
      BY <1>3, <1>5, <2>3
  <1> QED
    BY <1>5, <1>6, <1>7

-----------------------------------------------------------------------------
\* s has the entries in an order of their indices: those at p[1], p[2], ...
Arranges(s, p, entries, order) ==
  /\ DOMAIN s = DOMAIN entries /\ DOMAIN p = DOMAIN entries
  /\ \A k \in DOMAIN entries : p[k] \in DOMAIN entries /\ s[k] = entries[p[k]]
  /\ \A k, l \in DOMAIN entries : k < l => <<p[k], p[l]>> \in order
  /\ \A i \in DOMAIN entries : \E k \in DOMAIN entries : p[k] = i

\* So does Arranged.
LEMMA ArrangedIs ==
  ASSUME NEW E, NEW entries \in Seq(E), NEW order, IsOrder(DOMAIN entries, order),
         NEW s, s = Arranged(entries, order)
  PROVE  s \in Seq(E) /\ \E p : Arranges(s, p, entries, order)
  <1> DEFINE S == DOMAIN entries
             n == Len(entries)
  <1>1. S = 1..n /\ n \in Nat /\ IsFiniteSet(S) /\ Cardinality(S) = n
    <2>1. S = 1..n /\ n \in Nat
      OBVIOUS
    <2>2. IsFiniteSet(1..n) /\ Cardinality(1..n) = n
      BY <2>1, FS_Interval
    <2> QED
      BY <2>1, <2>2
  <1>2. PICK p : p = [k \in S |-> At(S, order, k)]
    OBVIOUS
  <1>3. s = [k \in S |-> entries[p[k]]]
    <2>1. s = [k \in S |-> entries[At(S, order, k)]]
      BY Zenon DEF Arranged, At, Below
    <2> HIDE DEF S
    <2> QED
      BY <1>2, <2>1
  <1>4. /\ \A k \in S : At(S, order, k) \in S
        /\ \A k, l \in S : k < l => <<At(S, order, k), At(S, order, l)>> \in order
        /\ \A i \in S : \E k \in S : At(S, order, k) = i
    <2>1. S = 1..Cardinality(S) /\ IsFiniteSet(S) /\ IsOrder(S, order)
      BY <1>1
    <2> HIDE DEF S
    <2>2. PICK D : D = 1..Cardinality(S)
      OBVIOUS
    <2>3. /\ \A k \in D : At(S, order, k) \in S
          /\ \A k, l \in D : k < l => <<At(S, order, k), At(S, order, l)>> \in order
          /\ \A i \in S : \E k \in D : At(S, order, k) = i
      BY <2>1, <2>2, AtInOrder
    <2> QED
      BY <2>1, <2>2, <2>3
  <1>5. \A k \in S : entries[k] \in E
    OBVIOUS
  <1> HIDE DEF S
  <1>6. s \in Seq(E)
    <2>1. s \in [1..n -> E]
      BY <1>1, <1>2, <1>3, <1>4, <1>5
    <2> QED
      BY <1>1, <2>1, SeqDef, Zenon
  <1>7. Arranges(s, p, entries, order)
    BY <1>2, <1>3, <1>4 DEF Arranges, S
  <1> QED
    BY <1>6, <1>7

-----------------------------------------------------------------------------
\* e is the first entry of its place.
IsFirst(s, e) ==
  \E i \in DOMAIN s : s[i] = e /\ \A j \in DOMAIN s : j < i => s[j].place # e.place

\* Places have one entry each but for those in T.
Once(s, T) ==
  \A i, j \in DOMAIN s : i # j /\ s[i].place = s[j].place => s[i].place \in T

\* Entries at the places Q are at places in T.
Within(s, Q, T) == \A i \in DOMAIN s : s[i].place \in Q => s[i].place \in T

\* The places in T are those that hooks answer for no more, those in Q they keep out.
Good(s, Q, T) == s \in Seq(Entries) /\ Once(s, T) /\ Within(s, Q, T)

\* The first entry is that at the least of the indices.
LEMMA FirstIs ==
  ASSUME NEW s \in Seq(Entries), NEW e \in Entries
  PROVE  IsFirst(s, e) <=> /\ IndicesOf(s, e.place) # {}
                           /\ s[Min(IndicesOf(s, e.place))] = e
  <1> DEFINE S == IndicesOf(s, e.place)
  <1>1. S \in SUBSET Nat /\ \A i : i \in S <=> i \in DOMAIN s /\ s[i].place = e.place
    BY DEF IndicesOf
  <1>2. DOMAIN s \subseteq Nat
    OBVIOUS
  <1> HIDE DEF S
  <1>3. ASSUME IsFirst(s, e) PROVE S # {} /\ s[Min(S)] = e
    <2>1. PICK i \in DOMAIN s : s[i] = e /\ \A j \in DOMAIN s : j < i => s[j].place # e.place
      BY <1>3 DEF IsFirst
    <2>2. i \in S /\ \A j \in S : ~(j < i)
      BY <1>1, <2>1
    <2>3. Min(S) \in S /\ Min(S) <= i
      BY <1>1, <2>2, MinOfSet
    <2>4. Min(S) = i
      BY <1>1, <2>2, <2>3
    <2> QED
      BY <2>1, <2>2, <2>4
  <1>4. ASSUME S # {}, s[Min(S)] = e PROVE IsFirst(s, e)
    <2>1. Min(S) \in S /\ \A j \in S : Min(S) <= j
      BY <1>1, <1>4, MinOfSet
    <2>2. PICK i : i = Min(S)
      OBVIOUS
    <2>3. i \in DOMAIN s /\ s[i] = e /\ \A j \in S : ~(j < i)
      BY <1>1, <1>2, <1>4, <2>1, <2>2
    <2> QED
      BY <1>1, <2>3 DEF IsFirst
  <1> QED
    BY <1>3, <1>4 DEF S

\* A place has a rank if entries may stand there.
LEMMA RankIs ==
  \A p \in Places : Rank(p) \in Nat
  <1> SUFFICES ASSUME NEW p \in Places PROVE Rank(p) \in Nat
    OBVIOUS
  <1>1. \E i \in DOMAIN Order : Order[i] = p
    BY AnatomyAssumption DEF AnatomyAssumption, ToSet
  <1>2. Rank(p) \in DOMAIN Order
    BY <1>1, Zenon DEF Rank
  <1>3. Order \in Seq(Places)
    BY AnatomyAssumption, Zenon DEF AnatomyAssumption
  <1>4. DOMAIN Order \subseteq Nat
    BY <1>3
  <1> QED
    BY <1>2, <1>4

\* Sorting changes nothing of what is first, single or kept out.
LEMMA SerializeIs ==
  ASSUME NEW u \in Seq(Entries), NEW s, s = Serialize(u)
  PROVE  /\ \A Q, T : Good(u, Q, T) => Good(s, Q, T)
         /\ \A e : IsFirst(u, e) => IsFirst(s, e)
         /\ s \in Seq(Entries)
  <1> DEFINE S == DOMAIN u
             Key(i) == Rank(u[i].place)
             order == {p \in S \X S : Key(p[1]) < Key(p[2]) \/ (Key(p[1]) = Key(p[2]) /\ p[1] < p[2])}
  <1>1. s = Arranged(u, order)
    BY Zenon DEF Serialize
  <1>2. \A i \in S : i \in Nat /\ Key(i) \in Nat
    <2> SUFFICES ASSUME NEW i \in S PROVE i \in Nat /\ Key(i) \in Nat
      OBVIOUS
    <2>1. u[i] \in Entries
      OBVIOUS
    <2>2. u[i].place \in Places
      BY <2>1 DEF Entries
    <2> QED
      BY <2>2, RankIs
  <1>3. \A i, j \in S : <<i, j>> \in order <=> Key(i) < Key(j) \/ (Key(i) = Key(j) /\ i < j)
    BY Zenon
  <1>4. IsOrder(S, order)
    <2> HIDE DEF S, Key, order
    <2> QED
      BY <1>2, <1>3 DEF IsOrder
  <1>5. \A i, j \in S : <<i, j>> \in order /\ u[i].place = u[j].place => i < j
    <2> SUFFICES ASSUME NEW i \in S, NEW j \in S, <<i, j>> \in order, u[i].place = u[j].place
                 PROVE  i < j
      OBVIOUS
    <2>1. Key(i) = Key(j)
      OBVIOUS
    <2> HIDE DEF S, Key, order
    <2> QED
      BY <1>2, <1>3, <2>1
  <1> HIDE DEF Key, order
  <1>6. s \in Seq(Entries) /\ \E p : Arranges(s, p, u, order)
    BY <1>1, <1>4, ArrangedIs
  <1>7. PICK p : Arranges(s, p, u, order)
    BY <1>6
  <1>8. /\ DOMAIN s = S /\ \A k \in S : p[k] \in S /\ s[k] = u[p[k]]
        /\ \A k, l \in S : k < l => <<p[k], p[l]>> \in order
        /\ \A i \in S : \E k \in S : p[k] = i
    BY <1>7 DEF Arranges
  <1> HIDE DEF S
  <1>9. \A k, l \in S : k # l => p[k] # p[l]
    <2> SUFFICES ASSUME NEW k \in S, NEW l \in S, k < l PROVE p[k] # p[l]
      BY <1>2
    <2> QED
      BY <1>4, <1>8 DEF IsOrder
  <1>10. ASSUME NEW Q, NEW T, Good(u, Q, T) PROVE Good(s, Q, T)
    <2>1. Once(u, T) /\ Within(u, Q, T)
      BY <1>10 DEF Good
    <2>2. Once(s, T)
      <3>1. ASSUME NEW k \in S, NEW l \in S, k # l, s[k].place = s[l].place
            PROVE  s[k].place \in T
        <4>1. p[k] \in S /\ p[l] \in S /\ p[k] # p[l] /\ s[k] = u[p[k]] /\ s[l] = u[p[l]]
          BY <1>8, <1>9, <3>1
        <4> QED
          BY <2>1, <3>1, <4>1 DEF Once, S
      <3> QED
        BY <1>8, <3>1 DEF Once
    <2>3. Within(s, Q, T)
      BY <1>8, <2>1 DEF Within, S
    <2> QED
      BY <1>6, <2>2, <2>3 DEF Good
  <1>11. ASSUME NEW e, IsFirst(u, e) PROVE IsFirst(s, e)
    <2>1. PICK i \in S : u[i] = e /\ \A j \in S : j < i => u[j].place # e.place
      BY <1>11 DEF IsFirst, S
    <2>2. PICK k \in S : p[k] = i
      BY <1>8
    <2>3. s[k] = e
      BY <1>8, <2>1, <2>2
    <2>4. ASSUME NEW l \in S, l < k PROVE s[l].place # e.place
      <3>1. <<p[l], i>> \in order /\ p[l] \in S /\ s[l] = u[p[l]]
        BY <1>8, <2>2, <2>4
      <3>2. u[p[l]].place = u[i].place => p[l] < i
        BY <1>5, <3>1
      <3> QED
        BY <2>1, <3>1, <3>2
    <2> QED
      BY <1>8, <2>3, <2>4 DEF IsFirst
  <1> QED
    BY <1>6, <1>10, <1>11

\* An entry that is put in is the first of its place, and the only one if there was
\* none or one.
LEMMA WithIs ==
  ASSUME NEW u \in Seq(Entries), NEW e \in Entries, NEW s, s = With(u, e)
  PROVE  /\ \A Q, T : Good(u, Q, T) /\ e.place \notin Q => Good(s, Q, T)
         /\ IsFirst(s, e) /\ s \in Seq(Entries)
         /\ \A d : IsFirst(u, d) /\ d.place # e.place => IsFirst(s, d)
  <1> DEFINE S == IndicesOf(u, e.place)
             n == Len(u)
  <1>0. /\ n \in Nat /\ DOMAIN u = 1..n /\ S \in SUBSET Nat
        /\ \A i : i \in S <=> i \in 1..n /\ u[i].place = e.place
    BY DEF IndicesOf
  <1>1. CASE S = {}
    <2>1. s = Append(u, e)
      BY <1>1, Zenon DEF With
    <2>2. /\ s \in Seq(Entries) /\ DOMAIN s = 1..(n + 1)
          /\ s[n + 1] = e /\ \A i \in 1..n : s[i] = u[i]
      BY <2>1
    <2>3. /\ \A i \in 1..(n + 1) : i \in 1..n \/ i = n + 1
          /\ n + 1 \notin 1..n /\ n + 1 \in 1..(n + 1) /\ 1..n \subseteq 1..(n + 1)
          /\ \A i \in 1..n : ~(n + 1 < i)
      BY <1>0
    <2>4. \A i \in 1..n : u[i].place # e.place
      BY <1>0, <1>1
    <2> HIDE DEF n, S
    <2>5. ASSUME NEW Q, NEW T, Good(u, Q, T), e.place \notin Q PROVE Good(s, Q, T)
      <3>1. Once(u, T) /\ Within(u, Q, T)
        BY <2>5 DEF Good
      <3>2. Once(s, T)
        BY <1>0, <2>2, <2>3, <2>4, <3>1 DEF Once
      <3>3. Within(s, Q, T)
        BY <1>0, <2>2, <2>3, <2>5, <3>1 DEF Within
      <3> QED
        BY <2>2, <3>2, <3>3 DEF Good
    <2>6. IsFirst(s, e)
      <3>1. \A j \in 1..(n + 1) : j < n + 1 => j \in 1..n
        BY <1>0
      <3> QED
        BY <2>2, <2>3, <2>4, <3>1 DEF IsFirst
    <2>7. ASSUME NEW d, IsFirst(u, d), d.place # e.place PROVE IsFirst(s, d)
      <3>1. PICK i \in 1..n : u[i] = d /\ \A j \in 1..n : j < i => u[j].place # d.place
        BY <1>0, <2>7 DEF IsFirst
      <3>2. s[i] = d /\ i \in DOMAIN s
        BY <2>2, <2>3, <3>1
      <3>3. \A j \in DOMAIN s : j < i => s[j].place # d.place
        BY <2>2, <2>3, <3>1
      <3> QED
        BY <3>2, <3>3 DEF IsFirst
    <2> QED
      BY <2>2, <2>5, <2>6, <2>7
  <1>2. CASE S # {}
    <2>1. Min(S) \in S /\ \A j \in S : Min(S) <= j
      BY <1>0, <1>2, MinOfSet
    <2>2. PICK k : k = Min(S)
      OBVIOUS
    <2>3. k \in 1..n /\ u[k].place = e.place /\ \A j \in S : ~(j < k)
      BY <1>0, <2>1, <2>2
    <2>4. s = [u EXCEPT ![k] = e]
      BY <1>2, <2>2, Zenon DEF With
    <2>5. /\ s \in Seq(Entries) /\ DOMAIN s = 1..n
          /\ s[k] = e /\ \A i \in 1..n : i # k => s[i] = u[i]
      BY <1>0, <2>3, <2>4
    <2>6. \A i \in 1..n : s[i].place = u[i].place
      BY <2>3, <2>5
    <2> HIDE DEF n, S
    <2>7. ASSUME NEW Q, NEW T, Good(u, Q, T) PROVE Good(s, Q, T)
      <3>1. Once(s, T) /\ Within(s, Q, T)
        BY <1>0, <2>5, <2>6, <2>7 DEF Good, Once, Within
      <3> QED
        BY <2>5, <3>1 DEF Good
    <2>8. IsFirst(s, e)
      <3>1. \A j \in 1..n : j < k => s[j].place # e.place
        BY <1>0, <2>3, <2>6
      <3> QED
        BY <2>3, <2>5, <3>1 DEF IsFirst
    <2>9. ASSUME NEW d, IsFirst(u, d), d.place # e.place PROVE IsFirst(s, d)
      <3>1. PICK i \in 1..n : u[i] = d /\ \A j \in 1..n : j < i => u[j].place # d.place
        BY <1>0, <2>9 DEF IsFirst
      <3>2. i # k
        BY <2>3, <2>9, <3>1
      <3> QED
        BY <2>5, <2>6, <3>1, <3>2 DEF IsFirst
    <2> QED
      BY <2>5, <2>7, <2>8, <2>9
  <1> QED
    BY <1>1, <1>2

-----------------------------------------------------------------------------
\* The entries of s with those from i to j replaced by others, and what places
\* that is about.
Spliced(s, i, j, others) == SubSeq(s, 1, i - 1) \o others \o SubSeq(s, j + 1, Len(s))

PlacesIn(s, i, j, others) ==
  {s[n].place : n \in i..j} \cup {e.place : e \in ToSet(others)}

\* The indices of the entries that stay, K, come from others of s, in order.
Keeps(t, K, source, s, i, j) ==
  /\ K \subseteq DOMAIN t
  /\ \A k \in K : source[k] \in DOMAIN s /\ source[k] \notin i..j /\ t[k] = s[source[k]]
  /\ \A k, l \in K : k < l => source[k] < source[l]
  /\ \A n \in DOMAIN s : n \notin i..j => \E k \in K : source[k] = n

\* One sequence after another.
Joins(z, x, y) ==
  /\ Len(z) = Len(x) + Len(y)
  /\ \A k \in 1..Len(x) : z[k] = x[k]
  /\ \A k \in (Len(x) + 1)..(Len(x) + Len(y)) : z[k] = y[k - Len(x)]

LEMMA ConcatIs ==
  ASSUME NEW E, NEW x \in Seq(E), NEW y \in Seq(E)
  PROVE  x \o y \in Seq(E) /\ Joins(x \o y, x, y)
  <1> DEFINE z == x \o y
  <1>1. Len(x) \in Nat /\ Len(y) \in Nat
    OBVIOUS
  <1>2. z \in Seq(E) /\ Len(z) = Len(x) + Len(y)
    OBVIOUS
  <1>3. \A k \in 1..(Len(x) + Len(y)) : z[k] = IF k <= Len(x) THEN x[k] ELSE y[k - Len(x)]
    OBVIOUS
  <1> HIDE DEF z
  <1>4. Joins(z, x, y)
    BY <1>1, <1>2, <1>3 DEF Joins
  <1> QED
    BY <1>2, <1>4 DEF z

\* The other entries are at the places it is about.
LEMMA SplicedIs ==
  ASSUME NEW E, NEW s \in Seq(E), NEW i \in 1..(Len(s) + 1), NEW j \in (i - 1)..Len(s),
         NEW others \in Seq(E), NEW t, t = Spliced(s, i, j, others)
  PROVE  /\ t \in Seq(E)
         /\ \E K, source : /\ Keeps(t, K, source, s, i, j)
                           /\ \A k \in DOMAIN t : k \notin K => t[k] \in ToSet(others)
  <1> DEFINE m == Len(s)
             a == i - 1
             b == Len(others)
             front == SubSeq(s, 1, a)
             back == SubSeq(s, j + 1, m)
  <1>1. m \in Nat /\ a \in Nat /\ b \in Nat /\ i = a + 1 /\ j \in Nat /\ a <= j /\ j <= m
    OBVIOUS
  <1>2. front \in Seq(E) /\ Len(front) = a /\ \A k \in 1..a : front[k] = s[k]
    BY <1>1
  <1>3. back \in Seq(E) /\ Len(back) = m - j /\ \A k \in 1..(m - j) : back[k] = s[j + k]
    BY <1>1
  <1>4. t = front \o others \o back
    BY Zenon DEF Spliced
  <1>5. \A k \in 1..b : others[k] \in ToSet(others)
    BY DEF ToSet
  <1>6. DOMAIN s = 1..m /\ Len(others) = b
    OBVIOUS
  <1> HIDE DEF front, back, m, a, b
  <1>7. PICK u : u = front \o others
    OBVIOUS
  <1>8. /\ u \in Seq(E) /\ Len(u) = a + b
        /\ \A k \in 1..a : u[k] = s[k]
        /\ \A k \in (a + 1)..(a + b) : u[k] = others[k - a]
    <2>1. u \in Seq(E) /\ Joins(u, front, others)
      BY <1>2, <1>7, ConcatIs
    <2> QED
      BY <1>2, <1>6, <2>1 DEF Joins
  <1>9. /\ t \in Seq(E) /\ Len(t) = a + b + (m - j)
        /\ \A k \in 1..(a + b) : t[k] = u[k]
        /\ \A k \in (a + b + 1)..(a + b + (m - j)) : t[k] = back[k - (a + b)]
    <2>1. t \in Seq(E) /\ Joins(t, u, back)
      BY <1>3, <1>4, <1>7, <1>8, ConcatIs
    <2> QED
      BY <1>3, <1>8, <2>1 DEF Joins
  <1>10. DOMAIN t = 1..(a + b + (m - j))
    BY <1>9
  <1> DEFINE K == 1..a \cup (a + b + 1)..(a + b + (m - j))
             source == [k \in K |-> IF k <= a THEN k ELSE k - (a + b) + j]
  <1>11. K \subseteq DOMAIN t
    BY <1>1, <1>10
  <1>12. \A k \in 1..a : k \in K /\ source[k] = k /\ t[k] = s[k] /\ k \in 1..m /\ k \notin i..j
    BY <1>1, <1>8, <1>9
  <1>13. \A k \in (a + b + 1)..(a + b + (m - j)) :
           /\ k \in K /\ source[k] = k - (a + b) + j /\ t[k] = s[k - (a + b) + j]
           /\ k - (a + b) + j \in 1..m /\ k - (a + b) + j \notin i..j
    <2> SUFFICES ASSUME NEW k \in (a + b + 1)..(a + b + (m - j))
                 PROVE  /\ k \in K /\ source[k] = k - (a + b) + j /\ t[k] = s[k - (a + b) + j]
                        /\ k - (a + b) + j \in 1..m /\ k - (a + b) + j \notin i..j
      OBVIOUS
    <2>1. k \in Nat /\ ~(k <= a) /\ k - (a + b) \in 1..(m - j)
      BY <1>1
    <2>2. back[k - (a + b)] = s[j + (k - (a + b))] /\ t[k] = back[k - (a + b)]
      BY <1>3, <1>9, <2>1
    <2>3. j + (k - (a + b)) = k - (a + b) + j
      BY <1>1, <2>1
    <2>4. k - (a + b) + j \in 1..m /\ k - (a + b) + j \notin i..j
      BY <1>1, <2>1
    <2> QED
      BY <2>1, <2>2, <2>3, <2>4
  <1>14. \A k \in K : k \in 1..a \/ k \in (a + b + 1)..(a + b + (m - j))
    OBVIOUS
  <1>15. \A k \in DOMAIN t : k \notin K => t[k] \in ToSet(others)
    <2> SUFFICES ASSUME NEW k \in DOMAIN t, k \notin K PROVE t[k] \in ToSet(others)
      OBVIOUS
    <2>1. k \in (a + 1)..(a + b) /\ k \in 1..(a + b) /\ k - a \in 1..b
      BY <1>1, <1>10
    <2> QED
      BY <1>5, <1>8, <1>9, <2>1
  <1>16. \A n \in 1..m : n \notin i..j => \E k \in K : source[k] = n
    <2> SUFFICES ASSUME NEW n \in 1..m, n \notin i..j PROVE \E k \in K : source[k] = n
      OBVIOUS
    <2>1. CASE n <= a
      <3>1. n \in 1..a
        BY <1>1, <2>1
      <3> QED
        BY <1>12, <3>1
    <2>2. CASE ~(n <= a)
      <3>1. n > j
        BY <1>1, <2>2
      <3>2. PICK k : k = n - j + (a + b)
        OBVIOUS
      <3>3. k \in (a + b + 1)..(a + b + (m - j)) /\ k - (a + b) + j = n
        BY <1>1, <3>1, <3>2
      <3> QED
        BY <1>13, <3>3
    <2> QED
      BY <2>1, <2>2
  <1>17. \A k, l \in K : k < l => source[k] < source[l]
    <2> SUFFICES ASSUME NEW k \in K, NEW l \in K, k < l PROVE source[k] < source[l]
      OBVIOUS
    <2>1. CASE k \in 1..a /\ l \in 1..a
      BY <1>12, <2>1
    <2>2. CASE k \in 1..a /\ l \in (a + b + 1)..(a + b + (m - j))
      <3>1. source[k] = k /\ source[l] = l - (a + b) + j
        BY <1>12, <1>13, <2>2
      <3>2. k < l - (a + b) + j
        BY <1>1, <2>2
      <3> HIDE DEF source
      <3> QED
        BY <3>1, <3>2
    <2>3. CASE k \in (a + b + 1)..(a + b + (m - j))
      <3>1. l \in (a + b + 1)..(a + b + (m - j))
        BY <1>1, <1>14, <2>3
      <3>2. source[k] = k - (a + b) + j /\ source[l] = l - (a + b) + j
        BY <1>13, <2>3, <3>1
      <3>3. k - (a + b) + j < l - (a + b) + j
        BY <1>1, <2>3, <3>1
      <3> HIDE DEF source
      <3> QED
        BY <3>2, <3>3
    <2> QED
      BY <1>14, <2>1, <2>2, <2>3
  <1> HIDE DEF K, source
  <1>18. Keeps(t, K, source, s, i, j)
    <2>1. \A k \in K : source[k] \in DOMAIN s /\ source[k] \notin i..j /\ t[k] = s[source[k]]
      BY <1>6, <1>12, <1>13, <1>14
    <2> QED
      BY <1>6, <1>11, <1>16, <1>17, <2>1 DEF Keeps
  <1> QED
    BY <1>9, <1>15, <1>18

\* What is first stays so, and nothing becomes double or let in, but at those places.
LEMMA ReplaceIs ==
  ASSUME NEW s \in Seq(Entries), NEW i \in 1..(Len(s) + 1), NEW j \in (i - 1)..Len(s),
         NEW others \in Seq(Entries), NEW t, t = Spliced(s, i, j, others),
         NEW P, P = PlacesIn(s, i, j, others)
  PROVE  /\ \A Q, T : Good(s, Q, T) => Good(t, Q, T \cup P)
         /\ \A e : IsFirst(s, e) /\ e.place \notin P => IsFirst(t, e)
         /\ P \subseteq Places
  <1>1. /\ t \in Seq(Entries)
        /\ \E K, source : /\ Keeps(t, K, source, s, i, j)
                          /\ \A k \in DOMAIN t : k \notin K => t[k] \in ToSet(others)
    BY SplicedIs
  <1>2. PICK K, source : /\ Keeps(t, K, source, s, i, j)
                         /\ \A k \in DOMAIN t : k \notin K => t[k] \in ToSet(others)
    BY <1>1
  <1>3. /\ K \subseteq DOMAIN t
        /\ \A k \in K : source[k] \in DOMAIN s /\ source[k] \notin i..j /\ t[k] = s[source[k]]
        /\ \A k, l \in K : k < l => source[k] < source[l]
        /\ \A n \in DOMAIN s : n \notin i..j => \E k \in K : source[k] = n
    BY <1>2 DEF Keeps
  <1>4. \A k \in DOMAIN t : k \notin K => t[k].place \in P
    BY <1>2 DEF PlacesIn
  <1>5. \A n \in i..j : s[n].place \in P
    BY DEF PlacesIn
  <1>6. DOMAIN t \subseteq Nat /\ DOMAIN s \subseteq Nat
    <2>1. DOMAIN t \subseteq Nat
      BY <1>1
    <2>2. DOMAIN s \subseteq Nat
      OBVIOUS
    <2> QED
      BY <2>1, <2>2
  <1>7. \A k, l \in K : k # l => source[k] # source[l]
    <2> SUFFICES ASSUME NEW k \in K, NEW l \in K, k < l PROVE source[k] # source[l]
      BY <1>3, <1>6
    <2> QED
      BY <1>3, <1>6
  <1>8. ASSUME NEW Q, NEW T, Good(s, Q, T) PROVE Good(t, Q, T \cup P)
    <2>1. Once(s, T) /\ Within(s, Q, T)
      BY <1>8 DEF Good
    <2>2. Once(t, T \cup P)
      <3>1. ASSUME NEW k \in K, NEW l \in K, k # l, t[k].place = t[l].place
            PROVE  t[k].place \in T
        <4>1. /\ source[k] \in DOMAIN s /\ source[l] \in DOMAIN s /\ source[k] # source[l]
              /\ t[k] = s[source[k]] /\ t[l] = s[source[l]]
          BY <1>3, <1>7, <3>1
        <4> QED
          BY <2>1, <3>1, <4>1 DEF Once
      <3> QED
        BY <1>4, <3>1 DEF Once
    <2>3. Within(t, Q, T \cup P)
      BY <1>3, <1>4, <2>1 DEF Within
    <2> QED
      BY <1>1, <2>2, <2>3 DEF Good
  <1>9. ASSUME NEW e, IsFirst(s, e), e.place \notin P PROVE IsFirst(t, e)
    <2>1. PICK n \in DOMAIN s : s[n] = e /\ \A l \in DOMAIN s : l < n => s[l].place # e.place
      BY <1>9 DEF IsFirst
    <2>2. PICK k \in K : source[k] = n
      BY <1>3, <1>5, <1>9, <2>1
    <2>3. t[k] = e /\ k \in DOMAIN t
      BY <1>3, <2>1, <2>2
    <2>4. ASSUME NEW l \in DOMAIN t, l < k PROVE t[l].place # e.place
      <3>1. CASE l \in K
        BY <1>3, <2>1, <2>2, <2>4, <3>1
      <3>2. CASE l \notin K
        BY <1>4, <1>9, <3>2
      <3> QED
        BY <3>1, <3>2
    <2> QED
      BY <2>3, <2>4 DEF IsFirst
  <1>10. P \subseteq Places
    <2>1. \A n \in i..j : s[n] \in Entries
      OBVIOUS
    <2>2. \A e \in ToSet(others) : e \in Entries
      BY DEF ToSet
    <2>3. \A e \in Entries : e.place \in Places
      BY DEF Entries
    <2> QED
      BY <2>1, <2>2, <2>3 DEF PlacesIn
  <1> QED
    BY <1>8, <1>9, <1>10

-----------------------------------------------------------------------------
\* Estimates are numbers.
LEMMA EstimateIs ==
  ASSUME NEW size \in Nat, NEW type \in {"code", "prose", "mixed"}
  PROVE  EstimateTokens(size, type) \in Nat
  BY DEF EstimateTokens

\* The type of a file is one of three.
LEMMA TypeByIs ==
  ASSUME NEW code, NEW f
  PROVE  TypeBy(code, f) \in {"code", "prose", "mixed"}
  BY DEF TypeBy

\* What is assumed of texts and places, one by one.
LEMMA TextIs ==
  /\ \A c \in Contents : c.size \in Nat /\ c.tail \in Tails
  /\ PlaceOf \in [Files -> Places]
  /\ \A f, g \in Files : PlaceOf[f] = PlaceOf[g] => f = g
  <1>1. PlaceOf \in [Files -> Places] /\ IsInjective(PlaceOf)
    BY AnatomyAssumption, Zenon DEF AnatomyAssumption
  <1>2. \A c \in Contents : c.size \in Nat /\ c.tail \in Tails
    BY AnatomyAssumption, Zenon DEF AnatomyAssumption
  <1> QED
    BY <1>1, <1>2 DEF IsInjective

\* The entry of a file is one, at its place.
LEMMA EntryOfIs ==
  ASSUME NEW f \in Files, NEW c \in Contents
  PROVE  EntryOf(f, c) \in Entries /\ EntryOf(f, c).place = PlaceOf[f]
  <1>1. PICK rule, tokens : rule = Description(f, c)
                            /\ tokens = EstimateTokens(c.size, TypeBy(WriteCode, f))
    OBVIOUS
  <1>2. tokens \in Nat
    BY <1>1, TextIs, EstimateIs, TypeByIs
  <1>3. rule \in Rules
    <2>1. rule \in {Description(f, x) : x \in Contents}
      BY <1>1, Zenon
    <2> QED
      BY <2>1, Zenon DEF Rules
  <1>4. EntryOf(f, c) = [place |-> PlaceOf[f], rule |-> rule, tokens |-> tokens]
    BY <1>1, Zenon DEF EntryOf
  <1>5. PlaceOf[f] \in Places
    BY TextIs
  <1> QED
    BY <1>2, <1>3, <1>4, <1>5 DEF Entries

-----------------------------------------------------------------------------
\* The places that hooks keep out.
Kept == {PlaceOf[f] : f \in Internal \cup Secret}

\* The types of all but anatomy.md.
Plain ==
  /\ disk \in [Files -> Contents]
  /\ read \in [Files -> Nat \cup {Unread}]
  /\ {hits, misses} \subseteq Nat
  /\ fresh \subseteq Files \ (Internal \cup Secret) /\ touched \subseteq Places
  /\ changes \in 0..MaxChanges /\ reads \in 0..MaxReads

\* The entries of fresh files are the first of their places.
FreshFirst == \A f \in fresh : IsFirst(listing, EntryOf(f, disk[f]))

\* The inductive invariant.
Inv == Plain /\ Good(listing, Kept, touched) /\ FreshFirst

\* It is what the types and the properties say.
LEMMA InvIs ==
  ASSUME Inv
  PROVE  TypeOK /\ OneEntryEach /\ WrittenIsListed
  <1>1. /\ listing \in Seq(Entries) /\ Once(listing, touched) /\ Within(listing, Kept, touched)
        /\ fresh \subseteq Files /\ disk \in [Files -> Contents]
    BY DEF Inv, Plain, Good
  <1>2. \A e \in ToSet(listing), f \in Files :
          Unlisted(f) /\ e.place = PlaceOf[f] => e.place \in touched
    BY <1>1 DEF Within, Kept, Unlisted, ToSet
  <1>3. TypeOK
    BY <1>1, <1>2 DEF Inv, Plain, TypeOK
  <1>4. OneEntryEach
    BY <1>1 DEF Once, OneEntryEach
  <1>5. ASSUME NEW f \in fresh PROVE Listed(f) /\ FirstEntry(f) = EntryOf(f, disk[f])
    <2>1. PICK e : e = EntryOf(f, disk[f])
      OBVIOUS
    <2>2. e \in Entries /\ e.place = PlaceOf[f]
      BY <1>1, <2>1, EntryOfIs
    <2>3. IsFirst(listing, e)
      BY <2>1 DEF Inv, FreshFirst
    <2>4. IndicesOf(listing, e.place) # {} /\ listing[Min(IndicesOf(listing, e.place))] = e
      BY <1>1, <2>2, <2>3, FirstIs
    <2> QED
      BY <2>1, <2>2, <2>4 DEF Listed, FirstEntry
  <1> QED
    BY <1>3, <1>4, <1>5 DEF WrittenIsListed

\* anatomy.md is empty at first.
LEMMA InitInv ==
  ASSUME Init
  PROVE  Inv
  <1>1. disk \in [Files -> Contents]
    BY DEF Init
  <1>2. Good(listing, Kept, touched) /\ FreshFirst
    BY DEF Init, Good, Once, Within, FreshFirst
  <1>3. MaxChanges \in Nat /\ MaxReads \in Nat
    BY AnatomyAssumption, Zenon DEF AnatomyAssumption
  <1> QED
    BY <1>1, <1>2, <1>3 DEF Init, Inv, Plain

-----------------------------------------------------------------------------
\* What others replace entries of s is about the places P only.
Disturbs(s, P) ==
  /\ Good(listing', Kept, touched')
  /\ touched' \subseteq Places
  /\ fresh' = {f \in fresh : PlaceOf[f] \notin P}
  /\ \A e : IsFirst(s, e) /\ e.place \notin P => IsFirst(listing', e)

\* It is so of Replace.
LEMMA ReplaceDisturbs ==
  ASSUME NEW s, Good(s, Kept, touched), touched \subseteq Places,
         NEW i \in 1..(Len(s) + 1), NEW j \in (i - 1)..Len(s), NEW others \in Seq(Entries),
         Replace(s, i, j, others)
  PROVE  Disturbs(s, PlacesIn(s, i, j, others))
  <1>1. PICK P : P = PlacesIn(s, i, j, others)
    OBVIOUS
  <1>2. /\ listing' = Spliced(s, i, j, others)
        /\ fresh' = {f \in fresh : PlaceOf[f] \notin P}
        /\ touched' = touched \cup P
    BY <1>1, Zenon DEF Replace, Spliced, PlacesIn
  <1>3. s \in Seq(Entries)
    BY DEF Good
  <1>4. PICK t : t = listing'
    OBVIOUS
  <1>5. /\ \A Q, T : Good(s, Q, T) => Good(t, Q, T \cup P)
        /\ \A e : IsFirst(s, e) /\ e.place \notin P => IsFirst(t, e)
        /\ P \subseteq Places
    BY <1>1, <1>2, <1>3, <1>4, ReplaceIs, Zenon
  <1>6. Good(t, Kept, touched')
    BY <1>2, <1>5
  <1> QED
    BY <1>1, <1>2, <1>4, <1>5, <1>6 DEF Disturbs

\* A broken entry is replaced by entries.
LEMMA RereadDisturbs ==
  ASSUME NEW s, Good(s, Kept, touched), touched \subseteq Places,
         NEW f \in Files, NEW c \in Contents, IsFirst(s, EntryOf(f, c)), Reread(f, c, s)
  PROVE  \E P : PlaceOf[f] \in P /\ Disturbs(s, P)
  <1> DEFINE k == Min(IndicesOf(s, PlaceOf[f]))
             lines == [n \in DOMAIN c.tail.lines |->
                         LET line == c.tail.lines[n]
                         IN  [place |-> [section |-> Under(line.section, f), name |-> line.name],
                              rule |-> "quoted", tokens |-> line.tokens]]
             inSection == {i \in DOMAIN s : s[i].place.section = PlaceOf[f].section}
             last == IF c.tail.opened = Here THEN k ELSE Max(inSection)
             below == SubSeq(s, k + 1, last)
             moved == [n \in DOMAIN below |-> [below[n] EXCEPT !.place.section = c.tail.opened]]
             others == lines \o (IF c.tail.opened = Blank THEN <<>> ELSE moved)
  <1>1. Replace(s, k, last, others)
    BY Zenon DEF Reread
  <1>2. s \in Seq(Entries) /\ Len(s) \in Nat /\ DOMAIN s = 1..Len(s)
    BY DEF Good
  <1>3. k \in DOMAIN s /\ s[k].place = PlaceOf[f]
    <2>1. PICK e : e = EntryOf(f, c)
      OBVIOUS
    <2>2. e \in Entries /\ e.place = PlaceOf[f] /\ IsFirst(s, e)
      BY <2>1, EntryOfIs
    <2>3. IndicesOf(s, PlaceOf[f]) # {}
      BY <1>2, <2>2, FirstIs
    <2>4. IndicesOf(s, PlaceOf[f]) \in SUBSET Nat
      BY <1>2 DEF IndicesOf
    <2>5. k \in IndicesOf(s, PlaceOf[f])
      BY <2>3, <2>4, MinOfSet
    <2> QED
      BY <2>5 DEF IndicesOf
  <1> HIDE DEF k
  <1>4. last \in k..Len(s)
    <2>1. k \in inSection
      BY <1>3
    <2>2. inSection \in SUBSET Nat /\ \A i \in inSection : i <= Len(s) /\ i \in Nat
      BY <1>2
    <2> HIDE DEF inSection
    <2>3. Max(inSection) \in inSection /\ Max(inSection) >= k
      BY <1>2, <2>1, <2>2, MaxOfSet
    <2>4. Max(inSection) \in k..Len(s)
      BY <1>2, <1>3, <2>2, <2>3
    <2>5. k \in k..Len(s)
      BY <1>2, <1>3
    <2> QED
      BY <2>4, <2>5
  <1> HIDE DEF last
  <1>5. c.tail \in Tails
    BY TextIs
  <1>6. lines \in Seq(Entries)
    <2>1. PICK L : L = c.tail.lines
      OBVIOUS
    <2>2. L \in Seq([section : Sections \cup {Here}, name : Names, tokens : Nat])
      BY <1>5, <2>1 DEF Tails
    <2>3. DOMAIN L = 1..Len(L) /\ Len(L) \in Nat
      BY <2>2
    <2>4. ASSUME NEW n \in DOMAIN L
          PROVE  [place |-> [section |-> Under(L[n].section, f), name |-> L[n].name],
                  rule |-> "quoted", tokens |-> L[n].tokens] \in Entries
      <3>0. L[n] \in [section : Sections \cup {Here}, name : Names, tokens : Nat]
        <4>1. PICK R : R = [section : Sections \cup {Here}, name : Names, tokens : Nat]
          OBVIOUS
        <4>2. L \in Seq(R)
          BY <2>2, <4>1
        <4>3. L[n] \in R
          BY <2>4, <4>2
        <4> QED
          BY <4>1, <4>3
      <3>1. L[n].section \in Sections \cup {Here} /\ L[n].name \in Names /\ L[n].tokens \in Nat
        BY <3>0
      <3>2. PlaceOf[f].section \in Sections
        BY TextIs DEF Places
      <3>3. Under(L[n].section, f) \in Sections
        BY <3>1, <3>2 DEF Under
      <3> QED
        BY <3>1, <3>3 DEF Entries, Places, Rules
    <2>5. lines \in [1..Len(L) -> Entries]
      BY <2>1, <2>3, <2>4
    <2> HIDE DEF lines
    <2> QED
      BY <2>3, <2>5, SeqDef, Zenon
  <1>7. below \in Seq(Entries) /\ (c.tail.opened = Here => below = <<>>)
    <2>1. SubSeq(s, k + 1, last) \in Seq(Entries)
      BY <1>2, <1>3, <1>4
    <2>2. ASSUME c.tail.opened = Here PROVE below = <<>>
      <3>1. last = k
        BY <2>2 DEF last
      <3> QED
        BY <1>2, <1>3, <3>1
    <2> QED
      BY <2>1, <2>2
  <1> HIDE DEF below
  <1>8. ASSUME c.tail.opened # Blank PROVE moved \in Seq(Entries)
    <2>1. DOMAIN below = 1..Len(below) /\ Len(below) \in Nat
      BY <1>7
    <2>2. ASSUME NEW n \in DOMAIN below
          PROVE  [below[n] EXCEPT !.place.section = c.tail.opened] \in Entries
      <3>1. c.tail.opened \in Sections
        BY <1>5, <1>7, <1>8, <2>2 DEF Tails
      <3>2. below[n] \in Entries
        BY <1>7, <2>2
      <3> QED
        BY <3>1, <3>2 DEF Entries, Places
    <2>3. moved \in [1..Len(below) -> Entries]
      BY <2>1, <2>2
    <2> QED
      BY <2>1, <2>3, SeqDef, Zenon
  <1> HIDE DEF lines, moved
  <1>9. others \in Seq(Entries)
    <2>1. (IF c.tail.opened = Blank THEN <<>> ELSE moved) \in Seq(Entries)
      BY <1>8
    <2> QED
      BY <1>6, <2>1
  <1> HIDE DEF others
  <1>10. k \in 1..(Len(s) + 1) /\ last \in (k - 1)..Len(s)
    BY <1>2, <1>3, <1>4
  <1>11. Disturbs(s, PlacesIn(s, k, last, others))
    BY <1>1, <1>9, <1>10, ReplaceDisturbs
  <1>12. PlaceOf[f] \in PlacesIn(s, k, last, others)
    <2>1. k \in k..last
      BY <1>2, <1>3, <1>4
    <2> QED
      BY <1>3, <2>1 DEF PlacesIn
  <1> QED
    BY <1>11, <1>12

-----------------------------------------------------------------------------
\* A tool's write: the listing has the entry of f first, those of others stay so.
LEMMA PostWriteInv ==
  ASSUME Inv, NEW f \in Files, NEW c \in Contents, PostWrite(f, c)
  PROVE  Inv'
  <1>0. Plain /\ Good(listing, Kept, touched) /\ FreshFirst /\ listing \in Seq(Entries)
    BY DEF Inv, Good
  <1>1. /\ disk' \in [Files -> Contents] /\ disk'[f] = c
        /\ \A g \in Files : g # f => disk'[g] = disk[g]
        /\ changes' \in 0..MaxChanges /\ UNCHANGED <<read, hits, misses, reads>>
    <2>1. MaxChanges \in Nat
      BY AnatomyAssumption, Zenon DEF AnatomyAssumption
    <2>2. /\ disk' = [disk EXCEPT ![f] = c] /\ Changing
          /\ UNCHANGED <<read, hits, misses, reads>>
      BY Zenon DEF PostWrite
    <2> QED
      BY <1>0, <2>1, <2>2 DEF Changing, Plain
  <1>2. CASE Unlisted(f)
    <2>1. UNCHANGED <<listing, fresh, touched>>
      BY <1>2, Zenon DEF PostWrite
    <2>2. \A g \in fresh : g \in Files /\ g # f
      BY <1>0, <1>2 DEF Plain, Unlisted
    <2>3. FreshFirst'
      BY <1>0, <1>1, <2>1, <2>2 DEF FreshFirst
    <2>4. Good(listing, Kept, touched)'
      BY <1>0, <2>1 DEF Good
    <2> QED
      BY <1>0, <1>1, <2>1, <2>3, <2>4 DEF Inv, Plain
  <1>3. CASE ~Unlisted(f)
    <2>1. PICK e : e = EntryOf(f, c)
      OBVIOUS
    <2>2. PICK s : s = Serialize(With(listing, e))
      OBVIOUS
    <2>3. e \in Entries /\ e.place = PlaceOf[f]
      BY <2>1, EntryOfIs
    <2>4. PlaceOf[f] \notin Kept
      <3>1. Internal \cup Secret \subseteq Files
        BY AnatomyAssumption, Zenon DEF AnatomyAssumption
      <3>2. ASSUME NEW g \in Internal \cup Secret PROVE PlaceOf[g] # PlaceOf[f]
        BY <1>3, <3>1, TextIs DEF Unlisted
      <3> QED
        BY <3>2 DEF Kept
    <2>5. /\ Good(s, Kept, touched) /\ IsFirst(s, e)
          /\ \A d : IsFirst(listing, d) /\ d.place # e.place => IsFirst(s, d)
      <3>1. PICK u : u = With(listing, e)
        OBVIOUS
      <3>2. /\ \A Q, T : Good(listing, Q, T) /\ e.place \notin Q => Good(u, Q, T)
            /\ IsFirst(u, e) /\ u \in Seq(Entries)
            /\ \A d : IsFirst(listing, d) /\ d.place # e.place => IsFirst(u, d)
        BY <1>0, <2>3, <3>1, WithIs, Zenon
      <3>3. Good(u, Kept, touched)
        BY <1>0, <2>3, <2>4, <3>2
      <3>4. s = Serialize(u)
        BY <2>2, <3>1
      <3>5. /\ \A Q, T : Good(u, Q, T) => Good(s, Q, T)
            /\ \A d : IsFirst(u, d) => IsFirst(s, d)
        BY <3>2, <3>4, SerializeIs, Zenon
      <3> QED
        BY <3>2, <3>3, <3>5
    <2>6. ASSUME NEW g \in fresh, g # f
          PROVE  /\ g \in Files /\ PlaceOf[g] # PlaceOf[f]
                 /\ EntryOf(g, disk'[g]).place = PlaceOf[g]
                 /\ IsFirst(s, EntryOf(g, disk'[g]))
      <3>1. g \in Files /\ PlaceOf[g] # PlaceOf[f]
        BY <1>0, <2>6, TextIs DEF Plain
      <3>2. PICK d : d = EntryOf(g, disk[g])
        OBVIOUS
      <3>3. d.place = PlaceOf[g]
        BY <1>0, <3>1, <3>2, EntryOfIs DEF Plain
      <3>4. IsFirst(listing, d)
        BY <1>0, <3>2 DEF FreshFirst
      <3>5. IsFirst(s, d)
        BY <2>3, <2>5, <3>1, <3>3, <3>4
      <3>6. disk'[g] = disk[g]
        BY <1>1, <2>6, <3>1
      <3> QED
        BY <3>1, <3>2, <3>3, <3>5, <3>6
    <2>7. CASE ~IsBroken(f, c)
      <3>1. listing' = s /\ fresh' = fresh \cup {f} /\ UNCHANGED touched
        BY <1>3, <2>1, <2>2, <2>7, Zenon DEF PostWrite
      <3>2. Good(listing, Kept, touched)'
        BY <2>5, <3>1 DEF Good
      <3>3. FreshFirst'
        <4>1. ASSUME NEW g \in fresh' PROVE IsFirst(s, EntryOf(g, disk'[g]))
          BY <1>1, <2>1, <2>5, <2>6, <3>1, <4>1
        <4> QED
          BY <3>1, <4>1 DEF FreshFirst
      <3>4. Plain'
        BY <1>0, <1>1, <1>3, <3>1 DEF Plain, Unlisted
      <3> QED
        BY <3>2, <3>3, <3>4 DEF Inv
    <2>8. CASE IsBroken(f, c)
      <3>1. Reread(f, c, s)
        BY <1>3, <2>1, <2>2, <2>8, Zenon DEF PostWrite
      <3>2. PICK P : PlaceOf[f] \in P /\ Disturbs(s, P)
        BY <1>0, <2>1, <2>5, <3>1, RereadDisturbs DEF Plain
      <3>3. /\ Good(listing', Kept, touched') /\ touched' \subseteq Places
            /\ fresh' = {g \in fresh : PlaceOf[g] \notin P}
            /\ \A d : IsFirst(s, d) /\ d.place \notin P => IsFirst(listing', d)
        BY <3>2 DEF Disturbs
      <3>4. Good(listing, Kept, touched)'
        BY <3>3 DEF Good, Kept
      <3>5. FreshFirst'
        <4>1. ASSUME NEW g \in fresh' PROVE IsFirst(listing', EntryOf(g, disk'[g]))
          <5>1. g \in fresh /\ PlaceOf[g] \notin P /\ g # f
            BY <3>2, <3>3
          <5>2. PICK d : d = EntryOf(g, disk'[g])
            OBVIOUS
          <5>3. d.place = PlaceOf[g] /\ IsFirst(s, d)
            BY <2>6, <5>1, <5>2
          <5> QED
            BY <3>3, <5>1, <5>2, <5>3
        <4> QED
          BY <4>1 DEF FreshFirst
      <3>6. Plain'
        BY <1>0, <1>1, <3>3 DEF Plain
      <3> QED
        BY <3>4, <3>5, <3>6 DEF Inv
    <2> QED
      BY <2>7, <2>8
  <1> QED
    BY <1>2, <1>3

\* A write by something else: the file is not fresh any more.
LEMMA ElsewhereInv ==
  ASSUME Inv, NEW f \in Files, NEW c \in Contents, Elsewhere(f, c)
  PROVE  Inv'
  <1>0. Plain /\ Good(listing, Kept, touched) /\ FreshFirst
    BY DEF Inv
  <1>1. MaxChanges \in Nat
    BY AnatomyAssumption, Zenon DEF AnatomyAssumption
  <1>2. /\ disk' \in [Files -> Contents]
        /\ \A g \in Files : g # f => disk'[g] = disk[g]
        /\ changes' \in 0..MaxChanges
        /\ fresh' = fresh \ {f} /\ UNCHANGED <<listing, touched, read, hits, misses, reads>>
    BY <1>0, <1>1 DEF Elsewhere, Changing, Plain
  <1>3. FreshFirst'
    <2>1. \A g \in fresh' : g \in fresh /\ g \in Files /\ g # f
      BY <1>0, <1>2 DEF Plain
    <2> QED
      BY <1>0, <1>2, <2>1 DEF FreshFirst
  <1>4. Good(listing, Kept, touched)'
    BY <1>0, <1>2 DEF Good
  <1> QED
    BY <1>0, <1>2, <1>3, <1>4 DEF Inv, Plain

\* The agent's edit.
LEMMA EditInv ==
  ASSUME Inv, NEW i \in 1..(Len(listing) + 1), NEW others \in HandWritten,
         NEW j \in (i - 1)..Len(listing), Edit(i, j, others)
  PROVE  Inv'
  <1>0. Plain /\ Good(listing, Kept, touched) /\ FreshFirst
    BY DEF Inv
  <1>1. MaxChanges \in Nat
    BY AnatomyAssumption, Zenon DEF AnatomyAssumption
  <1>2. changes' \in 0..MaxChanges /\ UNCHANGED <<disk, read, hits, misses, reads>>
        /\ Replace(listing, i, j, others)
    BY <1>0, <1>1 DEF Edit, Changing, Plain
  <1>3. others \in Seq(Entries)
    <2>1. others \in Seq([place : Places, rule : {"by hand"}, tokens : Nat])
      BY AnatomyAssumption, Zenon DEF AnatomyAssumption
    <2>2. PICK R : R = [place : Places, rule : {"by hand"}, tokens : Nat]
      OBVIOUS
    <2>3. R \subseteq Entries
      BY <2>2 DEF Entries, Rules
    <2>4. others \in Seq(R)
      BY <2>1, <2>2
    <2> QED
      BY <2>3, <2>4
  <1>4. PICK P : P = PlacesIn(listing, i, j, others)
    OBVIOUS
  <1>5. Disturbs(listing, P)
    BY <1>0, <1>2, <1>3, <1>4, ReplaceDisturbs DEF Plain
  <1>6. /\ Good(listing', Kept, touched') /\ touched' \subseteq Places
        /\ fresh' = {g \in fresh : PlaceOf[g] \notin P}
        /\ \A d : IsFirst(listing, d) /\ d.place \notin P => IsFirst(listing', d)
    BY <1>5 DEF Disturbs
  <1>7. Good(listing, Kept, touched)'
    BY <1>6 DEF Good, Kept
  <1>8. FreshFirst'
    <2>1. ASSUME NEW g \in fresh' PROVE IsFirst(listing', EntryOf(g, disk'[g]))
      <3>1. g \in fresh /\ g \in Files /\ PlaceOf[g] \notin P
        BY <1>0, <1>6 DEF Plain
      <3>2. PICK d : d = EntryOf(g, disk[g])
        OBVIOUS
      <3>3. d.place = PlaceOf[g] /\ IsFirst(listing, d)
        BY <1>0, <3>1, <3>2, EntryOfIs DEF Plain, FreshFirst
      <3> QED
        BY <1>2, <1>6, <3>1, <3>2, <3>3
    <2> QED
      BY <2>1 DEF FreshFirst
  <1> QED
    BY <1>0, <1>2, <1>6, <1>7, <1>8 DEF Inv, Plain

\* Nothing of anatomy.md changes.
LEMMA SameListing ==
  ASSUME Inv, UNCHANGED <<disk, listing, fresh, touched>>, Plain'
  PROVE  Inv'
  BY DEF Inv, Good, FreshFirst

-----------------------------------------------------------------------------
\* The tokens listed of a file are a number.
LEMMA ListedTokensIs ==
  ASSUME listing \in Seq(Entries), NEW f
  PROVE  ListedTokens(f) \subseteq Nat
  <1>1. \A i \in Matches(f) : listing[i].tokens \in Nat
    <2>1. \A i \in DOMAIN listing : listing[i] \in Entries
      OBVIOUS
    <2>2. \A i \in Matches(f) : i \in DOMAIN listing
      BY DEF Matches
    <2> QED
      BY <2>1, <2>2 DEF Entries
  <1> QED
    BY <1>1 DEF ListedTokens

\* A read of f, in the values it gives.
LEMMA ReadIs ==
  ASSUME Inv, NEW f \in Files, NEW n \in Lengths(f), Read(f, n)
  PROVE  /\ UNCHANGED <<disk, listing, fresh, touched, changes>>
         /\ \/ f \in Internal /\ UNCHANGED <<read, hits, misses>>
            \/ /\ \E t \in Nat : read' = [read EXCEPT ![f] = t]
               /\ read[f] # Unread => UNCHANGED <<hits, misses>>
               /\ read[f] = Unread =>
                    IF Matches(f) # {} THEN hits' = hits + 1 /\ misses' = misses
                    ELSE hits' = hits /\ misses' = misses + 1
  <1> DEFINE given == EstimateTokens(n, TypeBy(ReadCode, f))
  <1>1. UNCHANGED <<disk, listing, fresh, touched, changes>>
    BY DEF Read
  <1>2. given \in Nat
    <2>1. n \in Nat
      <3>1. Portions \subseteq Nat
        BY AnatomyAssumption, Zenon DEF AnatomyAssumption
      <3>2. disk[f].size \in Nat
        BY TextIs DEF Inv, Plain
      <3>3. n \in {0, disk[f].size} \/ n \in Portions
        BY Zenon DEF Lengths
      <3> HIDE DEF given
      <3>4. CASE n \in {0, disk[f].size}
        BY <3>2, <3>4
      <3>5. CASE n \in Portions
        BY <3>1, <3>5
      <3> QED
        BY <3>3, <3>4, <3>5
    <2> QED
      BY <2>1, EstimateIs, TypeByIs
  <1>3. (IF given = 0 THEN ListedTokens(f) ELSE {given}) \subseteq Nat
    <2>1. ListedTokens(f) \subseteq Nat
      BY ListedTokensIs DEF Inv, Good
    <2> HIDE DEF given
    <2> QED
      BY <1>2, <2>1
  <1>4. CASE f \in Internal \cap Absolute
    BY <1>1, <1>4 DEF Read
  <1>5. CASE f \notin Internal \cap Absolute
    <2>1. /\ hits' = hits + (IF read[f] = Unread /\ Matches(f) # {} THEN 1 ELSE 0)
          /\ misses' = misses + (IF read[f] = Unread /\ Matches(f) = {} THEN 1 ELSE 0)
      BY <1>5, Zenon DEF Read
    <2>2. \E t \in Nat : read' = [read EXCEPT ![f] = t]
      <3>1. \E t \in IF given = 0 THEN ListedTokens(f) ELSE {given} : read' = [read EXCEPT ![f] = t]
        BY <1>5, Zenon DEF Read
      <3> HIDE DEF given
      <3> QED
        BY <1>3, <3>1
    <2>3. hits \in Nat /\ misses \in Nat
      BY DEF Inv, Plain
    <2>4. read[f] # Unread => UNCHANGED <<hits, misses>>
      BY <2>1, <2>3
    <2>5. read[f] = Unread =>
            IF Matches(f) # {} THEN hits' = hits + 1 /\ misses' = misses
            ELSE hits' = hits /\ misses' = misses + 1
      <3>1. CASE Matches(f) # {}
        BY <2>1, <2>3, <3>1
      <3>2. CASE Matches(f) = {}
        BY <2>1, <2>3, <3>2
      <3> QED
        BY <3>1, <3>2
    <2> QED
      BY <1>1, <2>2, <2>4, <2>5
  <1> QED
    BY <1>4, <1>5

\* A read changes nothing of anatomy.md.
LEMMA ReadInv ==
  ASSUME Inv, NEW f \in Files, NEW n \in Lengths(f), Read(f, n)
  PROVE  Inv'
  <1>1. UNCHANGED <<disk, listing, fresh, touched, changes>>
    BY ReadIs
  <1>2. reads' \in 0..MaxReads
    <2>1. MaxReads \in Nat
      BY AnatomyAssumption, Zenon DEF AnatomyAssumption
    <2> QED
      BY <2>1 DEF Inv, Plain, Read
  <1>3. read' \in [Files -> Nat \cup {Unread}] /\ {hits', misses'} \subseteq Nat
    BY ReadIs DEF Inv, Plain
  <1>4. Plain'
    BY <1>1, <1>2, <1>3 DEF Inv, Plain
  <1> QED
    BY <1>1, <1>4, SameListing

\* Every step keeps the invariant.
LEMMA NextInv ==
  ASSUME Inv, [Next]_vars
  PROVE  Inv'
  <1>1. CASE \E f \in Files, c \in Contents : PostWrite(f, c) \/ Elsewhere(f, c)
    BY <1>1, PostWriteInv, ElsewhereInv
  <1>2. CASE \E i \in 1..(Len(listing) + 1), others \in HandWritten :
               \E j \in (i - 1)..Len(listing) : Edit(i, j, others)
    BY <1>2, EditInv
  <1>3. CASE \E f \in Files : \E n \in Lengths(f) : Read(f, n)
    BY <1>3, ReadInv
  <1>4. CASE NewSession
    <2>1. Plain'
      BY <1>4 DEF NewSession, Inv, Plain
    <2> QED
      BY <1>4, <2>1, SameListing DEF NewSession
  <1>5. CASE UNCHANGED vars
    <2>1. Plain'
      BY <1>5 DEF vars, Inv, Plain
    <2> QED
      BY <1>5, <2>1, SameListing DEF vars
  <1> QED
    BY <1>1, <1>2, <1>3, <1>4, <1>5 DEF Next

\* The invariant holds.
LEMMA Invariance == Spec => []Inv
  <1> QED
    BY InitInv, NextInv, PTL DEF Spec

\* Files of .wolf and .env files are listed by the agent only, and counters count.
THEOREM TypeInvariance == Spec => []TypeOK
  <1>1. Inv => TypeOK
    BY InvIs
  <1> QED
    BY <1>1, Invariance, PTL

\* A file written by a tool is listed first at its place with what was derived of
\* its text, whatever is written to others; broken entries and the agent's edits
\* spoil the places of their own lines and of the entries they move only.
THEOREM WrittenStaysListed == Spec => []WrittenIsListed
  <1>1. Inv => WrittenIsListed
    BY InvIs
  <1> QED
    BY <1>1, Invariance, PTL

\* Hooks never list a file twice: a place has a second entry only if the agent or
\* the lines of a broken entry have put one there.
THEOREM HooksListOnce == Spec => []OneEntryEach
  <1>1. Inv => OneEntryEach
    BY InvIs
  <1> QED
    BY <1>1, Invariance, PTL

-----------------------------------------------------------------------------
\* Only a read of f notes tokens of it.
LEMMA NotedByRead ==
  ASSUME Inv, [Next]_vars, NEW f \in Files, read'[f] \notin {read[f], Unread}
  PROVE  \E n \in Lengths(f) : Read(f, n)
  <1>0. read \in [Files -> Nat \cup {Unread}]
    BY DEF Inv, Plain
  <1>1. ~(\E g \in Files, c \in Contents : PostWrite(g, c) \/ Elsewhere(g, c))
    BY DEF PostWrite, Elsewhere
  <1>2. ~(\E i \in 1..(Len(listing) + 1), others \in HandWritten :
            \E j \in (i - 1)..Len(listing) : Edit(i, j, others))
    BY DEF Edit
  <1>3. ~NewSession /\ ~UNCHANGED vars
    BY DEF NewSession, vars
  <1>4. PICK g \in Files : \E n \in Lengths(g) : Read(g, n)
    BY <1>1, <1>2, <1>3 DEF Next
  <1>5. PICK n \in Lengths(g) : Read(g, n)
    BY <1>4
  <1>6. g = f
    BY <1>0, <1>5, ReadIs
  <1> QED
    BY <1>5, <1>6

\* A listed file, the end of whose path is its entry's, has a match.
LEMMA ListedMatches ==
  ASSUME NEW f, Listed(f), <<f, PlaceOf[f]>> \in EndsWith
  PROVE  Matches(f) # {}
  BY DEF Listed, IndicesOf, Matches

\* The first read of a file in a session counts once, and that of a file which is
\* listed is no miss.
THEOREM ListedAreHits == Spec => ListedIsHit
  <1>1. ASSUME Inv, [Next]_vars, NEW f \in Files, read[f] = Unread, read'[f] # Unread
        PROVE  /\ hits' + misses' = hits + misses + 1
               /\ Listed(f) /\ <<f, PlaceOf[f]>> \in EndsWith => misses' = misses
    <2>1. PICK n \in Lengths(f) : Read(f, n)
      BY <1>1, NotedByRead
    <2>2. IF Matches(f) # {} THEN hits' = hits + 1 /\ misses' = misses
          ELSE hits' = hits /\ misses' = misses + 1
      BY <1>1, <2>1, ReadIs
    <2>3. hits \in Nat /\ misses \in Nat
      BY <1>1 DEF Inv, Plain
    <2>4. hits' + misses' = hits + misses + 1
      <3>1. CASE Matches(f) # {}
        BY <2>2, <2>3, <3>1
      <3>2. CASE Matches(f) = {}
        BY <2>2, <2>3, <3>2
      <3> QED
        BY <3>1, <3>2
    <2> QED
      BY <2>2, <2>4, ListedMatches
  <1>2. Inv /\ [Next]_vars =>
          [\A f \in Files :
             read[f] = Unread /\ read'[f] # Unread =>
               /\ hits' + misses' = hits + misses + 1
               /\ Listed(f) /\ <<f, PlaceOf[f]>> \in EndsWith => misses' = misses]_vars
    BY <1>1
  <1> QED
    BY <1>2, Invariance, PTL DEF Spec, ListedIsHit

-----------------------------------------------------------------------------
\* The two lists of what is code make a fourteenth and one token.
LEMMA EstimatesClose ==
  ASSUME NEW f \in Files, NEW size \in Nat, NEW a, NEW b,
         a = EstimateTokens(size, TypeBy(WriteCode, f)),
         b = EstimateTokens(size, TypeBy(ReadCode, f))
  PROVE  a <= b /\ 14 * b <= 15 * a + 14
  <1>1. a \in Nat /\ b \in Nat
    BY EstimateIs, TypeByIs
  <1>2. CASE ExtOf[f] \in WriteCode
    <2>1. TypeBy(WriteCode, f) = TypeBy(ReadCode, f)
      BY <1>2 DEF TypeBy, ReadCode
    <2> QED
      BY <1>1, <2>1
  <1>3. CASE ExtOf[f] \in {"rs", "go", "java", "c", "cpp"}
    <2>1. TypeBy(ReadCode, f) = "code" /\ TypeBy(WriteCode, f) = "mixed"
      BY <1>3 DEF TypeBy, ReadCode, WriteCode, Prose
    <2>2. a = (4 * size + 14) \div 15 /\ b = (2 * size + 6) \div 7
      BY <2>1 DEF EstimateTokens
    <2>3. 15 * a <= 4 * size + 14 /\ 4 * size <= 15 * a
      BY <1>1, <2>2
    <2>4. 7 * b <= 2 * size + 6 /\ 2 * size <= 7 * b
      BY <1>1, <2>2
    <2> QED
      BY <1>1, <2>3, <2>4
  <1>4. CASE ExtOf[f] \notin WriteCode \cup {"rs", "go", "java", "c", "cpp"}
    <2>1. TypeBy(WriteCode, f) = TypeBy(ReadCode, f)
      BY <1>4 DEF TypeBy, ReadCode
    <2> QED
      BY <1>1, <2>1
  <1> QED
    BY <1>2, <1>3, <1>4

\* A part of a text is not estimated to be more than all of it.
LEMMA EstimateGrows ==
  ASSUME NEW n \in Nat, NEW m \in Nat, n <= m, NEW type \in {"code", "prose", "mixed"}
  PROVE  EstimateTokens(n, type) <= EstimateTokens(m, type)
  <1>1. (2 * n + 6) \div 7 <= (2 * m + 6) \div 7
    OBVIOUS
  <1>2. (n + 3) \div 4 <= (m + 3) \div 4
    OBVIOUS
  <1>3. (4 * n + 14) \div 15 <= (4 * m + 14) \div 15
    OBVIOUS
  <1> QED
    BY <1>1, <1>2, <1>3 DEF EstimateTokens

\* Of a file that matches no other place, what is listed is what its first entry says.
LEMMA TokensOfOnly ==
  ASSUME listing \in Seq(Entries), NEW f \in Files, Listed(f),
         \A p \in Places : <<f, p>> \in EndsWith <=> p = PlaceOf[f]
  PROVE  ListedTokens(f) = {FirstEntry(f).tokens}
  <1> DEFINE S == IndicesOf(listing, PlaceOf[f])
             section(i) == listing[i].place.section
             first == {i \in Matches(f) : \A j \in Matches(f) : section(j) = section(i) => i <= j}
             found == {i \in first : listing[i].tokens > 0}
             k == Min(S)
  <1>1. ListedTokens(f) = IF found = {} THEN {0} ELSE {listing[i].tokens : i \in found}
    BY Zenon DEF ListedTokens
  <1>2. \A i \in DOMAIN listing : listing[i].place \in Places /\ listing[i].tokens \in Nat
    <2>1. \A i \in DOMAIN listing : listing[i] \in Entries
      OBVIOUS
    <2> QED
      BY <2>1 DEF Entries
  <1>3. Matches(f) = S
    BY <1>2 DEF Matches, IndicesOf
  <1>4. S \in SUBSET Nat /\ S # {} /\ S \subseteq DOMAIN listing
    BY DEF IndicesOf, Listed
  <1>5. k \in S /\ \A j \in S : k <= j
    BY <1>4, MinOfSet
  <1>6. \A i, j \in S : section(i) = section(j)
    BY DEF IndicesOf
  <1> HIDE DEF S, section, k
  <1>7. first = {k}
    <2>1. \A i \in S : i \in Nat
      BY <1>4
    <2>2. \A i \in S : (\A j \in S : i <= j) <=> i = k
      BY <1>5, <2>1
    <2>3. first = {i \in S : \A j \in S : section(j) = section(i) => i <= j}
      BY <1>3
    <2> QED
      BY <1>5, <1>6, <2>2, <2>3
  <1>8. FirstEntry(f) = listing[k] /\ listing[k].tokens \in Nat
    BY <1>2, <1>4, <1>5 DEF FirstEntry, k, S
  <1> HIDE DEF first
  <1>9. CASE listing[k].tokens > 0
    <2>1. found = {k}
      BY <1>7, <1>9
    <2> QED
      BY <1>1, <1>8, <2>1
  <1>10. CASE ~(listing[k].tokens > 0)
    <2>1. found = {} /\ listing[k].tokens = 0
      BY <1>7, <1>8, <1>10
    <2> QED
      BY <1>1, <1>8, <2>1
  <1> QED
    BY <1>9, <1>10

\* What post-read notes of a file is at most a fourteenth and one token more than what
\* post-write has listed of it, and not less unless only a part was returned.
THEOREM EstimatesAlike == Spec => EstimatesAgree
  <1>1. ASSUME Inv, NEW f \in fresh, NEW n \in Lengths(f), Read(f, n),
               \A p \in Places : <<f, p>> \in EndsWith <=> p = PlaceOf[f]
        PROVE  /\ 14 * read'[f] <= 15 * FirstEntry(f).tokens + 14
               /\ n \in {0, disk[f].size} => FirstEntry(f).tokens <= read'[f]
    <2>1. f \in Files /\ f \notin Internal /\ disk[f] \in Contents
          /\ read \in [Files -> Nat \cup {Unread}] /\ listing \in Seq(Entries)
      BY <1>1 DEF Inv, Plain, Good
    <2>2. PICK size, a, b, given, type :
            /\ size = disk[f].size /\ type = TypeBy(ReadCode, f)
            /\ a = EstimateTokens(size, TypeBy(WriteCode, f))
            /\ b = EstimateTokens(size, type) /\ given = EstimateTokens(n, type)
      OBVIOUS
    <2>3. size \in Nat /\ type \in {"code", "prose", "mixed"}
      BY <2>1, <2>2, TextIs, TypeByIs
    <2>4. n \in Nat /\ n <= size
      <3>1. Portions \subseteq Nat
        BY AnatomyAssumption, Zenon DEF AnatomyAssumption
      <3> QED
        BY <1>1, <2>2, <2>3, <3>1 DEF Lengths
    <2>5. a \in Nat /\ b \in Nat /\ given \in Nat /\ given <= b
      BY <2>2, <2>3, <2>4, EstimateIs, EstimateGrows, TypeByIs
    <2>6. a <= b /\ 14 * b <= 15 * a + 14
      BY <2>1, <2>2, <2>3, EstimatesClose
    <2>7. Listed(f) /\ FirstEntry(f) = EntryOf(f, disk[f])
      BY <1>1, InvIs DEF WrittenIsListed
    <2>8. FirstEntry(f).tokens = a
      BY <2>2, <2>7 DEF EntryOf
    <2>9. \E t \in IF given = 0 THEN ListedTokens(f) ELSE {given} : read' = [read EXCEPT ![f] = t]
      BY <1>1, <2>1, <2>2, Zenon DEF Read
    <2>10. CASE given = 0
      <3>1. ListedTokens(f) = {a}
        BY <1>1, <2>1, <2>7, <2>8, TokensOfOnly
      <3>2. read'[f] = a
        BY <2>1, <2>9, <2>10, <3>1
      <3> QED
        BY <2>5, <2>8, <3>2
    <2>11. CASE given # 0
      <3>1. read'[f] = given
        BY <2>1, <2>9, <2>11
      <3>2. 14 * given <= 15 * a + 14
        BY <2>5, <2>6
      <3>3. ASSUME n \in {0, size} PROVE a <= given
        <4>1. CASE n = 0
          <5>1. given = 0
            BY <2>2, <2>3, <4>1 DEF EstimateTokens
          <5> QED
            BY <2>11, <5>1
        <4>2. CASE n = size
          BY <2>2, <2>6, <4>2
        <4> QED
          BY <3>3, <4>1, <4>2
      <3> QED
        BY <2>2, <2>8, <3>1, <3>2, <3>3
    <2> QED
      BY <2>10, <2>11
  <1>2. Inv /\ [Next]_vars =>
          [\A f \in fresh : \A n \in Lengths(f) :
             Read(f, n) /\ (\A p \in Places : <<f, p>> \in EndsWith <=> p = PlaceOf[f]) =>
               /\ 14 * read'[f] <= 15 * FirstEntry(f).tokens + 14
               /\ n \in {0, disk[f].size} => FirstEntry(f).tokens <= read'[f]]_vars
    BY <1>1
  <1> QED
    BY <1>2, Invariance, PTL DEF Spec, EstimatesAgree
==============================================================================
