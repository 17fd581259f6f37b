----------------------------- MODULE Money_proofs -----------------------------
(***************************************************************************)
(* What becomes of an amount, for texts of any length and integers of any  *)
(* width: the arithmetic of decimal numerals.                              *)
(***************************************************************************)
EXTENDS Money, FoldLemmas, SequenceTheorems

D == ToSet(Digits)

\* Digits have the values 0 to 9.
LEMMA DigitsAre ==
  /\ D = {"0", "1", "2", "3", "4", "5", "6", "7", "8", "9"}
  /\ \A c \in D : ValueOf(c) \in 0..9 /\ Digits[ValueOf(c) + 1] = c
  /\ \A d \in 0..9 : Digits[d + 1] \in D /\ ValueOf(Digits[d + 1]) = d
  /\ ValueOf("0") = 0
  <1>1. /\ DOMAIN Digits = 1..10
        /\ Digits[1] = "0" /\ Digits[2] = "1" /\ Digits[3] = "2" /\ Digits[4] = "3" /\ Digits[5] = "4"
        /\ Digits[6] = "5" /\ Digits[7] = "6" /\ Digits[8] = "7" /\ Digits[9] = "8" /\ Digits[10] = "9"
    BY DEF Digits
  <1>2. D = {"0", "1", "2", "3", "4", "5", "6", "7", "8", "9"}
    <2>1. D = {Digits[i] : i \in 1..10}
      BY <1>1, Zenon DEF D, ToSet
    <2>2. \A i \in 1..10 : i = 1 \/ i = 2 \/ i = 3 \/ i = 4 \/ i = 5 \/ i = 6 \/ i = 7 \/ i = 8 \/ i = 9 \/ i = 10
      OBVIOUS
    <2> QED
      BY <1>1, <2>1, <2>2
  <1>3. \A i, j \in 1..10 : Digits[i] = Digits[j] => i = j
    BY <1>1
  <1>4. \A d \in 0..9 : Digits[d + 1] \in D
    BY <1>1 DEF D, ToSet
  <1>5. ASSUME NEW c \in D PROVE ValueOf(c) \in 0..9 /\ Digits[ValueOf(c) + 1] = c
    <2>1. PICK i \in 1..10 : Digits[i] = c
      BY <1>1 DEF D, ToSet
    <2>2. i - 1 \in 0..9 /\ (i - 1) + 1 = i
      OBVIOUS
    <2>3. \E d \in 0..9 : Digits[d + 1] = c
      BY <2>1, <2>2
    <2> QED
      BY <2>3, Zenon DEF ValueOf
  <1>6. ASSUME NEW d \in 0..9 PROVE ValueOf(Digits[d + 1]) = d
    <2>1. PICK e : e = ValueOf(Digits[d + 1])
      OBVIOUS
    <2>2. e \in 0..9 /\ Digits[e + 1] = Digits[d + 1]
      BY <1>4, <1>5, <2>1
    <2>3. e + 1 \in 1..10 /\ d + 1 \in 1..10
      BY <2>2
    <2>4. e + 1 = d + 1
      BY <1>3, <2>2, <2>3
    <2> QED
      BY <2>1, <2>2, <2>4
  <1>7. ValueOf("0") = 0
    <2>1. 0 \in 0..9 /\ 0 + 1 = 1
      OBVIOUS
    <2> QED
      BY <1>1, <1>6, <2>1
  <1> QED
    BY <1>2, <1>4, <1>5, <1>6, <1>7

-----------------------------------------------------------------------------
\* The folds of NumberOf and Scale, over the sets of places of s.
IsNumberFold(f, s, T) ==
  f = [t \in SUBSET T |-> IF t = {} THEN 0 ELSE 10 * f[t \ {Max(t)}] + ValueOf(s[Max(t)])]

IsScaleFold(f, T) ==
  f = [t \in SUBSET T |-> IF t = {} THEN 1 ELSE 10 * f[t \ {Max(t)}]]

NumberFold(s) == CHOOSE f : IsNumberFold(f, s, DOMAIN s)
ScaleFold(s) == CHOOSE f : IsScaleFold(f, DOMAIN s)

\* They are what the operators compute.
LEMMA FoldsOf == \A s : NumberOf(s) = NumberFold(s)[DOMAIN s] /\ Scale(s) = ScaleFold(s)[DOMAIN s]
  <1>1. \A s : NumberOf(s) = NumberFold(s)[DOMAIN s]
    BY Zenon DEF NumberOf, FoldLeft, MapThenFoldSet, NumberFold, IsNumberFold
  <1>2. \A s : Scale(s) = ScaleFold(s)[DOMAIN s]
    BY Zenon DEF Scale, FoldLeft, MapThenFoldSet, ScaleFold, IsScaleFold
  <1> QED
    BY <1>1, <1>2

\* The greatest of some places, and of the first k.
LEMMA LastPlace ==
  ASSUME NEW n \in Nat
  PROVE  /\ IsFiniteSet(1..n)
         /\ \A t \in SUBSET (1..n) : t # {} => Max(t) \in t
         /\ \A k \in 1..n : /\ Max(1..k) = k /\ (1..k) \ {k} = 1..(k - 1)
                            /\ 1..k \in SUBSET (1..n) /\ 1..k # {}
  <1>1. ASSUME NEW t \in SUBSET (1..n), t # {} PROVE Max(t) \in t
    <2>1. t \in SUBSET Nat /\ \A y \in t : y <= n
      OBVIOUS
    <2> QED
      BY <1>1, <2>1, MaxOfSet
  <1>2. ASSUME NEW k \in 1..n
        PROVE  /\ Max(1..k) = k /\ (1..k) \ {k} = 1..(k - 1)
               /\ 1..k \in SUBSET (1..n) /\ 1..k # {}
    <2>1. /\ k \in Nat /\ 1..k \in SUBSET (1..n) /\ 1..k # {} /\ k \in 1..k
          /\ 1..k \in SUBSET Nat /\ \A y \in 1..k : y <= k
      OBVIOUS
    <2>2. Max(1..k) \in 1..k /\ \A y \in 1..k : Max(1..k) >= y
      BY <2>1, MaxOfSet
    <2> QED
      BY <2>1, <2>2
  <1>3. IsFiniteSet(1..n)
    BY FS_Interval
  <1> QED
    BY <1>1, <1>2, <1>3

\* They are made up of the values of the prefixes.
LEMMA NumberFoldIs ==
  ASSUME NEW s \in Seq(D)
  PROVE  /\ NumberFold(s)[{}] = 0
         /\ \A k \in 1..Len(s) : NumberFold(s)[1..k] = 10 * NumberFold(s)[1..(k - 1)] + ValueOf(s[k])
  <1> DEFINE n == Len(s)
             S == 1..n
             pick == [t \in SUBSET S |-> Max(t)]
             step == [t \in SUBSET S |-> [v \in Nat |-> 10 * v + ValueOf(s[Max(t)])]]
  <1>1. n \in Nat /\ DOMAIN s = S /\ \A i \in S : s[i] \in D
    OBVIOUS
  <1>2. \A i \in S : ValueOf(s[i]) \in Nat
    BY <1>1, DigitsAre
  <1>3. \A t \in SUBSET S : t # {} => Max(t) \in t /\ Max(t) \in S
    BY <1>1, LastPlace
  <1>4. StepsFrom(S, pick, step, Nat)
    <2> SUFFICES ASSUME NEW t \in SUBSET S, t # {} PROVE pick[t] \in t /\ step[t] \in [Nat -> Nat]
      BY DEF StepsFrom
    <2>1. pick[t] \in t /\ ValueOf(s[Max(t)]) \in Nat
      BY <1>2, <1>3
    <2>2. PICK w \in Nat : w = ValueOf(s[Max(t)])
      BY <2>1
    <2>3. step[t] = [v \in Nat |-> 10 * v + w]
      BY <2>2
    <2> QED
      BY <2>1, <2>3
  <1>5. PICK f \in [SUBSET S -> Nat] : IsSteps(f, S, pick, step, 0)
    <2> HIDE DEF pick, step
    <2> QED
      BY <1>1, <1>4, LastPlace, SubsetSteps
  <1>6. IsNumberFold(f, s, S)
    <2>1. ASSUME NEW t \in SUBSET S, t # {}
          PROVE  f[t] = 10 * f[t \ {Max(t)}] + ValueOf(s[Max(t)])
      <3>1. f[t] = step[t][f[t \ {pick[t]}]]
        BY <1>5, <2>1 DEF IsSteps
      <3>2. f[t \ {Max(t)}] \in Nat /\ pick[t] = Max(t)
        OBVIOUS
      <3> QED
        BY <3>1, <3>2
    <2>2. f[{}] = 0
      BY <1>5 DEF IsSteps
    <2> HIDE DEF pick, step
    <2> QED
      BY <2>1, <2>2 DEF IsNumberFold
  <1>7. IsNumberFold(NumberFold(s), s, S)
    BY <1>1, <1>6 DEF NumberFold
  <1> DEFINE g == NumberFold(s)
  <1>8. \A t \in SUBSET S : g[t] = IF t = {} THEN 0 ELSE 10 * g[t \ {Max(t)}] + ValueOf(s[Max(t)])
    <2> HIDE DEF g
    <2> QED
      BY <1>7 DEF IsNumberFold, g
  <1> HIDE DEF g
  <1>9. ASSUME NEW k \in S PROVE g[1..k] = 10 * g[1..(k - 1)] + ValueOf(s[k])
    <2>1. Max(1..k) = k /\ (1..k) \ {k} = 1..(k - 1) /\ 1..k \in SUBSET S /\ 1..k # {}
      BY <1>1, LastPlace
    <2> QED
      BY <1>8, <2>1
  <1> QED
    BY <1>8, <1>9 DEF g

LEMMA ScaleFoldIs ==
  ASSUME NEW s \in Seq(D)
  PROVE  /\ ScaleFold(s)[{}] = 1
         /\ \A k \in 1..Len(s) : ScaleFold(s)[1..k] = 10 * ScaleFold(s)[1..(k - 1)]
  <1> DEFINE n == Len(s)
             S == 1..n
             pick == [t \in SUBSET S |-> Max(t)]
             step == [t \in SUBSET S |-> [v \in Nat |-> 10 * v]]
  <1>1. n \in Nat /\ DOMAIN s = S
    OBVIOUS
  <1>2. \A t \in SUBSET S : t # {} => Max(t) \in t
    BY <1>1, LastPlace
  <1>3. StepsFrom(S, pick, step, Nat)
    BY <1>2 DEF StepsFrom
  <1>4. PICK f \in [SUBSET S -> Nat] : IsSteps(f, S, pick, step, 1)
    <2> HIDE DEF pick, step
    <2> QED
      BY <1>1, <1>3, LastPlace, SubsetSteps
  <1>5. IsScaleFold(f, S)
    <2>1. ASSUME NEW t \in SUBSET S, t # {} PROVE f[t] = 10 * f[t \ {Max(t)}]
      <3>1. f[t] = step[t][f[t \ {pick[t]}]]
        BY <1>4, <2>1 DEF IsSteps
      <3>2. f[t \ {Max(t)}] \in Nat /\ pick[t] = Max(t)
        OBVIOUS
      <3> QED
        BY <3>1, <3>2
    <2>2. f[{}] = 1
      BY <1>4 DEF IsSteps
    <2> HIDE DEF pick, step
    <2> QED
      BY <2>1, <2>2 DEF IsScaleFold
  <1>6. IsScaleFold(ScaleFold(s), S)
    BY <1>1, <1>5 DEF ScaleFold
  <1> DEFINE g == ScaleFold(s)
  <1>7. \A t \in SUBSET S : g[t] = IF t = {} THEN 1 ELSE 10 * g[t \ {Max(t)}]
    <2> HIDE DEF g
    <2> QED
      BY <1>6 DEF IsScaleFold, g
  <1> HIDE DEF g
  <1>8. ASSUME NEW k \in S PROVE g[1..k] = 10 * g[1..(k - 1)]
    <2>1. Max(1..k) = k /\ (1..k) \ {k} = 1..(k - 1) /\ 1..k \in SUBSET S /\ 1..k # {}
      BY <1>1, LastPlace
    <2> QED
      BY <1>7, <2>1
  <1> QED
    BY <1>7, <1>8 DEF g

\* They depend on the places they are of only.
LEMMA FoldsAgree ==
  ASSUME NEW s \in Seq(D), NEW t \in Seq(D), Len(s) <= Len(t), \A i \in 1..Len(s) : s[i] = t[i]
  PROVE  /\ NumberFold(s)[1..Len(s)] = NumberFold(t)[1..Len(s)] /\ NumberFold(s)[1..Len(s)] \in Nat
         /\ ScaleFold(s)[1..Len(s)] = ScaleFold(t)[1..Len(s)] /\ ScaleFold(s)[1..Len(s)] \in Nat
  <1> DEFINE n == Len(s)
             m == Len(t)
             f == NumberFold(s)
             g == NumberFold(t)
             p == ScaleFold(s)
             q == ScaleFold(t)
             Same == {k \in Nat : k <= n => /\ f[1..k] = g[1..k] /\ f[1..k] \in Nat
                                            /\ p[1..k] = q[1..k] /\ p[1..k] \in Nat}
  <1>1. /\ n \in Nat /\ m \in Nat /\ n <= m
        /\ \A k \in 1..n : s[k] = t[k] /\ ValueOf(s[k]) \in Nat
    <2>1. \A k \in 1..n : s[k] \in D
      OBVIOUS
    <2>2. \A c \in D : ValueOf(c) \in Nat
      BY DigitsAre
    <2>3. \A k \in 1..n : ValueOf(s[k]) \in Nat
      BY <2>1, <2>2
    <2> QED
      BY <2>3
  <1>2. /\ f[{}] = 0 /\ \A k \in 1..n : f[1..k] = 10 * f[1..(k - 1)] + ValueOf(s[k])
        /\ g[{}] = 0 /\ \A k \in 1..m : g[1..k] = 10 * g[1..(k - 1)] + ValueOf(t[k])
    BY NumberFoldIs
  <1>3. /\ p[{}] = 1 /\ \A k \in 1..n : p[1..k] = 10 * p[1..(k - 1)]
        /\ q[{}] = 1 /\ \A k \in 1..m : q[1..k] = 10 * q[1..(k - 1)]
    BY ScaleFoldIs
  <1> HIDE DEF n, m, f, g, p, q
  <1>4. 0 \in Same
    <2>1. 1..0 = {}
      OBVIOUS
    <2> QED
      BY <1>2, <1>3, <2>1
  <1>5. ASSUME NEW k \in Nat, k \in Same PROVE k + 1 \in Same
    <2> SUFFICES ASSUME k + 1 <= n
                 PROVE  /\ f[1..(k + 1)] = g[1..(k + 1)] /\ f[1..(k + 1)] \in Nat
                        /\ p[1..(k + 1)] = q[1..(k + 1)] /\ p[1..(k + 1)] \in Nat
      OBVIOUS
    <2>1. /\ k + 1 \in 1..n /\ k + 1 \in 1..m /\ (k + 1) - 1 = k
          /\ f[1..k] = g[1..k] /\ f[1..k] \in Nat /\ p[1..k] = q[1..k] /\ p[1..k] \in Nat
      BY <1>1, <1>5
    <2>2. s[k + 1] = t[k + 1] /\ ValueOf(s[k + 1]) \in Nat
      BY <1>1, <2>1
    <2>3. /\ f[1..(k + 1)] = 10 * f[1..k] + ValueOf(s[k + 1])
          /\ g[1..(k + 1)] = 10 * g[1..k] + ValueOf(t[k + 1])
          /\ p[1..(k + 1)] = 10 * p[1..k] /\ q[1..(k + 1)] = 10 * q[1..k]
      BY <1>2, <1>3, <2>1
    <2> QED
      BY <2>1, <2>2, <2>3
  <1>6. n \in Same
    <2> HIDE DEF Same
    <2> QED
      BY <1>1, <1>4, <1>5, Induction
  <1>7. /\ f[1..n] = g[1..n] /\ f[1..n] \in Nat /\ p[1..n] = q[1..n] /\ p[1..n] \in Nat
    BY <1>1, <1>6
  <1> QED
    BY <1>7 DEF n, f, g, p, q

LEMMA Single ==
  ASSUME NEW E, NEW c \in E
  PROVE  <<c>> = Append(<<>>, c) /\ <<>> \in Seq(E)
  <1>1. PICK s : s = <<c>>
    OBVIOUS
  <1>2. PICK t : t = Append(<<>>, c)
    OBVIOUS
  <1>3. /\ s \in Seq(E) /\ Len(s) = 1 /\ s[1] = c
        /\ t \in Seq(E) /\ Len(t) = 1 /\ t[1] = c
    BY <1>1, <1>2
  <1>4. s = t
    BY <1>3
  <1> QED
    BY <1>1, <1>2, <1>4

\* One more digit at the end counts ten of what was there and itself.
LEMMA NumberOfIs ==
  /\ NumberOf(<<>>) = 0 /\ Scale(<<>>) = 1
  /\ \A s \in Seq(D) : NumberOf(s) \in Nat /\ Scale(s) \in Nat
  /\ \A s \in Seq(D), c \in D : /\ NumberOf(Append(s, c)) = 10 * NumberOf(s) + ValueOf(c)
                                /\ Scale(Append(s, c)) = 10 * Scale(s)
  <1>1. ASSUME NEW s \in Seq(D)
        PROVE  NumberOf(s) = NumberFold(s)[1..Len(s)] /\ Scale(s) = ScaleFold(s)[1..Len(s)]
    <2>1. DOMAIN s = 1..Len(s)
      OBVIOUS
    <2> QED
      BY <2>1, FoldsOf
  <1>2. ASSUME NEW s \in Seq(D) PROVE NumberOf(s) \in Nat /\ Scale(s) \in Nat
    <2>1. Len(s) <= Len(s) /\ \A i \in 1..Len(s) : s[i] = s[i]
      OBVIOUS
    <2> QED
      BY <1>1, <2>1, FoldsAgree
  <1>3. ASSUME NEW s \in Seq(D), NEW c \in D
        PROVE  /\ NumberOf(Append(s, c)) = 10 * NumberOf(s) + ValueOf(c)
               /\ Scale(Append(s, c)) = 10 * Scale(s)
    <2> DEFINE n == Len(s)
    <2>1. PICK t : t = Append(s, c)
      OBVIOUS
    <2>2. /\ t \in Seq(D) /\ Len(t) = n + 1 /\ n \in Nat /\ t[n + 1] = c /\ Len(s) <= Len(t)
          /\ \A k \in 1..Len(s) : s[k] = t[k]
      BY <2>1
    <2>3. /\ NumberFold(s)[1..n] = NumberFold(t)[1..n] /\ ScaleFold(s)[1..n] = ScaleFold(t)[1..n]
      BY <2>2, FoldsAgree
    <2>4. n + 1 \in 1..Len(t) /\ (n + 1) - 1 = n
      BY <2>2
    <2>5. /\ NumberFold(t)[1..(n + 1)] = 10 * NumberFold(t)[1..n] + ValueOf(t[n + 1])
          /\ ScaleFold(t)[1..(n + 1)] = 10 * ScaleFold(t)[1..n]
      <3>1. \A k \in 1..Len(t) : /\ NumberFold(t)[1..k] = 10 * NumberFold(t)[1..(k - 1)] + ValueOf(t[k])
                                 /\ ScaleFold(t)[1..k] = 10 * ScaleFold(t)[1..(k - 1)]
        BY <2>2, NumberFoldIs, ScaleFoldIs
      <3> HIDE DEF n
      <3> QED
        BY <2>4, <3>1
    <2>6. /\ NumberOf(t) = NumberFold(t)[1..(n + 1)] /\ Scale(t) = ScaleFold(t)[1..(n + 1)]
          /\ NumberOf(s) = NumberFold(s)[1..n] /\ Scale(s) = ScaleFold(s)[1..n]
      BY <1>1, <2>2
    <2> QED
      BY <2>1, <2>2, <2>3, <2>5, <2>6
  <1>4. NumberOf(<<>>) = 0 /\ Scale(<<>>) = 1
    <2>1. PICK e : e = << >>
      OBVIOUS
    <2>2. e \in Seq(D) /\ DOMAIN e = {}
      BY <2>1
    <2>3. NumberOf(e) = NumberFold(e)[{}] /\ Scale(e) = ScaleFold(e)[{}]
      BY <2>2, FoldsOf
    <2>4. NumberOf(e) = 0 /\ Scale(e) = 1
      BY <2>2, <2>3, NumberFoldIs, ScaleFoldIs
    <2> QED
      BY <2>1, <2>4
  <1> QED
    BY <1>2, <1>3, <1>4

-----------------------------------------------------------------------------
\* Quotients and remainders, for divisors that are not numerals.
LEMMA Monotone ==
  ASSUME NEW x \in Nat, NEW y \in Nat, NEW b \in Nat, x <= y
  PROVE  x * b <= y * b
  <1>1. PICK z \in Nat : y = x + z
    <2>1. y - x \in Nat /\ y = x + (y - x)
      OBVIOUS
    <2> QED
      BY <2>1
  <1>2. y * b = x * b + z * b
    BY <1>1
  <1>3. x * b \in Nat /\ z * b \in Nat
    OBVIOUS
  <1> QED
    BY <1>2, <1>3

LEMMA QuotientIs ==
  ASSUME NEW a \in Nat, NEW b \in Nat \ {0}, NEW q \in Nat, q * b <= a, a < (q + 1) * b
  PROVE  a \div b = q
  <1>1. PICK d \in Nat, m \in 0..(b - 1) : d = a \div b /\ a = b * d + m
    <2>1. a \div b \in Nat /\ a % b \in 0..(b - 1) /\ a = b * (a \div b) + (a % b)
      OBVIOUS
    <2> QED
      BY <2>1
  <1>2. ~(d + 1 <= q)
    <2> SUFFICES ASSUME d + 1 <= q PROVE FALSE
      OBVIOUS
    <2>1. (d + 1) * b <= q * b
      BY Monotone
    <2>2. (d + 1) * b = b * d + b /\ b * d \in Nat /\ q * b \in Nat
      OBVIOUS
    <2> QED
      BY <1>1, <2>1, <2>2
  <1>3. ~(q + 1 <= d)
    <2> SUFFICES ASSUME q + 1 <= d PROVE FALSE
      OBVIOUS
    <2>1. (q + 1) * b <= d * b
      BY Monotone
    <2>2. d * b = b * d /\ b * d \in Nat /\ (q + 1) * b \in Nat
      OBVIOUS
    <2> QED
      BY <1>1, <2>1, <2>2
  <1> QED
    BY <1>1, <1>2, <1>3

\* The hundreds, the tens and the ones of an amount.
LEMMA TwoDecimals ==
  ASSUME NEW n \in Nat
  PROVE  /\ n \div 100 \in Nat /\ (n % 100) \div 10 \in 0..9 /\ n % 10 \in 0..9
         /\ 100 * (n \div 100) + 10 * ((n % 100) \div 10) + (n % 10) = n
  OBVIOUS

\* What overflows is a word, and words stay what they are.
LEMMA WrapIs ==
  /\ \A n \in Int : Wrap(n) \in Words
  /\ \A n \in Words : Wrap(n) = n
  <1>1. Half \in Nat \ {0}
    BY MoneyAssumption
  <1>2. ASSUME NEW n \in Int PROVE Wrap(n) \in Words
    <2>1. PICK m \in Int, h \in Nat : m = n + Half /\ h = 2 * Half /\ h > 0
      BY <1>1
    <2>2. m % h \in 0..(h - 1)
      BY <2>1
    <2> QED
      BY <1>1, <2>1, <2>2 DEF Wrap, Words
  <1>3. ASSUME NEW n \in Words PROVE Wrap(n) = n
    <2>1. PICK m \in Nat, h \in Nat : m = n + Half /\ h = 2 * Half /\ m < h /\ n \in Int
      BY <1>1 DEF Words
    <2>2. m % h = m
      BY <2>1
    <2> QED
      BY <1>1, <2>1, <2>2 DEF Wrap
  <1> QED
    BY <1>2, <1>3

-----------------------------------------------------------------------------
\* The number of two numerals in a row.
LEMMA NumberOfBoth ==
  ASSUME NEW s \in Seq(D)
  PROVE  \A t \in Seq(D) : /\ NumberOf(s \o t) = NumberOf(s) * Scale(t) + NumberOf(t)
                           /\ Scale(t) > 0
  <1> DEFINE C == {t \in Seq(D) : /\ NumberOf(s \o t) = NumberOf(s) * Scale(t) + NumberOf(t)
                                  /\ Scale(t) > 0}
  <1>1. <<>> \in C
    <2>1. s \o <<>> = s /\ <<>> \in Seq(D)
      OBVIOUS
    <2>2. NumberOf(s) \in Nat
      BY NumberOfIs
    <2> QED
      BY <2>1, <2>2, NumberOfIs
  <1>2. ASSUME NEW t \in Seq(D), NEW c \in D, t \in C PROVE Append(t, c) \in C
    <2>1. s \o Append(t, c) = Append(s \o t, c) /\ s \o t \in Seq(D) /\ Append(t, c) \in Seq(D)
      OBVIOUS
    <2>2. /\ NumberOf(s \o Append(t, c)) = 10 * NumberOf(s \o t) + ValueOf(c)
          /\ NumberOf(Append(t, c)) = 10 * NumberOf(t) + ValueOf(c)
          /\ Scale(Append(t, c)) = 10 * Scale(t)
      BY <2>1, NumberOfIs
    <2>3. PICK n \in Nat, k \in Nat, p \in Nat, v \in Nat :
            n = NumberOf(s) /\ k = NumberOf(t) /\ p = Scale(t) /\ v = ValueOf(c)
      <3>1. ValueOf(c) \in Nat
        BY DigitsAre
      <3> QED
        BY <3>1, NumberOfIs
    <2>4. NumberOf(s \o t) = n * p + k /\ p > 0
      BY <1>2, <2>3
    <2>5. 10 * (n * p + k) + v = n * (10 * p) + (10 * k + v) /\ 10 * p > 0
      BY <2>4
    <2> QED
      BY <2>1, <2>2, <2>3, <2>4, <2>5
  <1>3. Seq(D) \subseteq C
    <2> HIDE DEF C
    <2> QED
      BY <1>1, <1>2, SeqInduction
  <1> QED
    BY <1>3

\* The first two digits of a fraction, which zeros fill up.
Cents(r) == SubSeq(r \o <<"0", "0">>, 1, 2)

DigitAt(r, i) == IF i <= Len(r) THEN ValueOf(r[i]) ELSE 0

LEMMA CentsAre ==
  ASSUME NEW r \in Seq(D)
  PROVE  /\ Cents(r) \in Seq(D) /\ Cents(r) # <<>>
         /\ NumberOf(Cents(r)) = 10 * DigitAt(r, 1) + DigitAt(r, 2)
         /\ DigitAt(r, 1) \in 0..9 /\ DigitAt(r, 2) \in 0..9
  <1>1. PICK f : f = Cents(r)
    OBVIOUS
  <1>2. "0" \in D
    BY DigitsAre
  <1>3. /\ f \in Seq(D) /\ Len(f) = 2 /\ f # <<>>
        /\ f[1] = (IF 1 <= Len(r) THEN r[1] ELSE "0") /\ f[2] = (IF 2 <= Len(r) THEN r[2] ELSE "0")
    BY <1>1, <1>2 DEF Cents
  <1>4. PICK a \in D, b \in D : a = f[1] /\ b = f[2]
    <2>1. 1 \in 1..Len(f) /\ 2 \in 1..Len(f)
      BY <1>3
    <2>2. f[1] \in D /\ f[2] \in D
      BY <1>3, <2>1
    <2> QED
      BY <2>2
  <1>5. ValueOf(a) = DigitAt(r, 1) /\ ValueOf(b) = DigitAt(r, 2) /\ ValueOf(a) \in 0..9 /\ ValueOf(b) \in 0..9
    BY <1>3, <1>4, DigitsAre DEF DigitAt
  <1>6. NumberOf(f) = 10 * ValueOf(a) + ValueOf(b)
    <2>1. <<>> \in Seq(D) /\ Append(<<>>, a) \in Seq(D) /\ f = Append(Append(<<>>, a), b)
      BY <1>3, <1>4
    <2>2. /\ NumberOf(Append(<<>>, a)) = 10 * 0 + ValueOf(a)
          /\ NumberOf(f) = 10 * NumberOf(Append(<<>>, a)) + ValueOf(b)
      BY <2>1, NumberOfIs
    <2> QED
      BY <1>5, <2>2
  <1> QED
    BY <1>1, <1>3, <1>5, <1>6

\* They are what a fraction denotes, cut off.
CutOff(c, n, p) == c * p <= 100 * n /\ 100 * n < (c + 1) * p

LEMMA CentsCutOff ==
  \A r \in Seq(D) : CutOff(NumberOf(Cents(r)), NumberOf(r), Scale(r))
  <1> DEFINE c(r) == NumberOf(Cents(r))
             Exact(r) == \/ Len(r) < 2 /\ c(r) * Scale(r) = 100 * NumberOf(r)
                         \/ /\ Len(r) >= 2
                            /\ c(r) * Scale(r) <= 100 * NumberOf(r)
                            /\ 100 * NumberOf(r) + 100 <= (c(r) + 1) * Scale(r)
             C == {r \in Seq(D) : Exact(r)}
  <1>0. \A r \in Seq(D) : c(r) = 10 * DigitAt(r, 1) + DigitAt(r, 2) /\ c(r) \in Nat
    <2> SUFFICES ASSUME NEW r \in Seq(D)
                 PROVE  c(r) = 10 * DigitAt(r, 1) + DigitAt(r, 2) /\ c(r) \in Nat
      OBVIOUS
    <2>1. /\ NumberOf(Cents(r)) = 10 * DigitAt(r, 1) + DigitAt(r, 2)
          /\ DigitAt(r, 1) \in 0..9 /\ DigitAt(r, 2) \in 0..9
      BY CentsAre
    <2>2. 10 * DigitAt(r, 1) + DigitAt(r, 2) \in Nat
      BY <2>1
    <2> QED
      BY <2>1, <2>2
  <1>1. <<>> \in C
    <2>1. PICK e : e = << >>
      OBVIOUS
    <2>2. e \in Seq(D) /\ Len(e) = 0 /\ e = << >>
      BY <2>1
    <2>3. c(e) = 0 /\ NumberOf(e) = 0 /\ Scale(e) = 1
      <3>1. DigitAt(e, 1) = 0 /\ DigitAt(e, 2) = 0
        BY <2>2 DEF DigitAt
      <3>2. NumberOf(Cents(e)) = 10 * DigitAt(e, 1) + DigitAt(e, 2)
        BY <2>2, CentsAre
      <3> QED
        BY <2>2, <3>1, <3>2, NumberOfIs
    <2> HIDE DEF c
    <2> QED
      BY <2>2, <2>3
  <1>2. ASSUME NEW r \in Seq(D), NEW a \in D, r \in C PROVE Append(r, a) \in C
    <2>1. PICK s : s = Append(r, a)
      OBVIOUS
    <2>2. /\ s \in Seq(D) /\ Len(s) = Len(r) + 1 /\ Len(r) \in Nat /\ s[Len(s)] = a
          /\ \A i \in 1..Len(r) : s[i] = r[i]
      BY <2>1
    <2>3. NumberOf(s) = 10 * NumberOf(r) + ValueOf(a) /\ Scale(s) = 10 * Scale(r)
      BY <2>1, NumberOfIs
    <2>4. PICK n \in Nat, p \in Nat, v \in Nat, k \in Nat, m \in Nat :
            /\ n = NumberOf(r) /\ p = Scale(r) /\ v = ValueOf(a) /\ v <= 9
            /\ k = c(r) /\ m = c(s)
      <3>1. c(r) \in Nat /\ c(s) \in Nat
        BY <1>0, <2>2
      <3>2. ValueOf(a) \in Nat /\ ValueOf(a) <= 9
        BY DigitsAre
      <3> QED
        BY <3>1, <3>2, NumberOfIs
    <2>5. Exact(r)
      BY <1>2
    <2>6. CASE Len(r) >= 2
      <3>1. Cents(s) = Cents(r)
        BY <1>2, <2>1, <2>2, <2>6 DEF Cents
      <3>2. k * p <= 100 * n /\ 100 * n + 100 <= (k + 1) * p
        <4> HIDE DEF c
        <4> QED
          BY <2>2, <2>4, <2>5, <2>6
      <3>3. k * (10 * p) = 10 * (k * p) /\ (k + 1) * (10 * p) = 10 * ((k + 1) * p)
            /\ k * p \in Nat /\ (k + 1) * p \in Nat
        OBVIOUS
      <3>4. k * (10 * p) <= 100 * (10 * n + v) /\ 100 * (10 * n + v) + 100 <= (k + 1) * (10 * p)
        <4>1. PICK x \in Nat, y \in Nat : x = k * p /\ y = (k + 1) * p
          BY <3>3
        <4>2. x <= 100 * n /\ 100 * n + 100 <= y /\ v <= 9
          BY <2>4, <3>2, <4>1
        <4>3. 10 * x <= 100 * (10 * n + v) /\ 100 * (10 * n + v) + 100 <= 10 * y
          BY <4>2
        <4> QED
          BY <3>3, <4>1, <4>3
      <3>5. c(s) = k /\ NumberOf(s) = 10 * n + v /\ Scale(s) = 10 * p /\ Len(s) >= 2
        BY <2>2, <2>3, <2>4, <2>6, <3>1
      <3> HIDE DEF c
      <3> QED
        BY <2>1, <2>2, <3>4, <3>5
    <2>7. CASE Len(r) = 1
      <3>1. PICK b \in D : b = r[1] /\ r = Append(<<>>, b) /\ <<>> \in Seq(D)
        <4>1. r[1] \in D /\ r = Append(<<>>, r[1])
          BY <2>7
        <4> QED
          BY <4>1
      <3>2. c(s) = 10 * ValueOf(b) + ValueOf(a)
        <4>1. DigitAt(s, 1) = ValueOf(b) /\ DigitAt(s, 2) = ValueOf(a)
          BY <2>2, <2>7, <3>1 DEF DigitAt
        <4> QED
          BY <1>0, <2>2, <4>1
      <3>3. NumberOf(r) = 10 * 0 + ValueOf(b) /\ Scale(r) = 10 * 1 /\ ValueOf(b) \in Nat
        <4>1. NumberOf(r) = 10 * 0 + ValueOf(b) /\ Scale(r) = 10 * 1
          BY <3>1, NumberOfIs
        <4> QED
          BY <4>1, DigitsAre
      <3>4. Len(s) = 2 /\ Scale(s) = 100 /\ NumberOf(s) = m /\ c(s) = m
        <4> HIDE DEF c
        <4> QED
          BY <2>2, <2>3, <2>4, <2>7, <3>2, <3>3
      <3>5. m * 100 <= 100 * m /\ 100 * m + 100 <= (m + 1) * 100
        OBVIOUS
      <3>6. Exact(s)
        <4> HIDE DEF c
        <4> QED
          BY <3>4, <3>5
      <3> QED
        BY <2>1, <2>2, <3>6
    <2>8. CASE Len(r) = 0
      <3>1. c(s) = 10 * ValueOf(a) + 0
        <4>1. DigitAt(s, 1) = ValueOf(a) /\ DigitAt(s, 2) = 0
          BY <2>2, <2>8 DEF DigitAt
        <4> QED
          BY <1>0, <2>2, <4>1
      <3>2. NumberOf(r) = 0 /\ Scale(r) = 1
        <4>1. r = <<>>
          BY <2>8
        <4> QED
          BY <4>1, NumberOfIs
      <3>3. NumberOf(s) = v /\ Scale(s) = 10 /\ Len(s) < 2 /\ c(s) = 10 * v
        <4> HIDE DEF c
        <4> QED
          BY <2>2, <2>3, <2>4, <2>8, <3>1, <3>2
      <3>4. (10 * v) * 10 = 100 * v
        OBVIOUS
      <3>5. Exact(s)
        <4> HIDE DEF c
        <4> QED
          BY <3>3, <3>4
      <3> QED
        BY <2>1, <2>2, <3>5
    <2>9. Len(r) >= 2 \/ Len(r) = 1 \/ Len(r) = 0
      <3>1. PICK l \in Nat : l = Len(r)
        BY <2>2
      <3>2. l >= 2 \/ l = 1 \/ l = 0
        OBVIOUS
      <3> QED
        BY <3>1, <3>2
    <2> HIDE DEF C
    <2> QED
      BY <2>6, <2>7, <2>8, <2>9
  <1>3. Seq(D) \subseteq C
    <2> HIDE DEF C
    <2> QED
      BY <1>1, <1>2, SeqInduction
  <1>4. ASSUME NEW r \in Seq(D) PROVE CutOff(NumberOf(Cents(r)), NumberOf(r), Scale(r))
    <2>1. Exact(r)
      BY <1>3
    <2>2. PICK n \in Nat, p \in Nat, k \in Nat : n = NumberOf(r) /\ p = Scale(r) /\ k = c(r)
      BY NumberOfIs, CentsAre
    <2>3. p > 0
      BY <2>2, NumberOfBoth, NumberOfIs
    <2>4. k * p <= 100 * n /\ (k * p = 100 * n \/ 100 * n + 100 <= (k + 1) * p)
      <3> HIDE DEF c
      <3> QED
        BY <2>1, <2>2
    <2>5. (k + 1) * p = k * p + p /\ k * p \in Nat
      OBVIOUS
    <2>6. CutOff(k, n, p)
      BY <2>3, <2>4, <2>5 DEF CutOff
    <2> QED
      BY <2>2, <2>6
  <1> QED
    BY <1>4

-----------------------------------------------------------------------------
\* The numerals up to that of n.
IsNumerals(of, n) ==
  of = [k \in 0..n |-> IF k < 10 THEN <<Digits[k + 1]>> ELSE Append(of[k \div 10], Digits[(k % 10) + 1])]

Numerals(n) == CHOOSE of : IsNumerals(of, n)

LEMMA NumeralsExist ==
  ASSUME NEW n \in Nat
  PROVE  IsNumerals(Numerals(n), n)
  <1> DEFINE First(k) == <<Digits[k + 1]>>
             Ones(k) == Digits[(k % 10) + 1]
             Next1(f) == [k \in 0..n |-> IF k < 10 THEN First(k) ELSE Append(f[k \div 10], Ones(k))]
             Upto(f, m) == \A k \in 0..n : k <= m => f[k] = Next1(f)[k]
             F == {f \in [0..n -> Seq(D)] : TRUE}
             Good == {m \in Nat : \E f \in F : Upto(f, m)}
  <1>1. \A k \in 0..9 : First(k) \in Seq(D)
    BY DigitsAre
  <1>2. \A k \in Nat : k \div 10 \in Nat /\ Ones(k) \in D /\ (k >= 10 => k \div 10 < k)
    <2> SUFFICES ASSUME NEW k \in Nat PROVE k \div 10 \in Nat /\ Ones(k) \in D /\ (k >= 10 => k \div 10 < k)
      OBVIOUS
    <2>1. k \div 10 \in Nat /\ k % 10 \in 0..9 /\ (k >= 10 => k \div 10 < k)
      OBVIOUS
    <2> QED
      BY <2>1, DigitsAre
  <1> HIDE DEF First, Ones
  <1>3. ASSUME NEW f \in F PROVE Next1(f) \in F
    <2> SUFFICES ASSUME NEW k \in 0..n
                 PROVE  (IF k < 10 THEN First(k) ELSE Append(f[k \div 10], Ones(k))) \in Seq(D)
      OBVIOUS
    <2>1. CASE k < 10
      <3>1. First(k) \in Seq(D)
        <4>1. k \in 0..9
          BY <2>1
        <4> QED
          BY <1>1, <4>1
      <3> QED
        BY <2>1, <3>1
    <2>2. CASE ~(k < 10)
      <3>1. k \div 10 \in 0..n /\ Ones(k) \in D
        BY <1>2, <2>2
      <3>2. f[k \div 10] \in Seq(D)
        BY <3>1
      <3> QED
        <4>1. Append(f[k \div 10], Ones(k)) \in Seq(D)
          BY <3>1, <3>2
        <4> QED
          BY <2>2, <4>1
    <2> QED
      BY <2>1, <2>2
  <1>4. 0 \in Good
    <2>1. [k \in 0..n |-> <<>>] \in F
      OBVIOUS
    <2>2. Upto(Next1([k \in 0..n |-> <<>>]), 0)
      <3>1. \A k \in 0..n : k <= 0 => k < 10
        OBVIOUS
      <3> QED
        BY <3>1
    <2>3. \E f \in F : Upto(f, 0)
      <3> HIDE DEF F, Upto, Next1
      <3> QED
        BY <1>3, <2>1, <2>2
    <2> HIDE DEF Upto
    <2> QED
      BY <2>3
  <1>5. ASSUME NEW m \in Nat, m \in Good PROVE m + 1 \in Good
    <2>1. PICK f \in F : Upto(f, m)
      BY <1>5
    <2>2. ASSUME NEW k \in 0..n, k <= m + 1 PROVE Next1(f)[k] = Next1(Next1(f))[k]
      <3>1. CASE k < 10
        BY <3>1
      <3>2. CASE ~(k < 10)
        <4>1. k \div 10 \in 0..n /\ k \div 10 <= m
          BY <1>2, <2>2, <3>2
        <4>2. f[k \div 10] = Next1(f)[k \div 10]
          BY <2>1, <4>1
        <4> QED
          BY <3>2, <4>2
      <3> QED
        BY <3>1, <3>2
    <2>3. Upto(Next1(f), m + 1) /\ Next1(f) \in F
      BY <1>3, <2>2
    <2>4. \E g \in F : Upto(g, m + 1)
      <3> HIDE DEF F, Upto, Next1
      <3> QED
        BY <2>3
    <2> HIDE DEF Upto
    <2> QED
      BY <2>4
  <1>6. n \in Good
    <2> HIDE DEF Good
    <2> QED
      BY <1>4, <1>5, Induction
  <1>7. PICK f \in F : Upto(f, n)
    BY <1>6
  <1>8. f = Next1(f)
    <2>1. \A k \in 0..n : f[k] = Next1(f)[k]
      BY <1>7
    <2>2. f = [k \in 0..n |-> f[k]]
      OBVIOUS
    <2> QED
      BY <2>1, <2>2
  <1>9. IsNumerals(f, n)
    BY <1>8 DEF IsNumerals, First, Ones
  <1> QED
    BY <1>9 DEF Numerals

\* They read back as the numbers they are of.
LEMMA NumeralIs ==
  ASSUME NEW n \in Nat
  PROVE  /\ Numeral(n) \in Seq(D) /\ Numeral(n) # <<>>
         /\ NumberOf(Numeral(n)) = n
  <1> DEFINE of == Numerals(n)
             Reads(k) == of[k] \in Seq(D) /\ of[k] # <<>> /\ NumberOf(of[k]) = k
             Good == {m \in Nat : \A k \in 0..n : k <= m => Reads(k)}
  <1>1. Numeral(n) = of[n]
    BY Zenon DEF Numeral, Numerals, IsNumerals
  <1>2. \A k \in 0..n : of[k] = IF k < 10 THEN <<Digits[k + 1]>> ELSE Append(of[k \div 10], Digits[(k % 10) + 1])
    <2>1. IsNumerals(of, n)
      BY NumeralsExist
    <2> HIDE DEF of
    <2> QED
      BY <2>1 DEF IsNumerals
  <1> HIDE DEF of
  <1>3. ASSUME NEW k \in 0..n, k < 10 PROVE Reads(k)
    <2>1. Digits[k + 1] \in D /\ ValueOf(Digits[k + 1]) = k
      BY <1>3, DigitsAre
    <2>2. PICK c \in D : c = Digits[k + 1] /\ ValueOf(c) = k
      BY <2>1
    <2>3. of[k] = Append(<<>>, c) /\ <<>> \in Seq(D)
      <3>1. of[k] = <<c>>
        BY <1>2, <1>3, <2>2
      <3> QED
        BY <3>1, Single
    <2>4. NumberOf(Append(<<>>, c)) = 10 * 0 + k
      BY <2>2, <2>3, NumberOfIs
    <2> QED
      BY <2>3, <2>4
  <1>4. 0 \in Good
    <2>1. \A k \in 0..n : k <= 0 => k < 10
      OBVIOUS
    <2> HIDE DEF Reads
    <2> QED
      BY <1>3, <2>1
  <1>5. ASSUME NEW m \in Nat, m \in Good PROVE m + 1 \in Good
    <2> SUFFICES ASSUME NEW k \in 0..n, k <= m + 1, ~(k < 10) PROVE Reads(k)
      <3> HIDE DEF Reads
      <3> QED
        BY <1>3
    <2>1. PICK q \in 0..n, e \in 0..9 : q = k \div 10 /\ e = k % 10 /\ q <= m /\ 10 * q + e = k
      <3>1. k \div 10 \in Nat /\ k % 10 \in 0..9 /\ k \div 10 < k /\ 10 * (k \div 10) + (k % 10) = k
        OBVIOUS
      <3> QED
        BY <3>1
    <2>2. PICK c \in D : c = Digits[e + 1] /\ ValueOf(c) = e
      BY DigitsAre
    <2>3. PICK s : s = of[q]
      OBVIOUS
    <2>4. s \in Seq(D) /\ s # <<>> /\ NumberOf(s) = q
      BY <1>5, <2>1, <2>3
    <2>5. of[k] = Append(s, c)
      BY <1>2, <2>1, <2>2, <2>3
    <2>6. NumberOf(Append(s, c)) = 10 * q + e
      BY <2>2, <2>4, NumberOfIs
    <2> QED
      BY <2>1, <2>4, <2>5, <2>6
  <1>6. n \in Good
    <2> HIDE DEF Good
    <2> QED
      BY <1>4, <1>5, Induction
  <1> QED
    BY <1>1, <1>6

-----------------------------------------------------------------------------
\* A text without a point is all whole; the first point of another parts it.
Parted(s, dot) ==
  /\ HasPoint(s) /\ s[dot] = "."
  /\ Whole(s) = SubSeq(s, 1, dot - 1) /\ Rest(s) = SubSeq(s, dot + 1, Len(s))

LEMMA Parts ==
  ASSUME NEW E, NEW s \in Seq(E)
  PROVE  \/ ~HasPoint(s) /\ Whole(s) = s /\ Rest(s) = <<>>
         \/ \E dot \in 1..Len(s) : Parted(s, dot)
  <1> DEFINE I == {i \in 1..Len(s) : s[i] = "."}
  <1>0. Len(s) \in Nat /\ DOMAIN s = 1..Len(s)
    OBVIOUS
  <1>1. Whole(s) = IF (IF I # {} THEN Min(I) ELSE 0) = 0 THEN s ELSE SubSeq(s, 1, (IF I # {} THEN Min(I) ELSE 0) - 1)
    BY Zenon DEF Whole, SelectInSeq
  <1>2. HasPoint(s) <=> I # {}
    BY <1>0 DEF HasPoint, ToSet
  <1>3. CASE I = {}
    <2>1. Whole(s) = s
      BY <1>1, <1>3
    <2>2. Rest(s) = SubSeq(s, Len(s) + 2, Len(s))
      BY <2>1 DEF Rest
    <2>3. SubSeq(s, Len(s) + 2, Len(s)) = <<>>
      BY <1>0
    <2> QED
      BY <1>2, <1>3, <2>1, <2>2, <2>3
  <1>4. CASE I # {}
    <2>1. PICK dot \in 1..Len(s) : dot = Min(I) /\ s[dot] = "."
      <3>1. I \in SUBSET Nat
        OBVIOUS
      <3>2. Min(I) \in I
        BY <1>4, <3>1, MinOfSet
      <3> QED
        BY <3>2
    <2>2. dot # 0
      OBVIOUS
    <2>3. Whole(s) = SubSeq(s, 1, dot - 1)
      BY <1>1, <1>4, <2>1, <2>2
    <2>4. Len(SubSeq(s, 1, dot - 1)) + 2 = dot + 1
      BY <1>0
    <2>5. Rest(s) = SubSeq(s, dot + 1, Len(s))
      BY <2>3, <2>4, Zenon DEF Rest
    <2> QED
      BY <1>2, <1>4, <2>1, <2>3, <2>5 DEF Parted
  <1> QED
    BY <1>3, <1>4

\* Digits are neither signs, nor points, nor blanks.
LEMMA DigitsOnly ==
  \A c \in D : c # "." /\ c # " " /\ c # "-" /\ c # "+"
  BY DigitsAre

LEMMA NumeralsAre ==
  ASSUME NEW E, NEW s \in Seq(E)
  PROVE  IsNumeral(s) <=> s \in Seq(D) /\ s # <<>>
  <1>1. ToSet(s) \subseteq D <=> \A i \in 1..Len(s) : s[i] \in D
    <2>1. DOMAIN s = 1..Len(s)
      OBVIOUS
    <2> QED
      BY <2>1 DEF ToSet
  <1>2. s \in Seq(D) <=> \A i \in 1..Len(s) : s[i] \in D
    OBVIOUS
  <1> QED
    BY <1>1, <1>2 DEF IsNumeral, D

\* What is plain is one or two numerals, with nothing to trim.
LEMMA PlainIs ==
  ASSUME NEW E, NEW s \in Seq(E), IsPlain(s)
  PROVE  /\ Whole(s) \in Seq(D) /\ Whole(s) # <<>> /\ Rest(s) \in Seq(D)
         /\ HasPoint(s) \/ Rest(s) = <<>>
         /\ TrimSpace(s) = s
  <1> DEFINE w == Whole(s)
             r == Rest(s)
  <1>1. w \in Seq(E) /\ r \in Seq(E)
    <2>1. CASE ~HasPoint(s) /\ Whole(s) = s /\ Rest(s) = <<>>
      BY <2>1
    <2>2. ASSUME NEW dot \in 1..Len(s), Parted(s, dot) PROVE w \in Seq(E) /\ r \in Seq(E)
      <3>1. SubSeq(s, 1, dot - 1) \in Seq(E) /\ SubSeq(s, dot + 1, Len(s)) \in Seq(E)
        OBVIOUS
      <3> QED
        BY <2>2, <3>1 DEF Parted
    <2> QED
      BY <2>1, <2>2, Parts
  <1>2. w \in Seq(D) /\ w # <<>> /\ r \in Seq(D)
    <2>1. IsNumeral(w) /\ (r = <<>> \/ IsNumeral(r))
      BY DEF IsPlain
    <2>2. IsNumeral(w) => w \in Seq(D) /\ w # <<>>
      BY <1>1, NumeralsAre
    <2>3. IsNumeral(r) => r \in Seq(D)
      BY <1>1, NumeralsAre
    <2>4. r = <<>> => r \in Seq(D)
      OBVIOUS
    <2> HIDE DEF w, r
    <2> QED
      BY <2>1, <2>2, <2>3, <2>4
  <1>3. \A i \in 1..Len(s) : s[i] # " "
    <2>1. CASE ~HasPoint(s) /\ Whole(s) = s /\ Rest(s) = <<>>
      <3>1. \A i \in 1..Len(s) : s[i] \in D
        BY <1>2, <2>1
      <3> QED
        BY <3>1, DigitsOnly
    <2>2. ASSUME NEW dot \in 1..Len(s), Parted(s, dot), NEW i \in 1..Len(s)
          PROVE  s[i] # " "
      <3>1. CASE i < dot
        <4>1. SubSeq(s, 1, dot - 1)[i] = s[i] /\ i \in 1..Len(SubSeq(s, 1, dot - 1))
          BY <3>1
        <4>2. s[i] \in D
          BY <1>2, <2>2, <4>1 DEF Parted
        <4> QED
          BY <4>2, DigitsOnly
      <3>2. CASE i > dot
        <4>1. /\ SubSeq(s, dot + 1, Len(s))[i - dot] = s[i]
              /\ i - dot \in 1..Len(SubSeq(s, dot + 1, Len(s)))
          BY <3>2
        <4>2. s[i] \in D
          BY <1>2, <2>2, <4>1 DEF Parted
        <4> QED
          BY <4>2, DigitsOnly
      <3>3. CASE i = dot
        <4>1. s[dot] = "."
          BY <2>2 DEF Parted
        <4> QED
          BY <3>3, <4>1
      <3>4. i < dot \/ i > dot \/ i = dot
        <4>1. i \in Nat /\ dot \in Nat
          OBVIOUS
        <4> QED
          BY <4>1
      <3> QED
        BY <3>1, <3>2, <3>3, <3>4, Zenon
    <2> QED
      BY <2>1, <2>2, Parts
  <1>4. HasPoint(s) \/ r = <<>>
    BY Parts DEF Parted
  <1>5. TrimSpace(s) = s
    <2> DEFINE n == Len(s)
    <2>1. n \in Nat /\ n > 0
      <3>1. CASE ~HasPoint(s) /\ Whole(s) = s /\ Rest(s) = <<>>
        BY <1>2, <3>1
      <3>2. ASSUME NEW dot \in 1..Len(s) PROVE n \in Nat /\ n > 0
        OBVIOUS
      <3> QED
        BY <3>1, <3>2, Parts
    <2>2. {i \in DOMAIN s : s[i] # " "} = 1..n
      <3>1. DOMAIN s = 1..n
        OBVIOUS
      <3> QED
        BY <1>3, <3>1
    <2>3. Min(1..n) = 1 /\ Max(1..n) = n /\ 1..n # {}
      <3> HIDE DEF n
      <3>1. 1..n \in SUBSET Nat /\ 1..n # {} /\ \A y \in 1..n : y <= n
        <4>1. 1 \in 1..n
          BY <2>1
        <4>2. 1..n \in SUBSET Nat /\ \A y \in 1..n : y <= n
          BY <2>1
        <4> QED
          BY <4>1, <4>2
      <3>2. Min(1..n) \in 1..n /\ \A y \in 1..n : Min(1..n) <= y
        BY <3>1, MinOfSet
      <3>3. Max(1..n) \in 1..n /\ \A y \in 1..n : Max(1..n) >= y
        BY <2>1, <3>1, MaxOfSet
      <3>4. 1 \in 1..n /\ n \in 1..n
        BY <2>1
      <3> QED
        BY <2>1, <3>1, <3>2, <3>3, <3>4
    <2>4. TrimSpace(s) = SubSeq(s, 1, n)
      <3> HIDE DEF n
      <3> QED
        BY <2>2, <2>3 DEF TrimSpace
    <2>5. SubSeq(s, 1, Len(s)) = s
      OBVIOUS
    <2> QED
      BY <2>4, <2>5
  <1> QED
    BY <1>2, <1>4, <1>5

-----------------------------------------------------------------------------
Parsed(n) == [ok |-> TRUE, value |-> n]

\* A numeral that there is an integer for is parsed as what it denotes.
LEMMA NumeralParses ==
  ASSUME NEW s \in Seq(D), s # <<>>, NumberOf(s) \in Words
  PROVE  ParseInt(s) = Parsed(NumberOf(s))
  <1>1. s[1] \in D
    OBVIOUS
  <1>2. s[1] \notin {"-", "+"}
    BY <1>1, DigitsOnly
  <1>3. IsNumeral(s)
    BY NumeralsAre
  <1>4. NumberOf(s) \in Nat /\ 1 * NumberOf(s) = NumberOf(s)
    BY NumberOfIs
  <1> QED
    BY <1>2, <1>3, <1>4, Zenon DEF ParseInt, Parsed

\* What a plain text denotes, and that it is parsed as that.
LEMMA PlainParses ==
  ASSUME NEW E, NEW s \in Seq(E), IsPlain(s)
  PROVE  /\ Denoted(s) \in Nat
         /\ Denoted(s) = 100 * NumberOf(Whole(s)) + NumberOf(Cents(Rest(s)))
         /\ Denoted(s) \in Words => ParseString(s) = Parsed(Denoted(s))
  <1>1. PICK w \in Seq(D), r \in Seq(D) : w = Whole(s) /\ r = Rest(s) /\ w # <<>> /\ (HasPoint(s) \/ r = <<>>)
    BY PlainIs
  <1>2. PICK a \in Nat, b \in Nat, p \in Nat \ {0}, c \in Nat :
          a = NumberOf(w) /\ b = NumberOf(r) /\ p = Scale(r) /\ c = NumberOf(Cents(r))
    <2>1. Scale(r) > 0 /\ Scale(r) \in Nat
      BY NumberOfBoth, NumberOfIs
    <2>2. NumberOf(w) \in Nat /\ NumberOf(r) \in Nat /\ NumberOf(Cents(r)) \in Nat
      BY NumberOfIs, CentsAre
    <2> QED
      BY <2>1, <2>2
  <1>3. Denoted(s) = 100 * a + c
    <2>1. Denoted(s) = (100 * (a * p + b)) \div p
      <3>1. NumberOf(w \o r) = a * p + b
        BY <1>2, NumberOfBoth
      <3> QED
        BY <1>1, <1>2, <3>1, Zenon DEF Denoted
    <2>2. c * p <= 100 * b /\ 100 * b < (c + 1) * p
      <3>1. CutOff(c, b, p)
        BY <1>2, CentsCutOff
      <3> QED
        BY <3>1 DEF CutOff
    <2>3. PICK x \in Nat, y \in Nat, z \in Nat : x = a * p /\ y = c * p /\ z = (c + 1) * p
      OBVIOUS
    <2>4. (100 * a + c) * p = 100 * x + y /\ (100 * a + c + 1) * p = 100 * x + z
      BY <2>3
    <2>5. 100 * x + y <= 100 * (x + b) /\ 100 * (x + b) < 100 * x + z
      <3>1. y <= 100 * b /\ 100 * b < z
        BY <2>2, <2>3
      <3> QED
        BY <3>1
    <2>6. PICK h \in Nat, g \in Nat : h = 100 * (x + b) /\ g = 100 * a + c
      OBVIOUS
    <2>7. h \div p = g
      <3>1. g * p <= h /\ h < (g + 1) * p
        BY <2>4, <2>5, <2>6
      <3> QED
        BY <3>1, QuotientIs
    <2> QED
      BY <2>1, <2>3, <2>6, <2>7
  <1>4. ASSUME Denoted(s) \in Words PROVE ParseString(s) = Parsed(Denoted(s))
    <2>0. Half \in Nat \ {0}
      BY MoneyAssumption
    <2>1. a \in Words /\ c \in Words
      BY <1>3, <1>4, <2>0 DEF Words
    <2>2. TrimSpace(s) = s
      BY PlainIs
    <2>3. ParseInt(w) = Parsed(a)
      BY <1>1, <1>2, <2>1, NumeralParses
    <2>4. ParseInt(Cents(r)) = Parsed(c)
      <3>1. Cents(r) \in Seq(D) /\ Cents(r) # <<>>
        BY CentsAre
      <3> QED
        BY <1>2, <2>1, <3>1, NumeralParses
    <2>5. ~HasPoint(s) => c = 0
      <3>1. ASSUME r = <<>> PROVE c = 0
        <4>1. NumberOf(Cents(r)) = 10 * DigitAt(r, 1) + DigitAt(r, 2)
          BY CentsAre
        <4>2. DigitAt(r, 1) = 0 /\ DigitAt(r, 2) = 0
          BY <3>1 DEF DigitAt
        <4> QED
          BY <1>2, <4>1, <4>2
      <3> QED
        BY <1>1, <3>1
    <2>6. ParseString(s) = Centavos(Parsed(a), IF HasPoint(s) THEN Parsed(c) ELSE Parsed(0))
      <3>1. ParseString(s) = Centavos(ParseInt(Whole(s)), IF HasPoint(s) THEN ParseInt(Cents(Rest(s))) ELSE [ok |-> TRUE, value |-> 0])
        BY <2>2, Zenon DEF ParseString, Cents
      <3> QED
        BY <1>1, <2>3, <2>4, <3>1, Zenon DEF Parsed
    <2>7. ParseString(s) = Centavos(Parsed(a), Parsed(c))
      BY <2>5, <2>6
    <2>8. Centavos(Parsed(a), Parsed(c)) = Parsed(Wrap(a * 100 + c))
      BY DEF Centavos, Parsed
    <2>9. a * 100 + c = Denoted(s)
      BY <1>3
    <2> QED
      BY <1>4, <2>7, <2>8, <2>9, WrapIs
  <1> QED
    BY <1>1, <1>2, <1>3, <1>4

\* What is printed for an amount is plain, has two decimals, and denotes the amount.
LEMMA StringIsPlain ==
  ASSUME NEW n \in Nat
  PROVE  \E s \in Seq(D \cup {"."}) : /\ s = String(n) /\ IsPlain(s) /\ Len(Rest(s)) = 2
                                      /\ Denoted(s) = n
  <1> DEFINE E == D \cup {"."}
  <1>1. PICK q \in Nat, i \in 0..9, j \in 0..9 :
          q = n \div 100 /\ i = (n % 100) \div 10 /\ j = n % 10 /\ 100 * q + 10 * i + j = n
    BY TwoDecimals
  <1>2. PICK u \in Seq(D) : u = Numeral(q) /\ u # <<>> /\ NumberOf(u) = q
    BY NumeralIs
  <1>3. PICK x \in D, y \in D : x = Digits[i + 1] /\ y = Digits[j + 1] /\ ValueOf(x) = i /\ ValueOf(y) = j
    BY DigitsAre
  <1>4. PICK s : s = u \o <<".", x, y>>
    OBVIOUS
  <1>5. s = String(n)
    BY <1>1, <1>2, <1>3, <1>4, Zenon DEF String
  <1>6. /\ s \in Seq(E) /\ Len(s) = Len(u) + 3 /\ Len(u) \in Nat
        /\ \A k \in 1..Len(u) : s[k] = u[k]
        /\ s[Len(u) + 1] = "." /\ s[Len(u) + 2] = x /\ s[Len(u) + 3] = y
    <2>1. PICK t : t = <<".", x, y>>
      OBVIOUS
    <2>2. t \in Seq(E) /\ Len(t) = 3 /\ t[1] = "." /\ t[2] = x /\ t[3] = y
      BY <2>1
    <2>3. s = u \o t
      BY <1>4, <2>1
    <2>4. u \in Seq(E)
      OBVIOUS
    <2> HIDE DEF E
    <2>5. s \in Seq(E) /\ Len(s) = Len(u) + 3 /\ Len(u) \in Nat
      <3>1. u \o t \in Seq(E) /\ Len(u \o t) = Len(u) + Len(t)
        BY <2>2, <2>4, ConcatProperties
      <3> QED
        BY <2>2, <2>3, <3>1
    <2>6. \A k \in 1..Len(u) : s[k] = u[k]
      BY <2>2, <2>3, <2>4
    <2>7. s[Len(u) + 1] = t[1] /\ s[Len(u) + 2] = t[2] /\ s[Len(u) + 3] = t[3]
      <3>1. \A k \in 1..Len(u) + Len(t) : (u \o t)[k] = IF k <= Len(u) THEN u[k] ELSE t[k - Len(u)]
        BY <2>2, <2>4, ConcatProperties
      <3>2. PICK l \in Nat : l = Len(u)
        BY <2>5
      <3>3. \A k \in 1..3 : l + k \in 1..l + 3 /\ ~(l + k <= l) /\ (l + k) - l = k
        OBVIOUS
      <3>4. \A k \in 1..3 : s[l + k] = t[k]
        BY <2>2, <2>3, <3>1, <3>2, <3>3
      <3> QED
        BY <3>2, <3>4
    <2> QED
      BY <2>2, <2>5, <2>6, <2>7
  <1>7. \A k \in 1..Len(s) : s[k] = "." => k = Len(u) + 1
    <2>1. \A k \in 1..Len(u) : s[k] \in D
      BY <1>6
    <2>2. \A k \in 1..Len(s) : k \in 1..Len(u) \/ k = Len(u) + 1 \/ k = Len(u) + 2 \/ k = Len(u) + 3
      BY <1>6
    <2> QED
      BY <1>6, <2>1, <2>2, DigitsOnly
  <1>8. HasPoint(s)
    <2>1. Len(u) + 1 \in DOMAIN s
      BY <1>6
    <2> QED
      BY <1>6, <2>1 DEF HasPoint, ToSet
  <1>9. Parted(s, Len(u) + 1)
    <2>1. PICK dot \in 1..Len(s) : Parted(s, dot)
      BY <1>6, <1>8, Parts
    <2>2. dot = Len(u) + 1
      BY <1>7, <2>1 DEF Parted
    <2> QED
      BY <2>1, <2>2
  <1>10. Whole(s) = u
    <2>1. Whole(s) = SubSeq(s, 1, Len(u))
      <3>1. (Len(u) + 1) - 1 = Len(u)
        BY <1>6
      <3> QED
        BY <1>9, <3>1 DEF Parted
    <2>2. SubSeq(s, 1, Len(u)) = u
      BY <1>6
    <2> QED
      BY <2>1, <2>2
  <1>11. PICK r \in Seq(D) : r = Rest(s) /\ Len(r) = 2 /\ r[1] = x /\ r[2] = y
    <2>1. PICK r : r = SubSeq(s, Len(u) + 2, Len(u) + 3)
      OBVIOUS
    <2>2. r = Rest(s)
      <3>1. (Len(u) + 1) + 1 = Len(u) + 2 /\ Len(s) = Len(u) + 3
        BY <1>6
      <3> QED
        BY <1>9, <2>1, <3>1 DEF Parted
    <2>3. r \in Seq(E) /\ Len(r) = 2 /\ r[1] = x /\ r[2] = y
      BY <1>6, <2>1
    <2>4. r \in Seq(D)
      BY <2>3
    <2> QED
      BY <2>2, <2>3, <2>4
  <1>12. IsPlain(s)
    <2>1. IsNumeral(u) /\ IsNumeral(r)
      <3>1. r # <<>>
        BY <1>11
      <3> QED
        BY <1>2, <3>1, NumeralsAre
    <2> QED
      BY <1>10, <1>11, <2>1 DEF IsPlain
  <1>13. Denoted(s) = n
    <2>1. Denoted(s) = 100 * NumberOf(u) + NumberOf(Cents(r))
      BY <1>6, <1>10, <1>11, <1>12, PlainParses
    <2>2. NumberOf(Cents(r)) = 10 * DigitAt(r, 1) + DigitAt(r, 2)
      BY CentsAre
    <2>3. DigitAt(r, 1) = i /\ DigitAt(r, 2) = j
      BY <1>3, <1>11 DEF DigitAt
    <2>4. Denoted(s) = 100 * q + (10 * i + j)
      BY <1>2, <2>1, <2>2, <2>3
    <2> QED
      BY <1>1, <2>4
  <1> QED
    BY <1>5, <1>6, <1>11, <1>12, <1>13

\* What any text is parsed as is a word.
LEMMA ParsedIsWord ==
  ASSUME NEW s, ParseString(s).ok
  PROVE  ParseString(s).value \in Words
  <1>1. \A t : ParseInt(t).ok => ParseInt(t).value \in Int
    <2> SUFFICES ASSUME NEW t PROVE ParseInt(t).ok => ParseInt(t).value \in Int
      OBVIOUS
    <2>1. ParseInt(t) = Invalid \/ \E n \in Words : ParseInt(t) = Parsed(n)
      BY Zenon DEF ParseInt, Parsed
    <2>2. \A n \in Words : n \in Int
      <3>1. Half \in Nat
        BY MoneyAssumption
      <3> QED
        BY <3>1 DEF Words
    <2> QED
      BY <2>1, <2>2 DEF Invalid, Parsed
  <1>2. \E a, b : /\ ParseString(s) = Centavos(a, b)
                  /\ a.ok => a.value \in Int
                  /\ b.ok => b.value \in Int
    <2> DEFINE t == TrimSpace(s)
               b == IF HasPoint(t) THEN ParseInt(SubSeq(Rest(t) \o <<"0", "0">>, 1, 2))
                    ELSE [ok |-> TRUE, value |-> 0]
    <2>1. ParseString(s) = Centavos(ParseInt(Whole(t)), b)
      BY Zenon DEF ParseString
    <2>2. b.ok => b.value \in Int
      BY <1>1
    <2> HIDE DEF b, t
    <2> QED
      BY <1>1, <2>1, <2>2
  <1>3. PICK a, b : /\ ParseString(s) = Centavos(a, b)
                    /\ a.ok => a.value \in Int
                    /\ b.ok => b.value \in Int
    BY <1>2
  <1>4. a.ok /\ b.ok
    BY <1>3 DEF Centavos, Invalid
  <1>5. ParseString(s) = [ok |-> TRUE, value |-> Wrap(a.value * 100 + b.value)]
    BY <1>3, <1>4 DEF Centavos
  <1>6. a.value * 100 + b.value \in Int
    BY <1>3, <1>4
  <1> QED
    BY <1>5, <1>6, WrapIs

-----------------------------------------------------------------------------
\* What has been decided of the text t, and that its amount is a.
Judged(where, t, a) ==
  /\ where = "refused" => ~ParseString(t).ok \/ ParseString(t).value <= 0
  /\ where \in {"accepted", "sent"} =>
       ParseString(t).ok /\ ParseString(t).value > 0 /\ a = ParseString(t).value

\* The inductive invariant: what was decided was decided by what the text parses as,
\* and what is sent is what is printed for the amount.
IInv ==
  /\ text \in Seq(Chars)
  /\ pc \in {"received", "accepted", "refused", "sent"}
  /\ Judged(pc, text, amount)
  /\ pc = "sent" => original = String(amount)

\* Every step keeps it.
THEOREM MoneyInvariance == Spec => []IInv
  <1>1. Init => IInv
    <2> SUFFICES ASSUME Init PROVE IInv
      OBVIOUS
    <2>1. text \in Seq(Chars)
      BY DEF Init, BoundedSeq, SeqOf
    <2> QED
      BY <2>1 DEF Init, IInv, Judged
  <1>2. IInv /\ [Next]_vars => IInv'
    <2> SUFFICES ASSUME IInv, [Next]_vars PROVE IInv'
      OBVIOUS
    <2>1. CASE Accept
      BY <2>1 DEF IInv, Accept, Judged
    <2>2. CASE Refuse
      BY <2>2 DEF IInv, Refuse, Judged
    <2>3. CASE Send
      BY <2>3 DEF IInv, Send, Judged
    <2>4. CASE UNCHANGED vars
      BY <2>4 DEF IInv, vars, Judged
    <2> QED
      BY <2>1, <2>2, <2>3, <2>4 DEF Next
  <1> QED
    BY <1>1, <1>2, PTL DEF Spec

\* A decimal text that an integer has room for is accepted exactly if it denotes a
\* centavo or more, for the amount it denotes, fractions of a centavo cut off
\* (ParseString, and the check in process): whatever the length of the text and the
\* width of the integers.
THEOREM PlainAmountsAreExact == Spec => []PlainIsExact
  <1>1. IInv => PlainIsExact
    <2> SUFFICES ASSUME IInv, IsPlain(text), Denoted(text) \in Words
                 PROVE  /\ pc = "refused" => Denoted(text) = 0
                        /\ pc \in {"accepted", "sent"} => amount = Denoted(text)
      BY DEF PlainIsExact
    <2>1. Denoted(text) \in Nat /\ ParseString(text) = Parsed(Denoted(text))
      BY PlainParses DEF IInv
    <2>2. ParseString(text).ok /\ ParseString(text).value = Denoted(text)
      BY <2>1 DEF Parsed
    <2> QED
      BY <2>1, <2>2 DEF IInv, Judged
  <1> QED
    BY <1>1, MoneyInvariance, PTL

\* What EFi is sent has two decimals and reads as the amount that was accepted
\* (String against ParseString), for every amount there can be.
THEOREM PrintedAmountsReadBack == Spec => []SentReadsBack
  <1>1. IInv => SentReadsBack
    <2> SUFFICES ASSUME IInv, pc = "sent"
                 PROVE  /\ IsPlain(original) /\ Len(Rest(original)) = 2
                        /\ ParseString(original) = Parsed(amount)
      BY DEF SentReadsBack, Parsed
    <2>1. amount = ParseString(text).value /\ ParseString(text).ok /\ amount > 0 /\ original = String(amount)
      BY DEF IInv, Judged
    <2>2. amount \in Words
      BY <2>1, ParsedIsWord
    <2>3. amount \in Nat
      <3>1. Half \in Nat
        BY MoneyAssumption
      <3> QED
        BY <2>1, <2>2, <3>1 DEF Words
    <2>4. PICK s \in Seq(D \cup {"."}) : /\ s = String(amount) /\ IsPlain(s) /\ Len(Rest(s)) = 2
                                         /\ Denoted(s) = amount
      BY <2>3, StringIsPlain
    <2>5. ParseString(s) = Parsed(amount)
      BY <2>2, <2>4, PlainParses
    <2> QED
      BY <2>1, <2>4, <2>5
  <1> QED
    BY <1>1, MoneyInvariance, PTL
=============================================================================
