---------------------------- MODULE BugLog_proofs ----------------------------
(***************************************************************************)
(* What holds of the bug log for any edits, notes and clock, however       *)
(* post-writes overlap each other, the agent and session starts, whichever *)
(* of them are killed, and whatever renames and writes in place fail.      *)
(***************************************************************************)
EXTENDS BugLog, FoldLemmas

\* What a post-write has tagged is tagged with one category.
TaggedOnce(b) ==
  "auto-detected" \in b.tags => \E c \in Detectable : b.tags = {"auto-detected", c, ExtOf[b.file]}

\* The i-th entry of a log is number i, and was made and seen by time n.
EntryOK(b, i, n) ==
  b \in Entries /\ b.id = i /\ b.at <= b.seen /\ b.seen <= n /\ TaggedOnce(b)

\* Post-writes have made two entries for one name and category.
SameKind(a, b) ==
  NameOf[a.file] = NameOf[b.file] /\ \E c \in Detectable : AutoDetected(a, c) /\ AutoDetected(b, c)

\* A log whose entries are numbered from 1 on, and of which those that are alike
\* are a window apart.
LogOK(log, n) ==
  /\ log \in Seq(Entries)
  /\ \A i \in 1..Len(log) : EntryOK(log[i], i, n)
  /\ \A i, j \in 1..Len(log) : i < j /\ SameKind(log[i], log[j]) => log[j].at >= log[i].seen + Window

-----------------------------------------------------------------------------
\* What is detected is a category, and none is a tag of another kind.
LEMMA DetectsCategory ==
  /\ \A ch \in Changes : Detected[ch] \in Detectable \cup {Nothing}
  /\ Detectable \subseteq Categories
  /\ \A c \in Categories : c # "auto-detected"
  <1>1. /\ \A i \in DOMAIN Rules : i \in Nat /\ Rules[i] \in Categories
        /\ \A c \in Categories : c # "auto-detected"
    <2>1. DOMAIN Rules = 1..13
      BY DEF Rules
    <2>2. /\ Rules[1] = "error-handling" /\ Rules[2] = "null-safety" /\ Rules[3] = "guard-clause"
          /\ Rules[4] = "wrong-value" /\ Rules[5] = "wrong-reference" /\ Rules[6] = "logic-fix"
          /\ Rules[7] = "operator-fix" /\ Rules[8] = "missing-import" /\ Rules[9] = "return-value"
          /\ Rules[10] = "async-fix" /\ Rules[11] = "type-fix" /\ Rules[12] = "style-fix"
          /\ Rules[13] = "refactor"
      BY DEF Rules
    <2>3. \A i \in 1..13 : Rules[i] # "auto-detected"
      <3>1. \A i \in 1..13 : i \in {1, 2, 3, 4, 5, 6, 7, 8, 9, 10, 11, 12, 13}
        OBVIOUS
      <3> QED
        BY <2>2, <3>1
    <2> QED
      BY <2>1, <2>3 DEF Categories, ToSet
  <1>2. ASSUME NEW ch \in Changes PROVE Detect(ch) \in Categories \cup {Nothing}
    <2> DEFINE hits == {i \in DOMAIN Rules : Rules[i] \in BySign(ch) \cup ByCount(ch)}
    <2>1. hits # {} => Min(hits) \in hits
      <3>1. hits \in SUBSET Nat
        BY <1>1
      <3> HIDE DEF hits
      <3> QED
        BY <3>1, MinOfSet
    <2> QED
      BY <1>1, <2>1 DEF Detect
  <1> QED
    BY <1>1, <1>2 DEF Detected, Detectable, Range

\* So an entry is of one category.
LEMMA OneCategory ==
  ASSUME NEW b \in Entries, TaggedOnce(b), NEW c \in Detectable, AutoDetected(b, c)
  PROVE  /\ b.tags = {"auto-detected", c, ExtOf[b.file]}
         /\ \A d \in Detectable : AutoDetected(b, d) => d = c
  <1>1. PICK k \in Detectable : b.tags = {"auto-detected", k, ExtOf[b.file]}
    BY DEF TaggedOnce, AutoDetected
  <1>2. ExtOf[b.file] \notin Categories
    BY ExtensionAssumption DEF ExtensionAssumption, Entries
  <1>3. \A d \in Detectable : AutoDetected(b, d) => d = k
    BY <1>1, <1>2, DetectsCategory DEF AutoDetected
  <1> QED
    BY <1>1, <1>3

\* The entry of a fix.
Made(i, ch, n) ==
  [id |-> i, file |-> ch.file, tags |-> {"auto-detected", Detected[ch], ExtOf[ch.file]},
   words |-> WordsOf[Detected[ch]], also |-> {}, occurrences |-> 1, at |-> n, seen |-> n]

\* Such an entry is one.
LEMMA MadeOK ==
  ASSUME NEW ch \in Changes, Detected[ch] # Nothing, NEW i \in Nat, NEW n \in Nat
  PROVE  /\ EntryOK(Made(i, ch, n), i, n)
         /\ Detected[ch] \in Detectable /\ AutoDetected(Made(i, ch, n), Detected[ch])
  <1>1. /\ Detected[ch] \in Detectable /\ Detected[ch] \in Categories /\ ch.file \in Files
        /\ ExtOf[ch.file] \in Range(ExtOf) /\ WordsOf[Detected[ch]] \in Range(WordsOf)
    BY DetectsCategory, BugLogAssumption DEF BugLogAssumption, IsChange, Range
  <1>2. Made(i, ch, n) \in Entries
    <2>1. {"auto-detected", Detected[ch], ExtOf[ch.file]} \in SUBSET Tags
      BY <1>1, Zenon DEF Tags
    <2>3. WordsOf[Detected[ch]] \in SUBSET Terms
      BY <1>1 DEF Terms
    <2>2. PICK tags : tags = {"auto-detected", Detected[ch], ExtOf[ch.file]}
      OBVIOUS
    <2> QED
      BY <1>1, <2>1, <2>2, <2>3 DEF Made, Entries
  <1> QED
    BY <1>1, <1>2 DEF Made, EntryOK, TaggedOnce, AutoDetected

\* An entry that counts one more fix.
Counted(b, n, lines) == [b EXCEPT !.occurrences = @ + 1, !.seen = n, !.also = @ \cup lines]

\* It stays an entry, of the same file, tags and number.
LEMMA CountedOK ==
  ASSUME NEW b, NEW i, NEW n \in Nat, EntryOK(b, i, n), NEW lines \in SUBSET Lines
  PROVE  /\ EntryOK(Counted(b, n, lines), i, n)
         /\ Counted(b, n, lines).file = b.file /\ Counted(b, n, lines).tags = b.tags
         /\ Counted(b, n, lines).id = b.id /\ Counted(b, n, lines).seen = n
         /\ Counted(b, n, lines).at = b.at
         /\ Counted(b, n, lines).occurrences = b.occurrences + 1
         /\ Counted(b, n, lines).also = b.also \cup lines
  <1>1. /\ b \in Entries /\ b.at \in Nat /\ b.seen \in Nat /\ b.at <= n
        /\ b.occurrences + 1 \in Nat \ {0} /\ b.also \in SUBSET Lines
    BY DEF EntryOK, Entries
  <1>2. PICK x : x = Counted(b, n, lines)
    OBVIOUS
  <1>3. PICK many, also : many = b.occurrences + 1 /\ also = b.also \cup lines
    OBVIOUS
  <1>4. x = [b EXCEPT !.occurrences = many, !.seen = n, !.also = also]
    BY <1>2, <1>3 DEF Counted
  <1>0. also \in SUBSET Lines
    BY <1>1, <1>3
  <1>5. /\ x \in Entries /\ x.file = b.file /\ x.tags = b.tags /\ x.id = b.id /\ x.at = b.at
        /\ x.seen = n /\ x.occurrences = many /\ x.also = also
    BY <1>0, <1>1, <1>3, <1>4 DEF Entries
  <1> QED
    BY <1>1, <1>2, <1>3, <1>5 DEF EntryOK, TaggedOnce

\* A fix is merged into a recent entry, or there is none and it gets an entry.
LEMMA FixEither ==
  ASSUME NEW log \in Seq(Entries), NEW ch \in Changes, now \in Nat
  PROVE  \/ \E i \in Recent(log, ch) : WithFix(log, ch) = [log EXCEPT ![i] = Counted(log[i], now, Context(ch))]
         \/ Recent(log, ch) = {} /\ WithFix(log, ch) = Append(log, Made(Len(log) + 1, ch, now))
  <1>1. CASE Recent(log, ch) # {}
    <2>1. PICK i : i = Min(Recent(log, ch))
      OBVIOUS
    <2>2. i \in Recent(log, ch)
      <3>1. Recent(log, ch) \in SUBSET Nat
        BY DEF Recent
      <3> QED
        BY <1>1, <2>1, <3>1, MinOfSet
    <2>3. DOMAIN log = 1..Len(log) /\ log = [j \in DOMAIN log |-> log[j]]
      OBVIOUS
    <2>4. [log EXCEPT ![i].occurrences = @ + 1, ![i].seen = now, ![i].also = @ \cup Context(ch)]
            = [log EXCEPT ![i] = Counted(log[i], now, Context(ch))]
      BY <2>3, Zenon DEF Counted
    <2> QED
      BY <1>1, <2>1, <2>2, <2>4 DEF WithFix
  <1>2. CASE Recent(log, ch) = {}
    BY <1>2 DEF WithFix, Made, Entry, NextId
  <1> QED
    BY <1>1, <1>2

\* A log is one for as long as time goes on.
LEMMA LaterOK ==
  ASSUME NEW log, NEW m \in Nat, NEW n \in Nat, m <= n, LogOK(log, m)
  PROVE  LogOK(log, n)
  <1>1. \A i \in 1..Len(log) : log[i].seen \in Nat /\ log[i].seen <= n
    BY DEF LogOK, EntryOK, Entries
  <1> QED
    BY <1>1 DEF LogOK, EntryOK

\* A log without entries is one.
LEMMA EmptyOK == \A n : LogOK(<<>>, n)
  <1>1. << >> \in Seq(Entries) /\ Len(<< >>) = 0
    OBVIOUS
  <1> QED
    BY <1>1 DEF LogOK

\* An entry under the next number that is like none of late keeps it one.
LEMMA AppendOK ==
  ASSUME NEW log, NEW n \in Nat, LogOK(log, n), NEW b, EntryOK(b, Len(log) + 1, n),
         \A i \in 1..Len(log) : SameKind(log[i], b) => b.at >= log[i].seen + Window
  PROVE  LogOK(Append(log, b), n)
  <1>1. PICK new : new = Append(log, b)
    OBVIOUS
  <1>2. /\ new \in Seq(Entries) /\ Len(new) = Len(log) + 1 /\ Len(log) \in Nat
        /\ new[Len(log) + 1] = b /\ \A i \in 1..Len(log) : new[i] = log[i]
    BY <1>1 DEF LogOK, EntryOK
  <1>3. ASSUME NEW i \in 1..Len(new) PROVE EntryOK(new[i], i, n)
    BY <1>2 DEF LogOK
  <1>4. ASSUME NEW i \in 1..Len(new), NEW j \in 1..Len(new), i < j, SameKind(new[i], new[j])
        PROVE  new[j].at >= new[i].seen + Window
    <2>1. CASE j = Len(log) + 1
      BY <1>2, <1>4, <2>1
    <2>2. CASE j # Len(log) + 1
      BY <1>2, <1>4, <2>2 DEF LogOK
    <2> QED
      BY <2>1, <2>2
  <1> QED
    BY <1>1, <1>2, <1>3, <1>4 DEF LogOK

\* So does a merge into an entry that was seen of late.
LEMMA MergeOK ==
  ASSUME NEW log, NEW n \in Nat, LogOK(log, n), NEW i \in 1..Len(log), n - log[i].seen < Window,
         NEW lines \in SUBSET Lines
  PROVE  LogOK([log EXCEPT ![i] = Counted(log[i], n, lines)], n)
  <1>1. PICK new : new = [log EXCEPT ![i] = Counted(log[i], n, lines)]
    OBVIOUS
  <1>2. EntryOK(log[i], i, n) /\ log \in Seq(Entries) /\ Window \in Nat
    BY BugLogAssumption DEF LogOK, BugLogAssumption
  <1>3. PICK b : b = Counted(log[i], n, lines)
    OBVIOUS
  <1>4. EntryOK(b, i, n) /\ b.file = log[i].file /\ b.tags = log[i].tags /\ b.at = log[i].at
    BY <1>2, <1>3, CountedOK
  <1>5. new \in Seq(Entries) /\ Len(new) = Len(log)
        /\ \A j \in 1..Len(log) : new[j] = IF j = i THEN b ELSE log[j]
    BY <1>1, <1>2, <1>3, <1>4 DEF EntryOK
  <1>6. ASSUME NEW j \in 1..Len(log), NEW k \in 1..Len(log), j < k, SameKind(new[j], new[k])
        PROVE  new[k].at >= new[j].seen + Window
    <2>1. SameKind(log[j], log[k])
      BY <1>4, <1>5, <1>6 DEF SameKind, AutoDetected
    <2>2. log[k].at >= log[j].seen + Window /\ log[k].at \in Nat /\ log[k].at <= n /\ log[j].seen \in Nat
      <3>1. log[k].at >= log[j].seen + Window
        BY <1>6, <2>1 DEF LogOK
      <3>2. EntryOK(log[j], j, n) /\ EntryOK(log[k], k, n)
        BY DEF LogOK
      <3>3. log[k].at \in Nat /\ log[k].seen \in Nat /\ log[j].seen \in Nat /\ log[k].at <= log[k].seen /\ log[k].seen <= n
        BY <3>2 DEF EntryOK, Entries
      <3> QED
        BY <3>1, <3>3
    <2>3. j # i
      BY <1>2, <2>2
    <2> QED
      BY <1>4, <1>5, <2>2, <2>3
  <1>7. \A j \in 1..Len(log) : EntryOK(new[j], j, n)
    BY <1>4, <1>5 DEF LogOK
  <1> QED
    BY <1>1, <1>5, <1>6, <1>7 DEF LogOK

\* The lines that a change quotes.
LEMMA ContextIsText == \A ch \in Changes : Context(ch) \in SUBSET Lines
  BY DEF Context, Lines

\* The log with a fix is a log.
LEMMA FixOK ==
  ASSUME NEW log, now \in Nat, LogOK(log, now), NEW ch \in Changes, Detected[ch] # Nothing
  PROVE  LogOK(WithFix(log, ch), now)
  <1>0. log \in Seq(Entries) /\ Window \in Nat /\ Len(log) + 1 \in Nat
    BY BugLogAssumption DEF LogOK, BugLogAssumption
  <1>1. ASSUME NEW i \in Recent(log, ch) PROVE LogOK([log EXCEPT ![i] = Counted(log[i], now, Context(ch))], now)
    <2>1. i \in 1..Len(log) /\ now - log[i].seen < Window
      BY <1>0 DEF Recent
    <2> QED
      BY <2>1, ContextIsText, MergeOK
  <1>2. CASE Recent(log, ch) = {}
    <2>1. PICK b : b = Made(Len(log) + 1, ch, now)
      OBVIOUS
    <2>2. /\ EntryOK(b, Len(log) + 1, now) /\ AutoDetected(b, Detected[ch]) /\ Detected[ch] \in Detectable
          /\ b.file = ch.file /\ b.at = now /\ b \in Entries /\ TaggedOnce(b)
      BY <1>0, <2>1, MadeOK DEF Made, EntryOK
    <2>3. ASSUME NEW i \in 1..Len(log), SameKind(log[i], b) PROVE b.at >= log[i].seen + Window
      <3>1. SameName(ch.file, log[i]) /\ AutoDetected(log[i], Detected[ch])
        BY <2>2, <2>3, OneCategory DEF SameKind, SameName
      <3>2. ~(now - log[i].seen < Window)
        BY <1>0, <1>2, <3>1 DEF Recent
      <3>3. log[i].seen \in Nat
        BY DEF LogOK, EntryOK, Entries
      <3> QED
        BY <1>0, <2>2, <3>2, <3>3
    <2>4. LogOK(Append(log, b), now)
      BY <2>2, <2>3, AppendOK
    <2> QED
      BY <1>0, <1>2, <2>1, <2>4, FixEither
  <1>3. CASE \E i \in Recent(log, ch) : WithFix(log, ch) = [log EXCEPT ![i] = Counted(log[i], now, Context(ch))]
    BY <1>1, <1>3
  <1> QED
    BY <1>0, <1>2, <1>3, FixEither

\* An entry of the agent is like none.
LEMMA NoteOK ==
  ASSUME NEW log, now \in Nat, LogOK(log, now), NEW n \in Notes
  PROVE  LogOK(Append(log, Entry(Len(log) + 1, n.file, n.tags, n.words)), now)
  <1>1. PICK b : b = Entry(Len(log) + 1, n.file, n.tags, n.words)
    OBVIOUS
  <1>2. Len(log) + 1 \in Nat /\ n.file \in Files /\ "auto-detected" \notin n.tags
    BY BugLogAssumption DEF LogOK, BugLogAssumption
  <1>3. n.tags \in SUBSET Tags /\ n.words \in SUBSET Terms
    <2>1. n.tags \in {k.tags : k \in Notes} /\ n.words \in Range(WordsOf) \cup {k.words : k \in Notes}
      OBVIOUS
    <2> QED
      BY <2>1, Zenon DEF Tags, Terms
  <1>4. EntryOK(b, Len(log) + 1, now)
    BY <1>1, <1>2, <1>3 DEF Entry, EntryOK, Entries, TaggedOnce
  <1>5. \A i \in 1..Len(log) : ~SameKind(log[i], b)
    BY <1>1, <1>2 DEF SameKind, AutoDetected, Entry
  <1> QED
    BY <1>1, <1>4, <1>5, AppendOK

\* The first two of some numbers are two at most.
LEMMA TwoAtMost == \A a, b : IsFiniteSet({a, b}) /\ Cardinality({a, b}) <= 2 /\ (a # b => Cardinality({a, b}) = 2)
  <1> SUFFICES ASSUME NEW a, NEW b
               PROVE  IsFiniteSet({a, b}) /\ Cardinality({a, b}) <= 2 /\ (a # b => Cardinality({a, b}) = 2)
    OBVIOUS
  <1>1. IsFiniteSet({b}) /\ Cardinality({b}) = 1
    BY FS_Singleton
  <1>2. /\ IsFiniteSet({b} \cup {a})
        /\ Cardinality({b} \cup {a}) = IF a \in {b} THEN Cardinality({b}) ELSE Cardinality({b}) + 1
    BY <1>1, FS_AddElement
  <1>3. {a, b} = {b} \cup {a}
    OBVIOUS
  <1> QED
    BY <1>1, <1>2, <1>3

\* So are the first two of some places.
LEMMA FirstTwoAreTwo ==
  ASSUME NEW S \in SUBSET Nat
  PROVE  FirstTwo(S) \subseteq S /\ \E a, b : FirstTwo(S) \subseteq {a, b}
  <1> DEFINE a == Min(S)
             b == Min(S \ {a})
  <1>1. ASSUME NEW i \in FirstTwo(S) PROVE i \in {a, b}
    <2> SUFFICES ASSUME i # a, i # b PROVE FALSE
      OBVIOUS
    <2>1. i \in S /\ i \in Nat /\ Cardinality({j \in S : j < i}) < 2
      BY DEF FirstTwo
    <2>2. a \in S /\ \A y \in S : a <= y
      BY <2>1, MinOfSet
    <2>3. b \in S \ {a} /\ \A y \in S \ {a} : b <= y
      <3>1. S \ {a} \in SUBSET Nat /\ i \in S \ {a}
        BY <2>1
      <3> HIDE DEF a
      <3> QED
        BY <3>1, MinOfSet
    <2> HIDE DEF a, b
    <2>4. a \in Nat /\ b \in Nat /\ a < i /\ b < i /\ a # b
      BY <2>1, <2>2, <2>3
    <2>5. {a, b} \subseteq {j \in S : j < i}
      BY <2>2, <2>3, <2>4
    <2>6. IsFiniteSet({j \in S : j < i})
      <3>1. {j \in S : j < i} \subseteq 0..i
        <4>1. \A j \in S : j \in Nat /\ (j < i => j \in 0..i)
          BY <2>1
        <4> QED
          BY <4>1
      <3>2. IsFiniteSet(0..i)
        BY <2>1, FS_Interval
      <3> QED
        BY <3>1, <3>2, FS_Subset
    <2>7. Cardinality({a, b}) <= Cardinality({j \in S : j < i}) /\ Cardinality({a, b}) = 2
      BY <2>4, <2>5, <2>6, FS_Subset, TwoAtMost
    <2>8. Cardinality({j \in S : j < i}) \in Nat
      BY <2>6, FS_CardinalityType
    <2> QED
      BY <2>1, <2>7, <2>8
  <1> QED
    BY <1>1 DEF FirstTwo

-----------------------------------------------------------------------------
\* The log is one, and so is what takes its place; an edit that has begun is one
\* of the changes there are.
LogsInv ==
  /\ bugs \in {Absent, Torn} \/ LogOK(bugs, now)
  /\ tmps \subseteq Edits
  /\ pc \in [Edits -> {"idle", "edited", "rename", "rewrite", "done", "killed"}]
  /\ change \in [Edits -> Changes \cup {Nothing}]
  /\ \A e \in Edits : pc[e] # "idle" => change[e] \in Changes
  /\ shown = [e \in Edits |-> shown[e]] /\ \A e \in Edits : Cardinality(shown[e]) <= 2
  /\ write = [e \in Edits |-> write[e]] /\ \A e \in Edits : Running(e) => LogOK(write[e], now)
  /\ noted \subseteq Notes
  /\ now \in 0..MaxNow /\ kills \in 0..MaxKills /\ failures \in 0..MaxFailures
  /\ cut \in BOOLEAN /\ overlapped \in BOOLEAN

\* The log is truncated to be written in place.
Tears(e) ==
  /\ pc[e] = "rename" /\ bugs' = Torn /\ Goto(e, "rewrite")
  /\ UNCHANGED <<tmps, write, cut>>

\* The steps in which a post-write ends its write, or begins to do so in place.
LEMMA SecondHalf ==
  ASSUME NEW e \in Edits, Rename(e) \/ RenameFails(e) \/ Rewrite(e)
  PROVE  /\ Running(e) /\ UNCHANGED <<change, shown, noted, now, kills, overlapped>>
         /\ Tears(e) \/ \E log \in {write[e], bugs, Torn} : EndWrite(e, log)
         /\ failures' = failures \/ (failures < MaxFailures /\ failures' = failures + 1)
  <1>1. CASE Rename(e)
    BY <1>1 DEF Rename, Running
  <1>2. CASE RenameFails(e)
    BY <1>2 DEF RenameFails, Running, Tears
  <1>3. CASE Rewrite(e)
    BY <1>3 DEF Rewrite, Running
  <1> QED
    BY <1>1, <1>2, <1>3

\* What a hook reads is a log, be the file unreadable.
LEMMA ReadOK == LogsInv => LogOK(ReadLog, now)
  BY EmptyOK DEF LogsInv, ReadLog

\* So it is at first.
LEMMA LogsInit == Init => LogsInv
  <1> SUFFICES ASSUME Init PROVE LogsInv
    OBVIOUS
  <1>1. LogOK(<<>>, 0) /\ Cardinality({}) <= 2
    BY EmptyOK, FS_EmptySet
  <1>2. 0 \in 0..MaxNow /\ 0 \in 0..MaxKills /\ 0 \in 0..MaxFailures
    BY BugLogAssumption DEF BugLogAssumption
  <1>3. \A e \in Edits : shown[e] = {} /\ pc[e] = "idle"
    BY DEF Init
  <1>4. bugs \in {Absent, Torn} \/ LogOK(bugs, now)
    BY <1>1 DEF Init
  <1> QED
    BY <1>1, <1>2, <1>3, <1>4 DEF Init, LogsInv, Running

\* Every step keeps the invariant.
LEMMA LogsNext == LogsInv /\ [Next]_vars => LogsInv'
  <1> SUFFICES ASSUME LogsInv, [Next]_vars PROVE LogsInv'
    OBVIOUS
  <1> USE DEF Goto
  <1>0. now \in Nat /\ MaxNow \in Nat /\ MaxKills \in Nat /\ MaxFailures \in Nat
    BY BugLogAssumption DEF BugLogAssumption, LogsInv
  <1>1. ASSUME NEW e \in Edits, NEW ch \in Changes, PreWrite(e, ch) PROVE LogsInv'
    <2>1. Cardinality(shown'[e]) <= 2
      <3>1. Relevant(ch) \in SUBSET Nat
        BY ReadOK DEF Relevant, LogOK
      <3>2. PICK a, b : FirstTwo(Relevant(ch)) \subseteq {a, b}
        BY <3>1, FirstTwoAreTwo
      <3>3. PICK x, y : shown'[e] \subseteq {x, y}
        <4> DEFINE brief(i) == [id |-> ReadLog[i].id, tags |-> ReadLog[i].tags]
        <4>1. shown'[e] = {brief(i) : i \in FirstTwo(Relevant(ch))}
          BY <1>1 DEF PreWrite, LogsInv
        <4>2. shown'[e] \subseteq {brief(a), brief(b)}
          <5> HIDE DEF brief
          <5> QED
            BY <3>2, <4>1
        <4> QED
          BY <4>2
      <3>4. IsFiniteSet({x, y}) /\ Cardinality({x, y}) <= 2
        BY TwoAtMost
      <3>5. Cardinality(shown'[e]) <= Cardinality({x, y}) /\ IsFiniteSet(shown'[e])
        BY <3>3, <3>4, FS_Subset
      <3>6. Cardinality(shown'[e]) \in Nat /\ Cardinality({x, y}) \in Nat
        BY <3>4, <3>5, FS_CardinalityType
      <3> QED
        BY <3>4, <3>5, <3>6
    <2> QED
      BY <1>1, <2>1 DEF LogsInv, PreWrite, Running
  <1>2. ASSUME NEW e \in Edits, NoFix(e) PROVE LogsInv'
    BY <1>2 DEF LogsInv, NoFix, Running
  <1>3. ASSUME NEW e \in Edits, LogFix(e) PROVE LogsInv'
    <2>1. LogOK(WithFix(ReadLog, change[e]), now)
      BY <1>0, <1>3, ReadOK, FixOK DEF LogFix, LogsInv
    <2>2. overlapped' \in BOOLEAN
      BY <1>3 DEF LogFix, Overlaps
    <2> QED
      BY <1>3, <2>1, <2>2 DEF LogsInv, LogFix, Running
  <1>4. ASSUME NEW e \in Edits, Rename(e) \/ RenameFails(e) \/ Rewrite(e) PROVE LogsInv'
    <2>1. /\ Running(e) /\ UNCHANGED <<change, shown, noted, now, kills, overlapped>>
          /\ Tears(e) \/ \E log \in {write[e], bugs, Torn} : EndWrite(e, log)
      BY <1>4, SecondHalf
    <2>2. failures' \in 0..MaxFailures
      <3>1. failures' = failures \/ (failures < MaxFailures /\ failures' = failures + 1)
        BY <1>4, SecondHalf
      <3> QED
        BY <1>0, <3>1 DEF LogsInv
    <2>3. CASE Tears(e)
      BY <2>1, <2>2, <2>3 DEF LogsInv, Tears, Running
    <2>4. CASE \E log \in {write[e], bugs, Torn} : EndWrite(e, log)
      BY <2>1, <2>2, <2>4 DEF LogsInv, EndWrite, Running
    <2> QED
      BY <2>1, <2>3, <2>4
  <1>5. ASSUME NEW e \in Edits, Kill(e) PROVE LogsInv'
    BY <1>0, <1>5 DEF LogsInv, Kill, Running
  <1>6. ASSUME NEW n \in Notes, Note(n) PROVE LogsInv'
    <2>1. LogOK(bugs', now)
      BY <1>0, <1>6, NoteOK DEF Note, LogsInv
    <2>2. overlapped' \in BOOLEAN
      BY <1>6 DEF Note, Overlaps
    <2> QED
      BY <1>6, <2>1, <2>2 DEF LogsInv, Note, Running
  <1>7. CASE Sweep
    <2>1. overlapped' \in BOOLEAN
      BY <1>7 DEF Sweep, Overlaps
    <2> QED
      BY <1>0, <1>7, <2>1 DEF LogsInv, Sweep, Running
  <1>8. CASE Tick
    <2>1. now' \in Nat /\ now <= now' /\ now' \in 0..MaxNow
      BY <1>0, <1>8 DEF Tick, LogsInv
    <2>2. \A log : LogOK(log, now) => LogOK(log, now')
      BY <1>0, <2>1, LaterOK
    <2> QED
      BY <1>8, <2>1, <2>2 DEF LogsInv, Tick, Running
  <1>9. CASE UNCHANGED vars
    BY <1>9 DEF LogsInv, vars, Running
  <1> QED
    BY <1>1, <1>2, <1>3, <1>4, <1>5, <1>6, <1>7, <1>8, <1>9 DEF Next

\* However post-writes overlap: what is, or is being written to, the bug log is a log.
THEOREM LogsInvariance == Spec => []LogsInv
  BY LogsInit, LogsNext, PTL DEF Spec

\* The log is a list of entries, not there or half written, and at most two bugs
\* are shown before an edit.
THEOREM TypeInvariance == Spec => []TypeOK
  <1>1. LogsInv => TypeOK
    BY DEF LogsInv, TypeOK, LogOK, EntryOK
  <1> QED
    BY <1>1, LogsInvariance, PTL

\* An id names one entry of the log, though hooks and the agent mint ids from what
\* they have read and overwrite each other's updates.
THEOREM IdsNameEntries == Spec => []IdsAreUnique
  <1>1. LogsInv => IdsAreUnique
    BY ReadOK DEF LogOK, EntryOK, IdsAreUnique
  <1> QED
    BY <1>1, LogsInvariance, PTL

\* The entries of a name and category are a window apart, whatever post-writes
\* read, lose and write anew.
THEOREM EntriesAreApart == Spec => []OnePerWindow
  <1>1. LogsInv => OnePerWindow
    BY ReadOK DEF LogOK, SameKind, OnePerWindow
  <1> QED
    BY <1>1, LogsInvariance, PTL

-----------------------------------------------------------------------------
\* A post-write has made an entry for a name and category.
IsOf(b, name, c) == NameOf[b.file] = name /\ AutoDetected(b, c)

\* What the entries of a log count, by their places.
Occurrences(log) == [i \in DOMAIN log |-> log[i].occurrences]

\* The fixes that a log counts are a sum over the places of their entries.
LEMMA TallyIsSum ==
  ASSUME NEW log \in Seq(Entries), NEW name, NEW c
  PROVE  /\ Tally(log, name, c) = SumOver(Occurrences(log), Of(log, name, c))
         /\ Tally(log, name, c) \in Nat /\ IsFiniteSet(Of(log, name, c))
         /\ \A i \in Of(log, name, c) : /\ i \in 1..Len(log)
                                        /\ Occurrences(log)[i] = log[i].occurrences
                                        /\ Occurrences(log)[i] \in Nat
  <1> DEFINE S == Of(log, name, c)
             d == [i \in S |-> log[i].occurrences]
  <1>1. \A i \in S : /\ i \in 1..Len(log) /\ Occurrences(log)[i] = log[i].occurrences
                     /\ d[i] = log[i].occurrences /\ log[i].occurrences \in Nat
    <2>1. \A i \in S : i \in DOMAIN log /\ i \in 1..Len(log)
      BY DEF Of
    <2>2. \A i \in 1..Len(log) : log[i] \in Entries
      OBVIOUS
    <2>3. \A i \in 1..Len(log) : log[i].occurrences \in Nat
      BY <2>2 DEF Entries
    <2> QED
      BY <2>1, <2>3 DEF Occurrences
  <1>2. IsFiniteSet(S)
    <2>1. S \in SUBSET (1..Len(log)) /\ Len(log) \in Nat
      BY <1>1
    <2>2. IsFiniteSet(1..Len(log))
      BY <2>1, FS_Interval
    <2> HIDE DEF S
    <2> QED
      BY <2>1, <2>2, FS_Subset
  <1>3. Tally(log, name, c) = SumOver(d, S)
    <2>1. Tally(log, name, c) = SumOver(d, DOMAIN d)
      BY Zenon DEF Tally, FoldFunction, FoldFunctionOnSet, MapThenFoldSet, SumOver, Sums, IsSum, Chosen
    <2> QED
      BY <2>1
  <1> HIDE DEF d, S
  <1>4. SumOver(d, S) = SumOver(Occurrences(log), S) /\ SumOver(d, S) \in Nat
    BY <1>1, <1>2, SumOverAgree, SumOverSet
  <1> QED
    BY <1>1, <1>2, <1>3, <1>4 DEF S

\* An entry more counts one more of its name and category, if a post-write has
\* made it.
LEMMA AppendTally ==
  ASSUME NEW log \in Seq(Entries), NEW b \in Entries, b.occurrences = 1, NEW name, NEW c
  PROVE  /\ IsOf(b, name, c) =>
              /\ Tally(Append(log, b), name, c) = Tally(log, name, c) + 1
              /\ Of(Append(log, b), name, c) = Of(log, name, c) \cup {Len(log) + 1}
         /\ ~IsOf(b, name, c) =>
              /\ Tally(Append(log, b), name, c) = Tally(log, name, c)
              /\ Of(Append(log, b), name, c) = Of(log, name, c)
  <1>1. PICK new : new = Append(log, b)
    OBVIOUS
  <1>2. PICK m \in Nat : m = Len(log) + 1
    OBVIOUS
  <1>3. /\ new \in Seq(Entries) /\ DOMAIN new = 1..m /\ new[m] = b /\ DOMAIN log = 1..(m - 1)
        /\ \A i \in 1..(m - 1) : new[i] = log[i]
    BY <1>1, <1>2
  <1>4. /\ m \notin Of(log, name, c)
        /\ IsOf(b, name, c) => Of(new, name, c) = Of(log, name, c) \cup {m}
        /\ ~IsOf(b, name, c) => Of(new, name, c) = Of(log, name, c)
    <2>1. \A i \in 1..m : i \in 1..(m - 1) \/ i = m
      OBVIOUS
    <2>2. m \notin 1..(m - 1) /\ m \in 1..m /\ 1..(m - 1) \subseteq 1..m
      BY <1>2
    <2> QED
      BY <1>3, <2>1, <2>2, Zenon DEF Of, IsOf
  <1>5. \A i \in Of(log, name, c) : Occurrences(new)[i] = Occurrences(log)[i] /\ Occurrences(log)[i] \in Nat
    <2>1. ASSUME NEW i \in Of(log, name, c)
          PROVE  /\ i \in DOMAIN log /\ i \in DOMAIN new /\ new[i] = log[i]
                 /\ Occurrences(log)[i] \in Nat
      <3>1. i \in 1..Len(log) /\ Occurrences(log)[i] \in Nat
        BY TallyIsSum
      <3> QED
        BY <1>2, <1>3, <3>1
    <2> QED
      BY <2>1 DEF Occurrences
  <1>6. IsOf(b, name, c) => Occurrences(new)[m] = 1
    BY <1>2, <1>3 DEF Occurrences
  <1>7. /\ Tally(log, name, c) = SumOver(Occurrences(log), Of(log, name, c))
        /\ Tally(new, name, c) = SumOver(Occurrences(new), Of(new, name, c))
        /\ IsFiniteSet(Of(log, name, c))
    BY <1>3, TallyIsSum
  <1>8. IsOf(b, name, c) => Tally(new, name, c) = Tally(log, name, c) + 1
    BY <1>4, <1>5, <1>6, <1>7, SumAdded
  <1>9. ~IsOf(b, name, c) => Tally(new, name, c) = Tally(log, name, c)
    BY <1>4, <1>5, <1>7, SumOverAgree
  <1> QED
    BY <1>1, <1>2, <1>4, <1>8, <1>9

\* So does an entry that counts one more.
LEMMA MergeTally ==
  ASSUME NEW log \in Seq(Entries), NEW i \in 1..Len(log), NEW b \in Entries,
         b.file = log[i].file, b.tags = log[i].tags, b.occurrences = log[i].occurrences + 1,
         NEW name, NEW c
  PROVE  /\ IsOf(b, name, c) => Tally([log EXCEPT ![i] = b], name, c) = Tally(log, name, c) + 1
         /\ ~IsOf(b, name, c) => Tally([log EXCEPT ![i] = b], name, c) = Tally(log, name, c)
         /\ Of([log EXCEPT ![i] = b], name, c) = Of(log, name, c)
         /\ IsOf(b, name, c) <=> i \in Of(log, name, c)
  <1>1. PICK new : new = [log EXCEPT ![i] = b]
    OBVIOUS
  <1>2. /\ new \in Seq(Entries) /\ Len(new) = Len(log)
        /\ DOMAIN new = 1..Len(log) /\ DOMAIN log = 1..Len(log) /\ new[i] = b
        /\ \A j \in 1..Len(log) : j # i => new[j] = log[j]
    BY <1>1
  <1>3. Of(new, name, c) = Of(log, name, c) /\ (IsOf(b, name, c) <=> i \in Of(log, name, c))
    <2>1. \A j \in 1..Len(log) : new[j].file = log[j].file /\ new[j].tags = log[j].tags
      BY <1>2
    <2> QED
      BY <1>2, <2>1 DEF Of, IsOf, AutoDetected
  <1>4. /\ \A j \in Of(log, name, c) : Occurrences(new)[j] \in Nat /\ Occurrences(log)[j] \in Nat
        /\ \A j \in Of(log, name, c) \ {i} : Occurrences(log)[j] = Occurrences(new)[j]
        /\ Occurrences(new)[i] = Occurrences(log)[i] + 1
    <2>1. \A j \in Of(log, name, c) : Occurrences(new)[j] \in Nat /\ Occurrences(log)[j] \in Nat
      BY <1>2, <1>3, TallyIsSum
    <2> QED
      BY <1>2, <2>1 DEF Occurrences, Of
  <1>5. /\ Tally(log, name, c) = SumOver(Occurrences(log), Of(log, name, c))
        /\ Tally(new, name, c) = SumOver(Occurrences(new), Of(log, name, c))
        /\ IsFiniteSet(Of(log, name, c))
    BY <1>2, <1>3, TallyIsSum
  <1>6. IsOf(b, name, c) => Tally(new, name, c) = Tally(log, name, c) + 1
    BY <1>3, <1>4, <1>5, SumOneMore
  <1>7. ASSUME ~IsOf(b, name, c) PROVE Tally(new, name, c) = Tally(log, name, c)
    <2>1. \A j \in Of(log, name, c) : Occurrences(log)[j] = Occurrences(new)[j]
      BY <1>3, <1>4, <1>7
    <2> QED
      BY <1>4, <1>5, <2>1, SumOverAgree
  <1> QED
    BY <1>1, <1>3, <1>6, <1>7

\* A change that is a fix of a file of a name, of a category.
IsFix(ch, name, c) == NameOf[ch.file] = name /\ Detected[ch] = c

\* What the entry at place i of a log quotes are lines of that place before, and
\* with a fix also those of its change.
Quotes(new, log, i, lines) ==
  new[i].also = {} \/ (i \in 1..Len(log) /\ new[i].also \subseteq log[i].also \cup lines)

\* A log with a fix counts one more of its name and category, and no other; only
\* an entry of these quotes its lines.
LEMMA FixCounts ==
  ASSUME NEW log, now \in Nat, LogOK(log, now), NEW ch \in Changes, Detected[ch] # Nothing,
         NEW name, NEW c \in Detectable
  PROVE  /\ IsFix(ch, name, c) => Tally(WithFix(log, ch), name, c) = Tally(log, name, c) + 1
         /\ ~IsFix(ch, name, c) => Tally(WithFix(log, ch), name, c) = Tally(log, name, c)
         /\ \A i \in Of(WithFix(log, ch), name, c) :
              /\ WithFix(log, ch)[i].also = {} \/ i \in Of(log, name, c)
              /\ Quotes(WithFix(log, ch), log, i, IF IsFix(ch, name, c) THEN Context(ch) ELSE {})
  <1>0. log \in Seq(Entries) /\ Len(log) \in Nat /\ \A i \in 1..Len(log) : EntryOK(log[i], i, now)
    BY DEF LogOK
  <1>1. ASSUME NEW i \in Recent(log, ch), WithFix(log, ch) = [log EXCEPT ![i] = Counted(log[i], now, Context(ch))]
        PROVE  /\ IsFix(ch, name, c) => Tally(WithFix(log, ch), name, c) = Tally(log, name, c) + 1
               /\ ~IsFix(ch, name, c) => Tally(WithFix(log, ch), name, c) = Tally(log, name, c)
               /\ \A j \in Of(WithFix(log, ch), name, c) :
                    /\ j \in Of(log, name, c)
                    /\ Quotes(WithFix(log, ch), log, j, IF IsFix(ch, name, c) THEN Context(ch) ELSE {})
    <2>1. /\ i \in 1..Len(log) /\ NameOf[log[i].file] = NameOf[ch.file]
          /\ AutoDetected(log[i], Detected[ch]) /\ EntryOK(log[i], i, now)
          /\ log[i] \in Entries /\ TaggedOnce(log[i])
      BY <1>0 DEF Recent, SameName, EntryOK
    <2>2. PICK b : b = Counted(log[i], now, Context(ch))
      OBVIOUS
    <2>3. /\ b \in Entries /\ b.file = log[i].file /\ b.tags = log[i].tags
          /\ b.occurrences = log[i].occurrences + 1 /\ b.also = log[i].also \cup Context(ch)
      BY <2>1, <2>2, CountedOK, ContextIsText DEF EntryOK
    <2>4. IsOf(b, name, c) <=> IsFix(ch, name, c)
      <3>1. Detected[ch] \in Detectable
        BY DetectsCategory
      <3> QED
        BY <2>1, <2>3, <3>1, OneCategory DEF IsOf, IsFix, AutoDetected
    <2>5. PICK new : new = [log EXCEPT ![i] = b]
      OBVIOUS
    <2>6. /\ IsOf(b, name, c) => Tally(new, name, c) = Tally(log, name, c) + 1
          /\ ~IsOf(b, name, c) => Tally(new, name, c) = Tally(log, name, c)
          /\ Of(new, name, c) = Of(log, name, c) /\ (IsOf(b, name, c) <=> i \in Of(log, name, c))
      <3>1. /\ log \in Seq(Entries) /\ i \in 1..Len(log) /\ b.file = log[i].file /\ b.tags = log[i].tags
            /\ b \in Entries /\ b.occurrences = log[i].occurrences + 1
        BY <1>0, <2>1, <2>3
      <3>2. IsOf(b, name, c) => Tally([log EXCEPT ![i] = b], name, c) = Tally(log, name, c) + 1
        BY <3>1, MergeTally, SMTT(30)
      <3>3. ~IsOf(b, name, c) => Tally([log EXCEPT ![i] = b], name, c) = Tally(log, name, c)
        BY <3>1, MergeTally, Zenon
      <3>4. Of([log EXCEPT ![i] = b], name, c) = Of(log, name, c) /\ (IsOf(b, name, c) <=> i \in Of(log, name, c))
        BY <3>1, MergeTally
      <3> QED
        BY <2>5, <3>2, <3>3, <3>4
    <2>7. \A j \in Of(log, name, c) : Quotes(new, log, j, IF IsFix(ch, name, c) THEN Context(ch) ELSE {})
      <3> SUFFICES ASSUME NEW j \in Of(log, name, c)
                   PROVE  Quotes(new, log, j, IF IsFix(ch, name, c) THEN Context(ch) ELSE {})
        OBVIOUS
      <3>1. j \in 1..Len(log) /\ new[j] = IF j = i THEN b ELSE log[j]
        BY <1>0, <2>5 DEF Of
      <3>2. j = i => IsFix(ch, name, c)
        BY <2>4, <2>6
      <3> QED
        BY <2>3, <3>1, <3>2 DEF Quotes
    <2> QED
      BY <1>1, <2>2, <2>4, <2>5, <2>6, <2>7
  <1>2. ASSUME WithFix(log, ch) = Append(log, Made(Len(log) + 1, ch, now))
        PROVE  /\ IsFix(ch, name, c) => Tally(WithFix(log, ch), name, c) = Tally(log, name, c) + 1
               /\ ~IsFix(ch, name, c) => Tally(WithFix(log, ch), name, c) = Tally(log, name, c)
               /\ \A j \in Of(WithFix(log, ch), name, c) :
                    /\ WithFix(log, ch)[j].also = {} \/ j \in Of(log, name, c)
                    /\ Quotes(WithFix(log, ch), log, j, IF IsFix(ch, name, c) THEN Context(ch) ELSE {})
    <2>1. PICK b : b = Made(Len(log) + 1, ch, now)
      OBVIOUS
    <2>2. /\ b \in Entries /\ TaggedOnce(b) /\ Detected[ch] \in Detectable /\ AutoDetected(b, Detected[ch])
          /\ b.file = ch.file /\ b.occurrences = 1 /\ b.also = {}
      BY <1>0, <2>1, MadeOK DEF EntryOK, Made
    <2>3. IsOf(b, name, c) <=> IsFix(ch, name, c)
      BY <2>2, OneCategory DEF IsOf, IsFix
    <2>4. PICK new : new = Append(log, b)
      OBVIOUS
    <2>5. /\ IsOf(b, name, c) => /\ Tally(new, name, c) = Tally(log, name, c) + 1
                                 /\ Of(new, name, c) = Of(log, name, c) \cup {Len(log) + 1}
          /\ ~IsOf(b, name, c) => /\ Tally(new, name, c) = Tally(log, name, c)
                                  /\ Of(new, name, c) = Of(log, name, c)
      BY <1>0, <2>2, <2>4, AppendTally
    <2>6. new[Len(log) + 1].also = {} /\ \A j \in Of(log, name, c) : j \in 1..Len(log) /\ new[j] = log[j]
      BY <1>0, <2>2, <2>4 DEF Of
    <2>7. \A j \in Of(new, name, c) :
            /\ new[j].also = {} \/ j \in Of(log, name, c)
            /\ Quotes(new, log, j, IF IsFix(ch, name, c) THEN Context(ch) ELSE {})
      BY <2>5, <2>6 DEF Quotes
    <2> QED
      BY <1>2, <2>1, <2>3, <2>4, <2>5, <2>7
  <1>3. \/ \E i \in Recent(log, ch) : WithFix(log, ch) = [log EXCEPT ![i] = Counted(log[i], now, Context(ch))]
        \/ WithFix(log, ch) = Append(log, Made(Len(log) + 1, ch, now))
    BY <1>0, FixEither
  <1> QED
    BY <1>1, <1>2, <1>3

\* The log with an entry of the agent.
Noted(log, n) == Append(log, Entry(Len(log) + 1, n.file, n.tags, n.words))

\* An entry of the agent counts nothing.
LEMMA NoteCounts ==
  ASSUME NEW log, now \in Nat, LogOK(log, now), NEW n \in Notes, NEW name, NEW c
  PROVE  /\ Tally(Noted(log, n), name, c) = Tally(log, name, c)
         /\ Of(Noted(log, n), name, c) = Of(log, name, c)
         /\ \A i \in Of(log, name, c) : Noted(log, n)[i] = log[i]
  <1>1. PICK b : b = Entry(Len(log) + 1, n.file, n.tags, n.words)
    OBVIOUS
  <1>2. LogOK(Append(log, b), now) /\ log \in Seq(Entries) /\ Len(log) \in Nat
    BY <1>1, NoteOK DEF LogOK
  <1>3. Append(log, b)[Len(log) + 1] = b /\ Len(log) + 1 \in 1..Len(Append(log, b))
    BY <1>2
  <1>4. b \in Entries /\ b.occurrences = 1 /\ b.tags = n.tags
    BY <1>1, <1>2, <1>3 DEF Entry, LogOK, EntryOK
  <1>5. ~IsOf(b, name, c)
    BY <1>4, BugLogAssumption DEF BugLogAssumption, IsOf, AutoDetected
  <1>6. \A i \in Of(log, name, c) : Append(log, b)[i] = log[i]
    BY <1>2, <1>4 DEF Of
  <1>7. /\ Tally(Append(log, b), name, c) = Tally(log, name, c)
        /\ Of(Append(log, b), name, c) = Of(log, name, c)
    BY <1>2, <1>4, <1>5, AppendTally
  <1> QED
    BY <1>1, <1>6, <1>7 DEF Noted

-----------------------------------------------------------------------------
\* The lines quoted by the changes ch of the edits of made.
QuotedBy(made, ch) == UNION {Context(ch[e]) : e \in made}

\* A log counts no more fixes of a name and category than made has, and quotes
\* their lines only.
Justified(log, name, c, made, ch) ==
  /\ IsFiniteSet(made) /\ Tally(log, name, c) <= Cardinality(made)
  /\ \A i \in Of(log, name, c) : log[i].also \subseteq QuotedBy(made, ch)

\* The edits that have made a fix of the name and category.
MadeOf(name, c) == {e \in Edits : /\ pc[e] \notin {"idle", "edited"}
                                  /\ NameOf[change[e].file] = name /\ Detected[change[e]] = c}

\* So it is with the log, and with each that is being written.
MadeInv ==
  \A name \in Names, c \in Detectable :
    /\ Justified(ReadLog, name, c, MadeOf(name, c), change)
    /\ \A e \in Edits : Running(e) => Justified(write[e], name, c, MadeOf(name, c), change)

\* A log without entries is justified by whatever was made.
LEMMA EmptyJustified ==
  ASSUME NEW log, log = << >>, NEW name, NEW c, NEW ch, NEW made, IsFiniteSet(made)
  PROVE  Justified(log, name, c, made, ch)
  <1>1. log \in Seq(Entries) /\ DOMAIN log = {}
    OBVIOUS
  <1>2. Of(log, name, c) = {}
    BY <1>1 DEF Of
  <1>3. Tally(log, name, c) = SumOver(Occurrences(log), {}) /\ IsFiniteSet({})
    <2>1. Tally(log, name, c) = SumOver(Occurrences(log), Of(log, name, c))
      BY <1>1, TallyIsSum
    <2> QED
      BY <1>2, <2>1, FS_EmptySet
  <1>4. SumOver(Occurrences(log), {}) = 0
    BY <1>3, SumOverSet
  <1>5. Cardinality(made) \in Nat
    BY FS_CardinalityType
  <1>6. Tally(log, name, c) <= Cardinality(made)
    BY <1>3, <1>4, <1>5
  <1> QED
    BY <1>2, <1>6 DEF Justified

\* What is justified by some edits is so by more.
LEMMA StillJustified ==
  ASSUME NEW log \in Seq(Entries), NEW name, NEW c, NEW made, NEW ch, Justified(log, name, c, made, ch),
         NEW made2, IsFiniteSet(made2), made \subseteq made2, NEW ch2, \A e \in made : ch2[e] = ch[e]
  PROVE  Justified(log, name, c, made2, ch2)
  <1>1. Cardinality(made) <= Cardinality(made2) /\ Cardinality(made) \in Nat /\ Cardinality(made2) \in Nat
    BY FS_Subset, FS_CardinalityType DEF Justified
  <1>2. Tally(log, name, c) \in Nat
    BY TallyIsSum
  <1>3. QuotedBy(made, ch) \subseteq QuotedBy(made2, ch2)
    <2>1. ASSUME NEW line, NEW e \in made, line \in Context(ch[e]) PROVE \E f \in made2 : line \in Context(ch2[f])
      BY <2>1
    <2> QED
      BY <2>1 DEF QuotedBy
  <1> QED
    BY <1>1, <1>2, <1>3 DEF Justified

\* A fix of edit e is justified by it.
LEMMA FixJustified ==
  ASSUME NEW log, now \in Nat, LogOK(log, now), NEW name, NEW c \in Detectable, NEW made, NEW ch, NEW e,
         ch[e] \in Changes, Detected[ch[e]] # Nothing, e \notin made, Justified(log, name, c, made, ch)
  PROVE  Justified(WithFix(log, ch[e]), name, c, IF IsFix(ch[e], name, c) THEN made \cup {e} ELSE made, ch)
  <1>1. PICK new : new = WithFix(log, ch[e])
    OBVIOUS
  <1>2. /\ IsFix(ch[e], name, c) => Tally(new, name, c) = Tally(log, name, c) + 1
        /\ ~IsFix(ch[e], name, c) => Tally(new, name, c) = Tally(log, name, c)
        /\ \A i \in Of(new, name, c) :
             /\ new[i].also = {} \/ i \in Of(log, name, c)
             /\ Quotes(new, log, i, IF IsFix(ch[e], name, c) THEN Context(ch[e]) ELSE {})
    BY <1>1, FixCounts
  <1>3. IsFiniteSet(made \cup {e}) /\ Cardinality(made \cup {e}) = Cardinality(made) + 1 /\ Cardinality(made) \in Nat
    BY FS_AddElement, FS_CardinalityType DEF Justified
  <1>4. Tally(log, name, c) \in Nat /\ Tally(log, name, c) <= Cardinality(made)
    BY TallyIsSum DEF LogOK, Justified
  <1>5. ASSUME NEW lines, NEW i \in Of(new, name, c), Quotes(new, log, i, lines)
        PROVE  new[i].also \subseteq QuotedBy(made, ch) \cup lines
    BY <1>2, <1>5 DEF Quotes, Justified
  <1>6. QuotedBy(made, ch) \cup Context(ch[e]) \subseteq QuotedBy(made \cup {e}, ch)
    <2>1. ASSUME NEW line, line \in Context(ch[e]) \/ \E f \in made : line \in Context(ch[f])
          PROVE  \E f \in made \cup {e} : line \in Context(ch[f])
      BY <2>1
    <2> QED
      BY <2>1 DEF QuotedBy
  <1>7. CASE IsFix(ch[e], name, c)
    <2>1. \A i \in Of(new, name, c) : new[i].also \subseteq QuotedBy(made \cup {e}, ch)
      BY <1>2, <1>5, <1>6, <1>7
    <2>2. Tally(new, name, c) <= Cardinality(made \cup {e})
      <3>1. Tally(new, name, c) = Tally(log, name, c) + 1
        BY <1>2, <1>7
      <3> QED
        BY <1>3, <1>4, <3>1
    <2>3. Justified(new, name, c, made \cup {e}, ch)
      BY <1>3, <2>1, <2>2, Zenon DEF Justified
    <2> QED
      BY <1>1, <1>7, <2>3
  <1>8. CASE ~IsFix(ch[e], name, c)
    <2>1. \A i \in Of(new, name, c) : new[i].also \subseteq QuotedBy(made, ch)
      <3>1. \A S : S \cup {} = S
        OBVIOUS
      <3> QED
        BY <1>2, <1>5, <1>8, <3>1
    <2>2. Justified(new, name, c, made, ch)
      BY <1>2, <1>8, <2>1 DEF Justified
    <2> QED
      BY <1>1, <1>8, <2>2
  <1> QED
    BY <1>7, <1>8

\* So is a log with an entry of the agent.
LEMMA NoteJustified ==
  ASSUME NEW log, now \in Nat, LogOK(log, now), NEW n \in Notes, NEW name, NEW c, NEW made, NEW ch,
         Justified(log, name, c, made, ch)
  PROVE  Justified(Noted(log, n), name, c, made, ch)
  <1>1. /\ Tally(Noted(log, n), name, c) = Tally(log, name, c)
        /\ Of(Noted(log, n), name, c) = Of(log, name, c)
        /\ \A i \in Of(log, name, c) : Noted(log, n)[i] = log[i]
    BY NoteCounts, Zenon
  <1> QED
    BY <1>1 DEF Justified

\* An edit that goes on, but not to its fix, makes none.
LEMMA MadeGoesOn ==
  ASSUME LogsInv, NEW e \in Edits, NEW label, Goto(e, label), label # "idle",
         \/ label = "edited" /\ pc[e] = "idle" /\ \E ch : change' = [change EXCEPT ![e] = ch]
         \/ change' = change /\ Detected[change[e]] = Nothing
         \/ change' = change /\ label # "edited" /\ pc[e] \notin {"idle", "edited"},
         NEW name, NEW c \in Detectable
  PROVE  MadeOf(name, c)' = MadeOf(name, c) /\ \A f \in MadeOf(name, c) : change'[f] = change[f]
  <1>1. pc' = [pc EXCEPT ![e] = label] /\ c # Nothing
    BY DEF Goto, Detectable
  <1>2. \A f \in Edits \ {e} : pc'[f] = pc[f] /\ change'[f] = change[f]
    BY <1>1 DEF LogsInv
  <1>3. e \in MadeOf(name, c) <=> e \in MadeOf(name, c)'
    BY <1>1 DEF LogsInv, MadeOf
  <1>4. e \in MadeOf(name, c) => change'[e] = change[e]
    BY <1>1 DEF MadeOf
  <1> QED
    BY <1>2, <1>3, <1>4 DEF MadeOf

\* Nothing is made at first.
LEMMA MadeInit == Init => MadeInv
  <1> SUFFICES ASSUME Init, NEW name, NEW c
               PROVE  /\ Justified(ReadLog, name, c, MadeOf(name, c), change)
                      /\ \A e \in Edits : ~Running(e)
    BY DEF MadeInv
  <1>1. ReadLog = <<>> /\ MadeOf(name, c) = {} /\ \A e \in Edits : ~Running(e)
    BY DEF Init, ReadLog, MadeOf, Running
  <1>2. IsFiniteSet(MadeOf(name, c))
    BY <1>1, FS_EmptySet
  <1> QED
    BY <1>1, <1>2, EmptyJustified

\* Every step keeps the invariant.
LEMMA MadeNext == LogsInv /\ MadeInv /\ [Next]_vars => MadeInv'
  <1> SUFFICES ASSUME LogsInv, MadeInv, [Next]_vars, NEW name \in Names, NEW c \in Detectable
               PROVE  /\ Justified(ReadLog, name, c, MadeOf(name, c), change)'
                      /\ \A e \in Edits : Running(e)' => Justified(write[e], name, c, MadeOf(name, c), change)'
    BY DEF MadeInv
  <1> DEFINE made == MadeOf(name, c)
  <1>1. /\ Justified(ReadLog, name, c, made, change) /\ IsFiniteSet(made)
        /\ \A e \in Edits : Running(e) => Justified(write[e], name, c, made, change)
        /\ now \in Nat /\ LogOK(ReadLog, now) /\ ReadLog \in Seq(Entries)
    BY ReadOK DEF MadeInv, LogsInv, Justified, LogOK
  <1>0. \A log : log = << >> => log \in Seq(Entries) /\ Justified(log, name, c, made, change)
    <2> SUFFICES ASSUME NEW log, log = << >>
                 PROVE  log \in Seq(Entries) /\ Justified(log, name, c, made, change)
      OBVIOUS
    <2>1. log \in Seq(Entries)
      OBVIOUS
    <2> QED
      BY <1>1, <2>1, EmptyJustified
  <1>2. ASSUME NEW e \in Edits, NoFix(e) \/ Rename(e) \/ RenameFails(e) \/ Rewrite(e) \/ Kill(e)
                                  \/ (\E ch \in Changes : PreWrite(e, ch))
        PROVE  /\ made' = made /\ \A f \in made : change'[f] = change[f]
               /\ \A f \in Edits : Running(f)' => Running(f) /\ write'[f] = write[f]
    <2>1. \/ NoFix(e) \/ Rename(e) \/ RenameFails(e) \/ Rewrite(e) \/ Kill(e)
          \/ \E ch \in Changes : PreWrite(e, ch)
      BY <1>2
    <2>2. made' = made /\ \A f \in made : change'[f] = change[f]
      <3>1. CASE NoFix(e)
        BY <3>1, MadeGoesOn DEF NoFix
      <3>2. CASE Rename(e) \/ RenameFails(e) \/ Rewrite(e) \/ Kill(e)
        <4>1. /\ change' = change /\ pc[e] \notin {"idle", "edited"}
              /\ Goto(e, "done") \/ Goto(e, "rewrite") \/ Goto(e, "killed")
          BY <3>2, SecondHalf DEF Tears, EndWrite, Kill, Running
        <4> QED
          BY <4>1, MadeGoesOn
      <3>3. CASE \E ch \in Changes : PreWrite(e, ch)
        BY <3>3, MadeGoesOn DEF PreWrite
      <3> QED
        BY <2>1, <3>1, <3>2, <3>3
    <2>3. \A f \in Edits : Running(f)' => Running(f) /\ write'[f] = write[f]
      <3>1. CASE Rename(e) \/ RenameFails(e) \/ Rewrite(e)
        BY <3>1, SecondHalf DEF Tears, EndWrite, Goto, Running, LogsInv
      <3>2. CASE NoFix(e) \/ Kill(e) \/ \E ch \in Changes : PreWrite(e, ch)
        BY <3>2 DEF NoFix, Kill, PreWrite, Goto, Running, LogsInv
      <3> QED
        BY <2>1, <3>1, <3>2
    <2> QED
      BY <2>2, <2>3
  <1>3. ASSUME NEW e \in Edits, NoFix(e) \/ Rename(e) \/ RenameFails(e) \/ Rewrite(e) \/ Kill(e)
                                  \/ (\E ch \in Changes : PreWrite(e, ch))
        PROVE  /\ Justified(ReadLog', name, c, made', change')
               /\ \A f \in Edits : Running(f)' => Justified(write'[f], name, c, made', change')
    <2>1. \A log \in Seq(Entries) : Justified(log, name, c, made, change) => Justified(log, name, c, made', change')
      BY <1>1, <1>2, <1>3, StillJustified
    <2>2. \A f \in Edits : Running(f) => write[f] \in Seq(Entries)
      BY DEF LogsInv, LogOK
    <2>3. ReadLog' \in Seq(Entries) /\ Justified(ReadLog', name, c, made, change)
      <3>1. ReadLog' \in {ReadLog, <<>>} \/ (Running(e) /\ ReadLog' = write[e])
        <4>1. CASE Rename(e) \/ RenameFails(e) \/ Rewrite(e)
          BY <4>1, SecondHalf DEF Tears, EndWrite, ReadLog
        <4>2. CASE NoFix(e) \/ Kill(e) \/ \E ch \in Changes : PreWrite(e, ch)
          BY <4>2 DEF NoFix, Kill, PreWrite, ReadLog
        <4> QED
          BY <1>3, <4>1, <4>2
      <3> QED
        BY <1>0, <1>1, <2>2, <3>1
    <2> QED
      BY <1>1, <1>2, <1>3, <2>1, <2>2, <2>3
  <1>4. ASSUME NEW e \in Edits, LogFix(e)
        PROVE  /\ Justified(ReadLog', name, c, made', change')
               /\ \A f \in Edits : Running(f)' => Justified(write'[f], name, c, made', change')
    <2>1. /\ pc[e] = "edited" /\ change' = change /\ change[e] \in Changes /\ Detected[change[e]] # Nothing
          /\ pc' = [pc EXCEPT ![e] = "rename"] /\ ReadLog' = ReadLog
          /\ write' = [write EXCEPT ![e] = WithFix(ReadLog, change[e])]
      BY <1>4 DEF LogFix, LogsInv, Goto, ReadLog
    <2>2. e \notin made /\ made' = IF IsFix(change[e], name, c) THEN made \cup {e} ELSE made
      BY <2>1 DEF MadeOf, IsFix, LogsInv
    <2>3. IsFiniteSet(made') /\ made \subseteq made'
      BY <1>1, <2>2, FS_AddElement
    <2>4. Justified(WithFix(ReadLog, change[e]), name, c, made', change)
      BY <1>1, <2>1, <2>2, FixJustified
    <2>5. \A f \in Edits \ {e} : Running(f)' => Running(f) /\ write'[f] = write[f] /\ write[f] \in Seq(Entries)
      BY <2>1 DEF Running, LogsInv, LogOK
    <2>6. write'[e] = WithFix(ReadLog, change[e])
      BY <2>1 DEF LogsInv
    <2> QED
      BY <1>1, <2>1, <2>3, <2>4, <2>5, <2>6, StillJustified
  <1>5. ASSUME NEW n \in Notes, Note(n)
        PROVE  /\ Justified(ReadLog', name, c, made', change')
               /\ \A f \in Edits : Running(f)' => Justified(write'[f], name, c, made', change')
    <2>1. /\ made' = made /\ change' = change /\ write' = write /\ \A f \in Edits : Running(f)' = Running(f)
          /\ bugs = ReadLog
      BY <1>5 DEF Note, MadeOf, Running, ReadLog
    <2>2. bugs' = Noted(ReadLog, n)
      BY <1>5, <2>1 DEF Note, Noted
    <2>3. Justified(bugs', name, c, made, change)
      BY <1>1, <2>2, NoteJustified
    <2>4. ReadLog' \in {bugs', <<>>}
      BY DEF ReadLog
    <2> QED
      BY <1>0, <1>1, <2>1, <2>3, <2>4
  <1>6. ASSUME Sweep \/ Tick \/ UNCHANGED vars
        PROVE  /\ Justified(ReadLog', name, c, made', change')
               /\ \A f \in Edits : Running(f)' => Justified(write'[f], name, c, made', change')
    <2>1. /\ made' = made /\ change' = change /\ write' = write /\ ReadLog' = ReadLog
          /\ \A f \in Edits : Running(f)' = Running(f)
      BY <1>6 DEF Sweep, Tick, vars, MadeOf, Running, ReadLog
    <2> QED
      BY <1>1, <2>1
  <1> QED
    BY <1>3, <1>4, <1>5, <1>6 DEF Next

\* However they overlap: what is, or is being written to, the bug log is justified.
THEOREM MadeInvariance == Spec => []MadeInv
  BY MadeInit, MadeNext, LogsInvariance, PTL DEF Spec

\* The log counts no fix and quotes no line of a category that was not made,
\* whatever is lost on the way.
THEOREM LogInventsNothing == Spec => []NothingInvented
  <1>1. MadeInv => NothingInvented
    <2> SUFFICES ASSUME MadeInv, NEW name \in Names, NEW c \in Detectable
                 PROVE  /\ Tally(ReadLog, name, c) <= Cardinality(Begun(Fixes(name, c)))
                        /\ \A i \in Of(ReadLog, name, c) :
                             ReadLog[i].also \subseteq UNION {Context(change[e]) : e \in Begun(Fixes(name, c))}
      BY DEF NothingInvented
    <2>1. Begun(Fixes(name, c)) = MadeOf(name, c)
      BY DEF Begun, Fixes, MadeOf
    <2> QED
      BY <2>1 DEF MadeInv, Justified, QuotedBy
  <1> QED
    BY <1>1, MadeInvariance, PTL
-----------------------------------------------------------------------------
\* A log has the places of an older one, with the same ids, tags and files.
Keeps(old, new) ==
  \A i \in 1..Len(old) :
    i \in 1..Len(new) /\ new[i].id = old[i].id /\ new[i].tags = old[i].tags /\ new[i].file = old[i].file

\* It has what was shown before the edits, and that is about their files; it has
\* what was noted; and it counts what was done.
HasShown(log, sh, ch) ==
  \A e \in Edits : \A s \in sh[e] :
    \E i \in 1..Len(log) : log[i].id = s.id /\ log[i].tags = s.tags /\ SameName(ch[e].file, log[i])

HasNoted(log, notes) ==
  \A n \in notes : \E i \in 1..Len(log) : log[i].file = n.file /\ log[i].tags = n.tags

FixesIn(done, ch, name, c) == {e \in done : IsFix(ch[e], name, c)}

CountsDone(log, done, ch) ==
  \A name \in Names, c \in Detectable :
    /\ IsFiniteSet(FixesIn(done, ch, name, c))
    /\ Cardinality(FixesIn(done, ch, name, c)) <= Tally(log, name, c)

Remembers(log, sh, ch, notes, done) ==
  HasShown(log, sh, ch) /\ HasNoted(log, notes) /\ CountsDone(log, done, ch)

Done == {e \in Edits : pc[e] = "done"}

\* In turns, one post-write at most is under way, and what it writes keeps the log
\* and forgets nothing; nor does the log, but while it is being written in place.
TurnsInv ==
  InTurns =>
    /\ (\A e \in Edits : pc[e] # "rewrite") => Remembers(ReadLog, shown, change, noted, Done)
    /\ \A e \in Edits : Running(e) =>
         /\ \A f \in Edits : Running(f) => f = e
         /\ Keeps(ReadLog, write[e]) /\ Remembers(write[e], shown, change, noted, Done \cup {e})

\* What keeps a log has what it has.
LEMMA KeepsAll ==
  ASSUME NEW old, NEW new, Keeps(old, new)
  PROVE  /\ \A sh, ch : HasShown(old, sh, ch) => HasShown(new, sh, ch)
         /\ \A notes : HasNoted(old, notes) => HasNoted(new, notes)
  <1>1. ASSUME NEW sh, NEW ch, HasShown(old, sh, ch), NEW e \in Edits, NEW s \in sh[e]
        PROVE  \E i \in 1..Len(new) : new[i].id = s.id /\ new[i].tags = s.tags /\ SameName(ch[e].file, new[i])
    <2>1. PICK i \in 1..Len(old) : old[i].id = s.id /\ old[i].tags = s.tags /\ SameName(ch[e].file, old[i])
      BY <1>1, Zenon DEF HasShown
    <2>2. i \in 1..Len(new) /\ new[i].id = s.id /\ new[i].tags = s.tags /\ SameName(ch[e].file, new[i])
      BY <2>1 DEF Keeps, SameName
    <2> QED
      BY <2>2
  <1>2. ASSUME NEW notes, HasNoted(old, notes), NEW n \in notes
        PROVE  \E i \in 1..Len(new) : new[i].file = n.file /\ new[i].tags = n.tags
    BY <1>2 DEF Keeps, HasNoted
  <1> QED
    BY <1>1, <1>2, Zenon DEF HasShown, HasNoted

\* A fix and a note keep the log.
LEMMA AppendKeeps ==
  ASSUME NEW log \in Seq(Entries), NEW b
  PROVE  Keeps(log, Append(log, b)) /\ Append(log, b)[Len(log) + 1] = b
         /\ Len(log) + 1 \in 1..Len(Append(log, b))
  BY DEF Keeps

\* So does a fix, merged or added.
LEMMA FixKeeps ==
  ASSUME NEW log, now \in Nat, LogOK(log, now), NEW ch \in Changes
  PROVE  Keeps(log, WithFix(log, ch))
  <1>0. log \in Seq(Entries)
    BY DEF LogOK
  <1>1. ASSUME NEW i \in Recent(log, ch) PROVE Keeps(log, [log EXCEPT ![i] = Counted(log[i], now, Context(ch))])
    <2>1. i \in 1..Len(log) /\ EntryOK(log[i], i, now)
      BY <1>0 DEF Recent, LogOK
    <2>2. PICK b : b = Counted(log[i], now, Context(ch))
      OBVIOUS
    <2>3. b.id = log[i].id /\ b.tags = log[i].tags /\ b.file = log[i].file
      BY <2>1, <2>2, CountedOK, ContextIsText
    <2>4. Keeps(log, [log EXCEPT ![i] = b])
      BY <1>0, <2>1, <2>3 DEF Keeps
    <2> QED
      BY <2>2, <2>4
  <1>2. CASE \E i \in Recent(log, ch) : WithFix(log, ch) = [log EXCEPT ![i] = Counted(log[i], now, Context(ch))]
    BY <1>1, <1>2
  <1>3. CASE WithFix(log, ch) = Append(log, Made(Len(log) + 1, ch, now))
    BY <1>0, <1>3, AppendKeeps
  <1> QED
    BY <1>0, <1>2, <1>3, FixEither

\* A fix counts what was done and itself, a note only the former.
LEMMA FixDone ==
  ASSUME NEW log, now \in Nat, LogOK(log, now), NEW done, NEW ch, NEW e, e \notin done,
         ch[e] \in Changes, Detected[ch[e]] # Nothing, CountsDone(log, done, ch)
  PROVE  CountsDone(WithFix(log, ch[e]), done \cup {e}, ch)
  <1> SUFFICES ASSUME NEW name \in Names, NEW c \in Detectable
               PROVE  /\ IsFiniteSet(FixesIn(done \cup {e}, ch, name, c))
                      /\ Cardinality(FixesIn(done \cup {e}, ch, name, c)) <= Tally(WithFix(log, ch[e]), name, c)
    BY DEF CountsDone
  <1> DEFINE old == FixesIn(done, ch, name, c)
             new == FixesIn(done \cup {e}, ch, name, c)
  <1>1. IsFiniteSet(old) /\ Cardinality(old) <= Tally(log, name, c) /\ e \notin old
    BY DEF CountsDone, FixesIn
  <1>2. /\ IsFix(ch[e], name, c) => new = old \cup {e}
        /\ ~IsFix(ch[e], name, c) => new = old
    BY DEF FixesIn
  <1> HIDE DEF old, new
  <1>3. /\ IsFiniteSet(old \cup {e}) /\ Cardinality(old \cup {e}) = Cardinality(old) + 1
        /\ Cardinality(old) \in Nat
    BY <1>1, FS_AddElement, FS_CardinalityType
  <1>4. Tally(log, name, c) \in Nat
    BY TallyIsSum DEF LogOK
  <1>5. /\ IsFix(ch[e], name, c) => Tally(WithFix(log, ch[e]), name, c) = Tally(log, name, c) + 1
        /\ ~IsFix(ch[e], name, c) => Tally(WithFix(log, ch[e]), name, c) = Tally(log, name, c)
    BY FixCounts
  <1>6. IsFiniteSet(new) /\ Cardinality(new) <= Tally(WithFix(log, ch[e]), name, c)
    <2>1. CASE IsFix(ch[e], name, c)
      <3>1. new = old \cup {e} /\ Tally(WithFix(log, ch[e]), name, c) = Tally(log, name, c) + 1
        BY <1>2, <1>5, <2>1, Zenon
      <3>2. Cardinality(new) = Cardinality(old) + 1 /\ IsFiniteSet(new)
        BY <1>3, <3>1, Zenon
      <3> QED
        BY <1>1, <1>3, <1>4, <3>1, <3>2
    <2>2. CASE ~IsFix(ch[e], name, c)
      BY <1>1, <1>2, <1>5, <2>2, Zenon
    <2> QED
      BY <2>1, <2>2
  <1> QED
    BY <1>6 DEF new

\* A note leaves the counts alone.
LEMMA NoteDone ==
  ASSUME NEW log, now \in Nat, LogOK(log, now), NEW n \in Notes, NEW done, NEW ch, CountsDone(log, done, ch)
  PROVE  CountsDone(Noted(log, n), done, ch)
  <1>1. \A name, c : Tally(Noted(log, n), name, c) = Tally(log, name, c)
    BY NoteCounts
  <1> QED
    BY <1>1 DEF CountsDone

\* So neither forgets anything.
LEMMA FixRemembers ==
  ASSUME NEW log, now \in Nat, LogOK(log, now), NEW sh, NEW ch, NEW notes, NEW done,
         Remembers(log, sh, ch, notes, done), NEW e, e \notin done, ch[e] \in Changes, Detected[ch[e]] # Nothing
  PROVE  Remembers(WithFix(log, ch[e]), sh, ch, notes, done \cup {e})
  <1>1. Keeps(log, WithFix(log, ch[e]))
    BY FixKeeps
  <1>2. HasShown(WithFix(log, ch[e]), sh, ch) /\ HasNoted(WithFix(log, ch[e]), notes)
    BY <1>1, KeepsAll DEF Remembers
  <1>3. CountsDone(WithFix(log, ch[e]), done \cup {e}, ch)
    BY FixDone DEF Remembers
  <1> QED
    BY <1>2, <1>3 DEF Remembers

\* Nor does a note.
LEMMA NoteRemembers ==
  ASSUME NEW log, now \in Nat, LogOK(log, now), NEW sh, NEW ch, NEW notes, NEW done,
         Remembers(log, sh, ch, notes, done), NEW n \in Notes
  PROVE  Remembers(Noted(log, n), sh, ch, notes \cup {n}, done)
  <1>1. Keeps(log, Noted(log, n)) /\ log \in Seq(Entries)
    BY AppendKeeps DEF Noted, LogOK
  <1>2. HasShown(Noted(log, n), sh, ch) /\ HasNoted(Noted(log, n), notes)
    BY <1>1, KeepsAll DEF Remembers
  <1>3. CountsDone(Noted(log, n), done, ch)
    BY NoteDone DEF Remembers
  <1>4. \E i \in 1..Len(Noted(log, n)) : Noted(log, n)[i].file = n.file /\ Noted(log, n)[i].tags = n.tags
    <2>1. PICK b : b = Entry(Len(log) + 1, n.file, n.tags, n.words)
      OBVIOUS
    <2>2. b.file = n.file /\ b.tags = n.tags /\ Noted(log, n) = Append(log, b)
      BY <2>1 DEF Entry, Noted
    <2> QED
      BY <1>1, <2>2, AppendKeeps
  <1> QED
    BY <1>2, <1>3, <1>4 DEF Remembers, HasNoted

\* What a change of the shown bugs and of what is done leaves there.
LEMMA StillRemembers ==
  ASSUME NEW log, NEW sh, NEW ch, NEW notes, NEW done, Remembers(log, sh, ch, notes, done),
         NEW e \in Edits, NEW sh2, NEW ch2, NEW done2,
         \A f \in Edits \ {e} : sh2[f] = sh[f] /\ ch2[f] = ch[f],
         \A s \in sh2[e] : \E i \in 1..Len(log) :
           log[i].id = s.id /\ log[i].tags = s.tags /\ SameName(ch2[e].file, log[i]),
         \A name, c : c \in Detectable => FixesIn(done2, ch2, name, c) = FixesIn(done, ch, name, c)
  PROVE  Remembers(log, sh2, ch2, notes, done2)
  <1>1. HasShown(log, sh2, ch2)
    <2> SUFFICES ASSUME NEW f \in Edits, NEW s \in sh2[f]
                 PROVE  \E i \in 1..Len(log) :
                          log[i].id = s.id /\ log[i].tags = s.tags /\ SameName(ch2[f].file, log[i])
      BY DEF HasShown
    <2>1. CASE f = e
      BY <2>1
    <2>2. CASE f # e
      <3>1. s \in sh[f] /\ ch2[f] = ch[f]
        BY <2>2
      <3>2. \E i \in 1..Len(log) : log[i].id = s.id /\ log[i].tags = s.tags /\ SameName(ch[f].file, log[i])
        BY <3>1, Zenon DEF Remembers, HasShown
      <3> QED
        BY <3>1, <3>2, Zenon
    <2> QED
      BY <2>1, <2>2
  <1>2. CountsDone(log, done2, ch2)
    BY DEF Remembers, CountsDone
  <1> QED
    BY <1>1, <1>2 DEF Remembers

\* What a step that is no fix adds to what is done leaves the memory.
LEMMA StillCounts ==
  ASSUME NEW log, NEW sh, NEW ch, NEW notes, NEW done, Remembers(log, sh, ch, notes, done), NEW done2,
         \A name, c : c \in Detectable => FixesIn(done2, ch, name, c) = FixesIn(done, ch, name, c)
  PROVE  Remembers(log, sh, ch, notes, done2)
  BY DEF Remembers, CountsDone

\* At first there is nothing to remember.
LEMMA TurnsInit == Init => TurnsInv
  <1> SUFFICES ASSUME Init PROVE TurnsInv
    OBVIOUS
  <1>1. /\ ReadLog = <<>> /\ noted = {} /\ Done = {}
        /\ \A e \in Edits : ~Running(e) /\ shown[e] = {}
    <2>1. << >> \in Seq(Entries)
      OBVIOUS
    <2> QED
      BY <2>1, TornAssumption DEF Init, ReadLog, Done, Running, TornAssumption
  <1>2. CountsDone(ReadLog, Done, change)
    <2> SUFFICES ASSUME NEW name, NEW c
                 PROVE  /\ IsFiniteSet(FixesIn(Done, change, name, c))
                        /\ Cardinality(FixesIn(Done, change, name, c)) <= Tally(ReadLog, name, c)
      BY DEF CountsDone
    <2>1. FixesIn(Done, change, name, c) = {} /\ IsFiniteSet({}) /\ Cardinality({}) = 0
      BY <1>1, FS_EmptySet DEF FixesIn
    <2>2. ReadLog \in Seq(Entries)
      BY <1>1
    <2>3. Tally(ReadLog, name, c) \in Nat
      BY <2>2, TallyIsSum
    <2> QED
      BY <2>1, <2>3
  <1> QED
    BY <1>1, <1>2 DEF TurnsInv, Remembers, HasShown, HasNoted

\* Every step keeps the invariant.
LEMMA TurnsNext == LogsInv /\ TurnsInv /\ [Next]_vars => TurnsInv'
  <1> DEFINE Taken ==
        /\ (\A e \in Edits : pc'[e] # "rewrite") => Remembers(ReadLog', shown', change', noted', Done')
        /\ \A e \in Edits : Running(e)' =>
             /\ \A f \in Edits : Running(f)' => f = e
             /\ Keeps(ReadLog', write'[e])
             /\ Remembers(write'[e], shown', change', noted', Done' \cup {e})
  <1> SUFFICES ASSUME LogsInv, TurnsInv, [Next]_vars, ~overlapped', ~cut' PROVE Taken
    BY DEF TurnsInv, InTurns
  <1> USE DEF Goto
  <1>1. now \in Nat /\ LogOK(ReadLog, now) /\ ReadLog \in Seq(Entries)
    BY ReadOK DEF LogsInv, LogOK
  <1>2. ~overlapped /\ ~cut
    <2>1. Overlaps => ~overlapped
      BY DEF Overlaps
    <2>2. ASSUME NEW e \in Edits, NEW log, EndWrite(e, log) PROVE ~cut
      BY <2>2 DEF EndWrite
    <2>3. ASSUME NEW e \in Edits, Rename(e) \/ RenameFails(e) \/ Rewrite(e) PROVE ~overlapped /\ ~cut
      <3>1. overlapped' = overlapped /\ (Tears(e) \/ \E log : EndWrite(e, log))
        BY <2>3, SecondHalf
      <3> QED
        BY <2>2, <3>1 DEF Tears
    <2>4. ASSUME NEW e \in Edits,
                 NoFix(e) \/ LogFix(e) \/ Kill(e) \/ \E ch \in Changes : PreWrite(e, ch)
          PROVE  ~overlapped /\ ~cut
      <3>1. CASE Kill(e)
        BY <3>1, Zenon DEF Kill
      <3>2. CASE NoFix(e) \/ LogFix(e) \/ \E ch \in Changes : PreWrite(e, ch)
        BY <2>1, <3>2 DEF PreWrite, NoFix, LogFix
      <3> QED
        BY <2>4, <3>1, <3>2
    <2>5. ASSUME (\E n \in Notes : Note(n)) \/ Sweep \/ Tick \/ UNCHANGED vars PROVE ~overlapped /\ ~cut
      BY <2>1, <2>5 DEF Note, Sweep, Tick, vars
    <2> QED
      BY <2>3, <2>4, <2>5 DEF Next
  <1>3. /\ (\A e \in Edits : pc[e] # "rewrite") => Remembers(ReadLog, shown, change, noted, Done)
        /\ \A e \in Edits : Running(e) =>
             /\ \A f \in Edits : Running(f) => f = e
             /\ Keeps(ReadLog, write[e]) /\ Remembers(write[e], shown, change, noted, Done \cup {e})
             /\ LogOK(write[e], now)
    BY <1>2 DEF TurnsInv, InTurns, LogsInv
  <1>4. ASSUME NEW e \in Edits, NEW ch \in Changes, PreWrite(e, ch) PROVE Taken
    <2>1. /\ pc[e] = "idle" /\ pc' = [pc EXCEPT ![e] = "edited"] /\ change' = [change EXCEPT ![e] = ch]
          /\ UNCHANGED <<bugs, tmps, write, noted>>
      BY <1>4 DEF PreWrite
    <2>2. ReadLog' = ReadLog /\ Done' = Done /\ e \notin Done /\ \A f \in Edits : Running(f)' = Running(f)
      BY <2>1 DEF ReadLog, Done, LogsInv, Running
    <2>3. /\ \A f \in Edits \ {e} : shown'[f] = shown[f] /\ change'[f] = change[f]
          /\ change'[e] = ch
      BY <1>4, <2>1 DEF PreWrite, LogsInv
    <2>4. ASSUME NEW s \in shown'[e]
          PROVE  \E i \in 1..Len(ReadLog) :
                   ReadLog[i].id = s.id /\ ReadLog[i].tags = s.tags /\ SameName(ch.file, ReadLog[i])
      <3>1. shown'[e] = {[id |-> ReadLog[i].id, tags |-> ReadLog[i].tags] : i \in FirstTwo(Relevant(ch))}
        BY <1>4 DEF PreWrite, LogsInv
      <3>2. PICK i \in FirstTwo(Relevant(ch)) : s = [id |-> ReadLog[i].id, tags |-> ReadLog[i].tags]
        BY <2>4, <3>1
      <3>3. i \in 1..Len(ReadLog) /\ SameName(ch.file, ReadLog[i])
        BY <1>1, <3>2 DEF FirstTwo, Relevant
      <3> QED
        BY <3>2, <3>3
    <2>5. ASSUME NEW done, e \notin done, NEW name, NEW c
          PROVE  FixesIn(done, change', name, c) = FixesIn(done, change, name, c)
      <3>1. \A f \in done : change'[f] = change[f]
        BY <2>1, <2>5 DEF LogsInv
      <3> QED
        BY <3>1 DEF FixesIn
    <2>6. ASSUME \A f \in Edits : pc'[f] # "rewrite" PROVE Remembers(ReadLog, shown', change', noted, Done)
      <3>1. \A f \in Edits : pc[f] # "rewrite"
        BY <2>1, <2>6 DEF LogsInv
      <3> QED
        BY <1>3, <2>2, <2>3, <2>4, <2>5, <3>1, StillRemembers
    <2>7. ASSUME NEW f \in Edits, Running(f)
          PROVE  Remembers(write[f], shown', change', noted, Done \cup {f})
      <3>1. Keeps(ReadLog, write[f]) /\ Remembers(write[f], shown, change, noted, Done \cup {f}) /\ f # e
        BY <1>3, <2>1, <2>7 DEF Running
      <3>2. ASSUME NEW s \in shown'[e]
            PROVE  \E i \in 1..Len(write[f]) :
                     write[f][i].id = s.id /\ write[f][i].tags = s.tags /\ SameName(ch.file, write[f][i])
        BY <2>4, <3>1, <3>2 DEF Keeps, SameName
      <3>3. PICK done : done = Done \cup {f}
        OBVIOUS
      <3>4. Remembers(write[f], shown, change, noted, done) /\ e \notin done
        BY <2>2, <3>1, <3>3
      <3>5. \A name, c : c \in Detectable => FixesIn(done, change', name, c) = FixesIn(done, change, name, c)
        BY <2>5, <3>4
      <3>6. \A s \in shown'[e] : \E i \in 1..Len(write[f]) :
              write[f][i].id = s.id /\ write[f][i].tags = s.tags /\ SameName(change'[e].file, write[f][i])
        BY <2>3, <3>2
      <3>7. Remembers(write[f], shown', change', noted, done)
        BY <2>3, <3>4, <3>5, <3>6, StillRemembers, SMTT(30)
      <3> QED
        BY <3>3, <3>7
    <2> QED
      BY <1>3, <2>1, <2>2, <2>6, <2>7 DEF LogsInv
  <1>5. ASSUME NEW e \in Edits, NoFix(e) PROVE Taken
    <2>1. /\ pc[e] = "edited" /\ pc' = [pc EXCEPT ![e] = "done"] /\ Detected[change[e]] = Nothing
          /\ UNCHANGED <<bugs, tmps, change, shown, write, noted>>
      BY <1>5 DEF NoFix
    <2>2. ReadLog' = ReadLog /\ Done' = Done \cup {e} /\ \A f \in Edits : Running(f)' = Running(f)
      BY <2>1 DEF ReadLog, Done, LogsInv, Running
    <2>3. ASSUME NEW done, NEW name, NEW c \in Detectable
          PROVE  FixesIn(done \cup {e}, change, name, c) = FixesIn(done, change, name, c)
      BY <2>1 DEF FixesIn, IsFix, Detectable
    <2>4. ASSUME NEW f \in Edits, Running(f)
          PROVE  Remembers(write[f], shown, change, noted, Done' \cup {f})
      <3>1. Done' \cup {f} = (Done \cup {f}) \cup {e} /\ f # e
        BY <2>1, <2>2, <2>4 DEF Running
      <3>2. Remembers(write[f], shown, change, noted, (Done \cup {f}) \cup {e})
        <4>1. PICK done : done = Done \cup {f}
          OBVIOUS
        <4>2. Remembers(write[f], shown, change, noted, done)
          BY <1>3, <2>4, <4>1
        <4>3. \A name, c : c \in Detectable =>
                FixesIn(done \cup {e}, change, name, c) = FixesIn(done, change, name, c)
          BY <2>3
        <4>4. Remembers(write[f], shown, change, noted, done \cup {e})
          BY <4>2, <4>3, StillCounts, Zenon
        <4> QED
          BY <4>1, <4>4
      <3> QED
        BY <3>1, <3>2
    <2>5. ASSUME \A f \in Edits : pc'[f] # "rewrite"
          PROVE  Remembers(ReadLog, shown, change, noted, Done \cup {e})
      <3>1. \A f \in Edits : pc[f] # "rewrite"
        BY <2>1, <2>5 DEF LogsInv
      <3> QED
        BY <1>3, <2>3, <3>1, StillCounts
    <2> QED
      BY <1>3, <2>1, <2>2, <2>4, <2>5
  <1>6. ASSUME NEW e \in Edits, LogFix(e) PROVE Taken
    <2>1. /\ pc[e] = "edited" /\ pc' = [pc EXCEPT ![e] = "rename"] /\ Detected[change[e]] # Nothing
          /\ change[e] \in Changes
          /\ write' = [write EXCEPT ![e] = WithFix(ReadLog, change[e])]
          /\ UNCHANGED <<bugs, change, shown, noted>>
      BY <1>6 DEF LogFix, LogsInv
    <2>2. \A f \in Edits : ~Running(f)
      BY <1>6 DEF LogFix, Overlaps
    <2>3. /\ ReadLog' = ReadLog /\ Done' = Done /\ e \notin Done
          /\ \A f \in Edits : (Running(f)' => f = e) /\ pc[f] # "rewrite"
      BY <2>1, <2>2 DEF ReadLog, Done, LogsInv, Running
    <2>4. Keeps(ReadLog, WithFix(ReadLog, change[e])) /\ write'[e] = WithFix(ReadLog, change[e])
      BY <1>1, <2>1, FixKeeps DEF LogsInv
    <2>5. Remembers(WithFix(ReadLog, change[e]), shown, change, noted, Done \cup {e})
      BY <1>1, <1>3, <2>1, <2>3, FixRemembers
    <2> QED
      BY <1>3, <2>1, <2>3, <2>4, <2>5
  <1>7. ASSUME NEW e \in Edits, NEW log, EndWrite(e, log), Running(e), UNCHANGED <<change, shown, noted>>
        PROVE  Taken
    <2>1. pc' = [pc EXCEPT ![e] = "done"] /\ bugs' = write[e]
      BY <1>7 DEF EndWrite
    <2>2. \A f \in Edits : ~Running(f)'
      BY <1>3, <1>7, <2>1 DEF Running, LogsInv
    <2>3. ReadLog' = write[e]
      <3>1. write[e] \in Seq(Entries)
        BY <1>3, <1>7 DEF LogOK
      <3> QED
        BY <2>1, <3>1, TornAssumption DEF ReadLog, TornAssumption
    <2>4. Done' = Done \cup {e}
      BY <2>1 DEF Done, LogsInv
    <2> QED
      BY <1>3, <1>7, <2>2, <2>3, <2>4
  <1>8. ASSUME NEW e \in Edits, Rename(e) \/ RenameFails(e) \/ Rewrite(e) PROVE Taken
    <2>1. /\ Running(e) /\ UNCHANGED <<change, shown, noted>>
          /\ Tears(e) \/ \E log : EndWrite(e, log)
      BY <1>8, SecondHalf
    <2>2. CASE Tears(e)
      <3>1. /\ pc' = [pc EXCEPT ![e] = "rewrite"] /\ pc'[e] = "rewrite" /\ ReadLog' = <<>>
            /\ Done' = Done /\ write' = write
        BY <2>2 DEF Tears, ReadLog, Done, LogsInv
      <3>2. \A f \in Edits : Running(f)' => Running(f)
        BY <2>1, <3>1 DEF Running, LogsInv
      <3>3. Keeps(ReadLog', write'[e])
        <4>1. Len(ReadLog') = 0
          BY <3>1
        <4> QED
          BY <4>1 DEF Keeps
      <3> QED
        BY <1>3, <2>1, <3>1, <3>2, <3>3
    <2> QED
      BY <1>7, <2>1, <2>2
  <1>9. ASSUME NEW e \in Edits, Kill(e) PROVE Taken
    <2>1. /\ pc[e] = "rename" /\ Running(e) /\ pc' = [pc EXCEPT ![e] = "killed"]
          /\ UNCHANGED <<bugs, change, shown, noted>>
      BY <1>9 DEF Kill, Running
    <2>2. ReadLog' = ReadLog /\ Done' = Done /\ \A f \in Edits : ~Running(f)'
      BY <1>3, <2>1 DEF ReadLog, Done, LogsInv, Running
    <2>3. \A f \in Edits : pc[f] # "rewrite"
      BY <1>3, <2>1 DEF Running
    <2> QED
      BY <1>3, <2>1, <2>2, <2>3
  <1>10. ASSUME NEW n \in Notes, Note(n) PROVE Taken
    <2>1. /\ bugs' = Noted(ReadLog, n) /\ noted' = noted \cup {n} /\ UNCHANGED <<pc, change, shown>>
      BY <1>10 DEF Note, Noted, ReadLog
    <2>2. \A f \in Edits : ~Running(f)' /\ pc[f] # "rewrite"
      BY <1>10 DEF Note, Overlaps, Running
    <2>3. Noted(ReadLog, n) \in Seq(Entries)
      BY <1>1, NoteOK DEF Noted, LogOK
    <2>4. ReadLog' = Noted(ReadLog, n) /\ Done' = Done
      BY <2>1, <2>3, TornAssumption DEF ReadLog, TornAssumption, Done
    <2>5. Remembers(Noted(ReadLog, n), shown, change, noted \cup {n}, Done)
      BY <1>1, <1>3, <2>2, NoteRemembers
    <2> QED
      BY <2>1, <2>2, <2>4, <2>5
  <1>11. CASE Sweep
    <2>1. /\ UNCHANGED <<bugs, pc, change, shown, noted>>
          /\ \A f \in Edits : ~Running(f)' /\ pc[f] # "rewrite"
      BY <1>11 DEF Sweep, Overlaps, Running
    <2>2. ReadLog' = ReadLog /\ Done' = Done
      BY <2>1 DEF ReadLog, Done
    <2> QED
      BY <1>3, <2>1, <2>2
  <1>12. CASE Tick \/ UNCHANGED vars
    <2>1. UNCHANGED <<bugs, pc, change, shown, write, noted>>
      BY <1>12 DEF Tick, vars
    <2>2. ReadLog' = ReadLog /\ Done' = Done /\ \A f \in Edits : Running(f)' = Running(f)
      BY <2>1 DEF ReadLog, Done, Running
    <2> QED
      BY <1>3, <2>1, <2>2
  <1> HIDE DEF Taken
  <1> QED
    BY <1>4, <1>5, <1>6, <1>7, <1>8, <1>9, <1>10, <1>11, <1>12 DEF Next

\* For as long as turns are taken the log forgets nothing.
THEOREM TurnsInvariance == Spec => []TurnsInv
  BY TurnsInit, TurnsNext, LogsInvariance, PTL DEF Spec

\* As long as post-writes, the agent and session starts take turns and no write in
\* place is cut short, what was shown before an edit stays in the log under its id,
\* whatever renames fail: only while the log is written in place is it not there.
THEOREM TurnsKeepShown == Spec => []ShownStaysLogged
  <1>1. LogsInv /\ TurnsInv => ShownStaysLogged
    <2> SUFFICES ASSUME LogsInv, TurnsInv, InTurns, \A f \in Edits : pc[f] # "rewrite",
                        NEW e \in Edits, NEW s \in shown[e]
                 PROVE  \E b \in ToSet(ReadLog) : b.id = s.id /\ b.tags = s.tags /\ SameName(change[e].file, b)
      BY DEF ShownStaysLogged
    <2>0. HasShown(ReadLog, shown, change)
      BY DEF TurnsInv, Remembers
    <2>1. PICK i \in 1..Len(ReadLog) :
            ReadLog[i].id = s.id /\ ReadLog[i].tags = s.tags /\ SameName(change[e].file, ReadLog[i])
      BY <2>0, Zenon DEF HasShown
    <2>2. ReadLog[i] \in ToSet(ReadLog)
      BY ReadOK DEF ToSet, LogOK
    <2> QED
      BY <2>1, <2>2
  <1> QED
    BY <1>1, LogsInvariance, TurnsInvariance, PTL

\* So long, and while none is under way, every fix whose post-write ran to its end
\* is counted, no other one is, and what the agent has logged is there.
THEOREM TurnsAreExact == Spec => []SerialIsExact
  <1>1. LogsInv /\ MadeInv /\ TurnsInv => SerialIsExact
    <2> SUFFICES ASSUME LogsInv, MadeInv, TurnsInv, InTurns, ~(\E e \in Edits : Running(e))
                 PROVE  /\ \A name \in Names, c \in Detectable :
                             /\ Cardinality(Ended(Fixes(name, c))) <= Tally(ReadLog, name, c)
                             /\ Tally(ReadLog, name, c) <= Cardinality(Begun(Fixes(name, c)))
                        /\ \A n \in noted : \E b \in ToSet(ReadLog) : b.file = n.file /\ b.tags = n.tags
      BY DEF SerialIsExact
    <2>1. Remembers(ReadLog, shown, change, noted, Done)
      BY DEF TurnsInv, Running
    <2>2. ASSUME NEW name \in Names, NEW c \in Detectable
          PROVE  /\ Cardinality(Ended(Fixes(name, c))) <= Tally(ReadLog, name, c)
                 /\ Tally(ReadLog, name, c) <= Cardinality(Begun(Fixes(name, c)))
      <3>1. Ended(Fixes(name, c)) = FixesIn(Done, change, name, c)
        BY DEF Ended, Fixes, FixesIn, IsFix, Done
      <3>2. Begun(Fixes(name, c)) = MadeOf(name, c)
        BY DEF Begun, Fixes, MadeOf
      <3> QED
        BY <2>1, <3>1, <3>2 DEF Remembers, CountsDone, MadeInv, Justified
    <2>3. ASSUME NEW n \in noted
          PROVE  \E b \in ToSet(ReadLog) : b.file = n.file /\ b.tags = n.tags
      <3>1. PICK i \in 1..Len(ReadLog) : ReadLog[i].file = n.file /\ ReadLog[i].tags = n.tags
        BY <2>1 DEF Remembers, HasNoted
      <3>2. ReadLog[i] \in ToSet(ReadLog)
        BY ReadOK DEF ToSet, LogOK
      <3> QED
        BY <3>1, <3>2
    <2> QED
      BY <2>2, <2>3
  <1> QED
    BY <1>1, LogsInvariance, MadeInvariance, TurnsInvariance, PTL
=============================================================================
