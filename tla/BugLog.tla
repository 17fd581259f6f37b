------------------------------- MODULE BugLog -------------------------------
(***************************************************************************)
(* The bug log of the OpenWolf hooks, .wolf/buglog.json.                   *)
(*                                                                         *)
(* Before an edit, pre-write shows the agent the bugs of the log that have *)
(* to do with it.  After the edit, post-write looks at the old and the new *)
(* text; if the change has the looks of a fix, it reads the log, merges    *)
(* the fix into a recent entry or adds one, and writes the log back.  The  *)
(* agent adds entries by hand.  A session start sweeps temporary files.    *)
(* Each hook is a process of its own and nothing locks the log; the steps  *)
(* of a write are those of WolfHooks.                                      *)
(***************************************************************************)
EXTENDS Naturals, Sequences, FiniteSetsExt, SequencesExt

CONSTANTS
  Edits,      \* edits of project files, each with its two hooks
  Files,      \* project files
  NameOf,     \* the last component of a file's path
  ExtOf,      \* its extension
  Changes,    \* what an edit may do (see Change below)
  WordsOf,    \* the telling words in the message and cause of a category
  Notes,      \* the entries that the agent logs by hand
  Window,     \* the time in which equal fixes are merged: five minutes
  MaxNow,     \* bound: the time at which the clock stops
  MaxKills,   \* bound: hooks killed
  MaxFailures,\* bound: temporary files that were there and not renamed
  Absent,     \* no such file
  Torn,       \* a file that was truncated and not yet written again
  Nothing     \* no category, no context, no write

\* The rules of detectFixPattern, the first that applies first.
Rules == <<"error-handling", "null-safety", "guard-clause", "wrong-value",
           "wrong-reference", "logic-fix", "operator-fix", "missing-import",
           "return-value", "async-fix", "type-fix", "style-fix", "refactor">>

Categories == ToSet(Rules)

\* What the new text has and the old text lacks, or what differs in them.
Signs == {"catch", "null", "guard", "literal", "name", "condition", "operator",
          "return", "await", "async", "cast", "colon"}

\* A change is what post-write can tell of an edit: the file, whether both
\* texts are given (an Edit, not a Write or a MultiEdit), the signs, the lines
\* of both texts, the imports added, the style properties changed, the lines
\* that went, whether the length changed by more than 30%, and the new lines
\* quoted as context; and what pre-write can: the tags and the words in it.
IsChange(ch) ==
  /\ ch.file \in Files /\ ch.signs \subseteq Signs
  /\ ch.mentions \subseteq STRING /\ ch.words \subseteq STRING
  /\ {ch.texts, ch.resized} \subseteq BOOLEAN
  /\ {ch.old, ch.new, ch.imports, ch.styles, ch.gone} \subseteq Nat
  /\ DOMAIN ch = {"file", "texts", "signs", "old", "new", "imports", "styles", "gone",
                  "resized", "context", "mentions", "words"}

\* The tags and the telling words that an entry may have, and the lines that
\* later fixes may add to it.
Tags == {"auto-detected"} \cup Categories \cup Range(ExtOf) \cup UNION {n.tags : n \in Notes}

Terms == UNION (Range(WordsOf) \cup {n.words : n \in Notes})

Lines == {ch.context : ch \in Changes} \ {Nothing}

\* An entry of the log, with when it was made and when it was last seen.
Entries ==
  [id : Nat, file : Files, tags : SUBSET Tags, words : SUBSET Terms, also : SUBSET Lines,
   occurrences : Nat \ {0}, at : Nat, seen : Nat]

ASSUME BugLogAssumption ==
  /\ \A ch \in Changes : IsChange(ch)
  /\ \A note \in Notes : note.file \in Files /\ "auto-detected" \notin note.tags
  /\ ExtOf \in [Files -> STRING] /\ WordsOf \in [Categories -> SUBSET STRING]
  /\ {Window, MaxNow, MaxKills, MaxFailures} \subseteq Nat

\* A log is told from no log and from half of one.
ASSUME TornAssumption ==
  Torn # Absent /\ \A none \in {Absent, Torn} : none \notin Seq(Entries)

\* No file has the name of a category as its extension: the tags of an entry hold
\* both.
ASSUME ExtensionAssumption == \A f \in Files : ExtOf[f] \notin Categories

VARIABLES
  bugs,      \* buglog.json: the sequence of its entries
  tmps,      \* the edits whose temporary file is there
  pc,        \* where each edit is
  change,    \* what it does
  shown,     \* the bugs pre-write has shown for it
  write,     \* the log that its post-write is writing
  noted,     \* what the agent has logged
  now,       \* the clock
  kills,
  failures,  \* temporary files that were there and not renamed
  cut,       \* (history) whether a write in place has left the log other than it
             \* should
  overlapped \* (history) whether a writer of the log has begun while another ran

vars == <<bugs, tmps, pc, change, shown, write, noted, now, kills, failures, cut, overlapped>>

-----------------------------------------------------------------------------
\* detectFixPattern.

\* Both texts are at most three lines long.
Short(ch) == ch.old <= 3 /\ ch.new <= 3

\* The rules that look for a sign, some of them in small changes only.
BySign(ch) ==
  {c \in Categories :
     \/ c = "error-handling" /\ "catch" \in ch.signs
     \/ c = "null-safety" /\ "null" \in ch.signs
     \/ c = "guard-clause" /\ "guard" \in ch.signs
     \/ c = "wrong-value" /\ "literal" \in ch.signs /\ Short(ch)
     \/ c = "wrong-reference" /\ "name" \in ch.signs /\ Short(ch)
     \/ c = "logic-fix" /\ "condition" \in ch.signs /\ ch.old <= 5
     \/ c = "operator-fix" /\ "operator" \in ch.signs
     \/ c = "return-value" /\ "return" \in ch.signs /\ ch.old <= 5
     \/ c = "async-fix" /\ {"await", "async"} \cap ch.signs # {}}

\* The rules that count, or depend on the language.
ByCount(ch) ==
  {c \in Categories :
     \/ c = "missing-import" /\ ch.imports > 0 /\ ch.new <= ch.old + ch.imports + 2
     \/ /\ c = "type-fix" /\ ExtOf[ch.file] \in {"ts", "tsx"}
        /\ "cast" \in ch.signs \/ ("colon" \in ch.signs /\ ch.old <= 3)
     \/ /\ c = "style-fix" /\ ExtOf[ch.file] \in {"css", "scss", "vue", "tsx", "jsx"}
        /\ ch.styles \in 1..3
     \/ c = "refactor" /\ ch.resized /\ ch.old >= 3 /\ ch.new >= 3 /\ ch.gone >= 2}

\* The category of the first rule that applies.
Detect(ch) ==
  LET hits == {i \in DOMAIN Rules : Rules[i] \in BySign(ch) \cup ByCount(ch)}
  IN  IF ~ch.texts \/ hits = {} THEN Nothing ELSE Rules[Min(hits)]

\* What is detected in each of the changes there are.
Detected == [ch \in Changes |-> Detect(ch)]

Detectable == Range(Detected) \ {Nothing}

\* The lines a detection quotes, if its rule quotes any.
Context(ch) ==
  IF \/ Detected[ch] \in {"error-handling", "null-safety", "type-fix", "refactor"}
     \/ Detected[ch] = "async-fix" /\ "await" \in ch.signs
  THEN {ch.context} \ {Nothing} ELSE {}

-----------------------------------------------------------------------------
\* autoDetectBugFix.

ReadLog == IF bugs \in {Absent, Torn} THEN <<>> ELSE bugs

SameName(file, bug) == NameOf[bug.file] = NameOf[file]

AutoDetected(bug, c) == {"auto-detected", c} \subseteq bug.tags

\* Mutant of Recent: the window starts with the first sight of the bug.
RecentByStart(log, ch) ==
  {i \in DOMAIN log : /\ SameName(ch.file, log[i]) /\ AutoDetected(log[i], Detected[ch])
                      /\ now - log[i].at < Window}

\* The entries a detection can be merged into.
Recent(log, ch) ==
  {i \in DOMAIN log : /\ SameName(ch.file, log[i]) /\ AutoDetected(log[i], Detected[ch])
                      /\ now - log[i].seen < Window}

\* Mutant of NextId: the length itself.
NextIdOfLast(log) == Len(log)

NextId(log) == Len(log) + 1

\* Mutant of Entry: the fix it is made for is not counted.
EntryUncounted(id, file, tags, words) ==
  [id |-> id, file |-> file, tags |-> tags, words |-> words, also |-> {},
   occurrences |-> 0, at |-> now, seen |-> now]

Entry(id, file, tags, words) ==
  [id |-> id, file |-> file, tags |-> tags, words |-> words, also |-> {},
   occurrences |-> 1, at |-> now, seen |-> now]

\* Mutant of WithFix: after a merge it goes on and adds an entry.
WithFixUnreturned(log, ch) ==
  LET c == Detected[ch]
      i == Min(Recent(log, ch))
      entry == Entry(NextId(log), ch.file, {"auto-detected", c, ExtOf[ch.file]}, WordsOf[c])
  IN  Append(IF Recent(log, ch) = {} THEN log ELSE [log EXCEPT ![i].occurrences = @ + 1], entry)

\* The log with the fix: merged into the first recent entry, or added.
WithFix(log, ch) ==
  LET c == Detected[ch]
      i == Min(Recent(log, ch))
      merged == [log EXCEPT ![i].occurrences = @ + 1, ![i].seen = now,
                            ![i].also = @ \cup Context(ch)]
      entry == Entry(NextId(log), ch.file, {"auto-detected", c, ExtOf[ch.file]}, WordsOf[c])
  IN  IF Recent(log, ch) # {} THEN merged ELSE Append(log, entry)

-----------------------------------------------------------------------------
Init ==
  /\ bugs \in {Absent, <<>>}
  /\ tmps = {}
  /\ pc = [e \in Edits |-> "idle"]
  /\ change = [e \in Edits |-> Nothing]
  /\ shown = [e \in Edits |-> {}]
  /\ write = [e \in Edits |-> Nothing]
  /\ noted = {}
  /\ now = 0 /\ kills = 0 /\ failures = 0
  /\ cut = FALSE
  /\ overlapped = FALSE

\* A post-write is between its reading of the log and its end.
Running(e) == pc[e] \in {"rename", "rewrite"}

Overlaps == overlapped' = (overlapped \/ \E e \in Edits : Running(e))

Goto(e, label) == pc' = [pc EXCEPT ![e] = label]

\* Mutant of Relevant: of whatever file.
RelevantAnywhere(ch) == {i \in DOMAIN ReadLog : ReadLog[i].tags \cap ch.mentions # {}}

\* checkBugLog: the bugs of a file of that name that share a tag with the texts
\* of the edit, or three telling words.
Relevant(ch) ==
  {i \in DOMAIN ReadLog :
     /\ SameName(ch.file, ReadLog[i])
     /\ \/ ReadLog[i].tags \cap ch.mentions # {}
        \/ Cardinality(ReadLog[i].words \cap ch.words) >= 3}

\* The first two of some places.
FirstTwo(S) == {i \in S : Cardinality({j \in S : j < i}) < 2}

\* pre-write shows the first two, then the tool edits the file.
PreWrite(e, ch) ==
  /\ pc[e] = "idle"
  /\ change' = [change EXCEPT ![e] = ch]
  /\ shown' = [shown EXCEPT ![e] = {[id |-> ReadLog[i].id, tags |-> ReadLog[i].tags] :
                                       i \in FirstTwo(Relevant(ch))}]
  /\ Goto(e, "edited")
  /\ UNCHANGED <<bugs, tmps, write, noted, now, kills, failures, cut, overlapped>>

\* post-write: an edit that is no fix leaves the log alone.
NoFix(e) ==
  /\ pc[e] = "edited" /\ Detected[change[e]] = Nothing
  /\ Goto(e, "done")
  /\ UNCHANGED <<bugs, tmps, change, shown, write, noted, now, kills, failures, cut, overlapped>>

\* Mutant of LogFix: the log is written only when an entry is added.
LogFixUnmerged(e) ==
  /\ pc[e] = "edited" /\ Detected[change[e]] # Nothing
  /\ LET log == WithFix(ReadLog, change[e])
     IN  \/ /\ Len(log) > Len(ReadLog)
            /\ write' = [write EXCEPT ![e] = log]
            /\ tmps' = tmps \cup {e}
            /\ Goto(e, "rename")
         \/ /\ Len(log) = Len(ReadLog)
            /\ Goto(e, "done")
            /\ UNCHANGED <<write, tmps>>
  /\ Overlaps
  /\ UNCHANGED <<bugs, change, shown, noted, now, kills, failures, cut>>

\* post-write: the log is read, changed and written to a temporary file ...
LogFix(e) ==
  /\ pc[e] = "edited" /\ Detected[change[e]] # Nothing
  /\ write' = [write EXCEPT ![e] = WithFix(ReadLog, change[e])]
  /\ tmps' = tmps \cup {e}
  /\ Goto(e, "rename")
  /\ Overlaps
  /\ UNCHANGED <<bugs, change, shown, noted, now, kills, failures, cut>>

\* The write ends, with log on disk.
EndWrite(e, log) ==
  /\ bugs' = log
  /\ cut' = (cut \/ log # write[e])
  /\ tmps' = tmps \ {e}
  /\ write' = [write EXCEPT ![e] = Nothing]
  /\ Goto(e, "done")

\* ... which takes the place of the log ...
Rename(e) ==
  /\ pc[e] = "rename" /\ e \in tmps
  /\ EndWrite(e, write[e])
  /\ UNCHANGED <<change, shown, noted, now, kills, failures, overlapped>>

\* ... unless it has been swept, or could not be written or renamed: then the log
\* is opened for writing, which truncates it, or cannot be opened either ...
RenameFails(e) ==
  /\ pc[e] = "rename"
  /\ \/ e \notin tmps /\ failures' = failures
     \/ e \in tmps /\ failures < MaxFailures /\ failures' = failures + 1
  /\ \/ bugs' = Torn /\ Goto(e, "rewrite") /\ UNCHANGED <<tmps, write, cut>>
     \/ EndWrite(e, bugs)
  /\ UNCHANGED <<change, shown, noted, now, kills, overlapped>>

\* ... and written in place.  A failure is swallowed, and another writer may have
\* replaced the log since, or write it as well.
Rewrite(e) ==
  /\ pc[e] = "rewrite"
  /\ \E log \in {write[e], bugs, Torn} : EndWrite(e, log)
  /\ UNCHANGED <<change, shown, noted, now, kills, failures, overlapped>>

\* The agent logs a bug itself, under the next number.
Note(n) ==
  /\ n \notin noted /\ bugs \notin {Absent, Torn}
  /\ bugs' = Append(bugs, Entry(Len(bugs) + 1, n.file, n.tags, n.words))
  /\ noted' = noted \cup {n}
  /\ Overlaps
  /\ UNCHANGED <<tmps, pc, change, shown, write, now, kills, failures, cut>>

\* session-start deletes the temporary files of .wolf.
Sweep ==
  /\ tmps' = {}
  /\ Overlaps
  /\ UNCHANGED <<bugs, pc, change, shown, write, noted, now, kills, failures, cut>>

\* A post-write is killed, by its timeout or with the editor.
Kill(e) ==
  /\ Running(e) /\ kills < MaxKills
  /\ kills' = kills + 1
  /\ cut' = (cut \/ pc[e] = "rewrite")
  /\ Goto(e, "killed")
  /\ write' = [write EXCEPT ![e] = Nothing]
  /\ UNCHANGED <<bugs, tmps, change, shown, noted, now, failures, overlapped>>

Tick ==
  /\ now < MaxNow
  /\ now' = now + 1
  /\ UNCHANGED <<bugs, tmps, pc, change, shown, write, noted, kills, failures, cut, overlapped>>

Next ==
  \/ \E e \in Edits : \/ \E ch \in Changes : PreWrite(e, ch)
                      \/ NoFix(e) \/ LogFix(e)
                      \/ Rename(e) \/ RenameFails(e) \/ Rewrite(e) \/ Kill(e)
  \/ \E n \in Notes : Note(n)
  \/ Sweep
  \/ Tick

Spec == Init /\ [][Next]_vars

-----------------------------------------------------------------------------
\* The log is a list of entries made and seen by now, or is not there, or is half
\* written.
TypeOK ==
  /\ \/ bugs \in {Absent, Torn}
     \/ bugs \in Seq(Entries) /\ \A i \in DOMAIN bugs : bugs[i].at <= bugs[i].seen /\ bugs[i].seen <= now
  /\ tmps \subseteq Edits
  /\ pc \in [Edits -> {"idle", "edited", "rename", "rewrite", "done", "killed"}]
  /\ change \in [Edits -> Changes \cup {Nothing}]
  /\ \A e \in Edits : Cardinality(shown[e]) <= 2
  /\ noted \subseteq Notes
  /\ now \in 0..MaxNow /\ kills \in 0..MaxKills
  /\ failures \in 0..MaxFailures /\ {cut, overlapped} \subseteq BOOLEAN

\* The places of a log with the entries of a name and category that a post-write
\* has made, and the fixes that these count.
Of(log, name, c) == {i \in DOMAIN log : NameOf[log[i].file] = name /\ AutoDetected(log[i], c)}

Tally(log, name, c) == FoldFunction(+, 0, [i \in Of(log, name, c) |-> log[i].occurrences])

\* The edits of a name that look like a fix of the category, and of those the
\* ones whose post-write has read the log, and has ended.
Fixes(name, c) ==
  {e \in Edits : pc[e] # "idle" /\ NameOf[change[e].file] = name /\ Detected[change[e]] = c}

Begun(S) == {e \in S : pc[e] # "edited"}

Ended(S) == {e \in S : pc[e] = "done"}

Names == {NameOf[f] : f \in Files}

\* However post-writes overlap and whatever they lose, the log counts no fix of
\* a name and category that was not made, and quotes no line of another one
\* (post-write.js 244-289).
NothingInvented ==
  \A name \in Names, c \in Detectable :
    LET made == Begun(Fixes(name, c))
    IN  /\ Tally(ReadLog, name, c) <= Cardinality(made)
        /\ \A i \in Of(ReadLog, name, c) :
             ReadLog[i].also \subseteq UNION {Context(change[e]) : e \in made}

\* The entries of one name and category are five minutes apart: a later one
\* began when the earlier one had not been seen for that long, and the earlier
\* one was not merged into any more (post-write.js 254-274).
OnePerWindow ==
  \A i, j \in DOMAIN ReadLog :
    LET first == ReadLog[i]  second == ReadLog[j]
    IN  /\ i < j /\ NameOf[first.file] = NameOf[second.file]
        /\ \E c \in Detectable : AutoDetected(first, c) /\ AutoDetected(second, c)
        => second.at >= first.seen + Window

\* An id names one entry, though ids are minted from the length of the log that
\* was read, by hooks and by the agent, and updates are lost (post-write.js 275).
IdsAreUnique == \A i, j \in DOMAIN ReadLog : i # j => ReadLog[i].id # ReadLog[j].id

\* Post-writes, session starts and the agent have taken turns, and no write in
\* place was cut short, be it by a kill or by a failure.
InTurns == ~overlapped /\ ~cut

\* In turns, and whatever renames fail: when none is under way, each fix whose
\* post-write ran to its end is counted, none that was not made, and whatever the
\* agent has logged is there (post-write.js 246-288).
SerialIsExact ==
  InTurns /\ ~(\E e \in Edits : Running(e)) =>
    /\ \A name \in Names, c \in Detectable :
         LET n == Tally(ReadLog, name, c) IN
         Cardinality(Ended(Fixes(name, c))) <= n /\ n <= Cardinality(Begun(Fixes(name, c)))
    /\ \A n \in noted : \E b \in ToSet(ReadLog) : b.file = n.file /\ b.tags = n.tags

\* In turns, what the agent was shown before an edit can still be looked up in the
\* log by its id, and is about a file of that name, but while the log is being
\* written in place (pre-write.js 87-113).
ShownStaysLogged ==
  InTurns /\ ~(\E e \in Edits : pc[e] = "rewrite") =>
    \A e \in Edits : \A s \in shown[e] :
      \E b \in ToSet(ReadLog) : b.id = s.id /\ b.tags = s.tags /\ SameName(change[e].file, b)
=============================================================================
