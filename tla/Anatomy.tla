------------------------------- MODULE Anatomy -------------------------------
(***************************************************************************)
(* What .wolf/anatomy.md says of the files, and what the hooks look up.    *)
(*                                                                         *)
(* After a write, post-write derives a description and an estimate of the  *)
(* tokens from the file, parses anatomy.md, puts the entry in and writes   *)
(* the whole file again, a line for each entry under the headings of their *)
(* sections.  A description with a line break makes several lines, each of *)
(* which the next hook reads on its own: as nothing, as an entry or as a   *)
(* heading that takes over the entries below it.  The agent edits the file *)
(* too.  Before a read, pre-read looks the file up and counts a hit or a   *)
(* miss; after it, post-read notes its tokens, those of anatomy.md if the  *)
(* tool returned nothing.                                                  *)
(*                                                                         *)
(* anatomy.md is the sequence of the entries that parseAnatomy finds in    *)
(* it, each with its section: other lines, among them headings without     *)
(* entries, do nothing to them.  Hooks take turns here; WolfHooks is about *)
(* what happens when they do not.  A file's text is what the rules find in *)
(* it, its length, and what a quoted text with a line break is read as.    *)
(***************************************************************************)
EXTENDS Naturals, FiniteSetsExt, SequencesExt

CONSTANTS
  Files,       \* files of the project and elsewhere, named by tools by one path each
  Sections,    \* sections of anatomy.md: directories and what the agent calls one
  Names,       \* names of files
  Order,       \* the places of entries, by section and then by name
  PlaceOf,     \* the place of each file: its directory, from the project, and its name
  ExtOf,       \* its extension
  TraitsOf,    \* the traits of its name that a rule asks for
  EndsWith,    \* the pairs <<f, p>> such that the path of f ends with the section
               \* and name of p, joined
  Internal,    \* the files in .wolf
  Absolute,    \* the files whose path starts with that of the project
  Secret,      \* the .env files
  Contents,    \* texts: [signs, spans, size, tail]
  Here, Blank, \* the section of the entry, the heading without a name
  HandWritten, \* bound: entries that the agent puts in at a time
  Portions,    \* bound: lengths of the parts of a file that a tool returns
  Unread,      \* a file that was not read in this session
  MaxChanges,  \* bound: changes of files and of anatomy.md
  MaxReads     \* bound: reads

Places == [section : Sections, name : Names]

\* What the lines of a broken entry are read as, and the section open after them.
Tails == [lines : Seq([section : Sections \cup {Here}, name : Names, tokens : Nat]),
          opened : Sections \cup {Here, Blank}]

ASSUME AnatomyAssumption ==
  /\ Order \in Seq(Places) /\ ToSet(Order) = Places
  /\ PlaceOf \in [Files -> Places] /\ IsInjective(PlaceOf)
  /\ EndsWith \subseteq Files \X Places
  /\ Internal \cup Secret \cup Absolute \subseteq Files
  /\ \A c \in Contents : /\ c.spans \subseteq c.signs /\ c.size \in Nat /\ c.tail \in Tails
                         /\ c.size = 0 => "blank" \in c.signs
  /\ HandWritten \subseteq Seq([place : Places, rule : {"by hand"}, tokens : Nat])
  /\ {MaxChanges, MaxReads} \cup Portions \subseteq Nat
  /\ Unread \notin Nat /\ {Here, Blank} \cap Sections = {}

VARIABLES
  disk,    \* the text of each file
  listing, \* the entries of anatomy.md, in the order of its lines
  read,    \* _session.json: the tokens of each file read
  hits, misses,
  fresh,   \* (history) the files whose place was last changed by a tool's write of them
  touched, \* (history) the places that other changes of anatomy.md were about
  changes, reads

vars == <<disk, listing, read, hits, misses, fresh, touched, changes, reads>>

-----------------------------------------------------------------------------
\* extractDescription: the rules for a language, in the order they are tried.  The
\* rules that quote text between two delimiters, across lines, have a name of their
\* own; the others keep to a line, and stand together.
Quoting == {"title", "blade", "model", "migration", "description", "vue"}

\* Documentation and header comments.
CommentRules(ext) ==
  IF ext \in {"html", "htm"} THEN <<"title", "comment">> ELSE <<"comment">>

\* What is said of the code, or of styles, data and configuration.
CodeRules(ext) ==
  CASE ext = "php" -> <<"blade", "controller", "model", "migration", "code">>
    [] ext = "vue" -> <<"vue">>
    [] ext = "toml" -> <<"description">>
    [] OTHER -> <<"code">>

\* The languages in which each text is described by the rule for its code.
Always == {"java", "cs", "vue", "svelte", "astro", "css", "scss", "less", "graphql", "gql"}

RulesOf(ext) == CommentRules(ext) \o CodeRules(ext) \o <<"declaration">>

\* The rule that describes text c of f, "none" if none does.
Description(f, c) ==
  LET has == c.signs \cup TraitsOf[f] \cup
             (IF ExtOf[f] \in Always THEN ToSet(CodeRules(ExtOf[f])) ELSE {})
      rules == SelectSeq(RulesOf(ExtOf[f]), LAMBDA r : r \in has)
  IN  IF "known name" \in TraitsOf[f] THEN "known name"
      ELSE IF "blank" \in c.signs \/ rules = <<>> THEN "none" ELSE Head(rules)

\* Whether what the rule takes from the text has a line break in the hundred
\* characters that are kept.
IsBroken(f, c) == Description(f, c) \in c.spans \cap Quoting

-----------------------------------------------------------------------------
\* estimateTokens: 3.5 characters of code, 4 of prose or 3.75 of others.
EstimateTokens(size, type) ==
  CASE type = "code" -> (2 * size + 6) \div 7
    [] type = "prose" -> (size + 3) \div 4
    [] type = "mixed" -> (4 * size + 14) \div 15

Prose == {"md", "txt", "rst"}

WriteCode == {"ts", "js", "tsx", "jsx", "py", "json", "yaml", "yml", "css"}

\* Mutant of ReadCode: the script languages are left out.
ReadCodeCompiled == {"rs", "go", "java", "c", "cpp", "css", "json", "yaml", "yml"}

ReadCode == WriteCode \cup {"rs", "go", "java", "c", "cpp"}

TypeBy(code, f) ==
  IF ExtOf[f] \in code THEN "code" ELSE IF ExtOf[f] \in Prose THEN "prose" ELSE "mixed"

-----------------------------------------------------------------------------
\* anatomy.md.
Rules == {"by hand", "quoted"} \cup UNION {{Description(f, c) : c \in Contents} : f \in Files}

Entries == [place : Places, rule : Rules, tokens : Nat]

Rank(p) == CHOOSE i \in DOMAIN Order : Order[i] = p

\* The entries, rearranged by an order of their indices: a set of pairs.
Arranged(entries, order) ==
  LET Before(i) == {j \in DOMAIN entries : <<j, i>> \in order}
  IN  [k \in DOMAIN entries |->
         entries[CHOOSE i \in DOMAIN entries : Cardinality(Before(i)) = k - 1]]

\* serializeAnatomy: sections and entries are sorted, and the sorting is stable.
Serialize(entries) ==
  LET indices == DOMAIN entries
      Key(i) == Rank(entries[i].place)
  IN  Arranged(entries, {p \in indices \X indices :
                           Key(p[1]) < Key(p[2]) \/ (Key(p[1]) = Key(p[2]) /\ p[1] < p[2])})

IndicesOf(entries, place) == {i \in DOMAIN entries : entries[i].place = place}

\* Mutant of With: the entry is added without a look for an older one.
WithAnother(entries, entry) == Append(entries, entry)

\* Mutant of With: of several entries, the last is replaced.
WithLast(entries, entry) ==
  LET same == IndicesOf(entries, entry.place)
  IN  IF same = {} THEN Append(entries, entry) ELSE [entries EXCEPT ![Max(same)] = entry]

\* The entry replaces the first at its place, or is added.
With(entries, entry) ==
  LET same == IndicesOf(entries, entry.place)
  IN  IF same = {} THEN Append(entries, entry) ELSE [entries EXCEPT ![Min(same)] = entry]

EntryOf(f, c) ==
  [place |-> PlaceOf[f], rule |-> Description(f, c),
   tokens |-> EstimateTokens(c.size, TypeBy(WriteCode, f))]

\* Mutant of Matches: the section "./" is not normalised away.
MatchesUnjoined(f) ==
  {i \in DOMAIN listing : <<f, listing[i].place>> \in EndsWith /\ listing[i].place.section # "./"}

\* The entries whose path is an end of the path of f.
Matches(f) == {i \in DOMAIN listing : <<f, listing[i].place>> \in EndsWith}

\* post-read: the first match of a section counts, unless it has no tokens.  Which
\* section comes first depends on headings without entries too: any may.
ListedTokens(f) ==
  LET section(i) == listing[i].place.section
      first == {i \in Matches(f) : \A j \in Matches(f) : section(j) = section(i) => i <= j}
      found == {i \in first : listing[i].tokens > 0}
  IN  IF found = {} THEN {0} ELSE {listing[i].tokens : i \in found}

-----------------------------------------------------------------------------
Init ==
  /\ disk \in [Files -> {c \in Contents : c.size = 0}]
  /\ listing = <<>>
  /\ read = [f \in Files |-> Unread] /\ hits = 0 /\ misses = 0
  /\ fresh = {} /\ touched = {}
  /\ changes = 0 /\ reads = 0

Changing == changes < MaxChanges /\ changes' = changes + 1

\* The entries become these, with those from i to j replaced by others.
Replace(entries, i, j, others) ==
  LET places == {entries[n].place : n \in i..j} \cup {e.place : e \in ToSet(others)}
  IN  /\ listing' = SubSeq(entries, 1, i - 1) \o others \o SubSeq(entries, j + 1, Len(entries))
      /\ fresh' = {f \in fresh : PlaceOf[f] \notin places}
      /\ touched' = touched \cup places

Under(section, f) == IF section = Here THEN PlaceOf[f].section ELSE section

\* A broken entry of f is read line by line: what its lines are read as stands for it,
\* and a heading among them takes over what is below it in the section.
Reread(f, c, entries) ==
  LET k == Min(IndicesOf(entries, PlaceOf[f]))
      lines == [n \in DOMAIN c.tail.lines |->
                  LET line == c.tail.lines[n]
                  IN  [place |-> [section |-> Under(line.section, f), name |-> line.name],
                       rule |-> "quoted", tokens |-> line.tokens]]
      last == IF c.tail.opened = Here THEN k
              ELSE Max({i \in DOMAIN entries : entries[i].place.section = PlaceOf[f].section})
      below == SubSeq(entries, k + 1, last)
      moved == [n \in DOMAIN below |-> [below[n] EXCEPT !.place.section = c.tail.opened]]
  IN  Replace(entries, k, last, lines \o (IF c.tail.opened = Blank THEN <<>> ELSE moved))

\* Mutant of Unlisted: a .env file is as good as any other.
UnlistedInternal(f) == f \in Internal

\* The files post-write returns early for.
Unlisted(f) == f \in Internal \cup Secret

\* A tool writes text c to f, and post-write lists it.
PostWrite(f, c) ==
  LET entries == Serialize(With(listing, EntryOf(f, c)))
  IN  /\ Changing
      /\ disk' = [disk EXCEPT ![f] = c]
      /\ \/ Unlisted(f) /\ UNCHANGED <<listing, fresh, touched>>
         \/ /\ ~Unlisted(f) /\ ~IsBroken(f, c)
            /\ listing' = entries /\ fresh' = fresh \cup {f} /\ UNCHANGED touched
         \/ ~Unlisted(f) /\ IsBroken(f, c) /\ Reread(f, c, entries)
      /\ UNCHANGED <<read, hits, misses, reads>>

\* Something else writes it.
Elsewhere(f, c) ==
  /\ Changing
  /\ disk' = [disk EXCEPT ![f] = c]
  /\ fresh' = fresh \ {f}
  /\ UNCHANGED <<listing, touched, read, hits, misses, reads>>

\* The agent edits anatomy.md: it adds entries and headings, under which others then
\* stand, replaces and removes them, wherever it likes.
Edit(i, j, others) ==
  /\ Changing
  /\ Replace(listing, i, j, others)
  /\ UNCHANGED <<disk, read, hits, misses, reads>>

\* A tool reads f between pre-read and post-read, and returns n characters of it.
Read(f, n) ==
  LET given == EstimateTokens(n, TypeBy(ReadCode, f))
  IN  /\ reads < MaxReads /\ reads' = reads + 1
      /\ \/ f \in Internal \cap Absolute /\ UNCHANGED <<read, hits, misses>>
         \/ /\ f \notin Internal \cap Absolute
            /\ hits' = hits + (IF read[f] = Unread /\ Matches(f) # {} THEN 1 ELSE 0)
            /\ misses' = misses + (IF read[f] = Unread /\ Matches(f) = {} THEN 1 ELSE 0)
            /\ \E tokens \in IF given = 0 THEN ListedTokens(f) ELSE {given} :
                 read' = [read EXCEPT ![f] = tokens]
      /\ UNCHANGED <<disk, listing, fresh, touched, changes>>

\* What a tool may return of f: nothing, all of it, or a part.
Lengths(f) == {0, disk[f].size} \cup {n \in Portions : n <= disk[f].size}

\* session-start.
NewSession ==
  /\ \E f \in Files : read[f] # Unread
  /\ read' = [f \in Files |-> Unread] /\ hits' = 0 /\ misses' = 0
  /\ UNCHANGED <<disk, listing, fresh, touched, changes, reads>>

Next ==
  \/ \E f \in Files, c \in Contents : PostWrite(f, c) \/ Elsewhere(f, c)
  \/ \E i \in 1..(Len(listing) + 1), others \in HandWritten :
       \E j \in (i - 1)..Len(listing) : Edit(i, j, others)
  \/ \E f \in Files : \E n \in Lengths(f) : Read(f, n)
  \/ NewSession

Spec == Init /\ [][Next]_vars

-----------------------------------------------------------------------------
Listed(f) == IndicesOf(listing, PlaceOf[f]) # {}

FirstEntry(f) == listing[Min(IndicesOf(listing, PlaceOf[f]))]

\* Files of .wolf and .env files are listed by the agent only, and counters count
\* (post-write.js 27-38).
TypeOK ==
  /\ disk \in [Files -> Contents]
  /\ listing \in Seq(Entries)
  /\ \A e \in ToSet(listing), f \in Files : Unlisted(f) /\ e.place = PlaceOf[f] => e.place \in touched
  /\ read \in [Files -> Nat \cup {Unread}]
  /\ {hits, misses} \subseteq Nat
  /\ fresh \subseteq Files \ (Internal \cup Secret) /\ touched \subseteq Places
  /\ changes \in 0..MaxChanges /\ reads \in 0..MaxReads

\* A file that a tool has written is listed, at the first entry of its place, with
\* the description and tokens of its text, whatever is written to others and however
\* many entries the agent has given it before.  A description with a line break, and
\* what the agent edits, spoil the places of their own lines and of those that come to stand
\* under a heading of theirs, no others (post-write.js 41-104, shared.js 63-107).
WrittenIsListed ==
  \A f \in fresh : Listed(f) /\ FirstEntry(f) = EntryOf(f, disk[f])

\* A place has a second entry only if the agent, or the lines of a broken entry, have
\* put one there: post-write never lists a file twice (post-write.js 69-78).
OneEntryEach ==
  \A i, j \in DOMAIN listing :
    i # j /\ listing[i].place = listing[j].place => listing[i].place \in touched

\* No file that is listed at its place is counted as a miss, and the first read of a
\* file in a session counts once (pre-read.js 37-69).
ListedIsHit ==
  [][\A f \in Files :
       read[f] = Unread /\ read'[f] # Unread =>
         /\ hits' + misses' = hits + misses + 1
         /\ Listed(f) /\ <<f, PlaceOf[f]>> \in EndsWith => misses' = misses]_vars

\* What post-read notes of a file that a tool has written is at most a fourteenth and
\* one token more than what is listed, and not less unless only a part was returned:
\* the hooks have lists of their own of what is code.  It is so for files whose path ends
\* with that of no other place (post-read.js 33-53, post-write.js 64-68).
EstimatesAgree ==
  [][\A f \in fresh : \A n \in Lengths(f) :
       Read(f, n) /\ (\A p \in Places : <<f, p>> \in EndsWith <=> p = PlaceOf[f]) =>
         /\ 14 * read'[f] <= 15 * FirstEntry(f).tokens + 14
         /\ n \in {0, disk[f].size} => FirstEntry(f).tokens <= read'[f]]_vars
=============================================================================
