----------------------------- MODULE MCAnatomy ------------------------------
(* An instance of Anatomy: main.go in the root and in a directory, a page, a  *)
(* script, a .env file and, in .wolf, anatomy.md by its whole path.           *)
EXTENDS Anatomy

CONSTANTS main, cmdMain, page, script, env, wolf

MCPlaces ==
  [f \in Files |->
     CASE f = main -> [section |-> "./", name |-> "main.go"]
       [] f = cmdMain -> [section |-> "cmd/", name |-> "main.go"]
       [] f = page -> [section |-> "./", name |-> "index.html"]
       [] f = script -> [section |-> "./", name |-> "run.ts"]
       [] f = env -> [section |-> "./", name |-> ".env"]
       [] f = wolf -> [section |-> ".wolf/", name |-> "anatomy.md"]]

Sorted == <<"./", ".wolf/", "cmd/">>

SortedNames == <<".env", "anatomy.md", "index.html", "main.go", "run.ts">>

MCOrder ==
  [i \in 1..15 |-> [section |-> Sorted[1 + ((i - 1) \div 5)], name |-> SortedNames[1 + ((i - 1) % 5)]]]

Exts == [f \in Files |-> CASE f \in {main, cmdMain} -> "go" [] f = script -> "ts"
                           [] f = page -> "html" [] f = wolf -> "md" [] OTHER -> ""]

Traits == [f \in Files |-> {}]

\* cmd/main.go ends with main.go.
Ends == {<<f, MCPlaces[f]>> : f \in Files} \cup {<<cmdMain, MCPlaces[main]>>}

\* A text without lines of note.  Others have a title that is read as an entry of
\* main.go, or as a heading: of a section, or without a name.
Loose == [lines |-> <<>>, opened |-> Here]

Titled(lines, opened) ==
  [size |-> 30, signs |-> {"title", "code"}, spans |-> {"title"},
   tail |-> [lines |-> lines, opened |-> opened]]

MCContents ==
  {[size |-> 0, signs |-> {"blank"}, spans |-> {}, tail |-> Loose],
   [size |-> 30, signs |-> {"comment"}, spans |-> {}, tail |-> Loose],
   Titled(<<[section |-> Here, name |-> "main.go", tokens |-> 8]>>, "cmd/"), Titled(<<>>, Blank)}

\* The agent writes an entry, right or not, or none.
MCHandWritten ==
  {<<>>} \cup {<<[place |-> MCPlaces[f], rule |-> "by hand", tokens |-> 1]>> : f \in {main, cmdMain, env}}
=============================================================================
