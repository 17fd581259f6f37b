------------------------------ MODULE MCBugLog ------------------------------
(* An instance of BugLog: edits of two files of one name and of a third one.  *)
EXTENDS BugLog, TLC

CONSTANTS e1, e2, e3, api, web, css

Names2 == [f \in Files |-> IF f = css THEN "site.css" ELSE "handler.ts"]

Exts == [f \in Files |-> IF f = css THEN "css" ELSE "ts"]

\* The words of "Missing guard clause", and of a style: none that are telling.
Words == [c \in Categories |-> IF c = "guard-clause" THEN {"guard", "missing", "clause"} ELSE {}]

\* A change of one line that has no sign.
Plain == [file |-> api, texts |-> TRUE, signs |-> {}, old |-> 1, new |-> 1, imports |-> 0,
          styles |-> 0, gone |-> 0, resized |-> FALSE, context |-> Nothing,
          mentions |-> {}, words |-> {}]

\* Sets and fields are written in TLC's own order, for its workers share them and
\* would sort them at one time.
MCChanges ==
  {[Plain EXCEPT !.signs = {"catch", "condition"}, !.new = 5, !.context = "line1",
                 !.mentions = {"ts"}],
   [Plain EXCEPT !.file = web, !.signs = {"catch"}, !.new = 9, !.context = "line2"],
   [Plain EXCEPT !.signs = {"name", "guard"}, !.words = {"guard", "missing", "clause", "user"}],
   [Plain EXCEPT !.file = css, !.texts = FALSE, !.styles = 1, !.mentions = {"css", "login"}]}

MCNotes == {[file |-> web, words |-> {"missing"}, tags |-> {"login"}]}

Alike == Permutations(Edits)
=============================================================================
