----------------------------- MODULE WolfHooks -----------------------------
(***************************************************************************)
(* The OpenWolf hooks (.wolf/hooks) and the files they share.              *)
(*                                                                         *)
(* The editor starts a process for each event: the start of a session,     *)
(* before and after a tool reads a file, after it writes one, the end of a *)
(* turn.  Parallel tool calls and parallel sessions run hooks side by      *)
(* side.  A hook reads a file, changes it and writes it back, with no      *)
(* lock: writeJSON writes a temporary file and renames it over the target, *)
(* and when either fails, for whatever reason (the temporary file has been *)
(* swept, another process holds the target open), it truncates the target  *)
(* and writes it in place.  That may fail as well, and the hook goes on.   *)
(* A reader that finds no file, or half of one, takes a fallback of its    *)
(* own, which need not have the fields another hook expects.               *)
(*                                                                         *)
(* A read, the computation on it and the temporary file are one step: what *)
(* others do in between they could as well do just after.  So is an append *)
(* to memory.md, which no hook reads, with the step that follows.          *)
(***************************************************************************)
EXTENDS Naturals, Sequences, FiniteSetsExt, SequencesExt

CONSTANTS
  Hooks,      \* processes
  KindsOf,    \* the events each may be started for
  FileOf,     \* the file its tool call is about
  Files,      \* project files
  NoField,    \* a field an object does not have
  Absent,     \* no such file
  Torn,       \* a file that was truncated and not yet written again
  MaxKills,   \* bound: hooks killed (their timeout, or the editor's end)
  MaxFailures \* bound: temporary files that were there and not renamed

Kinds == {"session-start", "pre-read", "post-read", "post-write", "stop"}

Docs == {"session", "ledger", "anatomy"}

\* A session is [id, read, written]: files_read by count, and files_written
\* with its edit_counts, either of which may be missing.  A ledger is
\* [starts, writes, entries]: total_sessions, total_writes, and the sessions.

Counts == [Files -> Nat] \cup {NoField}

Sessions == [id : Hooks \cup {NoField}, read : Counts, written : Counts]

Entries == [id : Hooks \cup {NoField}, writes : Nat]

Ledgers == [starts : Nat, writes : Nat, entries : Seq(Entries) \cup {NoField}]

ASSUME WolfHooksAssumption ==
  /\ KindsOf \in [Hooks -> SUBSET Kinds]
  /\ FileOf \in [Hooks -> Files] /\ IsFiniteSet(Files)
  /\ MaxKills \in Nat /\ MaxFailures \in Nat

\* No file, half of one and a whole one are told from each other, and a field
\* that is there from one that is not.
ASSUME FilesAssumption ==
  /\ Torn # Absent /\ NoField \notin [Files -> Nat]
  /\ \A missing \in {Absent, Torn} :
       /\ missing \notin Sessions /\ missing \notin Ledgers
       /\ \A listed \in SUBSET Files : listed # missing

VARIABLES
  kind,      \* the event each hook is started for
  session,   \* .wolf/hooks/_session.json
  ledger,    \* .wolf/token-ledger.json
  anatomy,   \* .wolf/anatomy.md: the files it lists
  memory,    \* .wolf/memory.md: the hooks that have a line in it
  tmps,      \* the temporary files of writes that have not been renamed
  pc,        \* where each hook is
  write,     \* the write a hook is at: file, value, and where it goes on
  copy,      \* the session a stop hook has read
  kills,
  failures,  \* temporary files that were there and not renamed
  cut,       \* (history) the documents that a write in place has left other
             \* than it should, the session since it was last begun afresh
  since,     \* (history) the last hook that put a fresh session in place,
             \* and those that began after it
  overlapped \* (history) whether a hook has begun while another ran

files == <<session, ledger, anatomy>>
vars == <<session, ledger, anatomy, memory, tmps, pc, write, copy, kills, failures, cut, since, overlapped, kind>>

Zero == [f \in Files |-> 0]

Total(counts) == FoldFunction(+, 0, counts)

-----------------------------------------------------------------------------
\* Objects.

FreshSession(h) == [id |-> h, read |-> Zero, written |-> Zero]

\* readJSON of _session.json: each hook has a fallback with the fields it uses.
ReadSession(reader) ==
  IF session \notin {Absent, Torn} THEN session
  ELSE CASE reader \in {"pre-read", "post-read"} -> [id |-> NoField, read |-> Zero, written |-> NoField]
         [] reader = "post-write" -> [id |-> NoField, read |-> NoField, written |-> Zero]
         [] reader = "stop" -> [id |-> NoField, read |-> Zero, written |-> Zero]

\* Mutant of ReadLedger: the fallback of stop has no total_sessions.
ReadLedgerPartial(reader) ==
  IF ledger \notin {Absent, Torn} THEN ledger
  ELSE [starts |-> IF reader = "stop" THEN NoField ELSE 0, writes |-> 0,
        entries |-> IF reader = "stop" THEN <<>> ELSE NoField]

\* readJSON of token-ledger.json: the fallback of session-start has no sessions.
ReadLedger(reader) ==
  IF ledger \notin {Absent, Torn} THEN ledger
  ELSE [starts |-> 0, writes |-> 0, entries |-> IF reader = "stop" THEN <<>> ELSE NoField]

ReadAnatomy == IF anatomy \in {Absent, Torn} THEN {} ELSE anatomy

-----------------------------------------------------------------------------
Running(h) == pc[h] \notin {"idle", "done", "threw", "killed"}

\* A project that OpenWolf has initialised, before its first session or after
\* one of an earlier day in which nothing happened.
Init ==
  /\ kind \in {k \in [Hooks -> Kinds] : \A h \in Hooks : k[h] \in KindsOf[h]}
  /\ session \in {Absent, [id |-> NoField, read |-> Zero, written |-> Zero]}
  /\ ledger = [starts |-> 0, writes |-> 0, entries |-> <<>>]
  /\ anatomy = {}
  /\ memory = {}
  /\ tmps = {}
  /\ pc = [h \in Hooks |-> "idle"]
  /\ write = [h \in Hooks |-> NoField]
  /\ copy = [h \in Hooks |-> NoField]
  /\ kills = 0
  /\ failures = 0
  /\ cut = {}
  /\ since = {}
  /\ overlapped = FALSE

\* Put v on disk as document doc.
Store(doc, v) ==
  /\ session' = (IF doc = "session" THEN v ELSE session)
  /\ ledger' = (IF doc = "ledger" THEN v ELSE ledger)
  /\ anatomy' = (IF doc = "anatomy" THEN v ELSE anatomy)

Goto(h, label) == pc' = [pc EXCEPT ![h] = label]

Writing(h, doc, v, next) ==
  write' = [write EXCEPT ![h] = [doc |-> doc, value |-> v, next |-> next]]

\* writeJSON, first half: the temporary file is written.
BeginWrite(h, doc, v, next) ==
  /\ Writing(h, doc, v, next)
  /\ tmps' = tmps \cup {[by |-> h, doc |-> doc]}
  /\ Goto(h, "rename")
  /\ UNCHANGED files

Tmp(h) == [by |-> h, doc |-> write[h].doc]

OnDisk(doc) == CASE doc = "session" -> session [] doc = "ledger" -> ledger [] doc = "anatomy" -> anatomy

\* A write ends, with v on disk.  A session-start has begun a session if that
\* is the fresh one.
EndWrite(h, v) ==
  LET doc == write[h].doc
      begun == v = write[h].value /\ doc = "session" /\ kind[h] = "session-start"
  IN  /\ Store(doc, v)
      /\ tmps' = tmps \ {Tmp(h)}
      /\ Goto(h, write[h].next)
      /\ write' = [write EXCEPT ![h] = NoField]
      /\ since' = (IF begun THEN {h} ELSE since)
      /\ cut' = (IF v # write[h].value THEN cut \cup {doc}
                 ELSE IF begun THEN cut \ {doc} ELSE cut)

\* writeJSON, second half: renameSync.
Rename(h) ==
  /\ pc[h] = "rename" /\ Tmp(h) \in tmps
  /\ EndWrite(h, write[h].value)
  /\ UNCHANGED <<memory, copy, kills, failures, overlapped, kind>>

\* The temporary file is gone, or could not be written or renamed: the target is
\* opened for writing, which truncates it, or cannot be opened either ...
RenameFails(h) ==
  /\ pc[h] = "rename"
  /\ \/ Tmp(h) \notin tmps /\ failures' = failures
     \/ Tmp(h) \in tmps /\ failures < MaxFailures /\ failures' = failures + 1
  /\ \/ /\ Store(write[h].doc, Torn) /\ Goto(h, "rewrite")
        /\ UNCHANGED <<tmps, write, cut, since>>
     \/ EndWrite(h, OnDisk(write[h].doc))
  /\ UNCHANGED <<memory, copy, kills, overlapped, kind>>

\* ... and written.  A failure is swallowed, and another hook may have replaced
\* the file since, or write it as well: part of a listing is one, part of an
\* object is none.
Rewrite(h) ==
  /\ pc[h] = "rewrite"
  /\ LET doc == write[h].doc
         parts == IF doc = "anatomy" THEN SUBSET write[h].value ELSE {}
     IN  \E v \in {write[h].value, OnDisk(doc), Torn} \cup parts : EndWrite(h, v)
  /\ UNCHANGED <<memory, copy, kills, failures, overlapped, kind>>

\* The process ends without a write: main().catch, or a caught error.
Quit(h, label) == Goto(h, label) /\ UNCHANGED <<files, tmps, write>>

-----------------------------------------------------------------------------
\* The editor starts a hook.
Start(h) ==
  /\ pc[h] = "idle"
  /\ Goto(h, CASE kind[h] = "session-start" -> "sweep"
               [] kind[h] \in {"pre-read", "post-read"} -> "look"
               [] kind[h] = "post-write" -> "list"
               [] kind[h] = "stop" -> "sum")
  /\ since' = IF kind[h] = "session-start" THEN since ELSE since \cup {h}
  /\ overlapped' = (overlapped \/ \E g \in Hooks : Running(g))
  /\ UNCHANGED <<files, memory, tmps, write, copy, kills, failures, cut, kind>>

\* Mutant of Sweep: the temporary files of _session.json are swept as well.
SweepEverywhere(h) ==
  /\ pc[h] = "sweep"
  /\ tmps' = {}
  /\ Goto(h, "fresh")
  /\ UNCHANGED <<files, memory, write, copy, kills, failures, cut, since, overlapped, kind>>

\* session-start: delete the .tmp files of .wolf, which are not those of
\* .wolf/hooks/_session.json.
Sweep(h) ==
  /\ pc[h] = "sweep"
  /\ tmps' = {t \in tmps : t.doc = "session"}
  /\ Goto(h, "fresh")
  /\ UNCHANGED <<files, memory, write, copy, kills, failures, cut, since, overlapped, kind>>

\* session-start: a fresh _session.json.
Fresh(h) ==
  /\ pc[h] = "fresh"
  /\ BeginWrite(h, "session", FreshSession(h), "count")
  /\ UNCHANGED <<memory, copy, kills, failures, cut, since, overlapped, kind>>

\* session-start: the header of memory.md, total_sessions++.
CountSession(h) ==
  /\ pc[h] = "count"
  /\ memory' = memory \cup {h}
  /\ BeginWrite(h, "ledger", [ReadLedger("session-start") EXCEPT !.starts = @ + 1], "done")
  /\ UNCHANGED <<copy, kills, failures, cut, since, overlapped, kind>>

\* A hook saves the session with f read n times, or cannot.
SaveReads(h, s, n) ==
  \/ s.read = NoField /\ Quit(h, "threw")
  \/ s.read # NoField /\ BeginWrite(h, "session", [s EXCEPT !.read[FileOf[h]] = n], "done")

\* pre-read counts the read.
PreRead(h) ==
  /\ pc[h] = "look" /\ kind[h] = "pre-read"
  /\ LET s == ReadSession("pre-read") IN SaveReads(h, s, s.read[FileOf[h]] + 1)
  /\ UNCHANGED <<memory, copy, kills, failures, cut, since, overlapped, kind>>

\* post-read makes sure that it is there.
PostRead(h) ==
  /\ pc[h] = "look" /\ kind[h] = "post-read"
  /\ LET s == ReadSession("post-read")
     IN  SaveReads(h, s, IF s.read[FileOf[h]] = 0 THEN 1 ELSE s.read[FileOf[h]])
  /\ UNCHANGED <<memory, copy, kills, failures, cut, since, overlapped, kind>>

\* post-write: the entry of anatomy.md.
ListFile(h) ==
  /\ pc[h] = "list"
  /\ BeginWrite(h, "anatomy", ReadAnatomy \cup {FileOf[h]}, "track")
  /\ UNCHANGED <<memory, copy, kills, failures, cut, since, overlapped, kind>>

\* Mutant of TrackWrite: the entry and the count of edits both count it.
TrackWriteTwice(h) ==
  /\ pc[h] = "track"
  /\ memory' = memory \cup {h}
  /\ LET s == ReadSession("post-write")
     IN  \/ s.written = NoField /\ Quit(h, "done")
         \/ /\ s.written # NoField
            /\ BeginWrite(h, "session", [s EXCEPT !.written[FileOf[h]] = @ + 2], "done")
  /\ UNCHANGED <<copy, kills, failures, cut, since, overlapped, kind>>

\* Mutant of TrackWrite: the session is not read, a fresh one is changed.
TrackWriteAfresh(h) ==
  /\ pc[h] = "track"
  /\ memory' = memory \cup {h}
  /\ BeginWrite(h, "session", [FreshSession(h) EXCEPT !.written[FileOf[h]] = 1], "done")
  /\ UNCHANGED <<copy, kills, failures, cut, since, overlapped, kind>>

\* post-write: the line of memory.md, files_written and edit_counts.  A
\* session without files_written is left as it is.
TrackWrite(h) ==
  /\ pc[h] = "track"
  /\ memory' = memory \cup {h}
  /\ LET s == ReadSession("post-write")
     IN  \/ s.written = NoField /\ Quit(h, "done")
         \/ /\ s.written # NoField
            /\ BeginWrite(h, "session", [s EXCEPT !.written[FileOf[h]] = @ + 1], "done")
  /\ UNCHANGED <<copy, kills, failures, cut, since, overlapped, kind>>

\* stop: read the session; one in which nothing happened is only saved.
Sum(h) ==
  /\ pc[h] = "sum"
  /\ LET s == ReadSession("stop")
     IN  /\ copy' = [copy EXCEPT ![h] = s]
         /\ \/ NoField \in {s.read, s.written} /\ Quit(h, "threw")
            \/ /\ s.read = Zero /\ s.written = Zero
               /\ BeginWrite(h, "session", s, "done")
            \/ /\ NoField \notin {s.read, s.written}
               /\ s.read # Zero \/ s.written # Zero
               /\ Quit(h, "enter")
  /\ UNCHANGED <<memory, kills, failures, cut, since, overlapped, kind>>

\* Mutant of LedgerWith: the entry takes the place of the last one.
LedgerReplacing(l, s) ==
  [l EXCEPT !.entries = Append(IF @ = <<>> THEN @ ELSE Front(@), [id |-> s.id, writes |-> Total(s.written)]),
            !.writes = @ + Total(s.written)]

\* stop: the entry of the whole session, and the lifetime totals.
LedgerWith(l, s) ==
  [l EXCEPT !.entries = Append(@, [id |-> s.id, writes |-> Total(s.written)]),
            !.writes = @ + Total(s.written)]

\* stop: a ledger that session-start has made up cannot take an entry.
EnterSession(h) ==
  /\ pc[h] = "enter"
  /\ LET l == ReadLedger("stop")
     IN  \/ l.entries = NoField /\ Quit(h, "threw")
         \/ /\ l.entries # NoField
            /\ BeginWrite(h, "ledger", LedgerWith(l, copy[h]), "save")
  /\ UNCHANGED <<memory, copy, kills, failures, cut, since, overlapped, kind>>

\* stop: the summary line of memory.md, then the session as it was read.
SaveSession(h) ==
  /\ pc[h] = "save"
  /\ memory' = IF copy[h].written = Zero THEN memory ELSE memory \cup {h}
  /\ BeginWrite(h, "session", copy[h], "done")
  /\ UNCHANGED <<copy, kills, failures, cut, since, overlapped, kind>>

\* The editor gives up on a hook, or ends itself.
Kill(h) ==
  /\ Running(h) /\ kills < MaxKills
  /\ kills' = kills + 1
  /\ cut' = (IF pc[h] = "rewrite" THEN cut \cup {write[h].doc} ELSE cut)
  /\ Goto(h, "killed")
  /\ UNCHANGED <<files, memory, tmps, write, copy, failures, since, overlapped, kind>>

Next == \E h \in Hooks :
          \/ Start(h) \/ Rename(h) \/ RenameFails(h) \/ Rewrite(h)
          \/ Sweep(h) \/ Fresh(h) \/ CountSession(h)
          \/ PreRead(h) \/ PostRead(h) \/ ListFile(h) \/ TrackWrite(h)
          \/ Sum(h) \/ EnterSession(h) \/ SaveSession(h)
          \/ Kill(h)

Spec == Init /\ [][Next]_vars

-----------------------------------------------------------------------------
PCs == {"idle", "sweep", "fresh", "count", "look", "list", "track", "sum", "enter",
        "save", "rename", "rewrite", "done", "threw", "killed"}

\* Every file holds what its readers expect, or nothing, or half of it.
TypeOK ==
  /\ kind \in [Hooks -> Kinds]
  /\ session \in {Absent, Torn} \cup Sessions
  /\ ledger \in {Absent, Torn} \cup Ledgers
  /\ anatomy \in {Absent, Torn} \cup SUBSET Files
  /\ memory \subseteq Hooks
  /\ tmps \subseteq [by : Hooks, doc : Docs]
  /\ pc \in [Hooks -> PCs]
  /\ kills \in 0..MaxKills /\ failures \in 0..MaxFailures /\ cut \subseteq Docs

\* The project files written that memory.md has a line for.
Logged(f) == {h \in memory : kind[h] = "post-write" /\ FileOf[h] = f}

\* However many updates are lost, the session never counts a write to a file
\* that memory.md has no line for: a lost update is not made up for by another
\* one that counts twice (post-write.js 105-140).
TrackerWithinLog ==
  session \in {Absent, Torn} \/ session.written = NoField
  \/ \A f \in Files : session.written[f] <= Cardinality(Logged(f))

\* The lifetime total of the ledger is the sum of its entries, also after lost
\* updates, truncation and made-up ledgers (stop.js 83-96).
TotalsMatchEntries ==
  ledger \in {Absent, Torn} \/ ledger.entries = NoField
  \/ ledger.writes = FoldLeft(LAMBDA n, e : n + e.writes, 0, ledger.entries)

-----------------------------------------------------------------------------
\* As long as hooks have run one after the other, killed or not.

Quiet == ~\E h \in Hooks : Running(h)

Of(event, f) == {h \in Hooks : kind[h] = event /\ FileOf[h] = f}

Ended(S) == {h \in S : pc[h] = "done"}

Begins(S) == {h \in S : pc[h] # "idle"}

Between(n, S) == Cardinality(Ended(S)) <= n /\ n <= Cardinality(Begins(S))

Rewriting(doc) == \E h \in Hooks : pc[h] = "rewrite" /\ write[h].doc = doc

\* A file is half written only while a hook writes it in place, or after one was
\* cut short at that; and until a rename fails of a temporary file that is there,
\* no file is as long as hooks have not overlapped, and the session is never,
\* however they overlap, sweep and are killed: none of them deletes the temporary
\* files that it is written through (shared.js 31-46, session-start.js 9-16).
NeverTorn ==
  /\ \A doc \in Docs : OnDisk(doc) = Torn => doc \in cut \/ Rewriting(doc)
  /\ failures = 0 => session # Torn /\ (~overlapped => Torn \notin {ledger, anatomy})

\* The session counts what was read of f and written to it since it began.
SessionIsExact(f) ==
  LET pre == Of("pre-read", f) \cap since
      reads == pre \cup (Of("post-read", f) \cap since)
  IN  /\ Between(session.written[f], Of("post-write", f) \cap since)
      /\ Cardinality(Ended(pre)) <= session.read[f]
      /\ session.read[f] <= Cardinality(Begins(pre)) + 1
      /\ Ended(reads) # {} => session.read[f] > 0
      /\ session.read[f] > 0 => Begins(reads) # {}

\* When no hook runs, the session counts each read and write since it began
\* that ran to its end, and none that did not begin; so do the ledger for the
\* sessions and anatomy.md for the files (the read-modify-write of every hook).
\* It is so of each document that no write in place was cut short on, whatever
\* renames fail: one that is written again in place is as good as renamed.
SerialIsExact ==
  Quiet /\ ~overlapped =>
    /\ "session" \notin cut /\ (\E h \in since : kind[h] = "session-start") =>
         \A f \in Files : SessionIsExact(f)
    /\ "ledger" \notin cut => Between(ledger.starts, {h \in Hooks : kind[h] = "session-start"})
    /\ "anatomy" \notin cut =>
         \A f \in Files : /\ Ended(Of("post-write", f)) # {} => f \in anatomy
                          /\ f \in anatomy => Begins(Of("post-write", f)) # {}
=============================================================================
