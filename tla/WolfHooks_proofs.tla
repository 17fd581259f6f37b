--------------------------- MODULE WolfHooks_proofs ---------------------------
(***************************************************************************)
(* What holds of the files of the hooks for any hooks, whatever they are   *)
(* started for, however they overlap, whichever of them are killed and     *)
(* whichever renames and writes in place fail.                             *)
(***************************************************************************)
EXTENDS WolfHooks, FoldLemmas

\* A session that counts no write that memory.md has no line for.
Fits(s) ==
  /\ s \in Sessions
  /\ s.written = NoField \/ \A f \in Files : s.written[f] <= Cardinality(Logged(f))

Writes(h) == pc[h] \in {"rename", "rewrite"}

\* A hook is at one of the labels, or goes on there after its write.
Heads(h, labels) == pc[h] \in labels \/ (Writes(h) /\ write[h].next \in labels)

\* A session that is being written fits.
WriteFits(h) == Writes(h) /\ write[h].doc = "session" => Fits(write[h].value)

\* So does the session a stop keeps; a post-write logs its write once.
HookOK(h) ==
  /\ WriteFits(h)
  /\ Writes(h) => write[h].next \in {"count", "done", "track", "save"}
  /\ Heads(h, {"enter", "save"}) => Fits(copy[h])
  /\ Heads(h, {"idle", "list", "track"}) => h \notin memory
  /\ Heads(h, {"list", "track"}) => kind[h] = "post-write"

Shared ==
  /\ kind \in [Hooks -> Kinds] /\ pc \in [Hooks -> PCs]
  /\ write = [h \in Hooks |-> write[h]] /\ copy = [h \in Hooks |-> copy[h]]
  /\ memory \subseteq Hooks /\ IsFiniteSet(memory)
  /\ session \in {Absent, Torn} \/ Fits(session)

\* The inductive invariant.
SessionInv == Shared /\ \A h \in Hooks : HookOK(h)

-----------------------------------------------------------------------------
\* The log of a file counts.
LEMMA LoggedCounts ==
  ASSUME IsFiniteSet(memory), NEW f
  PROVE  IsFiniteSet(Logged(f)) /\ Cardinality(Logged(f)) \in Nat
  <1>1. Logged(f) \subseteq memory
    BY DEF Logged
  <1> QED
    BY <1>1, FS_Subset, FS_CardinalityType

\* What fits goes on fitting while memory.md grows.
LEMMA FitsOn ==
  ASSUME IsFiniteSet(memory), IsFiniteSet(memory'), memory \subseteq memory', kind' = kind, NEW s,
         Fits(s)
  PROVE  Fits(s)'
  <1>1. ASSUME NEW f \in Files PROVE Cardinality(Logged(f)) <= Cardinality(Logged(f)')
    <2>1. Logged(f) \subseteq Logged(f)'
      BY DEF Logged
    <2>2. IsFiniteSet(Logged(f)')
      BY FS_Subset DEF Logged
    <2> QED
      BY <2>1, <2>2, FS_Subset
  <1>2. ASSUME NEW f \in Files
        PROVE  Cardinality(Logged(f)) \in Nat /\ Cardinality(Logged(f)') \in Nat
    <2>1. IsFiniteSet(Logged(f)) /\ IsFiniteSet(Logged(f)')
      BY FS_Subset DEF Logged
    <2> QED
      BY <2>1, FS_CardinalityType
  <1>3. s \in Sessions
    BY DEF Fits
  <1>4. ASSUME s.written # NoField, NEW f \in Files
        PROVE  s.written[f] <= Cardinality(Logged(f)')
    <2>1. s.written[f] \in Nat /\ s.written[f] <= Cardinality(Logged(f))
      BY <1>3, <1>4 DEF Fits, Sessions, Counts
    <2> QED
      BY <1>1, <1>2, <2>1
  <1> QED
    BY <1>3, <1>4 DEF Fits

\* What a hook reads of the session fits, be it the fallback.
LEMMA ReadFits ==
  ASSUME SessionInv, NEW reader \in {"pre-read", "post-read", "post-write", "stop"}
  PROVE  Fits(ReadSession(reader))
  <1>1. \A f \in Files : Cardinality(Logged(f)) \in Nat
    BY LoggedCounts DEF SessionInv, Shared
  <1>2. Zero \in [Files -> Nat] /\ \A f \in Files : Zero[f] = 0
    BY DEF Zero
  <1>3. CASE session \notin {Absent, Torn}
    BY <1>3 DEF SessionInv, Shared, ReadSession
  <1>4. CASE session \in {Absent, Torn}
    <2>1. \/ ReadSession(reader) = [id |-> NoField, read |-> Zero, written |-> NoField]
          \/ ReadSession(reader) = [id |-> NoField, read |-> NoField, written |-> Zero]
          \/ ReadSession(reader) = [id |-> NoField, read |-> Zero, written |-> Zero]
      BY <1>4 DEF ReadSession
    <2> QED
      BY <1>1, <1>2, <2>1 DEF Fits, Sessions, Counts
  <1> QED
    BY <1>3, <1>4

\* A step of h: the state of others is left alone; memory.md gets at most a line
\* of h.
Moves(h) ==
  /\ kind' = kind
  /\ pc' \in [Hooks -> PCs] /\ \A g \in Hooks \ {h} : pc'[g] = pc[g]
  /\ write' = [g \in Hooks |-> write'[g]] /\ \A g \in Hooks \ {h} : write'[g] = write[g]
  /\ copy' = [g \in Hooks |-> copy'[g]] /\ \A g \in Hooks \ {h} : copy'[g] = copy[g]
  /\ memory' \in {memory, memory \cup {h}}

\* Such a step keeps the invariant if it does for the session and for h.
LEMMA MovesInv ==
  ASSUME SessionInv, NEW h \in Hooks, Moves(h), HookOK(h)',
         session' \in {session, Torn} \/ Fits(session)'
  PROVE  SessionInv'
  <1>1. /\ memory \subseteq memory' /\ memory' \subseteq Hooks
        /\ IsFiniteSet(memory) /\ IsFiniteSet(memory')
    BY FS_AddElement DEF SessionInv, Shared, Moves
  <1>2. \A s : Fits(s) => Fits(s)'
    BY <1>1, FitsOn DEF Moves
  <1>3. session' \in {Absent, Torn} \/ Fits(session)'
    BY <1>2 DEF SessionInv, Shared, Fits
  <1>4. ASSUME NEW g \in Hooks \ {h} PROVE HookOK(g)'
    <2>1. pc'[g] = pc[g] /\ write'[g] = write[g] /\ copy'[g] = copy[g] /\ kind'[g] = kind[g]
      BY DEF Moves
    <2>2. HookOK(g)
      BY DEF SessionInv
    <2>3. WriteFits(g)'
      <3> SUFFICES ASSUME Writes(g)', write'[g].doc = "session" PROVE Fits(write[g].value)'
        BY <2>1 DEF WriteFits, Fits
      <3>1. Fits(write[g].value)
        BY <2>1, <2>2 DEF HookOK, WriteFits, Writes
      <3> QED
        BY <1>2, <2>1, <3>1 DEF Fits
    <2>4. Heads(g, {"enter", "save"})' => Fits(copy[g])'
      BY <1>2, <2>1, <2>2 DEF HookOK, Heads, Writes, Fits
    <2>5. g \in memory' <=> g \in memory
      BY DEF Moves
    <2> QED
      BY <2>1, <2>2, <2>3, <2>4, <2>5 DEF HookOK, Heads, Writes
  <1> QED
    BY <1>1, <1>3, <1>4 DEF SessionInv, Shared, Moves

-----------------------------------------------------------------------------
\* A hook writes its temporary file: of the session, one that fits.
LEMMA BeginWriteInv ==
  ASSUME SessionInv, NEW h \in Hooks, NEW doc, NEW v, NEW next \in {"count", "done", "track", "save"},
         BeginWrite(h, doc, v, next),
         memory' \in {memory, memory \cup {h}}, kind' = kind,
         copy' = [g \in Hooks |-> copy'[g]], \A g \in Hooks \ {h} : copy'[g] = copy[g],
         doc = "session" => Fits(v)',
         next = "save" => Fits(copy[h])',
         next = "track" => h \notin memory' /\ kind[h] = "post-write"
  PROVE  SessionInv'
  <1>1. /\ pc' = [pc EXCEPT ![h] = "rename"]
        /\ write' = [write EXCEPT ![h] = [doc |-> doc, value |-> v, next |-> next]]
        /\ session' = session
    BY DEF BeginWrite, Goto, Writing, files
  <1>2. pc'[h] = "rename" /\ write'[h] = [doc |-> doc, value |-> v, next |-> next]
    BY <1>1 DEF SessionInv, Shared
  <1>3. Moves(h)
    BY <1>1 DEF Moves, SessionInv, Shared, PCs
  <1>4. WriteFits(h)'
    BY <1>1, <1>2 DEF WriteFits, Fits
  <1>5. HookOK(h)'
    BY <1>2, <1>4 DEF HookOK, Heads, Writes, Fits
  <1> QED
    BY <1>1, <1>3, <1>5, MovesInv

\* A hook goes on without a write, or ends.
LEMMA GotoInv ==
  ASSUME SessionInv, NEW h \in Hooks, NEW label \in PCs \ {"rename", "rewrite"}, Goto(h, label),
         UNCHANGED <<session, write, kind>>, memory' \in {memory, memory \cup {h}},
         copy' = [g \in Hooks |-> copy'[g]], \A g \in Hooks \ {h} : copy'[g] = copy[g],
         label \in {"enter", "save"} => Fits(copy[h])',
         label \in {"idle", "list", "track"} => h \notin memory',
         label \in {"list", "track"} => kind[h] = "post-write"
  PROVE  SessionInv'
  <1>1. pc' = [pc EXCEPT ![h] = label] /\ pc'[h] = label
    BY DEF Goto, SessionInv, Shared
  <1>2. Moves(h)
    BY <1>1 DEF Moves, SessionInv, Shared
  <1>3. WriteFits(h)'
    BY <1>1 DEF WriteFits, Writes
  <1>4. Heads(h, {"enter", "save"})' => Fits(copy[h])'
    BY <1>1 DEF Heads, Writes, Fits
  <1>5. HookOK(h)'
    BY <1>1, <1>3, <1>4 DEF HookOK, Heads, Writes
  <1> QED
    BY <1>2, <1>5, MovesInv

\* The second half of a write truncates the document ...
Tears(h) == Store(write[h].doc, Torn) /\ Goto(h, "rewrite") /\ UNCHANGED <<tmps, write, cut, since>>

\* ... or ends, with what was prepared, what was there, half of it or part of it.
Outcome(h, v) ==
  \/ v = write[h].value \/ v = OnDisk(write[h].doc) \/ v = Torn
  \/ write[h].doc = "anatomy" /\ v \in SUBSET write[h].value

\* It does no more than that.
LEMMA SecondHalf ==
  ASSUME NEW h \in Hooks, Rename(h) \/ RenameFails(h) \/ Rewrite(h)
  PROVE  /\ Writes(h) /\ UNCHANGED <<memory, copy, kills, overlapped, kind>>
         /\ failures' = failures \/ (failures < MaxFailures /\ failures' = failures + 1)
         /\ Tears(h) \/ \E v : Outcome(h, v) /\ EndWrite(h, v)
  <1>1. CASE Rename(h)
    BY <1>1 DEF Rename, Writes, Outcome
  <1>2. CASE RenameFails(h)
    <2>1. Tears(h) \/ EndWrite(h, OnDisk(write[h].doc))
      BY <1>2 DEF RenameFails, Tears
    <2>2. Outcome(h, OnDisk(write[h].doc))
      BY DEF Outcome
    <2> QED
      BY <1>2, <2>1, <2>2 DEF RenameFails, Writes
  <1>3. CASE Rewrite(h)
    <2>1. PICK v : /\ v \in {write[h].value, OnDisk(write[h].doc), Torn}
                               \cup (IF write[h].doc = "anatomy" THEN SUBSET write[h].value ELSE {})
                   /\ EndWrite(h, v)
      BY <1>3 DEF Rewrite
    <2>2. Outcome(h, v)
      BY <2>1 DEF Outcome
    <2> QED
      BY <1>3, <2>1, <2>2 DEF Rewrite, Writes
  <1> QED
    BY <1>1, <1>2, <1>3

\* It puts in place what was prepared, or leaves or tears what is there.
LEMMA EndWriteInv ==
  ASSUME SessionInv, NEW h \in Hooks, Rename(h) \/ RenameFails(h) \/ Rewrite(h)
  PROVE  SessionInv'
  <1>1. /\ HookOK(h) /\ Writes(h) /\ UNCHANGED <<memory, copy, kind>>
        /\ Tears(h) \/ \E v : Outcome(h, v) /\ EndWrite(h, v)
    BY SecondHalf DEF SessionInv
  <1>2. CASE Tears(h)
    <2>1. /\ session' \in {session, Torn} /\ pc' = [pc EXCEPT ![h] = "rewrite"] /\ pc'[h] = "rewrite"
          /\ write' = write
      BY <1>2 DEF Tears, Store, Goto, SessionInv, Shared
    <2>2. Moves(h)
      BY <1>1, <2>1 DEF Moves, SessionInv, Shared, PCs
    <2>3. HookOK(h)'
      BY <1>1, <2>1 DEF HookOK, WriteFits, Heads, Writes, Fits, Logged
    <2> QED
      BY <2>1, <2>2, <2>3, MovesInv
  <1>3. CASE \E v : Outcome(h, v) /\ EndWrite(h, v)
    <2>1. PICK v : Outcome(h, v) /\ EndWrite(h, v)
      BY <1>3
    <2>2. /\ session' = (IF write[h].doc = "session" THEN v ELSE session)
          /\ pc' = [pc EXCEPT ![h] = write[h].next]
          /\ write' = [write EXCEPT ![h] = NoField]
      BY <2>1 DEF EndWrite, Store, Goto
    <2>3. session' \in {session, Torn} \/ Fits(session)'
      BY <1>1, <2>1, <2>2 DEF HookOK, WriteFits, Fits, Logged, Outcome, OnDisk
    <2>4. write[h].next \in {"count", "done", "track", "save"}
      BY <1>1 DEF HookOK
    <2>5. Moves(h)
      BY <1>1, <2>2, <2>4 DEF Moves, SessionInv, Shared, PCs
    <2>6. pc'[h] = write[h].next
      BY <2>2 DEF SessionInv, Shared
    <2>7. HookOK(h)'
      BY <1>1, <2>2, <2>4, <2>6 DEF HookOK, WriteFits, Heads, Writes, Fits, Logged
    <2> QED
      BY <2>3, <2>5, <2>7, MovesInv
  <1> QED
    BY <1>1, <1>2, <1>3

-----------------------------------------------------------------------------
\* The session to be saved by pre-read and post-read fits.
LEMMA SaveReadsInv ==
  ASSUME SessionInv, NEW h \in Hooks, NEW s, NEW n \in Nat, Fits(s), SaveReads(h, s, n),
         UNCHANGED <<memory, copy, kind>>
  PROVE  SessionInv'
  <1>1. CASE Quit(h, "threw")
    BY <1>1, GotoInv DEF Quit, files, SessionInv, Shared, PCs
  <1>2. CASE /\ s.read # NoField
             /\ BeginWrite(h, "session", [s EXCEPT !.read[FileOf[h]] = n], "done")
    <2> DEFINE v == [s EXCEPT !.read[FileOf[h]] = n]
    <2>1. s \in Sessions /\ s.read \in [Files -> Nat]
      BY <1>2 DEF Fits, Sessions, Counts
    <2>2. v \in Sessions /\ v.written = s.written
      BY <2>1 DEF Sessions, Counts
    <2>3. Fits(v)'
      BY <2>2 DEF Fits, Logged
    <2> HIDE DEF v
    <2>4. BeginWrite(h, "session", v, "done")
      BY <1>2 DEF v
    <2> QED
      BY <2>3, <2>4, BeginWriteInv DEF SessionInv, Shared
  <1> QED
    BY <1>1, <1>2 DEF SaveReads

\* A read is counted over what was read of the session, which fits.
LEMMA ReadingInv ==
  ASSUME SessionInv, NEW h \in Hooks, PreRead(h) \/ PostRead(h)
  PROVE  SessionInv'
  <1>1. FileOf[h] \in Files
    BY WolfHooksAssumption DEF WolfHooksAssumption
  <1>2. ASSUME NEW reader \in {"pre-read", "post-read"}
        PROVE  /\ Fits(ReadSession(reader))
               /\ ReadSession(reader).read # NoField => ReadSession(reader).read[FileOf[h]] \in Nat
    <2>1. Fits(ReadSession(reader))
      BY ReadFits
    <2> QED
      BY <1>1, <2>1 DEF Fits, Sessions, Counts
  <1>3. ASSUME NEW s, Fits(s), NEW n, SaveReads(h, s, n), s.read # NoField => n \in Nat,
               UNCHANGED <<memory, copy, kind>>
        PROVE  SessionInv'
    <2>1. CASE s.read # NoField
      BY <1>3, <2>1, SaveReadsInv
    <2>2. CASE s.read = NoField
      <3>1. SaveReads(h, s, 0)
        BY <1>3, <2>2 DEF SaveReads
      <3> QED
        BY <1>3, <3>1, SaveReadsInv
    <2> QED
      BY <2>1, <2>2
  <1>4. CASE PreRead(h)
    BY <1>2, <1>3, <1>4 DEF PreRead
  <1>5. CASE PostRead(h)
    BY <1>2, <1>3, <1>5 DEF PostRead
  <1> QED
    BY <1>4, <1>5

\* The line of memory.md comes with the count.
LEMMA TrackWriteInv ==
  ASSUME SessionInv, NEW h \in Hooks, TrackWrite(h)
  PROVE  SessionInv'
  <1>0. PICK s : s = ReadSession("post-write")
    OBVIOUS
  <1> DEFINE file == FileOf[h]
             v == [s EXCEPT !.written[file] = @ + 1]
  <1>1. Fits(s) /\ file \in Files
    BY <1>0, ReadFits, WolfHooksAssumption DEF WolfHooksAssumption
  <1>2. h \notin memory /\ kind[h] = "post-write" /\ pc[h] = "track"
    BY DEF TrackWrite, SessionInv, HookOK, Heads
  <1>3. /\ memory' = memory \cup {h} /\ UNCHANGED <<kind, copy>>
    BY DEF TrackWrite
  <1>4. /\ memory \subseteq memory' /\ IsFiniteSet(memory) /\ IsFiniteSet(memory')
    BY <1>3, FS_AddElement DEF SessionInv, Shared
  <1>5. CASE Quit(h, "done")
    BY <1>3, <1>5, GotoInv DEF Quit, files, SessionInv, Shared, PCs
  <1>6. CASE s.written # NoField /\ BeginWrite(h, "session", v, "done")
    <2>1. s \in Sessions /\ s.written \in [Files -> Nat]
      BY <1>1, <1>6 DEF Fits, Sessions, Counts
    <2>2. /\ v \in Sessions /\ v.written[file] = s.written[file] + 1
          /\ \A f \in Files \ {file} : v.written[f] = s.written[f]
      BY <1>1, <2>1 DEF Sessions, Counts
    <2>3. Cardinality(Logged(file)') = Cardinality(Logged(file)) + 1
      <3>1. Logged(file)' = Logged(file) \cup {h} /\ h \notin Logged(file)
        BY <1>2, <1>3 DEF Logged, SessionInv, Shared
      <3> QED
        BY <1>4, <3>1, LoggedCounts, FS_AddElement
    <2>4. Fits(s)'
      BY <1>1, <1>3, <1>4, FitsOn
    <2>5. ASSUME NEW f \in Files PROVE v.written[f] <= Cardinality(Logged(f)')
      <3>1. CASE f = file
        <4>1. s.written[file] \in Nat /\ s.written[file] <= Cardinality(Logged(file))
          BY <1>1, <1>6, <2>1 DEF Fits
        <4>2. Cardinality(Logged(file)) \in Nat
          BY <1>4, LoggedCounts
        <4> QED
          BY <2>2, <2>3, <3>1, <4>1, <4>2
      <3>2. CASE f # file
        <4>1. s.written[f] <= Cardinality(Logged(f)) /\ s.written[f] \in Nat
          BY <1>1, <1>6, <2>1 DEF Fits
        <4>2. Logged(f) \subseteq Logged(f)' /\ IsFiniteSet(Logged(f)')
          BY <1>3, <1>4, FS_Subset DEF Logged
        <4>3. /\ Cardinality(Logged(f)) <= Cardinality(Logged(f)')
              /\ Cardinality(Logged(f)) \in Nat /\ Cardinality(Logged(f)') \in Nat
          BY <1>4, <4>2, LoggedCounts, FS_Subset, FS_CardinalityType
        <4> QED
          BY <2>2, <3>2, <4>1, <4>3
      <3> QED
        BY <3>1, <3>2
    <2> HIDE DEF v
    <2>6. Fits(v)'
      BY <2>2, <2>5 DEF Fits
    <2> QED
      BY <1>3, <1>6, <2>6, BeginWriteInv DEF SessionInv, Shared
  <1> QED
    BY <1>0, <1>5, <1>6 DEF TrackWrite

\* session-start and the entry of anatomy.md write what fits, or other documents.
LEMMA StartingInv ==
  ASSUME SessionInv, NEW h \in Hooks,
         Start(h) \/ Sweep(h) \/ Fresh(h) \/ CountSession(h) \/ ListFile(h) \/ Kill(h)
  PROVE  SessionInv'
  <1>1. /\ copy = [g \in Hooks |-> copy[g]] /\ HookOK(h)
        /\ pc[h] = "idle" => h \notin memory
        /\ pc[h] = "list" => h \notin memory /\ kind[h] = "post-write"
    BY DEF SessionInv, Shared, HookOK, Heads
  <1>2. CASE Start(h)
    <2>1. /\ UNCHANGED <<session, write, kind, memory, copy, tmps>> /\ h \notin memory
      BY <1>1, <1>2 DEF Start, files
    <2>2. \E label \in {"sweep", "look", "list", "sum"} :
            Goto(h, label) /\ (label = "list" => kind[h] = "post-write")
      <3>1. kind[h] \in Kinds
        BY DEF SessionInv, Shared
      <3> QED
        BY <1>2, <3>1 DEF Start, Kinds
    <2> QED
      BY <1>1, <2>1, <2>2, GotoInv DEF PCs
  <1>3. CASE Sweep(h)
    BY <1>1, <1>3, GotoInv DEF Sweep, files, PCs
  <1>4. CASE Fresh(h)
    <2>1. FreshSession(h) \in Sessions /\ FreshSession(h).written = Zero
      BY DEF FreshSession, Sessions, Counts, Zero
    <2>2. \A f \in Files : Zero[f] = 0 /\ Cardinality(Logged(f)) \in Nat
      BY LoggedCounts DEF SessionInv, Shared, Zero
    <2>3. UNCHANGED <<memory, kind, copy>>
      BY <1>4 DEF Fresh
    <2>4. Fits(FreshSession(h))'
      BY <2>1, <2>2, <2>3 DEF Fits, Logged
    <2> QED
      BY <1>1, <1>4, <2>3, <2>4, BeginWriteInv DEF Fresh
  <1>5. CASE CountSession(h)
    BY <1>1, <1>5, BeginWriteInv DEF CountSession
  <1>6. CASE ListFile(h)
    BY <1>1, <1>6, BeginWriteInv DEF ListFile
  <1>7. CASE Kill(h)
    BY <1>1, <1>7, GotoInv DEF Kill, files, PCs
  <1> QED
    BY <1>2, <1>3, <1>4, <1>5, <1>6, <1>7

\* A stop saves the session that it has read.
LEMMA StopInv ==
  ASSUME SessionInv, NEW h \in Hooks, Sum(h) \/ EnterSession(h) \/ SaveSession(h)
  PROVE  SessionInv'
  <1>1. /\ copy = [g \in Hooks |-> copy[g]] /\ IsFiniteSet(memory)
        /\ pc[h] \in {"enter", "save"} => Fits(copy[h])
    BY DEF SessionInv, Shared, HookOK, Heads
  <1>2. CASE Sum(h)
    <2>1. PICK s : s = ReadSession("stop")
      OBVIOUS
    <2>2. UNCHANGED <<memory, kind>> /\ copy' = [copy EXCEPT ![h] = s] /\ Fits(s)
      BY <1>2, <2>1, ReadFits DEF Sum
    <2>3. copy'[h] = s /\ copy' = [g \in Hooks |-> copy'[g]] /\ Fits(s)'
      BY <1>1, <2>2 DEF Fits, Logged
    <2>4. Fits(copy[h])' /\ \A g \in Hooks \ {h} : copy'[g] = copy[g]
      BY <1>1, <2>2, <2>3 DEF Fits
    <2>5. CASE BeginWrite(h, "session", s, "done")
      BY <2>2, <2>3, <2>4, <2>5, BeginWriteInv
    <2>6. CASE Quit(h, "threw") \/ Quit(h, "enter")
      BY <2>2, <2>3, <2>4, <2>6, GotoInv DEF Quit, files, PCs
    <2> QED
      BY <1>2, <2>1, <2>5, <2>6 DEF Sum
  <1>3. CASE EnterSession(h)
    <2>1. UNCHANGED <<memory, kind, copy>> /\ pc[h] = "enter"
      BY <1>3 DEF EnterSession
    <2>2. Fits(copy[h])'
      BY <1>1, <2>1 DEF Fits, Logged
    <2>3. CASE Quit(h, "threw")
      BY <1>1, <2>1, <2>3, GotoInv DEF Quit, files, PCs
    <2>4. CASE \E l : BeginWrite(h, "ledger", l, "save")
      BY <1>1, <2>1, <2>2, <2>4, BeginWriteInv
    <2> QED
      BY <1>3, <2>3, <2>4 DEF EnterSession
  <1>4. CASE SaveSession(h)
    <2>1. PICK s : s = copy[h]
      OBVIOUS
    <2>2. /\ memory' \in {memory, memory \cup {h}} /\ UNCHANGED <<kind, copy>>
          /\ BeginWrite(h, "session", s, "done") /\ Fits(s)
      BY <1>1, <1>4, <2>1 DEF SaveSession
    <2>3. /\ memory \subseteq memory' /\ IsFiniteSet(memory')
      BY <1>1, <2>2, FS_AddElement
    <2>4. Fits(s)'
      BY <1>1, <2>2, <2>3, FitsOn
    <2> QED
      BY <1>1, <2>2, <2>4, BeginWriteInv
  <1> QED
    BY <1>2, <1>3, <1>4

-----------------------------------------------------------------------------
\* Nothing is logged, and nothing counted, at first.
LEMMA SessionInit == Init => SessionInv
  <1> SUFFICES ASSUME Init PROVE SessionInv
    OBVIOUS
  <1>1. IsFiniteSet(memory) /\ memory = {}
    BY FS_EmptySet DEF Init
  <1>2. \A f \in Files : Zero[f] = 0 /\ Cardinality(Logged(f)) \in Nat
    BY <1>1, LoggedCounts DEF Zero
  <1>3. session = Absent \/ Fits(session)
    BY <1>2 DEF Init, Fits, Sessions, Counts, Zero
  <1>4. Shared
    BY <1>1, <1>3 DEF Init, Shared, PCs
  <1>5. \A h \in Hooks : HookOK(h)
    BY <1>1 DEF Init, HookOK, WriteFits, Heads, Writes
  <1> QED
    BY <1>4, <1>5 DEF SessionInv

\* Every step of every hook keeps the invariant.
LEMMA SessionNext == SessionInv /\ [Next]_vars => SessionInv'
  <1> SUFFICES ASSUME SessionInv, [Next]_vars PROVE SessionInv'
    OBVIOUS
  <1>1. CASE UNCHANGED vars
    BY <1>1 DEF vars, SessionInv, Shared, HookOK, WriteFits, Heads, Writes, Fits, Logged
  <1>2. CASE Next
    BY <1>2, EndWriteInv, ReadingInv, TrackWriteInv, StartingInv, StopInv DEF Next
  <1> QED
    BY <1>1, <1>2

\* However hooks overlap, lose updates or are killed: what is or will be in the
\* session file fits memory.md.
THEOREM SessionInvariance == Spec => []SessionInv
  BY SessionInit, SessionNext, PTL DEF Spec

\* A lost update of the session is never made up for by one that counts twice.
THEOREM CountsAreLogged == Spec => []TrackerWithinLog
  <1>1. SessionInv => TrackerWithinLog
    BY DEF SessionInv, Shared, Fits, TrackerWithinLog
  <1> QED
    BY <1>1, SessionInvariance, PTL

-----------------------------------------------------------------------------
\* The sum of the entries, as TotalsMatchEntries says it.
EntriesSum(entries) == FoldLeft(LAMBDA n, e : n + e.writes, 0, entries)

IsRun(f, s, T) ==
  f = [t \in SUBSET T |-> IF t = {} THEN 0 ELSE f[t \ {Max(t)}] + s[Max(t)].writes]

Runs(s) == CHOOSE f : IsRun(f, s, DOMAIN s)

\* The sum over the entries is the last running total.
LEMMA SumIsRun == \A s : EntriesSum(s) = Runs(s)[DOMAIN s]
  BY Zenon DEF EntriesSum, FoldLeft, MapThenFoldSet, Runs, IsRun

\* The fold of a sequence of entries is made up of its prefixes.
LEMMA RunsExist ==
  ASSUME NEW s \in Seq(Entries)
  PROVE  /\ Runs(s)[{}] = 0
         /\ \A k \in 1..Len(s) : Runs(s)[1..k] = Runs(s)[1..(k - 1)] + s[k].writes
  <1> DEFINE S == 1..Len(s)
             pick == [t \in SUBSET S |-> Max(t)]
             val == [t \in SUBSET S |-> s[Max(t)].writes]
  <1>1. IsFiniteSet(S) /\ S = DOMAIN s /\ Len(s) \in Nat /\ \A i \in S : s[i].writes \in Nat
    <2>1. Len(s) \in Nat /\ DOMAIN s = S /\ \A i \in S : s[i] \in Entries
      OBVIOUS
    <2>2. IsFiniteSet(S)
      BY <2>1, FS_Interval
    <2> QED
      BY <2>1, <2>2 DEF Entries
  <1>2. \A t \in SUBSET S : t # {} => Max(t) \in t /\ Max(t) \in S
    <2> SUFFICES ASSUME NEW t \in SUBSET S, t # {} PROVE Max(t) \in t
      OBVIOUS
    <2>1. t \in SUBSET Nat /\ \A y \in t : y <= Len(s)
      BY <1>1
    <2> QED
      BY <1>1, <2>1, MaxOfSet
  <1>3. PICK f \in [SUBSET S -> Nat] : IsRecursion(f, S, pick, val)
    <2>1. Picks(S, pick, val)
      BY <1>1, <1>2 DEF Picks
    <2> HIDE DEF S, pick, val
    <2> QED
      BY <1>1, <2>1, SubsetRecursion
  <1>4. IsRun(f, s, S)
    <2>1. \A t \in SUBSET S : f[t] = IF t = {} THEN 0 ELSE val[t] + f[t \ {pick[t]}]
      BY <1>3 DEF IsRecursion
    <2>2. ASSUME NEW t \in SUBSET S, t # {}
          PROVE  f[t] = f[t \ {Max(t)}] + s[Max(t)].writes
      <3>1. s[Max(t)].writes \in Nat /\ f[t \ {Max(t)}] \in Nat
        BY <1>1, <1>2, <2>2
      <3>2. f[t] = s[Max(t)].writes + f[t \ {Max(t)}]
        BY <2>1, <2>2
      <3> QED
        BY <3>1, <3>2
    <2> QED
      BY <2>1, <2>2 DEF IsRun
  <1>5. IsRun(Runs(s), s, S)
    BY <1>1, <1>4 DEF Runs
  <1>6. Runs(s)[{}] = 0
    BY <1>5 DEF IsRun
  <1>7. ASSUME NEW k \in 1..Len(s) PROVE Runs(s)[1..k] = Runs(s)[1..(k - 1)] + s[k].writes
    <2>1. /\ k \in Nat /\ 1..k \in SUBSET S /\ 1..k # {} /\ k \in 1..k
          /\ 1..k \in SUBSET Nat /\ \A y \in 1..k : y <= k
      OBVIOUS
    <2>2. Max(1..k) \in 1..k /\ \A y \in 1..k : Max(1..k) >= y
      BY <2>1, MaxOfSet
    <2>3. Max(1..k) = k /\ (1..k) \ {k} = 1..(k - 1)
      BY <2>1, <2>2
    <2> QED
      BY <1>5, <2>1, <2>3 DEF IsRun
  <1> QED
    BY <1>6, <1>7

\* An entry adds its writes to the sum.
LEMMA SumOfEntries ==
  /\ EntriesSum(<<>>) = 0
  /\ \A s \in Seq(Entries), e \in Entries : EntriesSum(Append(s, e)) = EntriesSum(s) + e.writes
  <1>1. EntriesSum(<<>>) = 0
    <2>1. << >> \in Seq(Entries) /\ DOMAIN << >> = {}
      OBVIOUS
    <2> QED
      BY <2>1, SumIsRun, RunsExist
  <1>2. ASSUME NEW s \in Seq(Entries), NEW e \in Entries
        PROVE  EntriesSum(Append(s, e)) = EntriesSum(s) + e.writes
    <2> DEFINE t == Append(s, e)
               n == Len(s)
               f == Runs(s)
               g == Runs(t)
               Same == {k \in Nat : k <= n => f[1..k] = g[1..k]}
    <2>1. /\ t \in Seq(Entries) /\ Len(t) = n + 1 /\ n \in Nat /\ t[n + 1] = e
          /\ \A k \in 1..n : t[k] = s[k]
          /\ DOMAIN s = 1..n /\ DOMAIN t = 1..(n + 1)
      OBVIOUS
    <2> HIDE DEF t, n
    <2>2. /\ f[{}] = 0 /\ \A k \in 1..n : f[1..k] = f[1..(k - 1)] + s[k].writes
          /\ g[{}] = 0 /\ \A k \in 1..(n + 1) : g[1..k] = g[1..(k - 1)] + t[k].writes
      BY <2>1, RunsExist DEF n
    <2> HIDE DEF f, g
    <2>3. 0 \in Same
      <3>1. 1..0 = {}
        OBVIOUS
      <3> QED
        BY <2>2, <3>1
    <2>4. ASSUME NEW k \in Nat, k \in Same PROVE k + 1 \in Same
      <3> SUFFICES ASSUME k + 1 <= n PROVE f[1..(k + 1)] = g[1..(k + 1)]
        OBVIOUS
      <3>1. k + 1 \in 1..n /\ k + 1 \in 1..(n + 1) /\ (k + 1) - 1 = k /\ f[1..k] = g[1..k]
        BY <2>1, <2>4
      <3> QED
        BY <2>1, <2>2, <3>1
    <2>5. n \in Same
      <3> HIDE DEF Same
      <3> QED
        BY <2>1, <2>3, <2>4, Induction
    <2>6. g[1..(n + 1)] = g[1..n] + e.writes
      <3>1. n + 1 \in 1..(n + 1) /\ (n + 1) - 1 = n
        BY <2>1
      <3> QED
        BY <2>1, <2>2, <3>1
    <2>7. EntriesSum(s) = f[1..n] /\ EntriesSum(t) = g[1..(n + 1)]
      BY <2>1, SumIsRun DEF f, g
    <2>8. f[1..n] = g[1..n]
      BY <2>1, <2>5
    <2> QED
      BY <2>6, <2>7, <2>8 DEF t
  <1> QED
    BY <1>1, <1>2

\* The writes of a session are a number.
LEMMA TotalIsNat ==
  ASSUME NEW c \in [Files -> Nat]
  PROVE  Total(c) \in Nat
  <1>1. Total(c) = SumOver(c, Files)
    <2>1. Total(c) = SumOver(c, DOMAIN c)
      BY Zenon DEF Total, FoldFunction, FoldFunctionOnSet, MapThenFoldSet, SumOver, Sums, IsSum, Chosen
    <2> QED
      BY <2>1
  <1>2. IsFiniteSet(Files) /\ \A f \in Files : c[f] \in Nat
    BY WolfHooksAssumption DEF WolfHooksAssumption
  <1> QED
    BY <1>1, <1>2, SumOverSet

-----------------------------------------------------------------------------
\* A ledger whose lifetime total is that of its entries.
LedgerOK(l) == l \in Ledgers /\ (l.entries = NoField \/ l.writes = EntriesSum(l.entries))

\* What may be written to a document.
DocOK(doc, v) ==
  /\ doc \in Docs
  /\ doc = "ledger" => LedgerOK(v)
  /\ doc = "anatomy" => v \in SUBSET Files

\* Such a document is being written, and a stop that is about to enter a session
\* has one that can be entered.
HookDocs(h) ==
  /\ Writes(h) => DocOK(write[h].doc, write[h].value)
  /\ pc[h] = "enter" => copy[h].written # NoField

\* With SessionInv, the invariant of the other documents.
DocsInv ==
  /\ ledger \in {Absent, Torn} \/ LedgerOK(ledger)
  /\ anatomy \in {Absent, Torn} \cup SUBSET Files
  /\ tmps \subseteq [by : Hooks, doc : Docs]
  /\ kills \in 0..MaxKills /\ failures \in 0..MaxFailures /\ cut \subseteq Docs
  /\ \A h \in Hooks : HookDocs(h)

\* What a hook reads of the ledger adds up, be it the fallback.
LEMMA ReadAddsUp ==
  ASSUME DocsInv, NEW reader
  PROVE  LedgerOK(ReadLedger(reader))
  <1>1. CASE ledger \notin {Absent, Torn}
    BY <1>1 DEF DocsInv, ReadLedger
  <1>2. CASE ledger \in {Absent, Torn}
    <2>1. \/ ReadLedger(reader) = [starts |-> 0, writes |-> 0, entries |-> <<>>]
          \/ ReadLedger(reader) = [starts |-> 0, writes |-> 0, entries |-> NoField]
      BY <1>2 DEF ReadLedger
    <2>2. << >> \in Seq(Entries)
      OBVIOUS
    <2>3. ASSUME NEW entries \in {<<>>, NoField}
          PROVE  LedgerOK([starts |-> 0, writes |-> 0, entries |-> entries])
      <3>1. entries = NoField \/ EntriesSum(entries) = 0
        BY SumOfEntries
      <3> QED
        BY <2>2, <3>1 DEF LedgerOK, Ledgers
    <2> QED
      BY <2>1, <2>3
  <1> QED
    BY <1>1, <1>2

\* It does with a session more, and with a session entered.
LEMMA CountedAddsUp ==
  ASSUME NEW l, LedgerOK(l)
  PROVE  LedgerOK([l EXCEPT !.starts = @ + 1])
  BY DEF LedgerOK, Ledgers

\* A session that is entered leaves a ledger that adds up.
LEMMA EnteredAddsUp ==
  ASSUME NEW l, LedgerOK(l), l.entries # NoField, NEW s \in Sessions, s.written # NoField
  PROVE  LedgerOK(LedgerWith(l, s))
  <1> DEFINE e == [id |-> s.id, writes |-> Total(s.written)]
  <1>1. s.written \in [Files -> Nat] /\ s.id \in Hooks \cup {NoField}
    BY DEF Sessions, Counts
  <1>2. e \in Entries /\ Total(s.written) \in Nat
    BY <1>1, TotalIsNat DEF Entries
  <1>3. /\ l \in [starts : Nat, writes : Nat, entries : Seq(Entries) \cup {NoField}]
        /\ l.entries \in Seq(Entries) /\ l.writes = EntriesSum(l.entries)
    BY DEF LedgerOK, Ledgers
  <1>4. LedgerWith(l, s) = [l EXCEPT !.entries = Append(l.entries, e),
                                     !.writes = l.writes + Total(s.written)]
    BY DEF LedgerWith
  <1>5. EntriesSum(Append(l.entries, e)) = l.writes + Total(s.written)
    BY <1>2, <1>3, SumOfEntries
  <1> HIDE DEF e
  <1>6. Append(l.entries, e) \in Seq(Entries)
    BY <1>2, <1>3
  <1>7. LedgerWith(l, s) = [starts |-> l.starts, writes |-> l.writes + Total(s.written),
                            entries |-> Append(l.entries, e)]
    BY <1>3, <1>4
  <1>8. LedgerWith(l, s) \in Ledgers
    BY <1>2, <1>3, <1>6, <1>7 DEF Ledgers
  <1> QED
    BY <1>5, <1>7, <1>8 DEF LedgerOK

-----------------------------------------------------------------------------
\* A hook writes its temporary file.
LEMMA BeginWriteDocs ==
  ASSUME SessionInv, DocsInv, NEW h \in Hooks, NEW doc, NEW v, NEW next,
         BeginWrite(h, doc, v, next), DocOK(doc, v), UNCHANGED <<kills, failures, cut>>,
         \A g \in Hooks \ {h} : copy'[g] = copy[g]
  PROVE  DocsInv'
  <1>1. /\ pc' = [pc EXCEPT ![h] = "rename"]
        /\ write' = [write EXCEPT ![h] = [doc |-> doc, value |-> v, next |-> next]]
        /\ tmps' = tmps \cup {[by |-> h, doc |-> doc]} /\ UNCHANGED files
    BY DEF BeginWrite, Goto, Writing
  <1>2. pc'[h] = "rename" /\ write'[h] = [doc |-> doc, value |-> v, next |-> next]
    BY <1>1 DEF SessionInv, Shared
  <1>3. HookDocs(h)'
    BY <1>2 DEF HookDocs, DocOK, LedgerOK
  <1>4. \A g \in Hooks \ {h} : HookDocs(g)'
    BY <1>1 DEF SessionInv, Shared, DocsInv, HookDocs, Writes, DocOK, LedgerOK
  <1> QED
    BY <1>1, <1>3, <1>4 DEF DocsInv, files, DocOK, LedgerOK

\* A hook goes on without a write, or ends.
LEMMA GotoDocs ==
  ASSUME SessionInv, DocsInv, NEW h \in Hooks, NEW label \in PCs \ {"rename", "rewrite"},
         Goto(h, label), UNCHANGED files, write' = write, tmps' \subseteq tmps,
         kills' \in 0..MaxKills, failures' = failures, cut' \subseteq Docs,
         \A g \in Hooks \ {h} : copy'[g] = copy[g],
         label = "enter" => copy'[h].written # NoField
  PROVE  DocsInv'
  <1>1. pc' = [pc EXCEPT ![h] = label] /\ pc'[h] = label
    BY DEF Goto, SessionInv, Shared
  <1>2. HookDocs(h)'
    BY <1>1 DEF HookDocs, Writes
  <1>3. \A g \in Hooks \ {h} : HookDocs(g)'
    BY <1>1 DEF SessionInv, Shared, DocsInv, HookDocs, Writes, DocOK, LedgerOK
  <1> QED
    BY <1>2, <1>3 DEF DocsInv, files, LedgerOK

\* The second half of a write puts in place what was prepared, or leaves or tears
\* what is there.
LEMMA EndWriteDocs ==
  ASSUME SessionInv, DocsInv, NEW h \in Hooks, Rename(h) \/ RenameFails(h) \/ Rewrite(h)
  PROVE  DocsInv'
  <1>1. /\ Writes(h) /\ DocOK(write[h].doc, write[h].value)
        /\ write[h].next \in {"count", "done", "track", "save"}
        /\ UNCHANGED <<copy, kills>>
        /\ Tears(h) \/ \E v : Outcome(h, v) /\ EndWrite(h, v)
    BY SecondHalf DEF SessionInv, HookOK, DocsInv, HookDocs
  <1>2. failures' \in 0..MaxFailures
    <2>1. MaxFailures \in Nat /\ failures \in 0..MaxFailures
      BY WolfHooksAssumption DEF WolfHooksAssumption, DocsInv
    <2> QED
      BY <2>1, SecondHalf
  <1>3. CASE Tears(h)
    <2>1. pc' = [pc EXCEPT ![h] = "rewrite"] /\ UNCHANGED <<write, tmps, cut>>
      BY <1>3 DEF Tears, Goto
    <2>2. ledger' \in {ledger, Torn} /\ anatomy' \in {anatomy, Torn}
      BY <1>3 DEF Tears, Store
    <2>3. \A g \in Hooks : HookDocs(g)'
      BY <1>1, <2>1 DEF SessionInv, Shared, DocsInv, HookDocs, Writes, DocOK, LedgerOK
    <2> QED
      BY <1>1, <1>2, <2>1, <2>2, <2>3 DEF DocsInv, LedgerOK
  <1>4. CASE \E v : Outcome(h, v) /\ EndWrite(h, v)
    <2>1. PICK v : Outcome(h, v) /\ EndWrite(h, v)
      BY <1>4
    <2>2. /\ pc' = [pc EXCEPT ![h] = write[h].next]
          /\ write' = [write EXCEPT ![h] = NoField]
          /\ tmps' \subseteq tmps
          /\ ledger' = (IF write[h].doc = "ledger" THEN v ELSE ledger)
          /\ anatomy' = (IF write[h].doc = "anatomy" THEN v ELSE anatomy)
      BY <2>1 DEF EndWrite, Goto, Store
    <2>3. cut' \subseteq Docs
      BY <1>1, <2>1 DEF EndWrite, DocsInv, DocOK
    <2>4. ledger' \in {ledger, Torn} \/ LedgerOK(ledger')
      BY <1>1, <2>1, <2>2 DEF Outcome, OnDisk, DocOK
    <2>5. anatomy' \in {anatomy, Torn} \/ anatomy' \in SUBSET Files
      BY <1>1, <2>1, <2>2 DEF Outcome, OnDisk, DocOK
    <2>6. \A g \in Hooks : HookDocs(g)'
      BY <1>1, <2>2 DEF SessionInv, Shared, DocsInv, HookDocs, Writes, DocOK, LedgerOK
    <2> QED
      BY <1>1, <1>2, <2>2, <2>3, <2>4, <2>5, <2>6 DEF DocsInv, LedgerOK
  <1> QED
    BY <1>1, <1>3, <1>4

\* The steps of a session start, of the hooks that read and write, and of a kill.
LEMMA HooksDocs ==
  ASSUME SessionInv, DocsInv, NEW h \in Hooks,
         \/ Start(h) \/ Sweep(h) \/ Fresh(h) \/ CountSession(h) \/ ListFile(h) \/ Kill(h)
         \/ PreRead(h) \/ PostRead(h) \/ TrackWrite(h)
  PROVE  DocsInv'
  <1>1. kills \in 0..MaxKills /\ FileOf[h] \in Files /\ MaxKills \in Nat
    BY WolfHooksAssumption DEF DocsInv, WolfHooksAssumption
  <1>0. cut \subseteq Docs
    BY DEF DocsInv
  <1>2. \A v : DocOK("session", v)
    BY DEF DocOK, Docs
  <1>3. CASE Start(h)
    <2>1. \E label \in {"sweep", "look", "list", "sum"} : Goto(h, label)
      <3>1. kind[h] \in Kinds
        BY DEF SessionInv, Shared
      <3> QED
        BY <1>3, <3>1 DEF Start, Kinds
    <2> QED
      BY <1>0, <1>1, <1>3, <2>1, GotoDocs DEF Start, PCs
  <1>4. CASE Sweep(h)
    BY <1>0, <1>1, <1>4, GotoDocs DEF Sweep, PCs
  <1>5. CASE Fresh(h)
    BY <1>2, <1>5, BeginWriteDocs DEF Fresh
  <1>6. CASE CountSession(h)
    <2>1. PICK l : l = [ReadLedger("session-start") EXCEPT !.starts = @ + 1]
      OBVIOUS
    <2>2. DocOK("ledger", l)
      BY <2>1, ReadAddsUp, CountedAddsUp DEF DocOK, Docs
    <2> QED
      BY <1>6, <2>1, <2>2, BeginWriteDocs DEF CountSession
  <1>7. CASE ListFile(h)
    <2>1. DocOK("anatomy", ReadAnatomy \cup {FileOf[h]})
      BY <1>1 DEF DocsInv, ReadAnatomy, DocOK, Docs
    <2> QED
      BY <1>7, <2>1, BeginWriteDocs DEF ListFile
  <1>8. CASE Kill(h)
    <2>1. kills' \in 0..MaxKills /\ cut' \subseteq Docs
      BY <1>0, <1>1, <1>8 DEF Kill, DocsInv, HookDocs, DocOK, Writes
    <2> QED
      BY <1>8, <2>1, GotoDocs DEF Kill, PCs
  <1>9. CASE PreRead(h) \/ PostRead(h) \/ TrackWrite(h)
    <2>1. UNCHANGED <<copy, kills, failures, cut>>
      BY <1>9 DEF PreRead, PostRead, TrackWrite
    <2>2. \/ Quit(h, "threw") \/ Quit(h, "done")
          \/ \E v : BeginWrite(h, "session", v, "done")
      BY <1>9 DEF PreRead, PostRead, TrackWrite, SaveReads
    <2>3. CASE Quit(h, "threw") \/ Quit(h, "done")
      BY <1>0, <1>1, <2>1, <2>3, GotoDocs DEF Quit, PCs
    <2>4. CASE \E v : BeginWrite(h, "session", v, "done")
      BY <1>2, <2>1, <2>4, BeginWriteDocs
    <2> QED
      BY <2>2, <2>3, <2>4
  <1> QED
    BY <1>3, <1>4, <1>5, <1>6, <1>7, <1>8, <1>9

\* The steps of a stop.
LEMMA StopDocs ==
  ASSUME SessionInv, DocsInv, NEW h \in Hooks, Sum(h) \/ EnterSession(h) \/ SaveSession(h)
  PROVE  DocsInv'
  <1>1. /\ UNCHANGED <<kills, failures, cut>> /\ kills \in 0..MaxKills /\ cut \subseteq Docs
        /\ \A g \in Hooks \ {h} : copy'[g] = copy[g]
    BY DEF Sum, EnterSession, SaveSession, DocsInv, SessionInv, Shared
  <1>2. \A v : DocOK("session", v)
    BY DEF DocOK, Docs
  <1>3. CASE Sum(h)
    <2>1. PICK s : s = ReadSession("stop")
      OBVIOUS
    <2>2. copy'[h] = s
      BY <1>3, <2>1 DEF Sum, SessionInv, Shared
    <2>3. \/ Quit(h, "threw")
          \/ BeginWrite(h, "session", s, "done")
          \/ s.written # NoField /\ Quit(h, "enter")
      BY <1>3, <2>1 DEF Sum
    <2>4. CASE BeginWrite(h, "session", s, "done")
      BY <1>1, <1>2, <2>4, BeginWriteDocs
    <2>5. CASE Quit(h, "threw") \/ (s.written # NoField /\ Quit(h, "enter"))
      BY <1>1, <2>2, <2>5, GotoDocs DEF Quit, PCs
    <2> QED
      BY <2>3, <2>4, <2>5
  <1>4. CASE EnterSession(h)
    <2>1. PICK l : l = ReadLedger("stop")
      OBVIOUS
    <2>2. copy[h] \in Sessions /\ copy[h].written # NoField /\ LedgerOK(l)
      BY <1>4, <2>1, ReadAddsUp DEF EnterSession, SessionInv, HookOK, Heads, Fits, DocsInv, HookDocs
    <2>3. CASE Quit(h, "threw")
      BY <1>1, <2>3, GotoDocs DEF Quit, PCs
    <2>4. CASE l.entries # NoField /\ BeginWrite(h, "ledger", LedgerWith(l, copy[h]), "save")
      <3>1. DocOK("ledger", LedgerWith(l, copy[h]))
        BY <2>2, <2>4, EnteredAddsUp DEF DocOK, Docs
      <3> QED
        BY <1>1, <2>4, <3>1, BeginWriteDocs
    <2> QED
      BY <1>4, <2>1, <2>3, <2>4 DEF EnterSession
  <1>5. CASE SaveSession(h)
    BY <1>1, <1>2, <1>5, BeginWriteDocs DEF SaveSession
  <1> QED
    BY <1>3, <1>4, <1>5

\* Nothing is entered, and nothing to be, at first.
LEMMA DocsInit == Init => DocsInv
  <1> SUFFICES ASSUME Init PROVE DocsInv
    OBVIOUS
  <1>1. << >> \in Seq(Entries) /\ 0 \in 0..MaxKills /\ 0 \in 0..MaxFailures
    BY WolfHooksAssumption DEF WolfHooksAssumption
  <1>2. LedgerOK(ledger)
    BY <1>1, SumOfEntries DEF Init, LedgerOK, Ledgers
  <1> QED
    BY <1>1, <1>2 DEF Init, DocsInv, HookDocs, Writes

\* Every step of every hook keeps the invariant.
LEMMA DocsNext == SessionInv /\ DocsInv /\ [Next]_vars => DocsInv'
  <1> SUFFICES ASSUME SessionInv, DocsInv, [Next]_vars PROVE DocsInv'
    OBVIOUS
  <1>1. CASE UNCHANGED vars
    BY <1>1 DEF vars, DocsInv, HookDocs, Writes, DocOK, LedgerOK
  <1>2. CASE Next
    BY <1>2, EndWriteDocs, HooksDocs, StopDocs DEF Next
  <1> QED
    BY <1>1, <1>2

\* Whatever the hooks lose: each document is, and will be, of its shape.
THEOREM DocsInvariance == Spec => []DocsInv
  BY DocsInit, DocsNext, SessionInvariance, PTL DEF Spec

\* Every file of the hooks is absent, or half written, or holds what its readers
\* expect, whatever fallbacks they made it of.
THEOREM TypeInvariance == Spec => []TypeOK
  <1>1. SessionInv /\ DocsInv => TypeOK
    BY DEF SessionInv, Shared, Fits, DocsInv, LedgerOK, TypeOK
  <1> QED
    BY <1>1, SessionInvariance, DocsInvariance, PTL

\* The lifetime total of the ledger is the sum of its entries, however many
\* sessions are entered and whichever updates are lost.
THEOREM LedgerAddsUp == Spec => []TotalsMatchEntries
  <1>1. DocsInv => TotalsMatchEntries
    BY DEF DocsInv, LedgerOK, EntriesSum, TotalsMatchEntries
  <1> QED
    BY <1>1, DocsInvariance, PTL

-----------------------------------------------------------------------------
\* What is put in place is not half of a file.
LEMMA ValueIsWhole ==
  ASSUME SessionInv, DocsInv, NEW h \in Hooks, Writes(h)
  PROVE  write[h].doc \in Docs /\ write[h].value # Torn
  <1>1. /\ DocOK(write[h].doc, write[h].value)
        /\ write[h].doc = "session" => Fits(write[h].value)
    BY DEF SessionInv, HookOK, WriteFits, DocsInv, HookDocs
  <1> QED
    BY <1>1, FilesAssumption DEF DocOK, Docs, LedgerOK, Fits, FilesAssumption

\* A file that is half written is being written, or that was cut short; and none
\* of the session until a rename fails of a temporary file that is there.
TornInv ==
  /\ \A doc \in Docs : OnDisk(doc) = Torn => doc \in cut \/ Rewriting(doc)
  /\ failures = 0 =>
       /\ session # Torn
       /\ \A h \in Hooks : Writes(h) /\ write[h].doc = "session" => pc[h] = "rename" /\ Tmp(h) \in tmps

\* A step that leaves the files alone keeps it so.
LEMMA StepTorn ==
  ASSUME SessionInv, TornInv, NEW h \in Hooks, NEW label, Goto(h, label),
         UNCHANGED <<files, failures>>, \A g \in Hooks \ {h} : write'[g] = write[g],
         cut \subseteq cut', pc[h] = "rewrite" => write[h].doc \in cut',
         \A t \in tmps : t.doc = "session" => t \in tmps',
         Writes(h)' => pc'[h] = "rename" /\ Tmp(h)' \in tmps'
  PROVE  TornInv'
  <1>1. \A g \in Hooks \ {h} : pc'[g] = pc[g] /\ write'[g] = write[g] /\ Tmp(g)' = Tmp(g)
    BY DEF Goto, Tmp, SessionInv, Shared
  <1>2. ASSUME NEW doc \in Docs, OnDisk(doc)' = Torn PROVE (doc \in cut \/ Rewriting(doc))'
    <2>1. OnDisk(doc) = Torn
      BY <1>2 DEF OnDisk, files
    <2>2. doc \in cut \/ Rewriting(doc)
      BY <2>1 DEF TornInv
    <2> QED
      BY <1>1, <2>2 DEF Rewriting
  <1>3. ASSUME failures' = 0
        PROVE  /\ session' # Torn
               /\ \A g \in Hooks : Writes(g)' /\ write'[g].doc = "session" =>
                    pc'[g] = "rename" /\ Tmp(g)' \in tmps'
    <2>1. ASSUME NEW g \in Hooks \ {h}, Writes(g)', write'[g].doc = "session"
          PROVE  pc'[g] = "rename" /\ Tmp(g)' \in tmps'
      <3>1. Writes(g) /\ write[g].doc = "session"
        BY <1>1, <2>1 DEF Writes
      <3>2. pc[g] = "rename" /\ Tmp(g) \in tmps /\ Tmp(g).doc = "session"
        BY <1>3, <3>1 DEF TornInv, Tmp
      <3> QED
        BY <1>1, <3>2
    <2> QED
      BY <1>3, <2>1 DEF TornInv, files
  <1> QED
    BY <1>2, <1>3 DEF TornInv

\* Such are the steps that begin a write, or go on without one.
LEMMA GoOnTorn ==
  ASSUME SessionInv, TornInv, NEW h \in Hooks, failures' = failures, cut \subseteq cut',
         pc[h] = "rewrite" => write[h].doc \in cut',
         \/ \E doc, v, next : BeginWrite(h, doc, v, next)
         \/ /\ UNCHANGED <<files, write>>
            /\ \A t \in tmps : t.doc = "session" => t \in tmps'
            /\ \E label \in PCs \ {"rename", "rewrite"} : Goto(h, label)
  PROVE  TornInv'
  <1>1. CASE \E doc, v, next : BeginWrite(h, doc, v, next)
    <2>1. PICK doc, v, next : BeginWrite(h, doc, v, next)
      BY <1>1
    <2>2. /\ write' = [write EXCEPT ![h] = [doc |-> doc, value |-> v, next |-> next]]
          /\ Goto(h, "rename") /\ tmps' = tmps \cup {[by |-> h, doc |-> doc]} /\ UNCHANGED files
      BY <2>1 DEF BeginWrite, Writing
    <2>3. pc'[h] = "rename" /\ Tmp(h)' \in tmps'
      BY <2>2 DEF Goto, Tmp, SessionInv, Shared
    <2> QED
      BY <2>2, <2>3, StepTorn DEF SessionInv, Shared
  <1>2. CASE /\ UNCHANGED <<files, write>>
             /\ \A t \in tmps : t.doc = "session" => t \in tmps'
             /\ \E label \in PCs \ {"rename", "rewrite"} : Goto(h, label)
    <2>1. PICK label \in PCs \ {"rename", "rewrite"} : Goto(h, label)
      BY <1>2
    <2>2. ~Writes(h)'
      BY <2>1 DEF Goto, Writes, SessionInv, Shared
    <2> QED
      BY <1>2, <2>1, <2>2, StepTorn
  <1> QED
    BY <1>1, <1>2

\* A write tears the document that it is at, and goes on to rewrite it; what it
\* ends with is whole, or it was cut short.
LEMMA EndWriteTorn ==
  ASSUME SessionInv, DocsInv, TornInv, NEW h \in Hooks, Rename(h) \/ RenameFails(h) \/ Rewrite(h)
  PROVE  TornInv'
  <1> DEFINE mine == write[h].doc
  <1>1. /\ Writes(h) /\ mine \in Docs /\ write[h].value # Torn
        /\ Tears(h) \/ \E v : Outcome(h, v) /\ EndWrite(h, v)
        /\ write[h].next \in {"count", "done", "track", "save"}
    BY SecondHalf, ValueIsWhole DEF SessionInv, HookOK
  <1>2. PICK v, label :
          /\ Store(mine, v) /\ Goto(h, label)
          /\ \A g \in Hooks \ {h} : write'[g] = write[g]
          /\ \A t \in tmps : t.by # h => t \in tmps'
          /\ \A doc \in Docs \ {mine} : doc \in cut => doc \in cut'
          /\ v = Torn => mine \in cut' \/ (label = "rewrite" /\ write'[h].doc = mine)
          /\ label # "rename"
    <2>1. CASE Tears(h)
      BY <2>1 DEF Tears, SessionInv, Shared
    <2>2. CASE \E v : Outcome(h, v) /\ EndWrite(h, v)
      <3>1. PICK v : EndWrite(h, v)
        BY <2>2
      <3>2. /\ Store(mine, v) /\ Goto(h, write[h].next)
            /\ \A g \in Hooks \ {h} : write'[g] = write[g]
            /\ \A t \in tmps : t.by # h => t \in tmps'
        BY <3>1 DEF EndWrite, Tmp, SessionInv, Shared
      <3>3. \A doc \in Docs \ {mine} : doc \in cut => doc \in cut'
        BY <3>1 DEF EndWrite
      <3>4. v = Torn => mine \in cut'
        BY <1>1, <3>1 DEF EndWrite
      <3> QED
        BY <1>1, <3>2, <3>3, <3>4
    <2> QED
      BY <1>1, <2>1, <2>2
  <1>3. /\ \A g \in Hooks \ {h} : pc'[g] = pc[g] /\ write'[g] = write[g] /\ Tmp(g)' = Tmp(g)
        /\ pc'[h] = label
    BY <1>2 DEF Goto, Tmp, SessionInv, Shared
  <1>4. ASSUME NEW doc \in Docs, OnDisk(doc)' = Torn PROVE (doc \in cut \/ Rewriting(doc))'
    <2>1. CASE doc = mine
      <3>1. OnDisk(doc)' = v
        BY <1>1, <1>2, <2>1 DEF OnDisk, Store, Docs
      <3> QED
        BY <1>2, <1>3, <1>4, <2>1, <3>1 DEF Rewriting
    <2>2. CASE doc # mine
      <3>1. OnDisk(doc)' = OnDisk(doc)
        BY <1>2, <2>2 DEF OnDisk, Store, Docs
      <3>2. doc \in cut \/ \E g \in Hooks : pc[g] = "rewrite" /\ write[g].doc = doc
        BY <1>4, <3>1 DEF TornInv, Rewriting
      <3> QED
        BY <1>2, <1>3, <2>2, <3>2 DEF Rewriting
    <2> QED
      BY <2>1, <2>2
  <1>5. ASSUME failures' = 0
        PROVE  /\ session' # Torn
               /\ \A g \in Hooks : Writes(g)' /\ write'[g].doc = "session" =>
                    pc'[g] = "rename" /\ Tmp(g)' \in tmps'
    <2>1. failures = 0
      BY <1>5, SecondHalf DEF DocsInv
    <2>2. mine = "session" => Rename(h)
      BY <1>1, <1>5, <2>1 DEF TornInv, RenameFails, Rewrite
    <2>3. session' # Torn
      BY <1>1, <1>2, <2>1, <2>2 DEF TornInv, Rename, EndWrite, Store
    <2>4. ~(Writes(h)' /\ write'[h].doc = "session")
      <3>1. CASE mine = "session"
        BY <1>1, <1>3, <2>2, <3>1 DEF Rename, EndWrite, Goto, Writes, SessionInv, Shared
      <3>2. CASE mine # "session" /\ Tears(h)
        BY <3>2 DEF Tears
      <3>3. CASE \E w : EndWrite(h, w)
        BY <1>1, <3>3 DEF EndWrite, Goto, Writes, SessionInv, Shared
      <3> QED
        BY <1>1, <3>1, <3>2, <3>3
    <2>5. ASSUME NEW g \in Hooks \ {h}, Writes(g)', write'[g].doc = "session"
          PROVE  pc'[g] = "rename" /\ Tmp(g)' \in tmps'
      <3>1. pc[g] = "rename" /\ Tmp(g) \in tmps /\ Tmp(g).by = g
        BY <1>3, <2>1, <2>5 DEF TornInv, Tmp, Writes
      <3> QED
        BY <1>2, <1>3, <3>1
    <2> QED
      BY <2>3, <2>4, <2>5
  <1> QED
    BY <1>4, <1>5 DEF TornInv

\* Every step of every hook keeps the invariant.
LEMMA TornNext == SessionInv /\ DocsInv /\ TornInv /\ [Next]_vars => TornInv'
  <1> SUFFICES ASSUME SessionInv, DocsInv, TornInv, [Next]_vars PROVE TornInv'
    OBVIOUS
  <1>1. CASE UNCHANGED vars
    BY <1>1 DEF vars, files, TornInv, OnDisk, Rewriting, Writes, Tmp
  <1>2. ASSUME NEW h \in Hooks, Start(h) PROVE TornInv'
    <2>1. \E label \in PCs \ {"rename", "rewrite"} : Goto(h, label)
      <3>1. kind[h] \in Kinds
        BY DEF SessionInv, Shared
      <3> QED
        BY <1>2, <3>1 DEF Start, Kinds, PCs
    <2> QED
      BY <1>2, <2>1, GoOnTorn DEF Start
  <1>3. ASSUME NEW h \in Hooks, Sweep(h) \/ Kill(h) PROVE TornInv'
    <2>1. /\ UNCHANGED <<files, write, failures>> /\ cut \subseteq cut'
          /\ \A t \in tmps : t.doc = "session" => t \in tmps'
          /\ pc[h] = "rewrite" => write[h].doc \in cut'
      BY <1>3 DEF Sweep, Kill
    <2>2. \E label \in PCs \ {"rename", "rewrite"} : Goto(h, label)
      BY <1>3 DEF Sweep, Kill, PCs
    <2> QED
      BY <2>1, <2>2, GoOnTorn
  <1>4. ASSUME NEW h \in Hooks, Fresh(h) \/ CountSession(h) \/ ListFile(h) \/ SaveSession(h)
        PROVE  TornInv'
    BY <1>4, GoOnTorn DEF Fresh, CountSession, ListFile, SaveSession
  <1>5. ASSUME NEW h \in Hooks, PreRead(h) \/ PostRead(h) \/ TrackWrite(h) PROVE TornInv'
    BY <1>5, GoOnTorn DEF PreRead, PostRead, TrackWrite, SaveReads, Quit, PCs
  <1>6. ASSUME NEW h \in Hooks, Sum(h) \/ EnterSession(h) PROVE TornInv'
    BY <1>6, GoOnTorn DEF Sum, EnterSession, Quit, PCs
  <1> QED
    BY <1>1, <1>2, <1>3, <1>4, <1>5, <1>6, EndWriteTorn DEF Next

\* Nothing is half written at first.
LEMMA WholeAtFirst == Init => Torn \notin {session, ledger, anatomy}
  <1> SUFFICES ASSUME Init PROVE Torn \notin {session, ledger, anatomy}
    OBVIOUS
  <1>1. << >> \in Seq(Entries)
    OBVIOUS
  <1>2. session \in {Absent} \cup Sessions /\ ledger \in Ledgers /\ anatomy \in SUBSET Files
    BY <1>1 DEF Init, Ledgers, Sessions, Counts, Zero
  <1> QED
    BY <1>2, FilesAssumption DEF FilesAssumption

\* The session file is whole unless a rename of its own temporary file fails,
\* and no file stays torn but by a write in place that was cut short.
THEOREM TornInvariance == Spec => []TornInv
  <1>1. Init => TornInv
    <2> SUFFICES ASSUME Init PROVE TornInv
      OBVIOUS
    <2>1. \A doc \in Docs : OnDisk(doc) \in {session, ledger, anatomy}
      BY DEF OnDisk, Docs
    <2>2. \A h \in Hooks : ~Writes(h)
      BY DEF Init, Writes
    <2> QED
      BY <2>1, <2>2, WholeAtFirst DEF TornInv
  <1> QED
    BY <1>1, TornNext, SessionInvariance, DocsInvariance, PTL DEF Spec

-----------------------------------------------------------------------------
\* As long as no hook has begun while another ran, at most one runs; and a write
\* that it is at finds its temporary file there.
SerialInv ==
  ~overlapped =>
    /\ \A g, h \in Hooks : Running(g) /\ Running(h) => g = h
    /\ failures = 0 => /\ \A h \in Hooks : Writes(h) => pc[h] = "rename" /\ Tmp(h) \in tmps
                       /\ Torn \notin {ledger, anatomy}

\* Then a step of the hook that runs keeps it so.
LEMMA StepSerial ==
  ASSUME SessionInv, SerialInv, NEW h \in Hooks, Running(h) \/ ~(\E g \in Hooks : Running(g)),
         NEW label, Goto(h, label), ~overlapped' => ~overlapped,
         ~overlapped /\ failures' = 0 =>
           /\ Writes(h)' => pc'[h] = "rename" /\ Tmp(h)' \in tmps'
           /\ Torn \notin {ledger', anatomy'}
  PROVE  SerialInv'
  <1> SUFFICES ASSUME ~overlapped'
               PROVE  /\ \A g, k \in Hooks : Running(g)' /\ Running(k)' => g = k
                      /\ failures' = 0 =>
                           \A g \in Hooks : Writes(g)' => pc'[g] = "rename" /\ Tmp(g)' \in tmps'
    BY DEF SerialInv
  <1>1. \A g \in Hooks \ {h} : pc'[g] = pc[g] /\ ~Running(g)
    BY DEF SerialInv, Goto, SessionInv, Shared
  <1>2. \A g \in Hooks \ {h} : ~Running(g)' /\ ~Writes(g)'
    BY <1>1 DEF Running, Writes
  <1> QED
    BY <1>2

\* The last condition holds of a step that begins a write, or that goes on without
\* one.
LEMMA GoOnSerial ==
  ASSUME SessionInv, SerialInv, NEW h \in Hooks, Running(h) \/ ~(\E g \in Hooks : Running(g)),
         ~overlapped' => ~overlapped, failures' = failures,
         \/ \E doc, v, next : BeginWrite(h, doc, v, next)
         \/ /\ UNCHANGED <<files, write>>
            /\ \E label \in PCs \ {"rename", "rewrite"} : Goto(h, label)
  PROVE  SerialInv'
  <1>1. ~overlapped /\ failures' = 0 => Torn \notin {ledger', anatomy'}
    BY DEF SerialInv, BeginWrite, files
  <1>2. CASE \E doc, v, next : BeginWrite(h, doc, v, next)
    <2>1. PICK doc, v, next : BeginWrite(h, doc, v, next)
      BY <1>2
    <2>2. /\ write' = [write EXCEPT ![h] = [doc |-> doc, value |-> v, next |-> next]]
          /\ Goto(h, "rename") /\ tmps' = tmps \cup {[by |-> h, doc |-> doc]}
      BY <2>1 DEF BeginWrite, Writing
    <2>3. pc'[h] = "rename" /\ Tmp(h)' \in tmps'
      BY <2>2 DEF Goto, Tmp, SessionInv, Shared
    <2> QED
      BY <1>1, <2>2, <2>3, StepSerial
  <1>3. CASE /\ UNCHANGED <<files, write>>
             /\ \E label \in PCs \ {"rename", "rewrite"} : Goto(h, label)
    <2>1. PICK label \in PCs \ {"rename", "rewrite"} : Goto(h, label)
      BY <1>3
    <2>2. ~Writes(h)'
      BY <2>1 DEF Goto, Writes, SessionInv, Shared
    <2> QED
      BY <1>1, <2>1, <2>2, StepSerial
  <1> QED
    BY <1>2, <1>3

\* Until a rename fails of a temporary file that is there, what is put in place is
\* not half of a file.
LEMMA EndWriteSerial ==
  ASSUME SessionInv, DocsInv, SerialInv, NEW h \in Hooks,
         Rename(h) \/ RenameFails(h) \/ Rewrite(h)
  PROVE  SerialInv'
  <1>1. Running(h) /\ Writes(h) /\ overlapped' = overlapped
    BY DEF Rename, RenameFails, Rewrite, Running, Writes
  <1>2. write[h].value # Torn /\ write[h].next \in {"count", "done", "track", "save"}
    BY <1>1, ValueIsWhole DEF SessionInv, HookOK
  <1>3. ASSUME ~overlapped, failures' = 0
        PROVE  ~Writes(h)' /\ Torn \notin {ledger', anatomy'}
    <2>1. failures = 0
      BY <1>3, SecondHalf DEF DocsInv
    <2>2. Rename(h)
      BY <1>1, <1>3, <2>1 DEF SerialInv, RenameFails, Rewrite
    <2>3. Goto(h, write[h].next) /\ Store(write[h].doc, write[h].value)
      BY <2>2 DEF Rename, EndWrite
    <2> QED
      BY <1>2, <1>3, <2>1, <2>3 DEF SerialInv, Store, Goto, Writes, SessionInv, Shared
  <1>4. \E label : Goto(h, label)
    BY SecondHalf DEF Tears, EndWrite
  <1> QED
    BY <1>1, <1>3, <1>4, StepSerial

\* Every step of every hook keeps the invariant; a start keeps it if nothing runs.
LEMMA SerialNext == SessionInv /\ DocsInv /\ SerialInv /\ [Next]_vars => SerialInv'
  <1> SUFFICES ASSUME SessionInv, DocsInv, SerialInv, [Next]_vars PROVE SerialInv'
    OBVIOUS
  <1>1. CASE UNCHANGED vars
    BY <1>1 DEF vars, SerialInv, Running, Writes, Tmp
  <1>2. ASSUME NEW h \in Hooks, Start(h) PROVE SerialInv'
    <2>1. CASE overlapped'
      BY <2>1 DEF SerialInv
    <2>2. CASE ~overlapped'
      <3>1. ~(\E g \in Hooks : Running(g)) /\ ~overlapped
        BY <1>2, <2>2 DEF Start
      <3>2. \E label \in PCs \ {"rename", "rewrite"} : Goto(h, label)
        <4>1. kind[h] \in Kinds
          BY DEF SessionInv, Shared
        <4> QED
          BY <1>2, <4>1 DEF Start, Kinds, PCs
      <3> QED
        BY <1>2, <3>1, <3>2, GoOnSerial DEF Start
    <2> QED
      BY <2>1, <2>2
  <1>3. ASSUME NEW h \in Hooks, Sweep(h) \/ Kill(h) PROVE SerialInv'
    BY <1>3, GoOnSerial DEF Sweep, Kill, Running, PCs
  <1>4. ASSUME NEW h \in Hooks, Fresh(h) \/ CountSession(h) \/ ListFile(h) \/ SaveSession(h)
        PROVE  SerialInv'
    BY <1>4, GoOnSerial DEF Fresh, CountSession, ListFile, SaveSession, Running
  <1>5. ASSUME NEW h \in Hooks, PreRead(h) \/ PostRead(h) \/ TrackWrite(h) PROVE SerialInv'
    BY <1>5, GoOnSerial DEF PreRead, PostRead, TrackWrite, SaveReads, Quit, Running, PCs
  <1>6. ASSUME NEW h \in Hooks, Sum(h) \/ EnterSession(h) PROVE SerialInv'
    BY <1>6, GoOnSerial DEF Sum, EnterSession, Quit, Running, PCs
  <1> QED
    BY <1>1, <1>2, <1>3, <1>4, <1>5, <1>6, EndWriteSerial DEF Next

\* For as long as hooks have not overlapped, one at most runs.
THEOREM SerialInvariance == Spec => []SerialInv
  <1>1. Init => SerialInv
    <2> SUFFICES ASSUME Init PROVE SerialInv
      OBVIOUS
    <2>1. \A h \in Hooks : ~Running(h) /\ ~Writes(h)
      BY DEF Init, Running, Writes
    <2> QED
      BY <2>1, WholeAtFirst DEF SerialInv
  <1> QED
    BY <1>1, SerialNext, SessionInvariance, DocsInvariance, PTL DEF Spec

\* A file is half written only while it is written in place, or after that was cut
\* short; and before a rename has failed of a temporary file that is there, only
\* the ledger and the list of files, and only after hooks have overlapped.
THEOREM TornByCutWrites == Spec => []NeverTorn
  <1>1. TornInv /\ SerialInv => NeverTorn
    BY DEF TornInv, SerialInv, NeverTorn
  <1> QED
    BY <1>1, TornInvariance, SerialInvariance, PTL

-----------------------------------------------------------------------------
\* Where a hook of each kind may be, and what it writes there.
Course(h) ==
  /\ pc[h] \in {"sweep", "fresh", "count"} => kind[h] = "session-start"
  /\ pc[h] \in {"list", "track"} => kind[h] = "post-write"
  /\ pc[h] \in {"sum", "enter", "save"} => kind[h] = "stop"
  /\ Writes(h) =>
       LET doc == write[h].doc  next == write[h].next
       IN  \/ /\ kind[h] = "session-start" /\ doc = "session" /\ next = "count"
              /\ write[h].value = FreshSession(h)
           \/ kind[h] = "session-start" /\ doc = "ledger" /\ next = "done"
           \/ kind[h] = "post-write" /\ doc = "anatomy" /\ next = "track"
           \/ kind[h] = "stop" /\ doc = "ledger" /\ next = "save"
           \/ kind[h] # "session-start" /\ doc = "session" /\ next = "done"

CourseInv == \A h \in Hooks : Course(h)

\* A step of h that starts a write of its course, or goes on there, keeps to it.
LEMMA StepCourse ==
  ASSUME SessionInv, CourseInv, NEW h \in Hooks, NEW label, Goto(h, label), kind' = kind,
         \A g \in Hooks \ {h} : write'[g] = write[g], Course(h)'
  PROVE  CourseInv'
  <1>1. \A g \in Hooks \ {h} : pc'[g] = pc[g]
    BY DEF Goto, SessionInv, Shared
  <1>2. \A g \in Hooks \ {h} : Course(g)'
    BY <1>1 DEF CourseInv, Course, Writes
  <1> QED
    BY <1>2 DEF CourseInv

\* A hook that begins a write stays on its course.
LEMMA BeginWriteCourse ==
  ASSUME SessionInv, CourseInv, NEW h \in Hooks, NEW doc, NEW v, NEW next,
         BeginWrite(h, doc, v, next), kind' = kind,
         \/ /\ kind[h] = "session-start" /\ doc = "session" /\ next = "count"
            /\ v = FreshSession(h)
         \/ kind[h] = "session-start" /\ doc = "ledger" /\ next = "done"
         \/ kind[h] = "post-write" /\ doc = "anatomy" /\ next = "track"
         \/ kind[h] = "stop" /\ doc = "ledger" /\ next = "save"
         \/ kind[h] # "session-start" /\ doc = "session" /\ next = "done"
  PROVE  CourseInv'
  <1>1. /\ Goto(h, "rename")
        /\ write' = [write EXCEPT ![h] = [doc |-> doc, value |-> v, next |-> next]]
    BY DEF BeginWrite, Writing
  <1>2. pc'[h] = "rename" /\ write'[h] = [doc |-> doc, value |-> v, next |-> next]
    BY <1>1 DEF Goto, SessionInv, Shared
  <1>3. Course(h)'
    BY <1>2 DEF Course
  <1> QED
    BY <1>1, <1>3, StepCourse DEF SessionInv, Shared

\* So does one that goes on to its next step.
LEMMA GotoCourse ==
  ASSUME SessionInv, CourseInv, NEW h \in Hooks, NEW label \in PCs \ {"rename", "rewrite"},
         Goto(h, label), kind' = kind, \A g \in Hooks \ {h} : write'[g] = write[g],
         label \in {"sweep", "fresh", "count"} => kind[h] = "session-start",
         label \in {"list", "track"} => kind[h] = "post-write",
         label \in {"sum", "enter", "save"} => kind[h] = "stop"
  PROVE  CourseInv'
  <1>1. pc'[h] = label
    BY DEF Goto, SessionInv, Shared
  <1>2. Course(h)'
    BY <1>1 DEF Course, Writes
  <1> QED
    BY <1>2, StepCourse

\* Every hook keeps to its course.
LEMMA CourseNext == SessionInv /\ CourseInv /\ [Next]_vars => CourseInv'
  <1> SUFFICES ASSUME SessionInv, CourseInv, [Next]_vars PROVE CourseInv'
    OBVIOUS
  <1>1. CASE UNCHANGED vars
    BY <1>1 DEF vars, CourseInv, Course, Writes
  <1>2. ASSUME NEW h \in Hooks, Start(h) PROVE CourseInv'
    <2>1. kind[h] \in Kinds
      BY DEF SessionInv, Shared
    <2> QED
      BY <1>2, <2>1, GotoCourse DEF Start, Kinds, PCs
  <1>3. ASSUME NEW h \in Hooks, Sweep(h) \/ Kill(h) PROVE CourseInv'
    BY <1>3, GotoCourse DEF Sweep, Kill, PCs, CourseInv, Course
  <1>4. ASSUME NEW h \in Hooks, Fresh(h) \/ CountSession(h) \/ ListFile(h) \/ SaveSession(h)
        PROVE  CourseInv'
    BY <1>4, BeginWriteCourse DEF Fresh, CountSession, ListFile, SaveSession, CourseInv, Course
  <1>5. ASSUME NEW h \in Hooks, PreRead(h) \/ PostRead(h) \/ TrackWrite(h) PROVE CourseInv'
    <2>1. /\ kind' = kind /\ kind[h] # "session-start"
          /\ \/ Quit(h, "threw") \/ Quit(h, "done")
             \/ \E v : BeginWrite(h, "session", v, "done")
      BY <1>5 DEF PreRead, PostRead, TrackWrite, SaveReads, CourseInv, Course
    <2>2. CASE Quit(h, "threw") \/ Quit(h, "done")
      BY <2>1, <2>2, GotoCourse DEF Quit, PCs
    <2>3. CASE \E v : BeginWrite(h, "session", v, "done")
      BY <2>1, <2>3, BeginWriteCourse
    <2> QED
      BY <2>1, <2>2, <2>3
  <1>6. ASSUME NEW h \in Hooks, Sum(h) \/ EnterSession(h) PROVE CourseInv'
    <2>1. /\ kind' = kind /\ kind[h] = "stop"
          /\ \/ Quit(h, "threw") \/ Quit(h, "enter")
             \/ \E v : BeginWrite(h, "session", v, "done")
             \/ \E v : BeginWrite(h, "ledger", v, "save")
      BY <1>6 DEF Sum, EnterSession, CourseInv, Course
    <2>2. CASE Quit(h, "threw") \/ Quit(h, "enter")
      BY <2>1, <2>2, GotoCourse DEF Quit, PCs
    <2>3. CASE \/ \E v : BeginWrite(h, "session", v, "done")
               \/ \E v : BeginWrite(h, "ledger", v, "save")
      BY <2>1, <2>3, BeginWriteCourse
    <2> QED
      BY <2>1, <2>2, <2>3
  <1>7. ASSUME NEW h \in Hooks, Rename(h) \/ RenameFails(h) \/ Rewrite(h) PROVE CourseInv'
    <2>1. /\ Writes(h) /\ kind' = kind /\ Course(h)
          /\ Tears(h) \/ \E v : EndWrite(h, v)
      BY <1>7, SecondHalf DEF CourseInv
    <2>2. CASE \E v : EndWrite(h, v)
      <3>1. Goto(h, write[h].next) /\ write' = [write EXCEPT ![h] = NoField]
        BY <2>2 DEF EndWrite
      <3> QED
        BY <2>1, <3>1, GotoCourse DEF Course, SessionInv, Shared, PCs
    <2>3. CASE Tears(h)
      <3>1. Goto(h, "rewrite") /\ write' = write
        BY <2>3 DEF Tears
      <3>2. pc'[h] = "rewrite"
        BY <3>1 DEF Goto, SessionInv, Shared
      <3>3. Course(h)'
        BY <2>1, <3>1, <3>2 DEF Course, Writes
      <3> QED
        BY <2>1, <3>1, <3>3, StepCourse
    <2> QED
      BY <2>1, <2>2, <2>3
  <1> QED
    BY <1>1, <1>2, <1>3, <1>4, <1>5, <1>6, <1>7 DEF Next

\* Every hook runs the course of its event.
THEOREM CourseInvariance == Spec => []CourseInv
  <1>1. Init => CourseInv
    BY DEF Init, CourseInv, Course, Writes
  <1> QED
    BY <1>1, CourseNext, SessionInvariance, PTL DEF Spec

-----------------------------------------------------------------------------
\* The hooks that are over, and those of them that ran to their end.
Past == {h \in Hooks : pc[h] \in {"done", "threw", "killed"}}

Finished == {h \in Hooks : pc[h] = "done"}

HasBegun == \E h \in since : kind[h] = "session-start"

\* The hooks of kinds k that start a session, and those about an event of a file.
Starts(k) == {h \in Hooks : k[h] = "session-start"}

About(k, event, f) == {h \in Hooks : k[h] = event /\ FileOf[h] = f}

\* A session counts what was read and written by each hook of done, and nothing
\* that was not by one of may.
SessionFits(k, s, done, may) ==
  /\ s \in Sessions /\ s.read # NoField /\ s.written # NoField
  /\ done \subseteq may /\ IsFiniteSet(may)
  /\ \A f \in Files :
       LET pre == About(k, "pre-read", f)  reads == pre \cup About(k, "post-read", f)
           writes == About(k, "post-write", f)
       IN  /\ Cardinality(writes \cap done) <= s.written[f]
           /\ s.written[f] <= Cardinality(writes \cap may)
           /\ Cardinality(pre \cap done) <= s.read[f]
           /\ s.read[f] <= Cardinality(pre \cap may) + 1
           /\ reads \cap done # {} => s.read[f] > 0
           /\ s.read[f] > 0 => reads \cap may # {}

\* A ledger counts each session start of done, and none that is not one of may.
LedgerFits(k, l, done, may) ==
  /\ l \in Ledgers /\ done \subseteq may /\ IsFiniteSet(may)
  /\ Cardinality(Starts(k) \cap done) <= l.starts /\ l.starts <= Cardinality(Starts(k) \cap may)

\* A list of files has none that none of the post-writes is about.
AnatomyFits(a, writers) == a \in SUBSET Files /\ \A f \in a : \E h \in writers : FileOf[h] = f

Writers == {h \in Hooks : kind[h] = "post-write" /\ pc[h] # "idle"}

\* A post-write has listed its file.
HasListed(h) ==
  kind[h] = "post-write" /\ (pc[h] \in {"track", "done"} \/ (Writes(h) /\ write[h].doc = "session"))

\* A list of files that has those of all that have listed theirs.
ListsAll(a) == AnatomyFits(a, Writers) /\ \A h \in Hooks : HasListed(h) => FileOf[h] \in a

\* A document that is not being written in place, and that no such write was cut
\* short on.
Intact(doc) == doc \notin cut /\ ~Rewriting(doc)

\* What a hook is writing, or keeps, counts the hook itself.
HookExact(h) ==
  /\ Writes(h) /\ write[h].doc = "session" /\ kind[h] # "session-start" /\ HasBegun /\ "session" \notin cut =>
       SessionFits(kind, write[h].value, (Finished \cap since) \cup {h}, (Past \cap since) \cup {h})
  /\ Writes(h) /\ write[h].doc = "ledger" /\ "ledger" \notin cut =>
       \/ kind[h] = "session-start" /\ LedgerFits(kind, write[h].value, Finished \cup {h}, Past \cup {h})
       \/ kind[h] = "stop" /\ LedgerFits(kind, write[h].value, Finished, Past)
  /\ Writes(h) /\ write[h].doc = "anatomy" /\ "anatomy" \notin cut =>
       ListsAll(write[h].value) /\ FileOf[h] \in write[h].value
  /\ Heads(h, {"enter", "save"}) /\ HasBegun /\ "session" \notin cut =>
       SessionFits(kind, copy[h], Finished \cap since, Past \cap since)
  /\ Running(h) => kind[h] = "session-start" \/ h \in since

\* The documents that are intact count what has run to its end, and nothing but
\* what has begun.
DocsExact ==
  /\ HasBegun /\ Intact("session") => SessionFits(kind, session, Finished \cap since, Past \cap since)
  /\ Intact("ledger") => LedgerFits(kind, ledger, Finished, Past)
  /\ Intact("anatomy") => ListsAll(anatomy)

\* It is so as long as hooks have run one after the other.
ExactInv ==
  ~overlapped => IsFiniteSet(Past) /\ DocsExact /\ \A h \in Hooks : HookExact(h)

-----------------------------------------------------------------------------
\* One hook more makes one more of its kind.
LEMMA OneMore ==
  ASSUME NEW S, IsFiniteSet(S), NEW h, h \notin S, NEW P
  PROVE  /\ Cardinality(P \cap S) \in Nat
         /\ h \in P => Cardinality(P \cap (S \cup {h})) = Cardinality(P \cap S) + 1
         /\ h \notin P => P \cap (S \cup {h}) = P \cap S
  <1>1. IsFiniteSet(P \cap S) /\ Cardinality(P \cap S) \in Nat
    BY FS_Subset, FS_CardinalityType
  <1>2. CASE h \in P
    <2>1. P \cap (S \cup {h}) = (P \cap S) \cup {h} /\ h \notin P \cap S
      BY <1>2
    <2> QED
      BY <1>1, <1>2, <2>1, FS_AddElement
  <1>3. CASE h \notin P
    <2>1. P \cap (S \cup {h}) = P \cap S
      BY <1>3
    <2> QED
      BY <1>1, <1>3, <2>1
  <1> QED
    BY <1>2, <1>3

\* Larger sets have no fewer.
LEMMA NoFewer ==
  ASSUME NEW S, IsFiniteSet(S), NEW T \in SUBSET S, NEW P
  PROVE  /\ Cardinality(P \cap T) \in Nat /\ Cardinality(P \cap S) \in Nat
         /\ Cardinality(P \cap T) <= Cardinality(P \cap S)
  <1>1. IsFiniteSet(P \cap S) /\ P \cap T \in SUBSET (P \cap S)
    BY FS_Subset
  <1>2. IsFiniteSet(P \cap T) /\ Cardinality(P \cap T) <= Cardinality(P \cap S)
    BY <1>1, FS_Subset
  <1> QED
    BY <1>1, <1>2, FS_CardinalityType

\* A session that fits does so when hooks are over that neither read nor write.
LEMMA SessionFitsOn ==
  ASSUME NEW s, NEW done, NEW may, SessionFits(kind, s, done, may),
         NEW done2, NEW may2, IsFiniteSet(may2), may \subseteq may2, done2 \subseteq may2,
         \A h \in done2 : h \in done \/ kind[h] \in {"session-start", "stop"}
  PROVE  SessionFits(kind, s, done2, may2)
  <1>1. ASSUME NEW f \in Files, NEW event \in {"pre-read", "post-read", "post-write"}, NEW n \in Nat
        PROVE  /\ About(kind, event, f) \cap done2 \subseteq About(kind, event, f) \cap done
               /\ Cardinality(About(kind, event, f) \cap done) <= n => Cardinality(About(kind, event, f) \cap done2) <= n
               /\ n <= Cardinality(About(kind, event, f) \cap may) => n <= Cardinality(About(kind, event, f) \cap may2)
               /\ n <= Cardinality(About(kind, event, f) \cap may) + 1
                    => n <= Cardinality(About(kind, event, f) \cap may2) + 1
    <2>1. About(kind, event, f) \cap done2 \subseteq About(kind, event, f) \cap done
      BY DEF About
    <2>2. IsFiniteSet(About(kind, event, f) \cap done)
      BY FS_Subset DEF SessionFits
    <2>3. /\ Cardinality(About(kind, event, f) \cap done2) <= Cardinality(About(kind, event, f) \cap done)
          /\ IsFiniteSet(About(kind, event, f) \cap done2)
      BY <2>1, <2>2, FS_Subset
    <2>4. /\ Cardinality(About(kind, event, f) \cap done2) \in Nat
          /\ Cardinality(About(kind, event, f) \cap done) \in Nat
      BY <2>2, <2>3, FS_CardinalityType
    <2>5. /\ Cardinality(About(kind, event, f) \cap may) <= Cardinality(About(kind, event, f) \cap may2)
          /\ Cardinality(About(kind, event, f) \cap may2) \in Nat
          /\ Cardinality(About(kind, event, f) \cap may) \in Nat
      BY NoFewer
    <2> QED
      BY <2>1, <2>3, <2>4, <2>5
  <1>2. ASSUME NEW f \in Files
        PROVE  /\ Cardinality(About(kind, "post-write", f) \cap done2) <= s.written[f]
               /\ s.written[f] <= Cardinality(About(kind, "post-write", f) \cap may2)
               /\ Cardinality(About(kind, "pre-read", f) \cap done2) <= s.read[f]
               /\ s.read[f] <= Cardinality(About(kind, "pre-read", f) \cap may2) + 1
    <2>1. s.written[f] \in Nat /\ s.read[f] \in Nat
      BY DEF SessionFits, Sessions, Counts
    <2>2. /\ Cardinality(About(kind, "post-write", f) \cap done) <= s.written[f]
          /\ s.written[f] <= Cardinality(About(kind, "post-write", f) \cap may)
          /\ Cardinality(About(kind, "pre-read", f) \cap done) <= s.read[f]
          /\ s.read[f] <= Cardinality(About(kind, "pre-read", f) \cap may) + 1
      BY DEF SessionFits
    <2> QED
      BY <1>1, <2>1, <2>2
  <1>3. ASSUME NEW f \in Files
        PROVE  LET reads == About(kind, "pre-read", f) \cup About(kind, "post-read", f)
               IN  /\ reads \cap done2 # {} => s.read[f] > 0
                   /\ s.read[f] > 0 => reads \cap may2 # {}
    <2>1. LET reads == About(kind, "pre-read", f) \cup About(kind, "post-read", f)
          IN  /\ reads \cap done # {} => s.read[f] > 0
              /\ s.read[f] > 0 => reads \cap may # {}
      BY DEF SessionFits
    <2> QED
      BY <1>1, <2>1
  <1> QED
    BY <1>2, <1>3 DEF SessionFits

\* So does one that counts the write of one hook more.
LEMMA WriteCounted ==
  ASSUME NEW s, NEW done, NEW may, SessionFits(kind, s, done, may), NEW h \in Hooks, h \notin may,
         kind[h] = "post-write", FileOf[h] \in Files
  PROVE  SessionFits(kind, [s EXCEPT !.written[FileOf[h]] = @ + 1], done \cup {h}, may \cup {h})
  <1> DEFINE t == [s EXCEPT !.written[FileOf[h]] = @ + 1]
  <1>1. /\ s \in Sessions /\ s.read \in [Files -> Nat] /\ s.written \in [Files -> Nat]
        /\ done \subseteq may /\ IsFiniteSet(may) /\ IsFiniteSet(done)
    BY FS_Subset DEF SessionFits, Sessions, Counts
  <1>2. /\ t \in Sessions /\ t.read = s.read /\ t.read # NoField
        /\ t.written = [s.written EXCEPT ![FileOf[h]] = s.written[FileOf[h]] + 1]
    BY <1>1 DEF Sessions, Counts, SessionFits
  <1>3. ASSUME NEW f \in Files
        PROVE  /\ h \in About(kind, "post-write", f) => t.written[f] = s.written[f] + 1
               /\ h \notin About(kind, "post-write", f) => t.written[f] = s.written[f]
    BY <1>1, <1>2 DEF About
  <1> HIDE DEF t
  <1>4. ASSUME NEW f \in Files, NEW event \in {"pre-read", "post-read"} PROVE h \notin About(kind, event, f)
    BY DEF About
  <1>5. ASSUME NEW f \in Files
        PROVE  /\ Cardinality(About(kind, "post-write", f) \cap (done \cup {h})) <= t.written[f]
               /\ t.written[f] <= Cardinality(About(kind, "post-write", f) \cap (may \cup {h}))
    <2>1. /\ Cardinality(About(kind, "post-write", f) \cap done) <= s.written[f]
          /\ s.written[f] <= Cardinality(About(kind, "post-write", f) \cap may)
          /\ s.written[f] \in Nat
      BY <1>1 DEF SessionFits
    <2>2. CASE h \in About(kind, "post-write", f)
      <3> DEFINE n == Cardinality(About(kind, "post-write", f) \cap done)
                 m == Cardinality(About(kind, "post-write", f) \cap may)
      <3>1. /\ n \in Nat /\ Cardinality(About(kind, "post-write", f) \cap (done \cup {h})) = n + 1
            /\ m \in Nat /\ Cardinality(About(kind, "post-write", f) \cap (may \cup {h})) = m + 1
        BY <1>1, <2>2, OneMore
      <3> QED
        BY <1>3, <2>1, <2>2, <3>1
    <2>3. CASE h \notin About(kind, "post-write", f)
      <3>1. /\ About(kind, "post-write", f) \cap (done \cup {h}) = About(kind, "post-write", f) \cap done
            /\ About(kind, "post-write", f) \cap (may \cup {h}) = About(kind, "post-write", f) \cap may
        BY <2>3
      <3>2. t.written[f] = s.written[f]
        BY <1>3, <2>3
      <3> QED
        BY <2>1, <3>1, <3>2
    <2> QED
      BY <2>2, <2>3
  <1>6. ASSUME NEW f \in Files
        PROVE  /\ About(kind, "pre-read", f) \cap (done \cup {h}) = About(kind, "pre-read", f) \cap done
               /\ About(kind, "pre-read", f) \cap (may \cup {h}) = About(kind, "pre-read", f) \cap may
               /\ About(kind, "post-read", f) \cap (done \cup {h}) = About(kind, "post-read", f) \cap done
               /\ About(kind, "post-read", f) \cap (may \cup {h}) = About(kind, "post-read", f) \cap may
    BY <1>4
  <1>7. t.written # NoField
    BY <1>1, <1>2, FilesAssumption DEF FilesAssumption
  <1>8. IsFiniteSet(may \cup {h})
    BY <1>1, FS_AddElement
  <1>9. ASSUME NEW f \in Files
        PROVE  LET pre == About(kind, "pre-read", f)  reads == pre \cup About(kind, "post-read", f)
               IN  /\ Cardinality(pre \cap (done \cup {h})) <= t.read[f]
                   /\ t.read[f] <= Cardinality(pre \cap (may \cup {h})) + 1
                   /\ reads \cap (done \cup {h}) # {} => t.read[f] > 0
                   /\ t.read[f] > 0 => reads \cap (may \cup {h}) # {}
    <2>1. LET pre == About(kind, "pre-read", f)  reads == pre \cup About(kind, "post-read", f)
          IN  /\ Cardinality(pre \cap done) <= s.read[f]
              /\ s.read[f] <= Cardinality(pre \cap may) + 1
              /\ reads \cap done # {} => s.read[f] > 0
              /\ s.read[f] > 0 => reads \cap may # {}
      BY DEF SessionFits
    <2> QED
      BY <1>2, <1>6, <2>1
  <1>10. SessionFits(kind, t, done \cup {h}, may \cup {h})
    BY <1>1, <1>2, <1>5, <1>7, <1>8, <1>9 DEF SessionFits
  <1> QED
    BY <1>10 DEF t

\* And one that counts the read of one hook more.
LEMMA ReadCounted ==
  ASSUME NEW s, NEW done, NEW may, SessionFits(kind, s, done, may), NEW h \in Hooks, h \notin may,
         FileOf[h] \in Files, NEW n,
         \/ kind[h] = "pre-read" /\ n = s.read[FileOf[h]] + 1
         \/ kind[h] = "post-read" /\ n = IF s.read[FileOf[h]] = 0 THEN 1 ELSE s.read[FileOf[h]]
  PROVE  SessionFits(kind, [s EXCEPT !.read[FileOf[h]] = n], done \cup {h}, may \cup {h})
  <1> DEFINE t == [s EXCEPT !.read[FileOf[h]] = n]
             pre(f) == About(kind, "pre-read", f)
             post(f) == About(kind, "post-read", f)
  <1>1. /\ s \in Sessions /\ s.read \in [Files -> Nat] /\ s.written \in [Files -> Nat]
        /\ done \subseteq may /\ IsFiniteSet(may) /\ IsFiniteSet(done) /\ h \notin done
    BY FS_Subset DEF SessionFits, Sessions, Counts
  <1>2. n \in Nat /\ n > 0 /\ s.read[FileOf[h]] \in Nat
    BY <1>1
  <1>3. /\ t.written = s.written /\ t.read \in [Files -> Nat] /\ t \in Sessions
        /\ t.read = [s.read EXCEPT ![FileOf[h]] = n]
    BY <1>1, <1>2 DEF Sessions, Counts
  <1>4. t.read # NoField /\ t.written # NoField /\ IsFiniteSet(may \cup {h})
    BY <1>1, <1>3, FilesAssumption, FS_AddElement DEF FilesAssumption
  <1>5. /\ t.read[FileOf[h]] = n
        /\ \A f \in Files \ {FileOf[h]} : t.read[f] = s.read[f]
    BY <1>1, <1>3
  <1> HIDE DEF t
  <1>6. ASSUME NEW f \in Files
        PROVE  /\ About(kind, "post-write", f) \cap (done \cup {h}) = About(kind, "post-write", f) \cap done
               /\ About(kind, "post-write", f) \cap (may \cup {h}) = About(kind, "post-write", f) \cap may
    BY DEF About
  <1>7. ASSUME NEW f \in Files
        PROVE  /\ Cardinality(pre(f) \cap (done \cup {h})) <= t.read[f]
               /\ t.read[f] <= Cardinality(pre(f) \cap (may \cup {h})) + 1
               /\ (pre(f) \cup post(f)) \cap (done \cup {h}) # {} => t.read[f] > 0
               /\ t.read[f] > 0 => (pre(f) \cup post(f)) \cap (may \cup {h}) # {}
    <2> DEFINE c == Cardinality(pre(f) \cap done)
               m == Cardinality(pre(f) \cap may)
    <2>1. /\ c <= s.read[f] /\ s.read[f] <= m + 1 /\ s.read[f] \in Nat
          /\ (pre(f) \cup post(f)) \cap done # {} => s.read[f] > 0
          /\ s.read[f] > 0 => (pre(f) \cup post(f)) \cap may # {}
      BY <1>1 DEF SessionFits
    <2>2. /\ c \in Nat /\ m \in Nat
          /\ h \in pre(f) => /\ Cardinality(pre(f) \cap (done \cup {h})) = c + 1
                             /\ Cardinality(pre(f) \cap (may \cup {h})) = m + 1
          /\ h \notin pre(f) => /\ pre(f) \cap (done \cup {h}) = pre(f) \cap done
                                /\ pre(f) \cap (may \cup {h}) = pre(f) \cap may
      BY <1>1, OneMore
    <2>3. CASE f # FileOf[h]
      <3>1. h \notin pre(f) /\ h \notin post(f) /\ t.read[f] = s.read[f]
        BY <1>5, <2>3 DEF About
      <3> HIDE DEF pre, post
      <3> QED
        BY <2>1, <2>2, <3>1
    <2>4. CASE f = FileOf[h]
      <3>1. h \in pre(f) \cup post(f) /\ t.read[f] = n
        BY <1>5, <2>4 DEF About
      <3>2. CASE kind[h] = "pre-read"
        <4>1. h \in pre(f) /\ n = s.read[f] + 1
          BY <2>4, <3>2 DEF About
        <4> HIDE DEF pre, post
        <4> QED
          BY <1>2, <2>1, <2>2, <3>1, <4>1
      <3>3. CASE kind[h] = "post-read"
        <4>1. h \notin pre(f) /\ n = IF s.read[f] = 0 THEN 1 ELSE s.read[f]
          BY <2>4, <3>3 DEF About
        <4>2. s.read[f] <= n /\ n <= m + 1 /\ c <= n
          BY <2>1, <2>2, <4>1
        <4>3. /\ pre(f) \cap (done \cup {h}) = pre(f) \cap done
              /\ pre(f) \cap (may \cup {h}) = pre(f) \cap may
          BY <2>2, <4>1
        <4>4. t.read[f] > 0 /\ (pre(f) \cup post(f)) \cap (may \cup {h}) # {}
          BY <1>2, <3>1
        <4> HIDE DEF pre, post
        <4> QED
          BY <3>1, <4>2, <4>3, <4>4
      <3> QED
        BY <3>2, <3>3
    <2> QED
      BY <2>3, <2>4
  <1>8. ASSUME NEW f \in Files
        PROVE  /\ Cardinality(About(kind, "post-write", f) \cap (done \cup {h})) <= t.written[f]
               /\ t.written[f] <= Cardinality(About(kind, "post-write", f) \cap (may \cup {h}))
    BY <1>3, <1>6 DEF SessionFits
  <1> QED
    BY <1>1, <1>3, <1>4, <1>7, <1>8 DEF SessionFits, t

\* A ledger that fits does so when hooks are over that start no session.
LEMMA LedgerFitsOn ==
  ASSUME NEW l, NEW done, NEW may, LedgerFits(kind, l, done, may),
         NEW done2, NEW may2, IsFiniteSet(may2), may \subseteq may2, done2 \subseteq may2,
         \A h \in done2 : h \in done \/ kind[h] # "session-start"
  PROVE  LedgerFits(kind, l, done2, may2)
  <1>1. Starts(kind) \cap done2 \subseteq Starts(kind) \cap done /\ l.starts \in Nat
    BY DEF Starts, LedgerFits, Ledgers
  <1>2. IsFiniteSet(Starts(kind) \cap done) /\ Cardinality(Starts(kind) \cap done) \in Nat
    BY FS_Subset, FS_CardinalityType DEF LedgerFits
  <1>3. /\ Cardinality(Starts(kind) \cap done2) <= Cardinality(Starts(kind) \cap done)
        /\ Cardinality(Starts(kind) \cap done2) \in Nat
    BY <1>1, <1>2, FS_Subset, FS_CardinalityType
  <1>4. /\ Cardinality(Starts(kind) \cap may) <= Cardinality(Starts(kind) \cap may2)
        /\ Cardinality(Starts(kind) \cap may) \in Nat /\ Cardinality(Starts(kind) \cap may2) \in Nat
    BY NoFewer
  <1> QED
    BY <1>1, <1>2, <1>3, <1>4 DEF LedgerFits

\* So does one that counts one session start more.
LEMMA StartCounted ==
  ASSUME NEW l, NEW done, NEW may, LedgerFits(kind, l, done, may), NEW h \in Hooks, h \notin may,
         kind[h] = "session-start"
  PROVE  LedgerFits(kind, [l EXCEPT !.starts = @ + 1], done \cup {h}, may \cup {h})
  <1>1. /\ l \in Ledgers /\ done \subseteq may /\ IsFiniteSet(may) /\ IsFiniteSet(done)
        /\ h \in Starts(kind) /\ IsFiniteSet(may \cup {h})
    BY FS_Subset, FS_AddElement DEF LedgerFits, Starts
  <1>2. [l EXCEPT !.starts = @ + 1] \in Ledgers /\ [l EXCEPT !.starts = @ + 1].starts = l.starts + 1
    BY <1>1 DEF Ledgers
  <1> DEFINE c == Cardinality(Starts(kind) \cap done)
             m == Cardinality(Starts(kind) \cap may)
  <1>3. /\ c \in Nat /\ Cardinality(Starts(kind) \cap (done \cup {h})) = c + 1
        /\ m \in Nat /\ Cardinality(Starts(kind) \cap (may \cup {h})) = m + 1
    BY <1>1, OneMore
  <1>4. c <= l.starts /\ l.starts <= m /\ l.starts \in Nat
    BY <1>1 DEF LedgerFits, Ledgers
  <1>5. /\ Cardinality(Starts(kind) \cap (done \cup {h})) <= l.starts + 1
        /\ l.starts + 1 <= Cardinality(Starts(kind) \cap (may \cup {h}))
    BY <1>3, <1>4
  <1> QED
    BY <1>1, <1>2, <1>5 DEF LedgerFits

-----------------------------------------------------------------------------
\* A step of the hook that runs concerns no other one.
LEMMA OthersExact ==
  ASSUME SessionInv, SerialInv, ~overlapped, NEW h \in Hooks,
         Running(h) \/ ~(\E g \in Hooks : Running(g)), NEW label, Goto(h, label)
  PROVE  /\ pc' = [pc EXCEPT ![h] = label] /\ pc'[h] = label
         /\ \A g \in Hooks \ {h} : HookExact(g)'
  <1>1. pc' = [pc EXCEPT ![h] = label] /\ pc'[h] = label
    BY DEF Goto, SessionInv, Shared
  <1>2. \A g \in Hooks \ {h} : ~Running(g)'
    BY <1>1 DEF SerialInv, Running, SessionInv, Shared
  <1>3. \A g \in Hooks \ {h} : ~Writes(g)' /\ ~Heads(g, {"enter", "save"})'
    BY <1>2 DEF Running, Writes, Heads
  <1> QED
    BY <1>1, <1>2, <1>3 DEF HookExact

\* The hook that runs is the only one that may be writing in place.
LEMMA OnlyRewrites ==
  ASSUME SerialInv, ~overlapped, NEW h \in Hooks, Running(h) \/ ~(\E g \in Hooks : Running(g))
  PROVE  /\ \A g \in Hooks \ {h} : pc[g] \notin {"rename", "rewrite"}
         /\ \A doc : Rewriting(doc) <=> pc[h] = "rewrite" /\ write[h].doc = doc
  <1>1. \A g \in Hooks \ {h} : ~Running(g)
    BY DEF SerialInv
  <1> QED
    BY <1>1 DEF Running, Rewriting

\* A hook writes its temporary file: of a document that counts it.
LEMMA BeginWriteExact ==
  ASSUME SessionInv, SerialInv, ExactInv, ~overlapped, NEW h \in Hooks, Running(h), pc[h] # "rewrite",
         NEW doc, NEW v, NEW next \in {"count", "done", "track", "save"},
         BeginWrite(h, doc, v, next), UNCHANGED <<kind, since, cut, overlapped>>,
         doc = "session" /\ kind[h] # "session-start" /\ HasBegun /\ "session" \notin cut =>
           SessionFits(kind, v, (Finished \cap since) \cup {h}, (Past \cap since) \cup {h}),
         doc = "ledger" /\ "ledger" \notin cut =>
           \/ kind[h] = "session-start" /\ LedgerFits(kind, v, Finished \cup {h}, Past \cup {h})
           \/ kind[h] = "stop" /\ LedgerFits(kind, v, Finished, Past),
         doc = "anatomy" /\ "anatomy" \notin cut => ListsAll(v) /\ FileOf[h] \in v,
         next = "save" /\ HasBegun /\ "session" \notin cut =>
           SessionFits(kind, copy'[h], Finished \cap since, Past \cap since),
         doc = "session" /\ kind[h] = "post-write" => HasListed(h)
  PROVE  ExactInv'
  <1>1. /\ Goto(h, "rename") /\ UNCHANGED files
        /\ write' = [write EXCEPT ![h] = [doc |-> doc, value |-> v, next |-> next]]
    BY DEF BeginWrite, Writing
  <1>2. /\ pc' = [pc EXCEPT ![h] = "rename"] /\ pc'[h] = "rename"
        /\ \A g \in Hooks \ {h} : HookExact(g)'
    BY <1>1, OthersExact
  <1>3. write'[h] = [doc |-> doc, value |-> v, next |-> next]
    BY <1>1 DEF SessionInv, Shared
  <1>4. Past' = Past /\ Finished' = Finished /\ HasBegun' = HasBegun
    BY <1>2 DEF Past, Finished, HasBegun, Running, SessionInv, Shared
  <1>5. Writers' = Writers
    BY <1>2 DEF Writers, Running, SessionInv, Shared
  <1>6. \A g \in Hooks : HasListed(g)' => HasListed(g)
    BY <1>1, <1>2, <1>3 DEF HasListed, Writes, SessionInv, Shared
  <1>7. \A a : ListsAll(a) => ListsAll(a)'
    BY <1>5, <1>6 DEF ListsAll, AnatomyFits
  <1>8. HookExact(h)'
    <2>1. Running(h) => kind[h] = "session-start" \/ h \in since
      BY DEF ExactInv, HookExact
    <2> QED
      BY <1>1, <1>2, <1>3, <1>4, <1>7, <2>1 DEF HookExact, Heads, Writes, files, ListsAll
  <1>9. DocsExact'
    <2>1. \A d : Intact(d)' => Intact(d)
      BY <1>1, <1>2, OnlyRewrites DEF Intact
    <2> QED
      BY <1>1, <1>4, <1>7, <2>1 DEF ExactInv, DocsExact, files, ListsAll
  <1> QED
    BY <1>2, <1>4, <1>8, <1>9 DEF ExactInv

\* A hook starts, goes on without a write, or ends: what it ends without having
\* written, nothing has to count; and a write in place is cut short.
LEMMA GotoExact ==
  ASSUME SessionInv, SerialInv, ExactInv, ~overlapped, NEW h \in Hooks,
         Running(h) \/ (pc[h] = "idle" /\ ~(\E g \in Hooks : Running(g))),
         NEW label \in PCs \ {"idle", "rename", "rewrite", "track", "save"}, Goto(h, label),
         UNCHANGED <<files, write, kind>>,
         cut \subseteq cut', pc[h] = "rewrite" => write[h].doc \in cut',
         \/ since' = since
         \/ since' = since \cup {h} /\ kind[h] # "session-start" /\ label \notin {"done", "threw", "killed"},
         label \in {"done", "threw", "killed"} \/ kind[h] = "session-start" \/ h \in since',
         label = "done" => /\ kind[h] # "session-start" /\ ~(HasBegun /\ "session" \notin cut)
                           /\ kind[h] = "post-write" => HasListed(h),
         label = "enter" /\ HasBegun /\ "session" \notin cut =>
           SessionFits(kind, copy'[h], Finished \cap since, Past \cap since)
  PROVE  ExactInv'
  <1>1. /\ pc' = [pc EXCEPT ![h] = label] /\ pc'[h] = label
        /\ \A g \in Hooks \ {h} : HookExact(g)'
    BY OthersExact
  <1>2. h \notin Past
    BY DEF Past, Running
  <1>3. IF label \in {"done", "threw", "killed"} THEN Past' = Past \cup {h} ELSE Past' = Past
    BY <1>1, <1>2 DEF Past, SessionInv, Shared
  <1>4. IF label = "done" THEN Finished' = Finished \cup {h} ELSE Finished' = Finished
    BY <1>1, <1>2 DEF Past, Finished, SessionInv, Shared
  <1>5. HasBegun' = HasBegun
    BY DEF HasBegun
  <1>6. IsFiniteSet(Past') /\ Finished' \subseteq Past' /\ IsFiniteSet(Past' \cap since')
    <2>1. IsFiniteSet(Past')
      BY <1>3, FS_AddElement DEF ExactInv
    <2> QED
      BY <2>1, FS_Subset DEF Finished, Past
  <1>7. \A d : Intact(d)' => Intact(d)
    <2>1. \A d : Rewriting(d) => pc[h] = "rewrite" /\ write[h].doc = d
      BY OnlyRewrites
    <2> QED
      BY <2>1 DEF Intact
  <1>8. HasBegun' /\ Intact("session")' =>
          SessionFits(kind, session, Finished' \cap since', Past' \cap since')
    <2> SUFFICES ASSUME HasBegun, Intact("session")'
                 PROVE  SessionFits(kind, session, Finished' \cap since', Past' \cap since')
      BY <1>5
    <2>1. SessionFits(kind, session, Finished \cap since, Past \cap since) /\ "session" \notin cut
      BY <1>7 DEF ExactInv, DocsExact, Intact
    <2>2. /\ Past \cap since \subseteq Past' \cap since'
          /\ Finished' \cap since' \subseteq Finished \cap since
      BY <1>1, <1>2, <1>3, <1>4, <2>1 DEF Finished, Past
    <2>3. \A g \in Finished' \cap since' : g \in Finished \cap since
      BY <2>2
    <2>4. Finished' \cap since' \subseteq Past' \cap since'
      BY <1>6
    <2> QED
      BY <1>6, <2>1, <2>2, <2>3, <2>4, SessionFitsOn
  <1>9. Intact("ledger")' => LedgerFits(kind, ledger, Finished', Past')
    <2>1. Past \subseteq Past' /\ \A g \in Finished' : g \in Finished \/ kind[g] # "session-start"
      BY <1>3, <1>4
    <2> QED
      BY <1>6, <1>7, <2>1, LedgerFitsOn DEF ExactInv, DocsExact
  <1>10. Intact("anatomy")' => ListsAll(anatomy)'
    <2>1. Writers \subseteq Writers'
      BY <1>1 DEF Writers, SessionInv, Shared
    <2>2. \A g \in Hooks : HasListed(g)' => HasListed(g)
      BY <1>1 DEF HasListed, Writes, SessionInv, Shared
    <2> QED
      BY <1>7, <2>1, <2>2 DEF ExactInv, DocsExact, ListsAll, AnatomyFits, files
  <1>11. HookExact(h)'
    <2>1. Heads(h, {"enter", "save"})' => label = "enter"
      BY <1>1 DEF Heads, Writes
    <2>2. label = "enter" => Finished' \cap since' = Finished \cap since /\ Past' \cap since' = Past \cap since
      BY <1>2, <1>3, <1>4 DEF Past, Finished
    <2>3. Running(h)' => label \notin {"done", "threw", "killed"}
      BY <1>1 DEF Running
    <2> QED
      BY <1>1, <1>5, <2>1, <2>2, <2>3 DEF HookExact, Writes
  <1> QED
    BY <1>1, <1>6, <1>8, <1>9, <1>10, <1>11 DEF ExactInv, DocsExact, files

\* A fresh session fits when nothing has run in it.
LEMMA FreshFits == \A h \in Hooks : SessionFits(kind, FreshSession(h), {}, {})
  <1> SUFFICES ASSUME NEW h \in Hooks PROVE SessionFits(kind, FreshSession(h), {}, {})
    OBVIOUS
  <1>1. /\ Zero \in [Files -> Nat] /\ \A f \in Files : Zero[f] = 0
        /\ FreshSession(h) = [id |-> h, read |-> Zero, written |-> Zero]
    BY DEF Zero, FreshSession
  <1>2. FreshSession(h) \in Sessions /\ Zero # NoField
    BY <1>1, FilesAssumption DEF Sessions, Counts, FilesAssumption
  <1>3. IsFiniteSet({}) /\ \A P : P \cap {} = {} /\ Cardinality(P \cap {}) = 0
    BY FS_EmptySet
  <1> QED
    BY <1>1, <1>2, <1>3 DEF SessionFits

\* While a document is torn, the others stay as they are.
LEMMA TearExact ==
  ASSUME SessionInv, SerialInv, ExactInv, ~overlapped, NEW h \in Hooks, Writes(h), Tears(h),
         UNCHANGED <<copy, kind, overlapped>>
  PROVE  ExactInv'
  <1> DEFINE mine == write[h].doc
  <1>1. Running(h) /\ Goto(h, "rewrite") /\ UNCHANGED <<write, cut, since>>
    BY DEF Tears, Running, Writes
  <1>2. /\ pc' = [pc EXCEPT ![h] = "rewrite"] /\ pc'[h] = "rewrite"
        /\ \A g \in Hooks \ {h} : HookExact(g)'
    BY <1>1, OthersExact
  <1>3. Past' = Past /\ Finished' = Finished /\ HasBegun' = HasBegun /\ Writers' = Writers
    BY <1>1, <1>2 DEF Past, Finished, HasBegun, Writers, Running, SessionInv, Shared
  <1>4. \A g \in Hooks : HasListed(g)' => HasListed(g)
    BY <1>1, <1>2 DEF HasListed, Writes, SessionInv, Shared
  <1>5. \A a : ListsAll(a) => ListsAll(a)'
    BY <1>3, <1>4 DEF ListsAll, AnatomyFits
  <1>6. HookExact(h)'
    <2>1. HookExact(h)
      BY DEF ExactInv
    <2> QED
      BY <1>1, <1>2, <1>3, <1>5, <2>1 DEF HookExact, Heads, Writes, Running, ListsAll
  <1>7. DocsExact'
    <2>1. \A d : Intact(d)' => d # mine /\ Intact(d)
      BY <1>1, <1>2, OnlyRewrites DEF Intact, Rewriting
    <2>2. /\ mine # "session" => session' = session
          /\ mine # "ledger" => ledger' = ledger
          /\ mine # "anatomy" => anatomy' = anatomy
      BY DEF Tears, Store
    <2> QED
      BY <1>1, <1>3, <1>5, <2>1, <2>2 DEF ExactInv, DocsExact
  <1> QED
    BY <1>2, <1>3, <1>6, <1>7 DEF ExactInv

\* What takes the place of a document counts the hook that has written it, unless
\* it is not what it should be.
LEMMA EndWriteExact ==
  ASSUME SessionInv, CourseInv, SerialInv, ExactInv, ~overlapped, NEW h \in Hooks, Writes(h),
         NEW v, EndWrite(h, v), UNCHANGED <<copy, kind, overlapped>>
  PROVE  ExactInv'
  <1> DEFINE doc == write[h].doc
             next == write[h].next
             begun == v = write[h].value /\ doc = "session" /\ kind[h] = "session-start"
  <1>1. /\ Running(h) /\ Goto(h, next)
        /\ write' = [write EXCEPT ![h] = NoField]
        /\ session' = (IF doc = "session" THEN v ELSE session)
        /\ ledger' = (IF doc = "ledger" THEN v ELSE ledger)
        /\ anatomy' = (IF doc = "anatomy" THEN v ELSE anatomy)
        /\ since' = (IF begun THEN {h} ELSE since)
    BY DEF EndWrite, Running, Writes, Store
  <1>2. /\ pc' = [pc EXCEPT ![h] = next] /\ pc'[h] = next
        /\ \A g \in Hooks \ {h} : HookExact(g)'
    BY <1>1, OthersExact
  <1>3. /\ h \notin Past /\ HookExact(h) /\ Course(h)
        /\ next \in {"count", "done", "track", "save"}
    BY <1>1 DEF Past, Running, ExactInv, CourseInv, SessionInv, HookOK
  <1>4. /\ IF next = "done" THEN Past' = Past \cup {h} ELSE Past' = Past
        /\ IF next = "done" THEN Finished' = Finished \cup {h} ELSE Finished' = Finished
    BY <1>2, <1>3 DEF Past, Finished, SessionInv, Shared
  <1>5. IsFiniteSet(Past') /\ Finished' \subseteq Past' /\ IsFiniteSet(Past' \cap since')
    <2>1. IsFiniteSet(Past')
      BY <1>4, FS_AddElement DEF ExactInv
    <2> QED
      BY <2>1, FS_Subset DEF Finished, Past
  <1>6. /\ \A d : d # doc /\ Intact(d)' => Intact(d)
        /\ \A d : d = doc /\ Intact(d)' => v = write[h].value /\ (d \notin cut \/ begun)
        /\ \A d : d # doc /\ d \notin cut' => d \notin cut
    <2>1. \A d : Rewriting(d) => d = doc
      BY <1>1, OnlyRewrites
    <2>2. cut' = (IF v # write[h].value THEN cut \cup {doc} ELSE IF begun THEN cut \ {doc} ELSE cut)
      BY DEF EndWrite
    <2>3. (v # write[h].value => doc \in cut') /\ (~begun /\ doc \in cut => doc \in cut')
      BY <2>2
    <2>4. \A d : d # doc => (d \in cut' <=> d \in cut)
      BY <2>2
    <2>5. \A d : Intact(d)' => d \notin cut'
      BY DEF Intact
    <2>6. \A d : d \notin cut /\ d # doc => Intact(d)
      BY <2>1 DEF Intact
    <2> QED
      BY <2>3, <2>4, <2>5, <2>6
  <1>7. HasBegun' /\ Intact("session")' =>
          SessionFits(kind, session', Finished' \cap since', Past' \cap since')
    <2>1. CASE begun
      <3>1. next = "count" /\ v = FreshSession(h)
        BY <1>3, <2>1 DEF Course
      <3>2. Finished' \cap since' = {} /\ Past' \cap since' = {}
        BY <1>1, <1>3, <1>4, <2>1, <3>1 DEF Past, Finished
      <3> QED
        BY <1>1, <2>1, <3>1, <3>2, FreshFits
    <2>2. CASE ~begun /\ doc = "session"
      <3> SUFFICES ASSUME HasBegun', Intact("session")'
                   PROVE  SessionFits(kind, session', Finished' \cap since', Past' \cap since')
        OBVIOUS
      <3>1. v = write[h].value /\ "session" \notin cut /\ kind[h] # "session-start"
        BY <1>6, <2>2
      <3>2. next = "done" /\ h \in since /\ since' = since /\ HasBegun
        BY <1>1, <1>3, <2>2, <3>1 DEF Course, HookExact, HasBegun
      <3>3. /\ Finished' \cap since' = (Finished \cap since) \cup {h}
            /\ Past' \cap since' = (Past \cap since) \cup {h}
        BY <1>4, <3>2
      <3>4. SessionFits(kind, write[h].value, (Finished \cap since) \cup {h}, (Past \cap since) \cup {h})
        BY <1>3, <2>2, <3>1, <3>2 DEF HookExact
      <3> QED
        BY <1>1, <2>2, <3>1, <3>3, <3>4
    <2>3. CASE doc # "session"
      <3> SUFFICES ASSUME HasBegun', Intact("session")'
                   PROVE  SessionFits(kind, session', Finished' \cap since', Past' \cap since')
        OBVIOUS
      <3>1. since' = since /\ session' = session /\ HasBegun /\ Intact("session")
        BY <1>1, <1>6, <2>3 DEF HasBegun
      <3>2. next = "done" => kind[h] = "session-start"
        BY <1>1, <1>3, <2>3 DEF Course
      <3>3. /\ Past \cap since \subseteq Past' \cap since'
            /\ \A g \in Finished' \cap since' : g \in Finished \cap since \/ kind[g] = "session-start"
        BY <1>4, <3>1, <3>2
      <3>4. Finished' \cap since' \subseteq Past' \cap since'
        BY <1>5
      <3>5. SessionFits(kind, session, Finished \cap since, Past \cap since)
        BY <3>1 DEF ExactInv, DocsExact
      <3> QED
        BY <1>5, <3>1, <3>3, <3>4, <3>5, SessionFitsOn
    <2> QED
      BY <2>1, <2>2, <2>3
  <1>8. Intact("ledger")' => LedgerFits(kind, ledger', Finished', Past')
    <2> SUFFICES ASSUME Intact("ledger")' PROVE LedgerFits(kind, ledger', Finished', Past')
      OBVIOUS
    <2>1. CASE doc = "ledger"
      <3>1. v = write[h].value /\ "ledger" \notin cut
        BY <1>6, <2>1
      <3> QED
        BY <1>1, <1>3, <1>4, <2>1, <3>1 DEF Course, HookExact
    <2>2. CASE doc # "ledger"
      <3>1. next = "done" => kind[h] # "session-start"
        BY <1>1, <1>3, <2>2 DEF Course
      <3>2. /\ ledger' = ledger /\ Past \subseteq Past'
            /\ \A g \in Finished' : g \in Finished \/ kind[g] # "session-start"
        BY <1>1, <1>4, <2>2, <3>1
      <3>3. LedgerFits(kind, ledger, Finished, Past)
        BY <1>6, <2>2 DEF ExactInv, DocsExact
      <3> QED
        BY <1>5, <3>2, <3>3, LedgerFitsOn
    <2> QED
      BY <2>1, <2>2
  <1>9. Intact("anatomy")' => ListsAll(anatomy)'
    <2> SUFFICES ASSUME Intact("anatomy")' PROVE ListsAll(anatomy)'
      OBVIOUS
    <2>1. Writers' = Writers
      BY <1>1, <1>2, <1>3 DEF Writers, Running, SessionInv, Shared
    <2>2. \A g \in Hooks \ {h} : HasListed(g)' => HasListed(g)
      BY <1>1, <1>2 DEF HasListed, Writes, SessionInv, Shared
    <2>3. CASE doc = "anatomy"
      <3>1. anatomy' = write[h].value /\ "anatomy" \notin cut
        BY <1>1, <1>6, <2>3
      <3>2. ListsAll(write[h].value) /\ FileOf[h] \in write[h].value
        BY <1>3, <2>3, <3>1 DEF HookExact
      <3> QED
        BY <2>1, <2>2, <3>1, <3>2 DEF ListsAll, AnatomyFits
    <2>4. CASE doc # "anatomy"
      <3>1. anatomy' = anatomy /\ ListsAll(anatomy)
        BY <1>1, <1>6, <2>4 DEF ExactInv, DocsExact
      <3>2. HasListed(h)' => HasListed(h)
        BY <1>1, <1>2, <1>3, <2>4 DEF HasListed, Course, Writes
      <3> QED
        BY <2>1, <2>2, <3>1, <3>2 DEF ListsAll, AnatomyFits
    <2> QED
      BY <2>3, <2>4
  <1>10. HookExact(h)'
    <2>1. ~Writes(h)' /\ (Heads(h, {"enter", "save"})' => next = "save")
      BY <1>2, <1>3 DEF Writes, Heads
    <2>2. Running(h)' => kind[h] = "session-start" \/ h \in since'
      BY <1>1, <1>3 DEF HookExact
    <2>3. CASE next = "save"
      <3>1. doc = "ledger" /\ kind[h] = "stop" /\ Heads(h, {"enter", "save"})
        BY <1>1, <1>3, <2>3 DEF Course, Heads
      <3>2. since' = since /\ HasBegun' = HasBegun /\ Past' = Past /\ Finished' = Finished
        BY <1>1, <1>4, <2>3, <3>1 DEF HasBegun
      <3>3. "session" \notin cut' => "session" \notin cut
        BY <1>6, <3>1
      <3> QED
        BY <1>1, <1>3, <2>1, <2>2, <3>1, <3>2, <3>3 DEF HookExact
    <2>4. CASE next # "save"
      BY <1>1, <2>1, <2>2, <2>4 DEF HookExact
    <2> QED
      BY <2>3, <2>4
  <1> QED
    BY <1>2, <1>5, <1>7, <1>8, <1>9, <1>10 DEF ExactInv, DocsExact

-----------------------------------------------------------------------------
\* After a session start, hooks read the session that is there, if it is intact.
LEMMA ReadsSession ==
  ASSUME ExactInv, ~overlapped, HasBegun, Intact("session"), NEW reader
  PROVE  ReadSession(reader) = session /\ SessionFits(kind, session, Finished \cap since, Past \cap since)
  BY FilesAssumption DEF ExactInv, DocsExact, SessionFits, ReadSession, FilesAssumption

\* A session that fits does so with a stop that is over.
LEMMA FitsWithStop ==
  ASSUME NEW s, NEW done, NEW may, SessionFits(kind, s, done, may), NEW h, kind[h] = "stop"
  PROVE  SessionFits(kind, s, done \cup {h}, may \cup {h})
  <1>1. IsFiniteSet(may \cup {h}) /\ done \cup {h} \subseteq may \cup {h}
    BY FS_AddElement DEF SessionFits
  <1> QED
    BY <1>1, SessionFitsOn

\* What no write was cut short on is intact while the hook that runs is not
\* writing in place.
LEMMA IntactWhile ==
  ASSUME SerialInv, ~overlapped, NEW h \in Hooks, Running(h), pc[h] # "rewrite", NEW doc, doc \notin cut
  PROVE  Intact(doc)
  BY OnlyRewrites DEF Intact

\* The steps of a session start, the listing of a file, and a kill.
LEMMA StartingExact ==
  ASSUME SessionInv, DocsInv, CourseInv, SerialInv, ExactInv, ~overlapped', NEW h \in Hooks,
         Start(h) \/ Sweep(h) \/ Fresh(h) \/ CountSession(h) \/ ListFile(h) \/ Kill(h)
  PROVE  ExactInv'
  <1>0. ~overlapped
    BY DEF Start, Sweep, Fresh, CountSession, ListFile, Kill
  <1>1. ~overlapped /\ kind[h] \in Kinds /\ HookExact(h) /\ Course(h)
    BY <1>0 DEF ExactInv, SessionInv, Shared, CourseInv
  <1>2. CASE Start(h)
    <2>1. /\ pc[h] = "idle" /\ ~(\E g \in Hooks : Running(g)) /\ UNCHANGED <<files, write, kind, cut>>
          /\ \/ since' = since
             \/ since' = since \cup {h} /\ kind[h] # "session-start"
      BY <1>2 DEF Start
    <2>2. kind[h] = "session-start" \/ h \in since'
      BY <1>2 DEF Start
    <2>3. PICK label \in {"sweep", "look", "list", "sum"} : Goto(h, label)
      BY <1>1, <1>2 DEF Start, Kinds
    <2>4. label \in PCs \ {"idle", "rename", "rewrite", "track", "save"} /\ label \notin {"done", "threw", "killed", "enter"}
      BY <2>3 DEF PCs
    <2> QED
      BY <1>1, <2>1, <2>2, <2>3, <2>4, GotoExact
  <1>3. CASE Sweep(h)
    BY <1>1, <1>3, GotoExact DEF Sweep, Running, PCs, Course
  <1>4. CASE Fresh(h)
    BY <1>1, <1>4, BeginWriteExact DEF Fresh, Running, Course
  <1>5. CASE CountSession(h)
    <2>1. /\ pc[h] = "count" /\ kind[h] = "session-start" /\ h \notin Past /\ Running(h)
          /\ UNCHANGED <<kind, since, cut, overlapped>>
      BY <1>1, <1>5 DEF CountSession, Course, Past, Running
    <2>2. PICK l : l = [ReadLedger("session-start") EXCEPT !.starts = @ + 1]
      OBVIOUS
    <2>3. ASSUME "ledger" \notin cut PROVE LedgerFits(kind, l, Finished \cup {h}, Past \cup {h})
      <3>1. Intact("ledger")
        BY <1>1, <2>1, <2>3, IntactWhile
      <3>2. ReadLedger("session-start") = ledger /\ LedgerFits(kind, ledger, Finished, Past)
        BY <1>1, <3>1, FilesAssumption DEF ExactInv, DocsExact, LedgerFits, ReadLedger, FilesAssumption
      <3> QED
        BY <2>1, <2>2, <3>2, StartCounted
    <2>4. BeginWrite(h, "ledger", l, "done")
      BY <1>5, <2>2 DEF CountSession
    <2> QED
      BY <1>1, <2>1, <2>3, <2>4, BeginWriteExact
  <1>6. CASE ListFile(h)
    <2>1. /\ pc[h] = "list" /\ kind[h] = "post-write" /\ Running(h) /\ h \in Writers
          /\ UNCHANGED <<kind, since, cut, overlapped>>
      BY <1>1, <1>6 DEF ListFile, Course, Running, Writers
    <2>2. FileOf[h] \in Files
      BY WolfHooksAssumption DEF WolfHooksAssumption
    <2>3. PICK a : a = ReadAnatomy \cup {FileOf[h]}
      OBVIOUS
    <2>4. ASSUME "anatomy" \notin cut PROVE ListsAll(a) /\ FileOf[h] \in a
      <3>1. Intact("anatomy")
        BY <1>1, <2>1, <2>4, IntactWhile
      <3>2. ListsAll(anatomy) /\ ReadAnatomy = anatomy
        BY <1>1, <3>1, FilesAssumption DEF ExactInv, DocsExact, ListsAll, AnatomyFits, ReadAnatomy, FilesAssumption
      <3> QED
        BY <2>1, <2>2, <2>3, <3>2 DEF ListsAll, AnatomyFits
    <2>5. BeginWrite(h, "anatomy", a, "track")
      BY <1>6, <2>3 DEF ListFile
    <2> QED
      BY <1>1, <2>1, <2>4, <2>5, BeginWriteExact
  <1>7. CASE Kill(h)
    <2>1. /\ Running(h) /\ Goto(h, "killed") /\ UNCHANGED <<files, write, kind, since>>
          /\ cut \subseteq cut' /\ (pc[h] = "rewrite" => write[h].doc \in cut')
          /\ kind[h] = "session-start" \/ h \in since'
      BY <1>1, <1>7 DEF Kill, HookExact
    <2> QED
      BY <1>1, <2>1, GotoExact DEF PCs
  <1> QED
    BY <1>2, <1>3, <1>4, <1>5, <1>6, <1>7

\* A read is counted in the session that is there.
LEMMA ReadingExact ==
  ASSUME SessionInv, SerialInv, ExactInv, ~overlapped, NEW h \in Hooks, PreRead(h) \/ PostRead(h)
  PROVE  ExactInv'
  <1>1. /\ Running(h) /\ HookExact(h) /\ h \notin Past /\ kind[h] \in {"pre-read", "post-read"}
        /\ pc[h] = "look" /\ FileOf[h] \in Files /\ UNCHANGED <<copy, kind, since, cut, overlapped>>
    BY WolfHooksAssumption DEF PreRead, PostRead, Running, ExactInv, Past, WolfHooksAssumption
  <1>2. PICK s, n :
          /\ s \in {ReadSession("pre-read"), ReadSession("post-read")} /\ SaveReads(h, s, n)
          /\ \/ kind[h] = "pre-read" /\ n = s.read[FileOf[h]] + 1
             \/ kind[h] = "post-read" /\ n = IF s.read[FileOf[h]] = 0 THEN 1 ELSE s.read[FileOf[h]]
    <2>1. CASE PreRead(h)
      BY <2>1 DEF PreRead
    <2>2. CASE PostRead(h) /\ kind[h] = "post-read"
      BY <2>2 DEF PostRead
    <2> QED
      BY <2>1, <2>2 DEF PostRead
  <1>3. CASE Quit(h, "threw")
    <2>1. kind[h] = "session-start" \/ h \in since
      BY <1>1 DEF HookExact
    <2> QED
      BY <1>1, <1>3, <2>1, GotoExact DEF Quit, PCs
  <1>4. CASE BeginWrite(h, "session", [s EXCEPT !.read[FileOf[h]] = n], "done")
    <2>1. ASSUME HasBegun, "session" \notin cut
          PROVE  SessionFits(kind, [s EXCEPT !.read[FileOf[h]] = n],
                             (Finished \cap since) \cup {h}, (Past \cap since) \cup {h})
      <3>1. Intact("session")
        BY <1>1, <2>1, IntactWhile
      <3>2. s = session /\ SessionFits(kind, session, Finished \cap since, Past \cap since)
        BY <1>2, <2>1, <3>1, ReadsSession
      <3> QED
        BY <1>1, <1>2, <3>2, ReadCounted
    <2>2. PICK v : v = [s EXCEPT !.read[FileOf[h]] = n]
      OBVIOUS
    <2> QED
      BY <1>1, <1>4, <2>1, <2>2, BeginWriteExact
  <1> QED
    BY <1>2, <1>3, <1>4 DEF SaveReads

\* So is a write.
LEMMA TrackWriteExact ==
  ASSUME SessionInv, CourseInv, SerialInv, ExactInv, ~overlapped, NEW h \in Hooks, TrackWrite(h)
  PROVE  ExactInv'
  <1>1. /\ pc[h] = "track" /\ Running(h) /\ HookExact(h) /\ Course(h) /\ h \notin Past
        /\ FileOf[h] \in Files /\ UNCHANGED <<copy, kind, since, cut, overlapped>>
    BY WolfHooksAssumption DEF TrackWrite, Running, ExactInv, CourseInv, Past, WolfHooksAssumption
  <1>2. kind[h] = "post-write" /\ HasListed(h)
    BY <1>1 DEF Course, HasListed
  <1>3. PICK s : s = ReadSession("post-write")
    OBVIOUS
  <1>4. ASSUME HasBegun, "session" \notin cut
        PROVE  s = session /\ SessionFits(kind, s, Finished \cap since, Past \cap since)
    <2>1. Intact("session")
      BY <1>1, <1>4, IntactWhile
    <2> QED
      BY <1>3, <1>4, <2>1, ReadsSession
  <1>5. CASE s.written = NoField /\ Quit(h, "done")
    <2>1. ~(HasBegun /\ "session" \notin cut)
      BY <1>4, <1>5 DEF SessionFits
    <2>2. kind[h] = "session-start" \/ h \in since
      BY <1>1 DEF HookExact
    <2> QED
      BY <1>1, <1>2, <1>5, <2>1, <2>2, GotoExact DEF Quit, PCs
  <1>6. CASE BeginWrite(h, "session", [s EXCEPT !.written[FileOf[h]] = @ + 1], "done")
    <2>1. HasBegun /\ "session" \notin cut =>
            SessionFits(kind, [s EXCEPT !.written[FileOf[h]] = @ + 1],
                        (Finished \cap since) \cup {h}, (Past \cap since) \cup {h})
      BY <1>1, <1>2, <1>4, WriteCounted
    <2>2. PICK v : v = [s EXCEPT !.written[FileOf[h]] = @ + 1]
      OBVIOUS
    <2> QED
      BY <1>1, <1>2, <1>6, <2>1, <2>2, BeginWriteExact
  <1> QED
    BY <1>3, <1>5, <1>6 DEF TrackWrite

\* A stop keeps and saves the session that is there, and enters it in the ledger.
LEMMA StopExact ==
  ASSUME SessionInv, DocsInv, CourseInv, SerialInv, ExactInv, ~overlapped, NEW h \in Hooks,
         Sum(h) \/ EnterSession(h) \/ SaveSession(h)
  PROVE  ExactInv'
  <1>1. /\ Running(h) /\ HookExact(h) /\ kind[h] = "stop" /\ h \notin Past /\ h \in since
        /\ pc[h] \in {"sum", "enter", "save"} /\ UNCHANGED <<kind, since, cut, overlapped>>
    BY DEF Sum, EnterSession, SaveSession, Running, ExactInv, CourseInv, Course, Past, HookExact
  <1>2. CASE Sum(h)
    <2>1. PICK s : s = ReadSession("stop")
      OBVIOUS
    <2>2. copy'[h] = s
      BY <1>2, <2>1 DEF Sum, SessionInv, Shared
    <2>3. ASSUME HasBegun, "session" \notin cut
          PROVE  /\ SessionFits(kind, s, Finished \cap since, Past \cap since)
                 /\ SessionFits(kind, s, (Finished \cap since) \cup {h}, (Past \cap since) \cup {h})
      <3>1. Intact("session")
        BY <1>1, <2>3, IntactWhile
      <3> QED
        BY <1>1, <2>1, <2>3, <3>1, ReadsSession, FitsWithStop
    <2>4. \/ Quit(h, "threw") \/ Quit(h, "enter")
          \/ BeginWrite(h, "session", s, "done")
      BY <1>2, <2>1 DEF Sum
    <2>5. CASE Quit(h, "threw") \/ Quit(h, "enter")
      BY <1>1, <2>2, <2>3, <2>5, GotoExact DEF Quit, PCs
    <2>6. CASE BeginWrite(h, "session", s, "done")
      BY <1>1, <2>3, <2>6, BeginWriteExact
    <2> QED
      BY <2>4, <2>5, <2>6
  <1>3. CASE EnterSession(h)
    <2>1. PICK old : old = ReadLedger("stop")
      OBVIOUS
    <2>2. /\ copy[h] \in Sessions /\ copy[h].written # NoField /\ copy' = copy
          /\ LedgerOK(old) /\ pc[h] = "enter"
      BY <1>3, <2>1, ReadAddsUp DEF EnterSession, SessionInv, HookOK, Heads, Fits, DocsInv, HookDocs
    <2>3. CASE Quit(h, "threw")
      BY <1>1, <2>3, GotoExact DEF Quit, PCs
    <2>4. CASE old.entries # NoField /\ BeginWrite(h, "ledger", LedgerWith(old, copy[h]), "save")
      <3>1. PICK l : l = LedgerWith(old, copy[h])
        OBVIOUS
      <3>2. LedgerOK(l) /\ l.starts = old.starts
        BY <2>2, <2>4, <3>1, EnteredAddsUp DEF LedgerWith, LedgerOK, Ledgers
      <3>3. ASSUME "ledger" \notin cut PROVE LedgerFits(kind, l, Finished, Past)
        <4>1. Intact("ledger")
          BY <1>1, <3>3, IntactWhile
        <4>2. old = ledger /\ LedgerFits(kind, ledger, Finished, Past)
          BY <2>1, <4>1, FilesAssumption DEF ExactInv, DocsExact, LedgerFits, ReadLedger, FilesAssumption
        <4> QED
          BY <3>2, <4>2 DEF LedgerFits, LedgerOK
      <3>4. HasBegun /\ "session" \notin cut => SessionFits(kind, copy'[h], Finished \cap since, Past \cap since)
        BY <1>1, <2>2 DEF HookExact, Heads
      <3> QED
        BY <1>1, <2>4, <3>1, <3>3, <3>4, BeginWriteExact
    <2> QED
      BY <1>3, <2>1, <2>3, <2>4 DEF EnterSession
  <1>4. CASE SaveSession(h)
    <2>1. pc[h] = "save" /\ BeginWrite(h, "session", copy[h], "done")
      BY <1>4 DEF SaveSession
    <2>2. HasBegun /\ "session" \notin cut =>
            SessionFits(kind, copy[h], (Finished \cap since) \cup {h}, (Past \cap since) \cup {h})
      BY <1>1, <2>1, FitsWithStop DEF HookExact, Heads
    <2> QED
      BY <1>1, <2>1, <2>2, BeginWriteExact
  <1> QED
    BY <1>2, <1>3, <1>4

\* Every step keeps what is counted exact.
LEMMA ExactNext ==
  SessionInv /\ DocsInv /\ CourseInv /\ SerialInv /\ ExactInv /\ [Next]_vars => ExactInv'
  <1> SUFFICES ASSUME SessionInv, DocsInv, CourseInv, SerialInv, ExactInv, [Next]_vars, ~overlapped'
               PROVE  ExactInv'
    BY DEF ExactInv
  <1>1. CASE UNCHANGED vars
    BY <1>1 DEF vars, files, ExactInv, DocsExact, Intact, Rewriting, ListsAll, HookExact, HasListed, HasBegun,
                Past, Finished, Writers, Heads, Writes, Running
  <1>2. ASSUME NEW h \in Hooks,
               PreRead(h) \/ PostRead(h) \/ TrackWrite(h) \/ Sum(h) \/ EnterSession(h) \/ SaveSession(h)
        PROVE  ExactInv'
    <2>1. ~overlapped
      BY <1>2 DEF PreRead, PostRead, TrackWrite, Sum, EnterSession, SaveSession
    <2> QED
      BY <1>2, <2>1, ReadingExact, TrackWriteExact, StopExact
  <1>3. ASSUME NEW h \in Hooks, Rename(h) \/ RenameFails(h) \/ Rewrite(h) PROVE ExactInv'
    <2>1. UNCHANGED <<copy, kind, overlapped>>
      BY <1>3 DEF Rename, RenameFails, Rewrite
    <2>2. Writes(h) /\ (Tears(h) \/ \E v : EndWrite(h, v))
      BY <1>3, SecondHalf
    <2> QED
      BY <2>1, <2>2, TearExact, EndWriteExact
  <1> QED
    BY <1>1, <1>2, <1>3, StartingExact DEF Next

\* Nothing is over at first.
LEMMA ExactInit == Init => ExactInv
  <1> SUFFICES ASSUME Init PROVE ExactInv
    OBVIOUS
  <1>1. Past = {} /\ Finished = {} /\ ~HasBegun /\ IsFiniteSet({})
    BY FS_EmptySet DEF Init, Past, Finished, HasBegun
  <1>2. LedgerFits(kind, ledger, Finished, Past)
    <2>1. ledger \in Ledgers /\ ledger.starts = 0
      <3>1. << >> \in Seq(Entries)
        OBVIOUS
      <3> QED
        BY <3>1 DEF Init, Ledgers
    <2>2. Cardinality(Starts(kind) \cap {}) = 0
      BY FS_EmptySet
    <2> QED
      BY <1>1, <2>1, <2>2 DEF LedgerFits
  <1>3. \A h \in Hooks : ~Running(h) /\ ~Writes(h) /\ ~HasListed(h) /\ ~Heads(h, {"enter", "save"})
    BY DEF Init, Running, Writes, HasListed, Heads
  <1> QED
    BY <1>1, <1>2, <1>3 DEF ExactInv, DocsExact, ListsAll, HookExact, AnatomyFits, Init

\* Without overlap, what is counted is what was done.
THEOREM ExactInvariance == Spec => []ExactInv
  BY ExactInit, ExactNext, SessionInvariance, DocsInvariance, CourseInvariance, SerialInvariance,
     PTL DEF Spec

\* Whatever hooks have run one after the other, killed or not, and whatever renames
\* have failed: in each document on which no write in place was cut short, the
\* session counts each read and write since it began that ran to its end and none
\* that did not begin, the ledger's total_sessions counts the session starts, and
\* anatomy.md lists the files.
THEOREM SerialHooksAreExact == Spec => []SerialIsExact
  <1>1. ExactInv => SerialIsExact
    <2> SUFFICES ASSUME ExactInv, Quiet, ~overlapped PROVE SerialIsExact
      BY DEF SerialIsExact
    <2>1. \A S \in SUBSET Hooks : Ended(S) = S \cap Finished /\ Begins(S) = S \cap Past
      BY DEF Ended, Begins, Finished, Past, Quiet, Running
    <2>2. \A doc : doc \notin cut => Intact(doc)
      BY DEF Intact, Rewriting, Quiet, Running
    <2>3. ASSUME HasBegun, "session" \notin cut, NEW f \in Files PROVE SessionIsExact(f)
      <3>1. SessionFits(kind, session, Finished \cap since, Past \cap since)
        BY <2>2, <2>3 DEF ExactInv, DocsExact
      <3>2. \A event : /\ Ended(Of(event, f) \cap since) = About(kind, event, f) \cap (Finished \cap since)
                       /\ Begins(Of(event, f) \cap since) = About(kind, event, f) \cap (Past \cap since)
        <4> TAKE event
        <4>1. Of(event, f) = About(kind, event, f) /\ Of(event, f) \cap since \in SUBSET Hooks
          BY DEF Of, About
        <4> QED
          BY <2>1, <4>1
      <3>3. LET reads == (Of("pre-read", f) \cap since) \cup (Of("post-read", f) \cap since)
                both == About(kind, "pre-read", f) \cup About(kind, "post-read", f)
            IN  /\ Ended(reads) = both \cap (Finished \cap since)
                /\ Begins(reads) = both \cap (Past \cap since)
        <4>1. (Of("pre-read", f) \cap since) \cup (Of("post-read", f) \cap since) \in SUBSET Hooks
          BY DEF Of
        <4>2. Of("pre-read", f) = About(kind, "pre-read", f) /\ Of("post-read", f) = About(kind, "post-read", f)
          BY DEF Of, About
        <4> QED
          BY <2>1, <4>1, <4>2
      <3> QED
        BY <3>1, <3>2, <3>3 DEF SessionFits, SessionIsExact, Between
    <2>4. "ledger" \notin cut => Between(ledger.starts, Starts(kind))
      <3>1. Starts(kind) \in SUBSET Hooks
        BY DEF Starts
      <3> QED
        BY <2>1, <2>2, <3>1 DEF ExactInv, DocsExact, LedgerFits, Between
    <2>5. ASSUME "anatomy" \notin cut, NEW f \in Files
          PROVE  /\ Ended(Of("post-write", f)) # {} => f \in anatomy
                 /\ f \in anatomy => Begins(Of("post-write", f)) # {}
      <3>1. ListsAll(anatomy)
        BY <2>2, <2>5 DEF ExactInv, DocsExact
      <3> QED
        BY <3>1 DEF ListsAll, AnatomyFits, Writers, HasListed, Ended, Begins, Of
    <2> QED
      BY <2>3, <2>4, <2>5 DEF SerialIsExact, HasBegun, Starts
  <1> QED
    BY <1>1, ExactInvariance, PTL
=============================================================================
