------------------------ MODULE EfiClientPool_proofs ------------------------
(***************************************************************************)
(* Theorems about EfiClientPool: for any callers and providers, clients    *)
(* are built one at a time and once per provider.                          *)
(***************************************************************************)
EXTENDS EfiClientPool, FiniteSetTheorems, TLAPS

\* The mutex is held by the caller that is inside clientFor, and by nobody else.
MutexHeldInside ==
  \A c \in Callers : Inside(c) <=> mutex = c

\* Whoever is past the look-up found no client, and there is none yet.
BuildsOnlyWhatIsMissing ==
  \A c \in Callers : pc[c] \in {"reading", "cert", "key"} => pool[wants[c]] = NoClient

\* What a caller was given is what is pooled.
GivenIsPooled ==
  /\ \A c \in Callers : got[c] # NoClient => got[c] = pool[wants[c]]
  /\ \A p \in Providers : pool[p] # NoClient => pool[p].account = p

\* The inductive invariant.
PoolInv == TypeOK /\ MutexHeldInside /\ BuildsOnlyWhatIsMissing /\ GivenIsPooled

\* The pool starts empty and unlocked.
LEMMA PoolInit == Init => PoolInv
  BY EfiClientPoolAssumption
     DEF Init, PoolInv, TypeOK, PCs, Inside, MutexHeldInside, BuildsOnlyWhatIsMissing, GivenIsPooled

\* A step of c that leaves the map alone: the mutex goes with the control.
Walks(c) ==
  /\ wants' = wants /\ pool' = pool
  /\ \A d \in Callers \ {c} : pc'[d] = pc[d] /\ got'[d] = got[d]
  /\ \/ mutex' = mutex /\ (Inside(c)' <=> Inside(c))
     \/ mutex = NoOne /\ mutex' = c /\ Inside(c)'
     \/ mutex = c /\ mutex' = NoOne /\ ~Inside(c)'

\* Such a step keeps the invariant if it gives out what is pooled, and builds
\* what is missing.
LEMMA PoolKept ==
  ASSUME PoolInv, NEW c \in Callers, Walks(c), TypeOK',
         got'[c] = got[c] \/ got'[c] = pool[wants[c]],
         pc'[c] \in {"reading", "cert", "key"} => pool[wants[c]] = NoClient
  PROVE  PoolInv'
  <1> USE DEF Walks
  <1>1. MutexHeldInside'
    BY EfiClientPoolAssumption DEF PoolInv, MutexHeldInside, Inside
  <1>2. BuildsOnlyWhatIsMissing'
    BY DEF PoolInv, BuildsOnlyWhatIsMissing
  <1>3. GivenIsPooled'
    BY DEF PoolInv, GivenIsPooled
  <1> QED
    BY <1>1, <1>2, <1>3 DEF PoolInv

\* Every step keeps the invariant.
LEMMA PoolNext == PoolInv /\ [Next]_vars => PoolInv'
  <1> SUFFICES ASSUME PoolInv, [Next]_vars PROVE PoolInv'
    OBVIOUS
  <1> USE DEF PoolInv
  <1>1. CASE UNCHANGED vars
    BY <1>1 DEF vars, TypeOK, Inside, MutexHeldInside, BuildsOnlyWhatIsMissing, GivenIsPooled
  <1>2. CASE \E c \in Callers : Call(c) \/ Lock(c) \/ ClientFor(c)
    <2>1. PICK c \in Callers : Call(c) \/ Lock(c) \/ ClientFor(c)
      BY <1>2
    <2>2. CASE Call(c)
      <3>1. TypeOK'
        BY <2>2 DEF Call, TypeOK, PCs
      <3> QED
        BY <2>2, <3>1, PoolKept DEF Call, Walks, TypeOK, Inside
    <2>3. CASE Lock(c)
      <3>1. TypeOK'
        BY <2>3 DEF Lock, TypeOK, PCs
      <3> QED
        BY <2>3, <3>1, PoolKept DEF Lock, Walks, TypeOK, Inside
    <2>4. ASSUME Inside(c) PROVE mutex = c
      BY <2>4 DEF MutexHeldInside
    <2>5. CASE Hit(c)
      <3>1. TypeOK'
        BY <2>5 DEF Hit, Leave, TypeOK, PCs
      <3> QED
        BY <2>4, <2>5, <3>1, PoolKept DEF Hit, Leave, Walks, TypeOK, Inside
    <2>6. CASE Miss(c)
      <3>1. TypeOK'
        BY <2>6 DEF Miss, TypeOK, PCs
      <3> QED
        BY <2>4, <2>6, <3>1, PoolKept DEF Miss, Walks, TypeOK, Inside
    <2>7. CASE LoadFails(c)
      <3>1. TypeOK'
        BY <2>7 DEF LoadFails, Leave, TypeOK, PCs
      <3> QED
        BY <2>4, <2>7, <3>1, PoolKept DEF LoadFails, Leave, Walks, TypeOK, Inside
    <2>8. CASE WriteCert(c)
      <3>1. TypeOK'
        BY <2>8 DEF WriteCert, File, TypeOK, PCs
      <3> QED
        BY <2>4, <2>8, <3>1, PoolKept
           DEF WriteCert, Walks, TypeOK, Inside, BuildsOnlyWhatIsMissing
    <2>9. CASE WriteKey(c)
      <3>1. TypeOK'
        BY <2>9 DEF WriteKey, File, TypeOK, PCs
      <3> QED
        BY <2>4, <2>9, <3>1, PoolKept
           DEF WriteKey, Walks, TypeOK, Inside, BuildsOnlyWhatIsMissing
    <2>10. CASE WriteFails(c)
      <3>1. TypeOK'
        BY <2>10 DEF WriteFails, Leave, File, TypeOK, PCs
      <3> QED
        BY <2>4, <2>10, <3>1, PoolKept DEF WriteFails, Leave, Walks, TypeOK, Inside
    <2>11. CASE Build(c)
      <3> DEFINE client == [builtBy |-> c, account |-> wants[c]]
      <3>1. client \in Clients /\ client # NoClient /\ client.account = wants[c]
        BY EfiClientPoolAssumption DEF TypeOK, Clients
      <3> HIDE DEF client
      <3>2. /\ pool' = [pool EXCEPT ![wants[c]] = client] /\ got' = [got EXCEPT ![c] = client]
            /\ pc' = [pc EXCEPT ![c] = "served"] /\ mutex' = NoOne
            /\ UNCHANGED <<wants, files>> /\ pc[c] = "key" /\ mutex = c
        BY <2>4, <2>11 DEF Build, Leave, client, TypeOK, Inside
      <3>3. TypeOK'
        BY <3>1, <3>2 DEF TypeOK, PCs
      <3>4. MutexHeldInside'
        BY <3>2, EfiClientPoolAssumption DEF MutexHeldInside, Inside, TypeOK
      <3>5. \A d \in Callers \ {c} : pc[d] \notin {"reading", "cert", "key"}
        BY <3>2 DEF MutexHeldInside, Inside
      <3>6. BuildsOnlyWhatIsMissing'
        BY <3>2, <3>5 DEF BuildsOnlyWhatIsMissing, TypeOK
      <3>7. pool[wants[c]] = NoClient
        BY <3>2 DEF BuildsOnlyWhatIsMissing
      <3>8. GivenIsPooled'
        BY <3>1, <3>2, <3>7 DEF GivenIsPooled, TypeOK
      <3> QED
        BY <3>3, <3>4, <3>6, <3>8
    <2> QED
      BY <2>1, <2>2, <2>3, <2>5, <2>6, <2>7, <2>8, <2>9, <2>10, <2>11 DEF ClientFor
  <1> QED
    BY <1>1, <1>2 DEF Next

\* The inductive invariant holds in every reachable state.
THEOREM PoolInvariance == Spec => []PoolInv
  BY PoolInit, PoolNext, PTL DEF Spec

\* Types, and a client for every caller that was served.
THEOREM PoolTypes == Spec => []TypeOK
  <1>1. PoolInv => TypeOK
    BY DEF PoolInv
  <1> QED
    BY <1>1, PoolInvariance, PTL

\* All callers of one provider are given one client, of that provider.
THEOREM OneClient == Spec => []OneClientPerProvider
  <1>1. PoolInv => OneClientPerProvider
    BY DEF PoolInv, TypeOK, GivenIsPooled, OneClientPerProvider
  <1> QED
    BY <1>1, PoolInvariance, PTL

\* Nothing is built for a provider whose client is pooled.
THEOREM PoolIsForGood == Spec => PooledForGood
  <1>1. ASSUME PoolInv, [Next]_vars, NEW p \in Providers, pool[p] # NoClient
        PROVE  pool'[p] = pool[p] /\ \A f \in files' \ files : f.account # p
    <2>1. CASE UNCHANGED <<pool, files>>
      BY <1>1, <2>1
    <2>2. CASE \E c \in Callers : WriteCert(c) \/ WriteKey(c) \/ WriteFails(c) \/ Build(c)
      <3>1. PICK c \in Callers : WriteCert(c) \/ WriteKey(c) \/ WriteFails(c) \/ Build(c)
        BY <2>2
      <3>2. wants[c] # p /\ wants[c] \in Providers
        BY <1>1, <3>1 DEF PoolInv, TypeOK, BuildsOnlyWhatIsMissing, WriteCert, WriteKey, WriteFails, Build
      <3>3. \A f \in files' \ files : f.account = wants[c]
        BY <3>1 DEF WriteCert, WriteKey, WriteFails, Build, File
      <3>4. pool'[p] = pool[p]
        BY <1>1, <3>1, <3>2 DEF WriteCert, WriteKey, WriteFails, Build, PoolInv, TypeOK
      <3> QED
        BY <3>2, <3>3, <3>4
    <2> QED
      BY <1>1, <2>1, <2>2 DEF Next, vars, Call, Lock, ClientFor, Hit, Miss, LoadFails
  <1>2. PoolInv /\ [Next]_vars =>
          [\A p \in Providers : pool[p] # NoClient =>
             /\ pool'[p] = pool[p]
             /\ \A f \in files' \ files : f.account # p]_vars
    BY <1>1
  <1> QED
    BY <1>2, PoolInvariance, PTL DEF Spec, PooledForGood

-----------------------------------------------------------------------------
(* The temporary files. *)

\* What the files of a caller hold.
ContentsBy(c) == {f.content : f \in {g \in files : g.by = c}}

\* Where a caller is tells what it has written.
WrittenSoFar ==
  \A c \in Callers :
    /\ pc[c] \in {"idle", "locking", "looking", "reading"} => ContentsBy(c) = {}
    /\ pc[c] = "cert" => ContentsBy(c) = {"cert"}
    /\ pc[c] = "key" => ContentsBy(c) = {"cert", "key"}

\* The builder of a pooled client was served, and wrote both files.
BuiltWhole ==
  \A p \in Providers : pool[p] # NoClient =>
    /\ pc[pool[p].builtBy] = "served"
    /\ ContentsBy(pool[p].builtBy) = {"cert", "key"}

\* A file is about the provider of its writer, which has built the pooled client,
\* or is at it, or has failed.
FilesAreOwned ==
  \A f \in files :
    /\ f.account = wants[f.by]
    /\ \/ pool[f.account] # NoClient /\ pool[f.account].builtBy = f.by
       \/ Inside(f.by) \/ pc[f.by] = "failed"

\* With PoolInv, the inductive invariant of the files.
FilesInv == WrittenSoFar /\ BuiltWhole /\ FilesAreOwned

\* A step of c that adds the files in new, and leaves the map alone.
Writes(c, new) ==
  /\ wants' = wants /\ pool' = pool /\ files' = files \cup new
  /\ \A f \in new : f.by = c /\ f.account = wants[c]
  /\ \A d \in Callers \ {c} : pc'[d] = pc[d]
  /\ pc[c] # "served" /\ pc'[c] \in PCs

\* Nobody else's files change.
LEMMA OthersFiles ==
  ASSUME NEW c, NEW new, files' = files \cup new, \A f \in new : f.by = c
  PROVE  /\ \A d : d # c => ContentsBy(d)' = ContentsBy(d)
         /\ ContentsBy(c)' = ContentsBy(c) \cup {f.content : f \in new}
  BY DEF ContentsBy

\* Such a step keeps the invariant if c goes on from file to file, and is only
\* served at once if it has written none.
LEMMA FilesKept ==
  ASSUME PoolInv, FilesInv, NEW c \in Callers, NEW new, Writes(c, new),
         pc'[c] \in {"idle", "locking", "looking", "reading"} =>
           pc[c] \in {"idle", "locking", "looking", "reading"} /\ new = {},
         pc'[c] = "cert" => pc[c] = "reading" /\ {f.content : f \in new} = {"cert"},
         pc'[c] = "key" => pc[c] = "cert" /\ {f.content : f \in new} = {"key"},
         pc'[c] = "served" => pc[c] = "looking" /\ new = {}
  PROVE  FilesInv'
  <1>1. /\ \A d : d # c => ContentsBy(d)' = ContentsBy(d)
        /\ ContentsBy(c)' = ContentsBy(c) \cup {f.content : f \in new}
    BY OthersFiles DEF Writes
  <1>2. WrittenSoFar'
    <2> SUFFICES ASSUME NEW d \in Callers
                 PROVE  /\ pc'[d] \in {"idle", "locking", "looking", "reading"} => ContentsBy(d)' = {}
                        /\ pc'[d] = "cert" => ContentsBy(d)' = {"cert"}
                        /\ pc'[d] = "key" => ContentsBy(d)' = {"cert", "key"}
      BY DEF WrittenSoFar
    <2>1. CASE d # c
      BY <1>1, <2>1 DEF FilesInv, WrittenSoFar, Writes
    <2>2. CASE d = c
      BY <1>1, <2>2 DEF FilesInv, WrittenSoFar, Writes
    <2> QED
      BY <2>1, <2>2
  <1>3. \A p \in Providers : pool[p] # NoClient => pool[p].builtBy \in Callers /\ pool[p].builtBy # c
    BY DEF PoolInv, TypeOK, Clients, FilesInv, BuiltWhole, Writes
  <1>4. BuiltWhole'
    BY <1>1, <1>3 DEF FilesInv, BuiltWhole, Writes
  <1>5. FilesAreOwned'
    <2> SUFFICES ASSUME NEW f \in files \cup new
                 PROVE  /\ f.account = wants[f.by]
                        /\ \/ pool[f.account] # NoClient /\ pool[f.account].builtBy = f.by
                           \/ Inside(f.by)' \/ pc'[f.by] = "failed"
      BY DEF FilesAreOwned, Writes
    <2>1. CASE f.by = c
      <3>1. f.account = wants[c]
        BY <2>1 DEF FilesInv, FilesAreOwned, Writes
      <3>2. f.content \in ContentsBy(c)'
        BY <2>1 DEF ContentsBy, Writes
      <3>3. pc'[c] \notin {"idle", "locking", "looking", "reading", "served"}
        BY <1>1, <1>2, <3>2 DEF WrittenSoFar, FilesInv
      <3> QED
        BY <2>1, <3>1, <3>3 DEF Inside, Writes, PCs
    <2>2. CASE f.by # c
      <3>1. f \in files /\ f.by \in Callers
        BY <2>2 DEF Writes, PoolInv, TypeOK
      <3> QED
        BY <2>2, <3>1 DEF FilesInv, FilesAreOwned, Inside, Writes
    <2> QED
      BY <2>1, <2>2
  <1> QED
    BY <1>2, <1>4, <1>5 DEF FilesInv

\* No file is there at the start.
LEMMA FilesInit == Init => FilesInv
  BY EfiClientPoolAssumption
     DEF Init, FilesInv, WrittenSoFar, BuiltWhole, FilesAreOwned, ContentsBy

\* Building pools a client whose files are complete.
LEMMA BuildFiles ==
  ASSUME PoolInv, FilesInv, NEW c \in Callers, Build(c)
  PROVE  FilesInv'
  <1> DEFINE client == [builtBy |-> c, account |-> wants[c]]
  <1>1. client.builtBy = c /\ client # NoClient
    BY EfiClientPoolAssumption DEF PoolInv, TypeOK
  <1> HIDE DEF client
  <1>2. /\ pool' = [pool EXCEPT ![wants[c]] = client] /\ pc' = [pc EXCEPT ![c] = "served"]
        /\ wants' = wants /\ files' = files /\ pc[c] = "key"
    BY DEF Build, Leave, client
  <1>3. \A d : ContentsBy(d)' = ContentsBy(d)
    BY <1>2 DEF ContentsBy
  <1>4. WrittenSoFar'
    BY <1>2, <1>3 DEF FilesInv, WrittenSoFar, PoolInv, TypeOK
  <1>5. pool[wants[c]] = NoClient /\ ContentsBy(c) = {"cert", "key"} /\ wants[c] \in Providers
    BY <1>2 DEF PoolInv, BuildsOnlyWhatIsMissing, FilesInv, WrittenSoFar, TypeOK
  <1>6. \A p \in Providers : pool[p] # NoClient => p # wants[c] /\ pool[p].builtBy \in Callers
    BY <1>5 DEF PoolInv, TypeOK, Clients
  <1>7. BuiltWhole'
    BY <1>1, <1>2, <1>3, <1>5, <1>6 DEF FilesInv, BuiltWhole, PoolInv, TypeOK
  <1>8. FilesAreOwned'
    <2> SUFFICES ASSUME NEW f \in files
                 PROVE  /\ f.account = wants[f.by]
                        /\ \/ pool'[f.account] # NoClient /\ pool'[f.account].builtBy = f.by
                           \/ Inside(f.by)' \/ pc'[f.by] = "failed"
      BY <1>2 DEF FilesAreOwned
    <2>1. f.by \in Callers /\ f.account \in Providers /\ f.account = wants[f.by]
      BY DEF PoolInv, TypeOK, FilesInv, FilesAreOwned
    <2>2. CASE f.by = c
      BY <1>1, <1>2, <2>1, <2>2 DEF PoolInv, TypeOK
    <2>3. CASE f.by # c
      <3>1. pc'[f.by] = pc[f.by] /\ (pool[f.account] # NoClient => pool'[f.account] = pool[f.account])
        BY <1>2, <1>5, <2>1, <2>3 DEF PoolInv, TypeOK
      <3> QED
        BY <2>1, <3>1 DEF FilesInv, FilesAreOwned, Inside
    <2> QED
      BY <2>2, <2>3
  <1> QED
    BY <1>4, <1>7, <1>8 DEF FilesInv

\* Every step keeps the invariant of the files.
LEMMA FilesNext == PoolInv /\ FilesInv /\ [Next]_vars => FilesInv'
  <1> SUFFICES ASSUME PoolInv, FilesInv, [Next]_vars PROVE FilesInv'
    OBVIOUS
  <1>1. CASE UNCHANGED vars
    BY <1>1 DEF vars, FilesInv, WrittenSoFar, BuiltWhole, FilesAreOwned, ContentsBy, Inside
  <1>2. ASSUME NEW c \in Callers, Call(c) \/ Lock(c) \/ Hit(c) \/ Miss(c) \/ LoadFails(c)
        PROVE  FilesInv'
    <2>1. Writes(c, {})
      BY <1>2 DEF Call, Lock, Hit, Miss, LoadFails, Leave, Writes, PCs, PoolInv, TypeOK
    <2>2. /\ pc[c] \in {"idle", "locking", "looking", "reading"}
          /\ pc'[c] \in {"locking", "looking", "reading", "served", "failed"}
          /\ pc'[c] = "served" => pc[c] = "looking"
      BY <1>2 DEF Call, Lock, Hit, Miss, LoadFails, Leave, PoolInv, TypeOK
    <2> QED
      BY <2>1, <2>2, FilesKept
  <1>3. ASSUME NEW c \in Callers, WriteCert(c) PROVE FilesInv'
    <2>1. /\ Writes(c, {File(c, "cert")}) /\ pc[c] = "reading" /\ pc'[c] = "cert"
      BY <1>3 DEF WriteCert, File, Writes, PCs, PoolInv, TypeOK
    <2>2. {f.content : f \in {File(c, "cert")}} = {"cert"}
      BY DEF File
    <2> QED
      BY <2>1, <2>2, FilesKept
  <1>4. ASSUME NEW c \in Callers, WriteKey(c) PROVE FilesInv'
    <2>1. /\ Writes(c, {File(c, "key")}) /\ pc[c] = "cert" /\ pc'[c] = "key"
      BY <1>4 DEF WriteKey, File, Writes, PCs, PoolInv, TypeOK
    <2>2. {f.content : f \in {File(c, "key")}} = {"key"}
      BY DEF File
    <2> QED
      BY <2>1, <2>2, FilesKept
  <1>5. ASSUME NEW c \in Callers, WriteFails(c) PROVE FilesInv'
    <2>1. \E new : Writes(c, new)
      <3>1. PICK content : files' \in {files, files \cup {File(c, content)}}
        BY <1>5 DEF WriteFails
      <3>2. Writes(c, {}) \/ Writes(c, {File(c, content)})
        BY <1>5, <3>1 DEF WriteFails, Leave, File, Writes, PCs, PoolInv, TypeOK
      <3> QED
        BY <3>2
    <2>2. pc'[c] = "failed"
      BY <1>5 DEF WriteFails, Leave, PoolInv, TypeOK
    <2> QED
      BY <2>1, <2>2, FilesKept
  <1> QED
    BY <1>1, <1>2, <1>3, <1>4, <1>5, BuildFiles DEF Next, ClientFor

\* Whoever is inside holds the mutex, so there is one.
LEMMA OneInside == PoolInv => Cardinality({c \in Callers : Inside(c)}) <= 1
  <1> SUFFICES ASSUME PoolInv PROVE Cardinality({c \in Callers : Inside(c)}) <= 1
    OBVIOUS
  <1>1. {c \in Callers : Inside(c)} \subseteq {mutex}
    BY DEF PoolInv, MutexHeldInside
  <1>2. IsFiniteSet({mutex}) /\ Cardinality({mutex}) = 1
    BY FS_Singleton
  <1> QED
    BY <1>1, <1>2, FS_Subset, FS_CardinalityType

\* Every temporary file on disk is one of the two of a pooled client, or of the
\* one build under way, or of a build that failed: none is lost track of.
THEOREM FilesAreAccountedFor == Spec => []FilesAccountedFor
  <1>1. PoolInv /\ FilesInv => FilesAccountedFor
    BY OneInside DEF FilesInv, BuiltWhole, FilesAreOwned, ContentsBy, FilesAccountedFor
  <1>2. Init => FilesInv
    BY FilesInit
  <1>3. PoolInv /\ FilesInv /\ [Next]_vars => FilesInv'
    BY FilesNext
  <1> QED
    BY <1>1, <1>2, <1>3, PoolInvariance, PTL DEF Spec
=============================================================================
