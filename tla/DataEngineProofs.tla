-------------------------- MODULE DataEngineProofs --------------------------
(***************************************************************************)
(* Theorems about DataEngine for every number of threads, addresses,       *)
(* values and table entries, with any set of failing calls, and for an     *)
(* agent that writes requests at any moment.                               *)
(***************************************************************************)
EXTENDS DataEngine, FiniteSetTheorems, TLAPS

-----------------------------------------------------------------------------
(* Counting entries and offsets                                            *)

\* A set of naturals below m has at most m members: what the sizing loop of
\* checkpoint_freeze() and the end computed by restore_remap() are bounded by.
LEMMA CountBound ==
  ASSUME NEW a \in Nat, NEW b \in Nat, NEW S \in SUBSET (a..b)
  PROVE  /\ Cardinality(S) \in Nat
         /\ a <= b => Cardinality(S) <= b - a + 1
         /\ a > b => Cardinality(S) = 0
<1>1. IsFiniteSet(a..b) /\ Cardinality(a..b) = IF a > b THEN 0 ELSE b - a + 1
  BY FS_Interval
<1>2. IsFiniteSet(S) /\ Cardinality(S) <= Cardinality(a..b)
  BY <1>1, FS_Subset
<1>3. Cardinality(S) \in Nat
  BY <1>2, FS_CardinalityType
<1> QED BY <1>1, <1>2, <1>3

\* The offsets checkpoint_freeze() hands out, its total and the end that
\* restore_remap() computes stay within the blob.
LEMMA OffsetsBound ==
  ASSUME TypeOK
  PROVE  /\ \A k \in Slots : FreezeOffset(k) \in Offsets
         /\ FreezeTotal \in 0..MaxOwned
         /\ RemapNeed \in 0..MaxOwned
<1> USE EngineAssumption
<1>1. \A k \in Slots : FreezeOffset(k) \in Offsets
  <2> TAKE k \in Slots
  <2> DEFINE S == {j \in 1..(k - 1) : Selected(j)}
  <2>1. S \in SUBSET (1..(k - 1)) /\ k - 1 \in Nat
    BY DEF Slots
  <2>2. Cardinality(S) \in Nat /\ Cardinality(S) <= k - 1
    <3> HIDE DEF S
    <3>1. 1 <= k - 1 => Cardinality(S) <= (k - 1) - 1 + 1
      BY <2>1, CountBound
    <3>2. 1 > k - 1 => Cardinality(S) = 0
      BY <2>1, CountBound
    <3>3. Cardinality(S) \in Nat
      BY <2>1, CountBound
    <3> QED BY <2>1, <3>1, <3>2, <3>3
  <2> QED BY <2>2 DEF FreezeOffset, Slots, Offsets
<1>2. FreezeTotal \in 0..MaxOwned
  <2> DEFINE S == {j \in 1..owned_n : Selected(j)}
  <2>1. S \in SUBSET (1..owned_n) /\ owned_n \in Nat /\ owned_n <= MaxOwned
    BY DEF TypeOK
  <2>2. Cardinality(S) \in Nat /\ Cardinality(S) <= owned_n
    <3> HIDE DEF S
    <3>1. 1 <= owned_n => Cardinality(S) <= owned_n - 1 + 1
      BY <2>1, CountBound
    <3>2. 1 > owned_n => Cardinality(S) = 0
      BY <2>1, CountBound
    <3>3. Cardinality(S) \in Nat
      BY <2>1, CountBound
    <3> QED BY <2>1, <3>1, <3>2, <3>3
  <2> QED BY <2>1, <2>2 DEF FreezeTotal
<1>3. RemapNeed \in 0..MaxOwned
  <2> DEFINE S == {o \in Offsets : \E k \in 1..owned_n : Frozen(k) /\ o <= owned[k].off}
  <2>1. S \in SUBSET (0..(MaxOwned - 1)) /\ MaxOwned - 1 \in Nat
    BY DEF Offsets
  <2>2. Cardinality(S) \in Nat /\ Cardinality(S) <= MaxOwned
    <3> HIDE DEF S
    <3>1. 0 <= MaxOwned - 1 => Cardinality(S) <= (MaxOwned - 1) - 0 + 1
      BY <2>1, CountBound
    <3>3. Cardinality(S) \in Nat
      BY <2>1, CountBound
    <3> QED BY <2>1, <3>1, <3>3
  <2> QED BY <2>2 DEF RemapNeed
<1> QED BY <1>1, <1>2, <1>3

-----------------------------------------------------------------------------
(* Type correctness                                                        *)

\* What one assignment makes of a table entry, of the blob and of its staging
\* buffer.
LEMMA EntryUpdate ==
  ASSUME NEW e \in Entry, NEW b \in BOOLEAN, NEW o \in Offsets
  PROVE  /\ [e EXCEPT !.frozen = b] \in Entry
         /\ [e EXCEPT !.live = b] \in Entry
         /\ [e EXCEPT !.off = o] \in Entry
BY DEF Entry

\* The entry gcr_vmm_alloc() appends, and one never used, are entries.
LEMMA NewEntry ==
  ASSUME NEW va \in VAs
  PROVE  NoEntry \in Entry /\ FreshEntry(va) \in Entry
<1>1. 0 \in Offsets
  BY EngineAssumption DEF Offsets
<1> QED BY <1>1 DEF Entry, NoEntry, FreshEntry

\* What pipe_copy() flushes and what ftruncate leaves are contents of the blob.
LEMMA StageTypes ==
  ASSUME TypeOK
  PROVE  /\ NoStage \in [off : Offsets, val : Data, full : BOOLEAN]
         /\ Flushed \in [Offsets -> Data]
         /\ \A m \in Nat : Resized(m) \in [Offsets -> Data]
BY EngineAssumption DEF TypeOK, NoStage, Flushed, Resized, Offsets, Data

\* blob_map() leaves a blob, good or bad end.
LEMMA BlobMapTypes ==
  ASSUME TypeOK, NEW m \in 0..MaxOwned, BlobMap(m) \/ BlobMapFail(m)
  PROVE  blob' \in [Offsets -> Data] /\ blobMap' \in 0..MaxOwned /\ stage' = stage
<1>1. Resized(m) \in [Offsets -> Data] /\ 0 \in 0..MaxOwned
  BY StageTypes, EngineAssumption
<1>2. CASE BlobMap(m)
  BY <1>1, <1>2 DEF BlobMap, blobVars, TypeOK
<1>3. CASE BlobMapFail(m)
  BY <1>1, <1>3 DEF BlobMapFail, TypeOK
<1> QED BY <1>2, <1>3

\* Recording what the application wrote and what has met a freeze or remap.
LEMMA RecordTypes ==
  ASSUME TypeOK, NEW kinds, NEW w \in [VAs -> Data], Record(kinds, w)
  PROVE  overlap' \in BOOLEAN /\ want' \in [VAs -> Data]
BY DEF Record, TypeOK, Data

\* The same where the application wrote nothing.
LEMMA NoteTypes ==
  ASSUME TypeOK, NEW kind, NEW cond, Note(kind, cond)
  PROVE  overlap' \in BOOLEAN /\ want' \in [VAs -> Data]
BY RecordTypes DEF Note, TypeOK

\* Type correctness holds when the library is loaded (gcr_init) ...
LEMMA TypeInit == Init => TypeOK
<1> SUFFICES ASSUME Init PROVE TypeOK
  OBVIOUS
<1>1. NoEntry \in Entry /\ NoStage \in [off : Offsets, val : Data, full : BOOLEAN]
  <2>1. 0 \in Offsets
    BY EngineAssumption DEF Offsets
  <2> QED BY <2>1 DEF Entry, NoEntry, NoStage, Data
<1>2. 0 \in 0..MaxOwned /\ 1 \in 1..(MaxOwned + 1) /\ Blank \in Data
  BY EngineAssumption DEF Data
<1>3. /\ owned \in [Slots -> Entry] /\ stage \in [off : Offsets, val : Data, full : BOOLEAN]
      /\ mem \in [VAs -> Data] /\ want \in [VAs -> Data] /\ blob \in [Offsets -> Data]
      /\ tpc \in [Threads -> ThreadStates] /\ freeing \in [Threads -> 0..MaxOwned]
  BY <1>1, <1>2 DEF Init, ThreadStates
<1>4. setup \in Setup
  BY EngineAssumption DEF Init
<1> QED BY <1>2, <1>3, <1>4 DEF Init, TypeOK, WatcherStates

\* ... and every step of the watcher, the application and the agent keeps it.
LEMMA TypeStep == TypeOK /\ [Next]_vars => TypeOK'
<1> SUFFICES ASSUME TypeOK, [Next]_vars PROVE TypeOK'
  OBVIOUS
<1> USE EngineAssumption DEF TypeOK, WatcherStates, ThreadStates
<1>1. CASE FreezeBegin
  <2>1. tpc' = tpc
    BY <1>1 DEF FreezeBegin, GateSet
  <2>2. gate' \in BOOLEAN
    BY <1>1 DEF FreezeBegin, GateSet
  <2> QED BY <1>1, <2>1, <2>2 DEF FreezeBegin, GateSet, tableVars, deviceVars, blobVars, historyVars
<1>2. CASE FreezeCopyStart
  <2>1. overlap' \in BOOLEAN /\ want' \in [VAs -> Data]
    BY <1>2, NoteTypes DEF FreezeCopyStart
  <2> QED BY <1>2, <2>1 DEF FreezeCopyStart, CopyBound, tableVars, deviceVars, blobVars, appVars
<1>3. CASE FreezeCopyEnd
  <2>1. blob' \in [Offsets -> Data] /\ stage' \in [off : Offsets, val : Data, full : BOOLEAN]
    BY <1>3, StageTypes DEF FreezeCopyEnd
  <2> QED BY <1>3, <2>1 DEF FreezeCopyEnd, tableVars, deviceVars, appVars, historyVars
<1>4. CASE FreezeEnd
  BY <1>4 DEF FreezeEnd, LocalsGone, tableVars, deviceVars, appVars, historyVars
<1>5. CASE RestoreBegin
  BY <1>5 DEF RestoreBegin, GateSet, tableVars, deviceVars, blobVars, historyVars
<1>6. CASE RemapCreateEnd
  BY <1>6 DEF RemapCreateEnd, LoopOver, tableVars, deviceVars, blobVars, appVars, historyVars
<1>7. CASE RemapDone
  <2>1. owned' \in [Slots -> Entry]
    BY <1>7, EntryUpdate DEF RemapDone
  <2> QED BY <1>7, <2>1 DEF RemapDone, LoopOver, deviceVars, blobVars, appVars, historyVars
<1>8. CASE RemapOpen
  <2>1. tpc' \in [Threads -> ThreadStates] /\ gate' \in BOOLEAN
    BY <1>8 DEF RemapOpen, GateSet, ThreadStates
  <2> QED BY <1>8, <2>1 DEF RemapOpen, LocalsGone, GateSet, tableVars, deviceVars, blobVars, historyVars
<1>9. CASE Ack
  BY <1>9 DEF Ack, tableVars, deviceVars, blobVars, appVars, historyVars
<1>10. ASSUME NEW k \in Slots, FreezeCopy(k) PROVE TypeOK'
  <2>1. blob' \in [Offsets -> Data] /\ stage' \in [off : Offsets, val : Data, full : BOOLEAN]
    <3>1. owned[k].off \in Offsets /\ mem[owned[k].va] \in Data
      BY <1>10 DEF FreezeCopy, Entry
    <3>2. CASE setup.async
      <4>1. blob' = Flushed
        BY <1>10, <3>2 DEF FreezeCopy
      <4>2. stage' = [off |-> owned[k].off, val |-> mem[owned[k].va], full |-> TRUE]
        BY <1>10, <3>2 DEF FreezeCopy
      <4> QED BY <3>1, <4>1, <4>2, StageTypes
    <3>3. CASE ~setup.async
      BY <1>10, <3>1, <3>3 DEF FreezeCopy
    <3> QED BY <3>2, <3>3
  <2> QED BY <1>10, <2>1 DEF FreezeCopy, IsNext, tableVars, deviceVars, appVars, historyVars
<1>11. ASSUME NEW k \in Slots, FreezeCopyFail(k) PROVE TypeOK'
  <2>1. stage' \in [off : Offsets, val : Data, full : BOOLEAN]
    BY <1>11, StageTypes DEF FreezeCopyFail
  <2>2. i' \in 1..(MaxOwned + 1) /\ pc' \in WatcherStates
    BY <1>11 DEF FreezeCopyFail, Slots
  <2>3. overlap' \in BOOLEAN /\ want' \in [VAs -> Data]
    BY <1>11, NoteTypes DEF FreezeCopyFail
  <2> QED BY <1>11, <2>1, <2>2, <2>3 DEF FreezeCopyFail, tableVars, deviceVars, appVars
<1>12. ASSUME NEW k \in Slots, FreezeRelease(k) PROVE TypeOK'
  <2>1. owned' \in [Slots -> Entry] /\ mem' \in [VAs -> Data]
    BY <1>12, EntryUpdate DEF FreezeRelease, Data
  <2> QED BY <1>12, <2>1 DEF FreezeRelease, IsNext, blobVars, appVars, historyVars
<1>13. ASSUME NEW k \in Slots, RemapCreate(k) PROVE TypeOK'
  <2>1. mapped' \subseteq VAs /\ mem' \in [VAs -> Data]
    BY <1>13 DEF RemapCreate, CanMap, Data
  <2> QED BY <1>13, <2>1 DEF RemapCreate, IsNext, tableVars, blobVars, appVars, historyVars
<1>14. ASSUME NEW k \in Slots, RemapCreateFail(k) PROVE TypeOK'
  <2>1. owned' \in [Slots -> Entry]
    BY <1>14, EntryUpdate DEF RemapCreateFail
  <2>2. overlap' \in BOOLEAN /\ want' \in [VAs -> Data]
    BY <1>14, NoteTypes DEF RemapCreateFail
  <2> QED BY <1>14, <2>1, <2>2 DEF RemapCreateFail, IsNext, deviceVars, blobVars, appVars
<1>15. ASSUME NEW k \in Slots, RemapFill(k) PROVE TypeOK'
  <2>1. mem' \in [VAs -> Data]
    <3>1. owned[k].off \in Offsets
      BY DEF Entry
    <3> QED BY <1>15, <3>1 DEF RemapFill
  <2>2. i' \in 1..(MaxOwned + 1)
    BY <1>15 DEF RemapFill, Slots
  <2> QED BY <1>15, <2>1, <2>2 DEF RemapFill, tableVars, blobVars, appVars, historyVars
<1>16. ASSUME NEW k \in Slots, RemapFillFail(k) PROVE TypeOK'
  <2>1. overlap' \in BOOLEAN /\ want' \in [VAs -> Data]
    BY <1>16, NoteTypes DEF RemapFillFail
  <2> QED BY <1>16, <2>1 DEF RemapFillFail, IsNext, tableVars, deviceVars, blobVars, appVars
<1>17. ASSUME NEW t \in Threads, GateFast(t) PROVE TypeOK'
  BY <1>17 DEF GateFast, watcherVars, tableVars, deviceVars, blobVars, historyVars
<1>18. ASSUME NEW t \in Threads, GateSlow(t) PROVE TypeOK'
  BY <1>18 DEF GateSlow, watcherVars, tableVars, deviceVars, blobVars, historyVars
<1>19. ASSUME NEW t \in Threads, LaunchOther(t) PROVE TypeOK'
  BY <1>19 DEF LaunchOther, watcherVars, tableVars, deviceVars, blobVars, historyVars
<1>20. ASSUME NEW t \in Threads, FreeEnd(t) PROVE TypeOK'
  <2>1. owned' \in [Slots -> Entry]
    BY <1>20, EntryUpdate DEF FreeEnd
  <2> QED BY <1>20, <2>1 DEF FreeEnd, watcherVars, deviceVars, blobVars, historyVars
<1>21. ASSUME NEW t \in Threads, NEW k \in Slots, FreeBegin(t, k) PROVE TypeOK'
  <2>1. mem' \in [VAs -> Data]
    BY <1>21 DEF FreeBegin, Data
  <2>2. overlap' \in BOOLEAN /\ want' \in [VAs -> Data]
    <3>1. [want EXCEPT ![owned[k].va] = Blank] \in [VAs -> Data]
      BY DEF Data
    <3> QED BY <1>21, <3>1, RecordTypes DEF FreeBegin
  <2> QED BY <1>21, <2>1, <2>2 DEF FreeBegin, Slots, watcherVars, tableVars, blobVars
<1>22. ASSUME NEW t \in Threads, NEW va \in VAs, Malloc(t, va) PROVE TypeOK'
  <2>1. owned' \in [Slots -> Entry] /\ owned_n' \in 0..MaxOwned
    BY <1>22, NewEntry DEF Malloc, Track, tableVars, Slots
  <2>2. mem' \in [VAs -> Data]
    BY <1>22 DEF Malloc, Data
  <2>3. overlap' \in BOOLEAN /\ want' \in [VAs -> Data]
    <3>1. [want EXCEPT ![va] = Blank] \in [VAs -> Data]
      BY DEF Data
    <3> QED BY <1>22, <3>1, RecordTypes DEF Malloc
  <2> QED BY <1>22, <2>1, <2>2, <2>3 DEF Malloc, watcherVars, blobVars, appVars
<1>23. ASSUME NEW t \in Threads, NEW va \in VAs, LaunchFault(t, va) PROVE TypeOK'
  BY <1>23 DEF LaunchFault, watcherVars, tableVars, deviceVars, blobVars, historyVars
<1>24. ASSUME NEW t \in Threads, NEW va \in VAs, NEW v \in Vals, Launch(t, va, v) PROVE TypeOK'
  <2>1. mem' \in [VAs -> Data]
    BY <1>24 DEF Launch, Data
  <2>2. overlap' \in BOOLEAN /\ want' \in [VAs -> Data]
    <3>1. [want EXCEPT ![va] = v] \in [VAs -> Data]
      BY DEF Data
    <3> QED BY <1>24, <3>1, RecordTypes DEF Launch
  <2> QED BY <1>24, <2>1, <2>2 DEF Launch, watcherVars, tableVars, blobVars
<1>25. CASE FreezeScan
  <2>1. /\ owned' \in [Slots -> Entry]
        /\ FreezeTotal \in 0..MaxOwned
    BY <1>25, EntryUpdate, OffsetsBound DEF FreezeScan
  <2>2. blob' \in [Offsets -> Data] /\ blobMap' \in 0..MaxOwned /\ stage' = stage
    BY <1>25, <2>1, BlobMapTypes DEF FreezeScan, blobVars
  <2>3. overlap' \in BOOLEAN /\ want' \in [VAs -> Data]
    <3>1. \/ UNCHANGED historyVars
          \/ \E kinds : Record(kinds, want)
          \/ Note("fault", TRUE)
      BY <1>25 DEF FreezeScan
    <3> QED BY <3>1, RecordTypes, NoteTypes DEF historyVars
  <2>4. n' \in 0..MaxOwned /\ cn' \in 0..MaxOwned /\ i' \in 1..(MaxOwned + 1)
    <3>1. \/ n' = 0 /\ cn' = 0 /\ i' = 1
          \/ n' = owned_n /\ cn' = cn /\ i' = i
      BY <1>25 DEF FreezeScan, LocalsGone
    <3> QED BY <3>1
  <2>5. pc' \in WatcherStates
    BY <1>25 DEF FreezeScan
  <2> QED BY <1>25, <2>1, <2>2, <2>3, <2>4, <2>5 DEF FreezeScan, deviceVars, appVars
<1>26. CASE RemapMap
  <2>1. RemapNeed \in 0..MaxOwned
    BY OffsetsBound
  <2>2. blob' \in [Offsets -> Data] /\ blobMap' \in 0..MaxOwned /\ stage' = stage
    <3>1. BlobMap(RemapNeed) \/ BlobMapFail(RemapNeed) \/ UNCHANGED blobVars
      BY <1>26 DEF RemapMap
    <3>2. CASE UNCHANGED blobVars
      BY <3>2 DEF blobVars
    <3> QED BY <2>1, <3>1, <3>2, BlobMapTypes
  <2>3. overlap' \in BOOLEAN /\ want' \in [VAs -> Data]
    <3>1. UNCHANGED historyVars \/ Note("fault", TRUE)
      BY <1>26 DEF RemapMap
    <3> QED BY <3>1, NoteTypes DEF historyVars
  <2> QED BY <1>26, <2>2, <2>3 DEF RemapMap, RemapPath, tableVars, deviceVars, appVars
<1>27. ASSUME NEW s \in {"ckpt", "restore"}, Request(s) PROVE TypeOK'
  BY <1>27 DEF Request, watcherVars, tableVars, deviceVars, blobVars, appVars, historyVars
<1>28. CASE UNCHANGED vars
  BY <1>28 DEF vars, watcherVars, tableVars, deviceVars, blobVars, appVars, historyVars
<1>29. CASE Watcher
  BY <1>29, <1>1, <1>2, <1>3, <1>4, <1>5, <1>6, <1>7, <1>8, <1>9, <1>10, <1>11, <1>12,
     <1>13, <1>14, <1>15, <1>16, <1>25, <1>26 DEF Watcher
<1>30. ASSUME NEW t \in Threads, App(t) PROVE TypeOK'
  BY <1>30, <1>17, <1>18, <1>19, <1>20, <1>21, <1>22, <1>23, <1>24 DEF App
<1> QED BY <1>27, <1>28, <1>29, <1>30 DEF Next

\* Every variable of the engine stays in its type: in particular the loops never
\* leave g_owned[], and no offset or mapping leaves the blob (all of preload.c's
\* table and blob accesses).
THEOREM TypeCorrect == Spec => []TypeOK
<1> QED BY TypeInit, TypeStep, PTL DEF Spec

-----------------------------------------------------------------------------
(* The launch gate                                                         *)

\* GateCoversFrozen is not inductive: that no entry is frozen when the remap
\* lowers the gate rests on the bound n its loops ran to, which rests on
\* frozen entries lying below g_owned_n.
Working == WatcherStates \ {"poll", "ack"}
GateInv ==
  /\ pc \in Working => gate
  /\ \A k \in Slots : Frozen(k) => gate /\ k <= owned_n
  /\ pc \in {"start", "copy", "release"} => n <= owned_n
  /\ pc \in {"create", "fill"} => \A k \in Slots : Frozen(k) => k <= n
  /\ pc = "open" => \A k \in Slots : ~Frozen(k)
  /\ ~setup.symbols => /\ pc \notin {"scan", "start", "copy", "release"}
                       /\ \A k \in Slots : ~Frozen(k)

\* The gate invariant holds when the library is loaded ...
LEMMA GateInit == Init => GateInv
BY DEF Init, GateInv, Working, Frozen, NoEntry

\* ... and every step of checkpoint_freeze(), restore_remap() and the
\* application keeps it.
LEMMA GateStep == TypeOK /\ GateInv /\ [Next]_vars => GateInv'
<1> SUFFICES ASSUME TypeOK, GateInv, [Next]_vars PROVE GateInv'
  OBVIOUS
<1> USE EngineAssumption DEF TypeOK, GateInv, Working, WatcherStates, Frozen, Slots, Entry
<1>1. CASE FreezeBegin
  BY <1>1 DEF FreezeBegin, GateSet, tableVars
<1>2. CASE FreezeScan
  <2>1. \A k \in Slots : owned'[k].frozen = owned[k].frozen
    BY <1>2 DEF FreezeScan
  <2>2. \/ pc' = "ack"
        \/ pc' = "start" /\ n' = owned_n
    BY <1>2 DEF FreezeScan
  <2> QED BY <1>2, <2>1, <2>2 DEF FreezeScan
<1>3. CASE FreezeCopyStart
  BY <1>3 DEF FreezeCopyStart, tableVars
<1>4. CASE FreezeCopyEnd
  BY <1>4 DEF FreezeCopyEnd, tableVars
<1>5. CASE FreezeEnd
  BY <1>5 DEF FreezeEnd, tableVars, LocalsGone
<1>6. CASE RestoreBegin
  BY <1>6 DEF RestoreBegin, GateSet, tableVars
<1>7. CASE RemapMap
  BY <1>7 DEF RemapMap, RemapPath, tableVars
<1>8. CASE RemapCreateEnd
  BY <1>8 DEF RemapCreateEnd, tableVars
<1>9. CASE RemapDone
  BY <1>9 DEF RemapDone, Restored
<1>10. CASE RemapOpen
  BY <1>10 DEF RemapOpen, GateSet, LocalsGone, tableVars
<1>11. CASE Ack
  BY <1>11 DEF Ack, tableVars
<1>12. ASSUME NEW k \in Slots, FreezeCopy(k) PROVE GateInv'
  BY <1>12 DEF FreezeCopy, tableVars
<1>13. ASSUME NEW k \in Slots, FreezeCopyFail(k) PROVE GateInv'
  BY <1>13 DEF FreezeCopyFail, tableVars
<1>14. ASSUME NEW k \in Slots, FreezeRelease(k) PROVE GateInv'
  BY <1>14 DEF FreezeRelease, IsNext
<1>15. ASSUME NEW k \in Slots, RemapCreate(k) PROVE GateInv'
  BY <1>15 DEF RemapCreate, tableVars
<1>16. ASSUME NEW k \in Slots, RemapCreateFail(k) PROVE GateInv'
  BY <1>16 DEF RemapCreateFail, IsNext
<1>17. ASSUME NEW k \in Slots, RemapFill(k) PROVE GateInv'
  BY <1>17 DEF RemapFill, tableVars
<1>18. ASSUME NEW k \in Slots, RemapFillFail(k) PROVE GateInv'
  BY <1>18 DEF RemapFillFail, tableVars
<1>19. ASSUME NEW t \in Threads, GateFast(t) PROVE GateInv'
  BY <1>19 DEF GateFast, tableVars, watcherVars
<1>20. ASSUME NEW t \in Threads, GateSlow(t) PROVE GateInv'
  BY <1>20 DEF GateSlow, tableVars, watcherVars
<1>21. ASSUME NEW t \in Threads, LaunchOther(t) PROVE GateInv'
  BY <1>21 DEF LaunchOther, tableVars, watcherVars
<1>22. ASSUME NEW t \in Threads, FreeEnd(t) PROVE GateInv'
  BY <1>22 DEF FreeEnd, watcherVars
<1>23. ASSUME NEW t \in Threads, NEW k \in Slots, FreeBegin(t, k) PROVE GateInv'
  BY <1>23 DEF FreeBegin, tableVars, watcherVars
<1>24. ASSUME NEW t \in Threads, NEW va \in VAs, Malloc(t, va) PROVE GateInv'
  <2>1. \A k \in Slots : owned'[k].frozen => owned[k].frozen
    <3>1. CASE owned_n < MaxOwned
      <4>1. owned' = [owned EXCEPT ![owned_n + 1] = FreshEntry(va)]
        BY <1>24, <3>1 DEF Malloc, Track
      <4>2. FreshEntry(va).frozen = FALSE
        BY DEF FreshEntry
      <4> QED BY <4>1, <4>2
    <3>2. CASE ~(owned_n < MaxOwned)
      BY <1>24, <3>2 DEF Malloc, Track, tableVars
    <3> QED BY <3>1, <3>2
  <2>2. owned_n <= owned_n'
    BY <1>24 DEF Malloc, Track, tableVars
  <2>3. owned_n' \in 0..MaxOwned
    BY <1>24 DEF Malloc, Track, tableVars
  <2>4. UNCHANGED <<setup, pc, n, gate>>
    BY <1>24 DEF Malloc, watcherVars
  <2> QED BY <2>1, <2>2, <2>3, <2>4
<1>25. ASSUME NEW t \in Threads, NEW va \in VAs, LaunchFault(t, va) PROVE GateInv'
  BY <1>25 DEF LaunchFault, tableVars, watcherVars
<1>26. ASSUME NEW t \in Threads, NEW va \in VAs, NEW v \in Vals, Launch(t, va, v) PROVE GateInv'
  BY <1>26 DEF Launch, tableVars, watcherVars
<1>27. ASSUME NEW s \in {"ckpt", "restore"}, Request(s) PROVE GateInv'
  BY <1>27 DEF Request, watcherVars, tableVars
<1>28. CASE UNCHANGED vars
  BY <1>28 DEF vars, watcherVars, tableVars
<1>29. CASE Watcher
  BY <1>29, <1>1, <1>2, <1>3, <1>4, <1>5, <1>6, <1>7, <1>8, <1>9, <1>10, <1>11, <1>12,
     <1>13, <1>14, <1>15, <1>16, <1>17, <1>18 DEF Watcher
<1>30. ASSUME NEW t \in Threads, App(t) PROVE GateInv'
  BY <1>30, <1>19, <1>20, <1>21, <1>22, <1>23, <1>24, <1>25, <1>26 DEF App
<1> QED BY <1>27, <1>28, <1>29, <1>30 DEF Next

\* The gate is up whenever some data is off the device, whatever requests come,
\* whatever fails, and whatever the application allocates or frees meanwhile
\* (gcr_gate_set in checkpoint_freeze() and in the watcher).
THEOREM GateSafe == Spec => []GateCoversFrozen
<1>1. TypeOK /\ GateInv => GateCoversFrozen
  <2> SUFFICES ASSUME TypeOK, GateInv, NEW k \in 1..owned_n, Frozen(k) PROVE gate
    BY DEF GateCoversFrozen
  <2>1. k \in Slots
    BY EngineAssumption DEF TypeOK, Slots
  <2> QED BY <2>1 DEF GateInv
<1> QED BY <1>1, TypeInit, TypeStep, GateInit, GateStep, PTL DEF Spec

\* Lowering the gate wakes every thread that sleeps on it, so no launch is held
\* by an open gate (gcr_gate_set against gcr_gate_wait).
LEMMA WakeupStep == TypeOK /\ NoLostWakeup /\ [Next]_vars => NoLostWakeup'
<1> SUFFICES ASSUME TypeOK, NoLostWakeup, [Next]_vars PROVE NoLostWakeup'
  OBVIOUS
<1> USE DEF TypeOK, NoLostWakeup
<1>1. CASE FreezeBegin
  BY <1>1 DEF FreezeBegin, GateSet
<1>2. CASE RestoreBegin
  BY <1>2 DEF RestoreBegin, GateSet
<1>3. CASE RemapOpen
  BY <1>3 DEF RemapOpen, GateSet
<1>4. ASSUME NEW t \in Threads, App(t) PROVE NoLostWakeup'
  <2>1. ASSUME GateSlow(t) PROVE NoLostWakeup'
    BY <2>1 DEF GateSlow
  <2>2. ASSUME GateFast(t) PROVE NoLostWakeup'
    BY <2>2 DEF GateFast
  <2>3. ASSUME LaunchOther(t) PROVE NoLostWakeup'
    BY <2>3 DEF LaunchOther
  <2>4. ASSUME FreeEnd(t) PROVE NoLostWakeup'
    BY <2>4 DEF FreeEnd
  <2>5. ASSUME NEW k \in Slots, FreeBegin(t, k) PROVE NoLostWakeup'
    BY <2>5 DEF FreeBegin
  <2>6. ASSUME NEW va \in VAs, Malloc(t, va) PROVE NoLostWakeup'
    BY <2>6 DEF Malloc, appVars
  <2>7. ASSUME NEW va \in VAs, LaunchFault(t, va) PROVE NoLostWakeup'
    BY <2>7 DEF LaunchFault
  <2>8. ASSUME NEW va \in VAs, NEW v \in Vals, Launch(t, va, v) PROVE NoLostWakeup'
    BY <2>8 DEF Launch
  <2> QED BY <1>4, <2>1, <2>2, <2>3, <2>4, <2>5, <2>6, <2>7, <2>8 DEF App
<1>5. CASE UNCHANGED <<gate, tpc>>
  BY <1>5
<1>6. ASSUME Watcher PROVE FreezeBegin \/ RestoreBegin \/ RemapOpen \/ UNCHANGED <<gate, tpc>>
  BY <1>6 DEF Watcher, FreezeScan, FreezeCopyStart, FreezeCopyEnd, FreezeEnd, RemapMap,
     RemapCreateEnd, RemapDone, Ack, FreezeCopy, FreezeCopyFail, FreezeRelease,
     RemapCreate, RemapCreateFail, RemapFill, RemapFillFail, appVars
<1>7. ASSUME NEW s \in {"ckpt", "restore"}, Request(s) PROVE UNCHANGED <<gate, tpc>>
  BY <1>7 DEF Request, appVars
<1>8. CASE UNCHANGED vars
  BY <1>5, <1>8 DEF vars, appVars
<1> QED BY <1>1, <1>2, <1>3, <1>4, <1>5, <1>6, <1>7, <1>8 DEF Next

\* No thread sleeps on an open gate, for any number of threads (gcr_gate_set,
\* gcr_gate_wait).
THEOREM WakeupSafe == Spec => []NoLostWakeup
<1>1. Init => NoLostWakeup
  BY DEF Init, NoLostWakeup
<1> QED BY <1>1, TypeInit, TypeStep, WakeupStep, PTL DEF Spec

=============================================================================
