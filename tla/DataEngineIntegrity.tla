------------------------- MODULE DataEngineIntegrity -------------------------
(***************************************************************************)
(* No sequence of checkpoints and restores loses data or can be told from  *)
(* none by the application, unless an event has met a freeze or remap that *)
(* loses data (DataEngine's Excused).                                      *)
(*                                                                         *)
(* Intact is not inductive.  That the remap finds a segment's data at its  *)
(* offset rests on the offsets that the sizing loop handed out being all   *)
(* different, on the copy loop having passed every entry below n and       *)
(* flushed the chunk it staged, on the file not being cut below a frozen   *)
(* entry, and on no two live entries having one address.                   *)
(***************************************************************************)
EXTENDS DataEngineProofs

\* Live entries have addresses of their own, which the application holds or is
\* about to have given back.
Table ==
  /\ \A k \in Slots : Live(k) =>
       /\ k <= owned_n /\ owned[k].va \in VAs
       /\ owned[k].va \in reserved \/ \E t \in Threads : tpc[t] = "free" /\ freeing[t] = k
  /\ \A j, k \in Slots : Live(j) /\ Live(k) /\ owned[j].va = owned[k].va => j = k
  /\ \A t \in Threads : tpc[t] = "free" => freeing[t] \in Slots /\ ~Frozen(freeing[t])

\* A frozen segment's data is in the blob, any other memory's on the device.
FrozenIn(k) == owned[k].va \in reserved /\ blob[owned[k].off] = want[owned[k].va]
InBlob == \A k \in Slots : Frozen(k) => Live(k) /\ FrozenIn(k)
OnDevice ==
  \A va \in reserved :
    (\A k \in Slots : Frozen(k) => owned[k].va # va) => va \in mapped /\ mem[va] = want[va]

\* The freeze: offsets differ, and what the loop has passed is staged or in the blob.
Freezing == {"start", "copy", "release"}
ToCopy == {k \in 1..n : Live(k)}
FreezeInv ==
  /\ pc \in Freezing =>
       /\ \A t \in Threads : tpc[t] # "free"
       /\ \A j, k \in ToCopy : j < k => owned[j].off < owned[k].off
  /\ pc \in {"start", "copy"} => \A k \in Slots : ~Frozen(k)
  /\ stage.full => pc = "copy" /\ setup.async
  /\ pc = "copy" =>
       /\ cn = n
       /\ \A k \in ToCopy : k < i => Flushed[owned[k].off] = want[owned[k].va]
  /\ pc = "release" => \A k \in ToCopy : blob[owned[k].off] = want[owned[k].va]

\* The remap: which frozen entries have memory again, and which their data too.
Remade(k) == pc = "fill" \/ (pc = "create" /\ k < i)
RemapInv ==
  /\ \A k \in Slots : Frozen(k) => (owned[k].va \in mapped <=> Remade(k))
  /\ pc = "fill" => \A k \in Slots : Frozen(k) /\ k < i => mem[owned[k].va] = want[owned[k].va]
  /\ pc \in {"create", "fill"} => \A k \in Slots : Frozen(k) => blobMap > 0

Good == Table /\ InBlob /\ OnDevice /\ FreezeInv /\ RemapInv
DataInv == ~overlap => Good

-----------------------------------------------------------------------------
(* Helpers                                                                 *)

\* While nothing excused has met a freeze or remap, want is what the application
\* wrote.
LEMMA RecordNothing ==
  ASSUME Excused = Events, NEW kinds \in SUBSET Events, NEW w, Record(kinds, w), ~overlap'
  PROVE  ~overlap /\ kinds = {} /\ want' = w
<1>1. overlap' = (overlap \/ kinds \cap Excused # {})
  BY DEF Record
<1>2. ~overlap /\ kinds \cap Excused = {}
  BY <1>1
<1> QED
  BY <1>2 DEF Record

LEMMA NoteNothing ==
  ASSUME Excused = Events, NEW kind \in Events, NEW cond, Note(kind, cond), ~overlap'
  PROVE  ~overlap /\ ~cond /\ want' = want
<1>1. Met(kind, cond) \in SUBSET Events
  BY DEF Met
<1>2. ~overlap /\ Met(kind, cond) = {} /\ want' = want
  BY <1>1, RecordNothing DEF Note
<1>3. ~cond
  BY <1>2 DEF Met
<1> QED
  BY <1>2, <1>3

\* Whatever is recorded, the last write is kept while nothing is lost.
LEMMA RecordLast ==
  ASSUME NEW kinds, NEW w, Record(kinds, w), ~overlap'
  PROVE  want' = w
BY DEF Record

\* The offsets of the sizing loop differ.
LEMMA OffsetsGrow ==
  ASSUME TypeOK, NEW j \in Slots, NEW k \in Slots, j < k, Selected(j)
  PROVE  FreezeOffset(j) < FreezeOffset(k)
<1> DEFINE A == {m \in 1..(j - 1) : Selected(m)}
           B == {m \in 1..(k - 1) : Selected(m)}
<1>1. j \in Nat /\ k \in Nat /\ j >= 1
  BY EngineAssumption DEF Slots
<1>2. IsFiniteSet(1..(j - 1)) /\ IsFiniteSet(1..(k - 1))
  <2>1. j - 1 \in Int /\ k - 1 \in Int /\ 1 \in Int
    BY <1>1
  <2> HIDE DEF A, B
  <2> QED
    BY <2>1, FS_Interval
<1>3. IsFiniteSet(A) /\ IsFiniteSet(B)
  BY <1>2, FS_Subset
<1>4. j \notin A /\ A \cup {j} \subseteq B
  BY <1>1
<1>5. Cardinality(A \cup {j}) = Cardinality(A) + 1
  <2> HIDE DEF A
  <2> QED
    BY <1>3, <1>4, FS_AddElement
<1>6. Cardinality(A \cup {j}) <= Cardinality(B)
  <2> HIDE DEF A, B
  <2> QED
    BY <1>3, <1>4, FS_Subset
<1>7. Cardinality(A) \in Nat /\ Cardinality(B) \in Nat
  <2> HIDE DEF A, B
  <2> QED
    BY <1>3, FS_CardinalityType
<1>8. Cardinality(A) < Cardinality(B)
  <2> HIDE DEF A, B
  <2> QED
    BY <1>5, <1>6, <1>7
<1> QED
  BY <1>8 DEF FreezeOffset

\* The remap maps the file past every frozen segment.
LEMMA NeedCovers ==
  ASSUME TypeOK, NEW k \in Slots, k <= owned_n, Frozen(k)
  PROVE  owned[k].off < RemapNeed
<1> DEFINE S == {o \in Offsets : \E j \in 1..owned_n : Frozen(j) /\ o <= owned[j].off}
<1>1. PICK m : m = owned[k].off
  OBVIOUS
<1>2. m \in Offsets /\ m \in Nat /\ k \in 1..owned_n
  BY <1>1, EngineAssumption DEF TypeOK, Entry, Offsets, Slots
<1>3. 0..m \subseteq S
  BY <1>1, <1>2, EngineAssumption DEF Offsets
<1>4. IsFiniteSet(S)
  <2>1. S \subseteq 0..(MaxOwned - 1) /\ MaxOwned - 1 \in Nat
    BY EngineAssumption DEF Offsets
  <2> HIDE DEF S
  <2>2. IsFiniteSet(0..(MaxOwned - 1))
    BY <2>1, FS_Interval
  <2> QED
    BY <2>1, <2>2, FS_Subset
<1>5. Cardinality(0..m) = m + 1
  BY <1>2, FS_Interval
<1>6. Cardinality(0..m) <= Cardinality(S) /\ Cardinality(S) \in Nat
  <2> HIDE DEF S
  <2> QED
    BY <1>3, <1>4, FS_Subset, FS_CardinalityType
<1>7. m < Cardinality(S)
  <2> HIDE DEF S
  <2> QED
    BY <1>2, <1>5, <1>6
<1> QED
  BY <1>1, <1>7 DEF RemapNeed

\* A step that leaves table and memory alone.
LEMMA Undisturbed ==
  ASSUME Table, InBlob, OnDevice, UNCHANGED <<tableVars, deviceVars, want, freeing>>,
         \A k \in Slots : Frozen(k) => blob'[owned[k].off] = blob[owned[k].off],
         \A t \in Threads : tpc'[t] = "free" <=> tpc[t] = "free"
  PROVE  Table' /\ InBlob' /\ OnDevice'
<1> USE DEF tableVars, deviceVars
<1>1. Table'
  BY DEF Table, Live, Frozen
<1>2. InBlob'
  BY DEF InBlob, FrozenIn, Live, Frozen
<1>3. OnDevice'
  BY DEF OnDevice, Frozen
<1> QED
  BY <1>1, <1>2, <1>3

\* A step of the watcher outside its loops.
LEMMA Calm ==
  ASSUME Good, pc \in WatcherStates \ {"copy", "create", "fill"},
         pc' \in {"poll", "scan", "map", "ack"},
         UNCHANGED <<tableVars, deviceVars, want, freeing, blob, stage>>,
         \A t \in Threads : tpc'[t] = "free" <=> tpc[t] = "free"
  PROVE  Good'
<1>1. Table' /\ InBlob' /\ OnDevice'
  BY Undisturbed DEF Good
<1>2. FreezeInv'
  BY DEF Good, FreezeInv, Freezing
<1>3. RemapInv'
  BY DEF Good, RemapInv, Remade, Frozen, tableVars, deviceVars, WatcherStates
<1> QED
  BY <1>1, <1>2, <1>3 DEF Good

\* A step of a thread that concerns neither table nor memory.
LEMMA Aside ==
  ASSUME Good, UNCHANGED <<setup, watcherVars, tableVars, deviceVars, blobVars, want, freeing>>,
         \A t \in Threads : tpc'[t] = "free" <=> tpc[t] = "free"
  PROVE  Good'
<1> USE DEF watcherVars, tableVars, deviceVars, blobVars
<1>1. Table' /\ InBlob' /\ OnDevice'
  BY Undisturbed DEF Good
<1>2. FreezeInv'
  BY DEF Good, FreezeInv, Freezing, ToCopy, Flushed, Live, Frozen
<1>3. RemapInv'
  BY DEF Good, RemapInv, Remade, Frozen
<1> QED
  BY <1>1, <1>2, <1>3 DEF Good

-----------------------------------------------------------------------------
(* checkpoint_freeze()                                                              *)

\* The sizing loop changes offsets only, and only of entries that are not frozen.
LEMMA Sized ==
  ASSUME TypeOK, FreezeScan, NEW k \in Slots
  PROVE  /\ owned'[k].va = owned[k].va /\ owned'[k].live = owned[k].live
         /\ owned'[k].frozen = owned[k].frozen
         /\ Frozen(k) => owned'[k].off = owned[k].off
         /\ k <= owned_n /\ Selected(k) => owned'[k].off = FreezeOffset(k)
<1>1. owned[k] \in Entry
  BY DEF TypeOK
<1>2. CASE k <= owned_n /\ Selected(k)
  <2>1. owned'[k] = [owned[k] EXCEPT !.off = FreezeOffset(k)]
    BY <1>2 DEF FreezeScan
  <2> QED
    BY <1>1, <1>2, <2>1 DEF Entry, Selected, Frozen
<1>3. CASE ~(k <= owned_n /\ Selected(k))
  <2>1. owned'[k] = owned[k]
    BY <1>3 DEF FreezeScan
  <2> QED
    BY <1>3, <2>1
<1> QED
  BY <1>2, <1>3

\* The offsets are handed out and the file is mapped; no thread is in cudaFree.
LEMMA GoodScan ==
  ASSUME TypeOK, GateInv, Good, Excused = Events, ~overlap', FreezeScan
  PROVE  Good'
<1>1. UNCHANGED <<deviceVars, appVars, owned_n, setup>> /\ ~stage.full /\ pc = "scan"
  BY DEF FreezeScan, Good, FreezeInv
<1>2. Table'
  <2> USE DEF Table, Live, Frozen
  <2>1. Table
    BY DEF Good
  <2> QED
    BY <1>1, <2>1, Sized DEF deviceVars, appVars
<1>3. ASSUME pc' = "ack", UNCHANGED <<blobVars, historyVars>>
      PROVE  Good'
  <2>1. InBlob' /\ OnDevice'
    BY <1>1, <1>3, Sized DEF Good, InBlob, OnDevice, FrozenIn, Live, Frozen, deviceVars,
       blobVars, historyVars
  <2>2. FreezeInv'
    BY <1>1, <1>3 DEF FreezeInv, Freezing, blobVars
  <2>3. RemapInv'
    BY <1>1, <1>3, Sized DEF Good, RemapInv, Remade, Frozen, deviceVars
  <2> QED
    BY <1>2, <2>1, <2>2, <2>3 DEF Good
<1>4. ASSUME pc' = "start", BlobMap(FreezeTotal), n' = owned_n,
             Record(Met("refreeze", \E k \in Slots : Live(k) /\ Frozen(k))
                    \cup Met("free", \E t \in Threads : tpc[t] = "free"), want)
      PROVE  Good'
  <2>1. Met("refreeze", \E k \in Slots : Live(k) /\ Frozen(k))
          \cup Met("free", \E t \in Threads : tpc[t] = "free") \in SUBSET Events
    BY DEF Met, Events
  <2>2. /\ Met("refreeze", \E k \in Slots : Live(k) /\ Frozen(k))
             \cup Met("free", \E t \in Threads : tpc[t] = "free") = {}
        /\ want' = want
    BY <1>4, <2>1, RecordNothing
  <2>3. (\A k \in Slots : ~(Live(k) /\ Frozen(k))) /\ \A t \in Threads : tpc[t] # "free"
    BY <2>2 DEF Met
  <2>4. \A k \in Slots : ~Frozen(k) /\ ~owned'[k].frozen
    BY <2>3, Sized DEF Good, InBlob, Frozen
  <2>5. stage' = stage
    BY <1>4 DEF BlobMap, blobVars
  <2>6. InBlob' /\ OnDevice'
    BY <1>1, <2>2, <2>4 DEF Good, InBlob, OnDevice, Frozen, deviceVars
  <2>7. \A j, k \in ToCopy' : j < k => owned'[j].off < owned'[k].off
    <3> SUFFICES ASSUME NEW j \in ToCopy', NEW k \in ToCopy', j < k
                 PROVE  owned'[j].off < owned'[k].off
      OBVIOUS
    <3>1. j \in Slots /\ k \in Slots /\ j <= owned_n /\ k <= owned_n
      BY <1>4, EngineAssumption DEF ToCopy, TypeOK, Slots
    <3>2. Selected(j) /\ Selected(k)
      BY <2>4, <3>1, Sized DEF ToCopy, Selected, Live
    <3>3. owned'[j].off = FreezeOffset(j) /\ owned'[k].off = FreezeOffset(k)
      BY <3>1, <3>2, Sized
    <3> QED
      BY <3>1, <3>2, <3>3, OffsetsGrow
  <2>8. FreezeInv'
    BY <1>1, <1>4, <2>3, <2>4, <2>5, <2>7 DEF FreezeInv, Freezing, Frozen, appVars
  <2>9. RemapInv'
    BY <1>4, <2>4 DEF RemapInv, Frozen
  <2> QED
    BY <1>2, <2>6, <2>8, <2>9 DEF Good
<1>5. ASSUME Note("fault", TRUE) PROVE FALSE
  BY <1>5, NoteNothing DEF Events
<1> QED
  BY <1>3, <1>4, <1>5 DEF FreezeScan

\* No entry was added since the sizing loop, so pipe_copy() sees the same ones.
LEMMA GoodCopyStart ==
  ASSUME TypeOK, GateInv, Good, Excused = Events, ~overlap', FreezeCopyStart
  PROVE  Good'
<1>1. ~(CopyBound > n) /\ want' = want
  BY NoteNothing DEF FreezeCopyStart, Events
<1>2. cn' = n
  BY <1>1 DEF FreezeCopyStart, CopyBound, GateInv, TypeOK
<1>3. UNCHANGED <<setup, n, tableVars, deviceVars, blobVars, appVars>> /\ pc' = "copy" /\ i' = 1
      /\ pc = "start"
  BY DEF FreezeCopyStart
<1> USE DEF tableVars, deviceVars, blobVars, appVars
<1>4. Table' /\ InBlob' /\ OnDevice'
  BY <1>1, <1>3, Undisturbed DEF Good
<1>5. FreezeInv'
  <2>1. \A k \in ToCopy' : ~(k < 1)
    BY <1>3 DEF ToCopy, TypeOK
  <2> QED
    BY <1>2, <1>3, <2>1 DEF Good, FreezeInv, Freezing, ToCopy, Live, Frozen
<1>6. RemapInv'
  BY <1>3 DEF Good, RemapInv, Remade, Frozen, FreezeInv
<1> QED
  BY <1>4, <1>5, <1>6 DEF Good

\* In the copy loop every entry below n that is live is one the loop takes.
LEMMA CopyTakes ==
  ASSUME TypeOK, GateInv, Good, pc = "copy"
  PROVE  /\ ToCopy = {k \in 1..n : k \in ToFreeze} /\ ToCopy \subseteq Slots
         /\ \A k \in ToCopy : owned[k].va \in reserved /\ mem[owned[k].va] = want[owned[k].va]
<1>1. \A k \in Slots : ~Frozen(k)
  BY DEF Good, FreezeInv
<1>2. ToCopy \subseteq Slots
  BY EngineAssumption DEF ToCopy, TypeOK, Slots
<1>3. ToCopy = {k \in 1..n : k \in ToFreeze}
  BY <1>1, <1>2 DEF ToCopy, ToFreeze, Selected
<1>4. \A k \in ToCopy : owned[k].va \in reserved
  BY <1>2 DEF ToCopy, Good, Table, FreezeInv, Freezing
<1> QED
  BY <1>1, <1>2, <1>3, <1>4 DEF Good, OnDevice

\* One segment more is staged or in the blob, and no other one's place is hit.
LEMMA GoodCopy ==
  ASSUME TypeOK, GateInv, Good, Excused = Events, ~overlap', NEW k \in Slots, FreezeCopy(k)
  PROVE  Good'
<1>1. UNCHANGED <<setup, n, cn, tableVars, deviceVars, appVars, want>>
      /\ pc = "copy" /\ pc' = "copy" /\ i' = k + 1
  BY DEF FreezeCopy, historyVars
<1>2. cn = n /\ IsNext(k, n, ToFreeze) /\ \A j \in Slots : ~Frozen(j)
  BY <1>1 DEF FreezeCopy, Good, FreezeInv
<1> USE DEF tableVars, deviceVars, appVars
<1>3. Table' /\ InBlob' /\ OnDevice'
  BY <1>1, <1>2, Undisturbed DEF Good
<1>4. Flushed' = [Flushed EXCEPT ![owned[k].off] = mem[owned[k].va]]
  <2>1. CASE setup.async
    <3>1. blob' = Flushed
          /\ stage' = [off |-> owned[k].off, val |-> mem[owned[k].va], full |-> TRUE]
      BY <2>1 DEF FreezeCopy
    <3>2. stage'.full /\ stage'.off = owned[k].off /\ stage'.val = mem[owned[k].va]
      BY <3>1
    <3>3. Flushed' = [blob' EXCEPT ![stage'.off] = stage'.val]
      BY <3>2 DEF Flushed
    <3> QED
      BY <3>1, <3>2, <3>3
  <2>2. CASE ~setup.async
    <3>1. ~stage.full /\ stage' = stage
      BY <2>2 DEF FreezeCopy, Good, FreezeInv
    <3>2. blob' = [blob EXCEPT ![owned[k].off] = mem[owned[k].va]]
      BY <2>2 DEF FreezeCopy
    <3> QED
      BY <3>1, <3>2 DEF Flushed
  <2> QED
    BY <2>1, <2>2
<1>5. stage'.full => setup.async
  BY DEF FreezeCopy, Good, FreezeInv
<1>6. \A j \in ToCopy : j < k + 1 => Flushed'[owned[j].off] = want[owned[j].va]
  <2> SUFFICES ASSUME NEW j \in ToCopy, j < k + 1
               PROVE  Flushed'[owned[j].off] = want[owned[j].va]
    OBVIOUS
  <2>1. j \in Slots /\ j \in ToFreeze /\ j \in 1..n
    BY <1>1, CopyTakes
  <2>2. Flushed \in [Offsets -> Data] /\ owned[j].off \in Offsets
    BY <2>1, StageTypes DEF TypeOK, Entry
  <2>3. CASE j = k
    BY <1>1, <1>4, <2>2, <2>3, CopyTakes
  <2>4. CASE j # k
    <3>1. j < i
      BY <1>2, <2>1, <2>4, EngineAssumption DEF IsNext, Slots, TypeOK
    <3>2. k \in ToCopy
      <4>1. k \in 1..n /\ k \in ToFreeze
        BY <1>2 DEF IsNext, TypeOK, Slots
      <4> QED
        BY <1>1, <4>1, CopyTakes
    <3>3. j < k
      BY <2>1, <2>4, EngineAssumption DEF Slots
    <3>4. owned[j].off < owned[k].off
      BY <1>1, <3>2, <3>3 DEF Good, FreezeInv, Freezing
    <3>5. owned[j].off # owned[k].off
      BY <2>2, <3>4, EngineAssumption DEF Offsets
    <3>6. Flushed[owned[j].off] = want[owned[j].va]
      BY <1>1, <3>1 DEF Good, FreezeInv
    <3> QED
      BY <1>4, <2>2, <3>5, <3>6
  <2> QED
    BY <2>3, <2>4
<1>7. FreezeInv'
  <2>1. ToCopy' = ToCopy
    BY <1>1 DEF ToCopy, Live
  <2> QED
    BY <1>1, <1>2, <1>5, <1>6, <2>1 DEF Good, FreezeInv, Freezing, Frozen
<1>8. RemapInv'
  BY <1>1, <1>2 DEF RemapInv, Frozen
<1> QED
  BY <1>3, <1>7, <1>8 DEF Good

\* A segment of a live entry has memory, so only an excused failure of the
\* driver ends the loop early.
LEMMA GoodCopyFail ==
  ASSUME TypeOK, GateInv, Good, Excused = Events, ~overlap', NEW k \in Slots, FreezeCopyFail(k)
  PROVE  FALSE
<1>1. owned[k].va \notin mapped
  BY NoteNothing DEF FreezeCopyFail, Events
<1>2. pc = "copy" /\ k \in ToCopy
  <2>1. pc = "copy" /\ k \in i..cn /\ k \in ToFreeze
    BY DEF FreezeCopyFail, IsNext
  <2>2. cn = n /\ ToCopy = {m \in 1..n : m \in ToFreeze}
    BY <2>1, CopyTakes DEF Good, FreezeInv
  <2>3. k \in 1..n
    BY <2>1, <2>2, EngineAssumption DEF TypeOK, Slots
  <2> QED
    BY <2>1, <2>2, <2>3
<1>3. owned[k].va \in reserved /\ \A j \in Slots : ~Frozen(j)
  BY <1>2, CopyTakes DEF Good, FreezeInv
<1> QED
  BY <1>1, <1>3 DEF Good, OnDevice

\* The loop has passed every entry: the blob has them all.
LEMMA GoodCopyEnd ==
  ASSUME TypeOK, GateInv, Good, Excused = Events, ~overlap', FreezeCopyEnd
  PROVE  Good'
<1>1. UNCHANGED <<setup, n, tableVars, deviceVars, appVars, want>>
      /\ pc = "copy" /\ pc' = "release" /\ blob' = Flushed /\ ~stage'.full
  BY DEF FreezeCopyEnd, historyVars, NoStage
<1>2. cn = n /\ LoopOver(n, ToFreeze) /\ \A j \in Slots : ~Frozen(j)
  BY <1>1 DEF FreezeCopyEnd, Good, FreezeInv
<1> USE DEF tableVars, deviceVars, appVars
<1>3. Table' /\ InBlob' /\ OnDevice'
  BY <1>1, <1>2, Undisturbed DEF Good
<1>4. \A k \in ToCopy : k < i
  BY <1>1, <1>2, CopyTakes, EngineAssumption DEF LoopOver, TypeOK
<1>5. ToCopy' = ToCopy
  BY <1>1 DEF ToCopy, Live
<1>6. FreezeInv'
  BY <1>1, <1>2, <1>4, <1>5 DEF Good, FreezeInv, Freezing, Frozen
<1>7. RemapInv'
  BY <1>1, <1>2 DEF RemapInv, Frozen
<1> QED
  BY <1>3, <1>6, <1>7 DEF Good

\* The memory that goes is in the blob.
LEMMA GoodRelease ==
  ASSUME TypeOK, GateInv, Good, Excused = Events, ~overlap', NEW k \in Slots, FreezeRelease(k)
  PROVE  Good'
<1>1. UNCHANGED <<setup, n, owned_n, reserved, blob, stage, appVars, want>>
      /\ pc = "release" /\ pc' = "release"
  BY DEF FreezeRelease, historyVars, blobVars
<1>2. k \in ToCopy /\ Live(k) /\ ~Frozen(k)
  BY DEF FreezeRelease, IsNext, ToFreeze, Selected, ToCopy, TypeOK, Slots
<1>3. mapped' = mapped \ {owned[k].va}
      /\ mem' = [a \in VAs |-> IF a = owned[k].va THEN Blank ELSE mem[a]]
  BY DEF FreezeRelease
<1>4. \A j \in Slots : /\ owned'[j].va = owned[j].va /\ owned'[j].live = owned[j].live
                       /\ owned'[j].off = owned[j].off
                       /\ owned'[j].frozen <=> (Frozen(j) \/ j = k)
  BY DEF FreezeRelease, Frozen, TypeOK, Entry
<1>5. ~stage.full /\ \A t \in Threads : tpc[t] # "free"
  BY <1>1 DEF Good, FreezeInv, Freezing
<1>6. owned[k].va \in reserved /\ blob[owned[k].off] = want[owned[k].va]
  BY <1>1, <1>2, <1>5 DEF Good, Table, FreezeInv
<1>7. Table'
  <2>1. Table
    BY DEF Good
  <2> QED
    BY <1>1, <1>4, <1>5, <2>1 DEF Table, Live, appVars
<1>8. InBlob'
  <2>1. InBlob
    BY DEF Good
  <2> QED
    BY <1>1, <1>2, <1>4, <1>6, <2>1 DEF InBlob, FrozenIn, Live, Frozen
<1>9. OnDevice'
  <2>1. OnDevice /\ reserved \subseteq VAs
    BY DEF Good, TypeOK
  <2>2. \A va \in reserved : (\A j \in Slots : owned'[j].frozen => owned'[j].va # va)
          => va # owned[k].va /\ \A j \in Slots : Frozen(j) => owned[j].va # va
    BY <1>4
  <2> QED
    BY <1>1, <1>3, <2>1, <2>2 DEF OnDevice, Frozen
<1>10. FreezeInv'
  <2>1. ToCopy' = ToCopy /\ ToCopy \subseteq Slots
    BY <1>1, <1>4, EngineAssumption DEF ToCopy, Live, TypeOK, Slots
  <2> QED
    BY <1>1, <1>4, <1>5, <2>1 DEF Good, FreezeInv, Freezing, appVars
<1>11. RemapInv'
  BY <1>1, <1>3, <1>4 DEF Good, RemapInv, Remade, Frozen
<1> QED
  BY <1>7, <1>8, <1>9, <1>10, <1>11 DEF Good

-----------------------------------------------------------------------------
(* restore_remap()                                                         *)

\* The file is mapped again and reaches past every frozen segment.
LEMMA GoodMap ==
  ASSUME TypeOK, GateInv, Good, Excused = Events, ~overlap', RemapMap
  PROVE  Good'
<1>1. UNCHANGED <<setup, tableVars, deviceVars, appVars>> /\ pc = "map" /\ i' = 1
      /\ pc' = RemapPath /\ ~stage.full
  BY DEF RemapMap, Good, FreezeInv
<1>2. ~Note("fault", TRUE)
  BY NoteNothing DEF Events
<1>3. /\ want' = want
      /\ IF setup.symbols /\ blobMap = 0 /\ RemapNeed > 0
         THEN BlobMap(RemapNeed) ELSE UNCHANGED blobVars
  BY <1>2 DEF RemapMap, historyVars
<1> USE DEF tableVars, deviceVars, appVars
<1>4. \A k \in Slots : Frozen(k) => owned[k].off < RemapNeed /\ owned[k].off \in Offsets
  BY NeedCovers DEF GateInv, TypeOK, Entry
<1>5. RemapNeed \in 0..MaxOwned
  BY OffsetsBound
<1>6. /\ \A k \in Slots : Frozen(k) => blob'[owned[k].off] = blob[owned[k].off]
      /\ stage' = stage
      /\ setup.symbols => \A k \in Slots : Frozen(k) => blobMap' > 0
  <2>1. CASE setup.symbols /\ blobMap = 0 /\ RemapNeed > 0
    <3>1. blob' = Resized(RemapNeed) /\ blobMap' = RemapNeed /\ stage' = stage
      BY <1>3, <2>1 DEF BlobMap, BlobFits
    <3> QED
      BY <1>4, <2>1, <3>1 DEF Resized
  <2>2. CASE ~(setup.symbols /\ blobMap = 0 /\ RemapNeed > 0)
    <3>1. UNCHANGED <<blob, stage, blobMap>>
      BY <1>3, <2>2 DEF blobVars
    <3>2. ASSUME setup.symbols, NEW k \in Slots, Frozen(k) PROVE blobMap > 0
      <4>1. RemapNeed > 0
        BY <1>4, <1>5, <3>2, EngineAssumption DEF Offsets
      <4> QED
        BY <2>2, <3>2, <4>1 DEF TypeOK
    <3> QED
      BY <3>1, <3>2
  <2> QED
    BY <2>1, <2>2
<1>7. Table' /\ InBlob' /\ OnDevice'
  BY <1>1, <1>3, <1>6, Undisturbed DEF Good
<1>8. FreezeInv'
  BY <1>1, <1>6 DEF RemapPath, FreezeInv, Freezing
<1>9. RemapInv'
  <2>1. \A k \in Slots : ~Remade(k) /\ ~Remade(k)'
    BY <1>1, EngineAssumption DEF Remade, RemapPath, Slots
  <2>2. pc' = "create" => setup.symbols
    BY <1>1 DEF RemapPath
  <2> QED
    BY <1>1, <1>6, <2>1, <2>2 DEF Good, RemapInv, Frozen, RemapPath
<1> QED
  BY <1>7, <1>8, <1>9 DEF Good

\* Two frozen entries have different addresses.
LEMMA FrozenApart ==
  ASSUME Good, NEW j \in Slots, NEW k \in Slots, Frozen(j), Frozen(k), j # k
  PROVE  owned[j].va # owned[k].va
BY DEF Good, Table, InBlob

\* A frozen entry has its memory again: still blank, and nobody else's.
LEMMA GoodCreate ==
  ASSUME TypeOK, GateInv, Good, Excused = Events, ~overlap', NEW k \in Slots, RemapCreate(k)
  PROVE  Good'
<1>1. UNCHANGED <<setup, n, owned, owned_n, reserved, blob, stage, blobMap, tpc, freeing, want>>
      /\ pc = "create" /\ pc' = "create" /\ i' = k + 1 /\ Frozen(k) /\ ~stage.full
  BY DEF RemapCreate, tableVars, blobVars, appVars, historyVars, IsNext, ToRemap, Good, FreezeInv
<1>2. mapped' = mapped \cup {owned[k].va} /\ mem' = [mem EXCEPT ![owned[k].va] = Blank]
  BY DEF RemapCreate
<1>3. Table' /\ InBlob' /\ FreezeInv'
  BY <1>1 DEF Good, Table, InBlob, FrozenIn, FreezeInv, Freezing, Live, Frozen
<1>4. OnDevice'
  <2>1. OnDevice /\ reserved \subseteq VAs
    BY DEF Good, TypeOK
  <2> QED
    BY <1>1, <1>2, <2>1 DEF OnDevice, Frozen, TypeOK
<1>5. RemapInv'
  <2>1. \A j \in Slots : Frozen(j) /\ j # k => (j < i <=> j < k + 1)
    BY EngineAssumption DEF RemapCreate, IsNext, ToRemap, Slots, TypeOK
  <2>2. \A j \in Slots : Frozen(j) => (owned[j].va \in mapped' <=> j < k + 1)
    <3> SUFFICES ASSUME NEW j \in Slots, Frozen(j)
                 PROVE  owned[j].va \in mapped' <=> j < k + 1
      OBVIOUS
    <3>1. CASE j = k
      BY <1>2, <3>1, EngineAssumption DEF Slots
    <3>2. CASE j # k
      <4>1. owned[j].va # owned[k].va
        BY <1>1, <3>2, FrozenApart
      <4>2. owned[j].va \in mapped <=> j < i
        BY <1>1 DEF Good, RemapInv, Remade
      <4> QED
        BY <1>2, <2>1, <3>2, <4>1, <4>2
    <3> QED
      BY <3>1, <3>2
  <2>3. \A j \in Slots : Frozen(j) => blobMap > 0
    BY <1>1 DEF Good, RemapInv
  <2> QED
    BY <1>1, <2>2, <2>3 DEF RemapInv, Remade, Frozen
<1> QED
  BY <1>3, <1>4, <1>5 DEF Good

\* The address of a frozen entry is free to map, so only an excused failure of
\* the driver gives an entry up.
LEMMA GoodCreateFail ==
  ASSUME TypeOK, GateInv, Good, Excused = Events, ~overlap', NEW k \in Slots, RemapCreateFail(k)
  PROVE  FALSE
<1>1. ~CanMap(owned[k].va)
  BY NoteNothing DEF RemapCreateFail, Events
<1>2. pc = "create" /\ Frozen(k) /\ ~(k < i)
  BY EngineAssumption DEF RemapCreateFail, IsNext, ToRemap, TypeOK, Slots
<1>3. owned[k].va \in reserved /\ owned[k].va \notin mapped
  BY <1>2 DEF Good, InBlob, FrozenIn, RemapInv, Remade
<1> QED
  BY <1>1, <1>3 DEF CanMap

\* Every frozen entry has its memory.
LEMMA GoodCreateEnd ==
  ASSUME TypeOK, GateInv, Good, Excused = Events, ~overlap', RemapCreateEnd
  PROVE  Good'
<1>1. UNCHANGED <<setup, n, tableVars, deviceVars, blobVars, appVars, want>>
      /\ pc = "create" /\ pc' = "fill" /\ i' = 1
  BY DEF RemapCreateEnd, historyVars
<1> USE DEF tableVars, deviceVars, appVars, blobVars
<1>2. Table' /\ InBlob' /\ OnDevice'
  BY <1>1, Undisturbed DEF Good
<1>3. FreezeInv'
  BY <1>1 DEF Good, FreezeInv, Freezing
<1>4. \A k \in Slots : Frozen(k) => k < i /\ ~(k < 1)
  BY EngineAssumption DEF RemapCreateEnd, LoopOver, ToRemap, GateInv, TypeOK, Slots
<1>5. RemapInv'
  BY <1>1, <1>4 DEF Good, RemapInv, Remade, Frozen
<1> QED
  BY <1>2, <1>3, <1>5 DEF Good

\* A segment's data comes from its place in the blob.
LEMMA GoodFill ==
  ASSUME TypeOK, GateInv, Good, Excused = Events, ~overlap', NEW k \in Slots, RemapFill(k)
  PROVE  Good'
<1>1. UNCHANGED <<setup, n, owned, owned_n, reserved, mapped, blob, stage, blobMap, tpc,
                  freeing, want>>
      /\ pc = "fill" /\ pc' = "fill" /\ i' = k + 1 /\ Frozen(k) /\ ~stage.full
  BY DEF RemapFill, tableVars, blobVars, appVars, historyVars, IsNext, ToRemap, Good, FreezeInv
<1>2. mem' = [mem EXCEPT ![owned[k].va] = want[owned[k].va]]
  BY <1>1 DEF RemapFill, Good, InBlob, FrozenIn
<1>3. Table' /\ InBlob' /\ FreezeInv'
  BY <1>1 DEF Good, Table, InBlob, FrozenIn, FreezeInv, Freezing, Live, Frozen
<1>4. OnDevice'
  <2>1. OnDevice /\ reserved \subseteq VAs
    BY DEF Good, TypeOK
  <2> QED
    BY <1>1, <1>2, <2>1 DEF OnDevice, Frozen, TypeOK
<1>5. \A j \in Slots : Frozen(j) /\ j < k + 1 => mem'[owned[j].va] = want[owned[j].va]
  <2> SUFFICES ASSUME NEW j \in Slots, Frozen(j), j < k + 1
               PROVE  mem'[owned[j].va] = want[owned[j].va]
    OBVIOUS
  <2>1. owned[j].va \in VAs
    BY DEF Good, InBlob, Table
  <2>2. CASE j = k
    BY <1>2, <2>1, <2>2 DEF TypeOK
  <2>3. CASE j # k
    <3>1. j < i
      BY <2>3, EngineAssumption DEF RemapFill, IsNext, ToRemap, Slots, TypeOK
    <3>2. mem[owned[j].va] = want[owned[j].va] /\ owned[j].va # owned[k].va
      BY <1>1, <2>3, <3>1, FrozenApart DEF Good, RemapInv
    <3> QED
      BY <1>2, <2>1, <3>2 DEF TypeOK
  <2> QED
    BY <2>2, <2>3
<1>6. RemapInv'
  BY <1>1, <1>5 DEF Good, RemapInv, Remade, Frozen
<1> QED
  BY <1>3, <1>4, <1>6 DEF Good

\* A frozen entry has memory to fill, so only an excused failure of the driver
\* ends the fill early.
LEMMA GoodFillFail ==
  ASSUME TypeOK, GateInv, Good, Excused = Events, ~overlap', NEW k \in Slots, RemapFillFail(k)
  PROVE  FALSE
<1>1. owned[k].va \notin mapped
  BY NoteNothing DEF RemapFillFail, Events
<1>2. pc = "fill" /\ Frozen(k)
  BY DEF RemapFillFail, IsNext, ToRemap
<1> QED
  BY <1>1, <1>2 DEF Good, RemapInv, Remade

\* The entries that count as restored have their data.
LEMMA GoodDone ==
  ASSUME TypeOK, GateInv, Good, Excused = Events, ~overlap', RemapDone
  PROVE  Good'
<1>1. UNCHANGED <<setup, owned_n, deviceVars, blobVars, appVars, want>>
      /\ pc = "fill" /\ pc' = "open" /\ ~stage.full
  BY DEF RemapDone, historyVars, Good, FreezeInv
<1>2. \A k \in Slots : /\ owned'[k].va = owned[k].va /\ owned'[k].live = owned[k].live
                       /\ ~owned'[k].frozen
  BY DEF RemapDone, Restored, TypeOK, Entry, GateInv, Frozen
<1>3. \A k \in Slots : Frozen(k) =>
        owned[k].va \in mapped /\ mem[owned[k].va] = want[owned[k].va]
  <2> SUFFICES ASSUME NEW k \in Slots, Frozen(k)
               PROVE  owned[k].va \in mapped /\ mem[owned[k].va] = want[owned[k].va]
    OBVIOUS
  <2>1. blobMap # 0
    BY <1>1 DEF Good, RemapInv
  <2>2. k < i
    BY <1>1, <2>1, EngineAssumption DEF RemapDone, LoopOver, ToRemap, GateInv, TypeOK, Slots
  <2> QED
    BY <1>1, <2>2 DEF Good, RemapInv, Remade
<1> USE DEF deviceVars, blobVars, appVars
<1>4. Table'
  <2>1. Table
    BY DEF Good
  <2> QED
    BY <1>1, <1>2, <2>1 DEF Table, Live, Frozen, TypeOK
<1>5. InBlob' /\ RemapInv'
  BY <1>1, <1>2 DEF InBlob, RemapInv, Frozen
<1>6. OnDevice'
  <2>1. OnDevice
    BY DEF Good
  <2> QED
    BY <1>1, <1>3, <2>1 DEF OnDevice
<1>7. FreezeInv'
  BY <1>1 DEF FreezeInv, Freezing
<1> QED
  BY <1>4, <1>5, <1>6, <1>7 DEF Good

-----------------------------------------------------------------------------
(* The application                                                         *)

\* A new segment has an address no live entry has, and its entry comes last.
LEMMA GoodMalloc ==
  ASSUME TypeOK, GateInv, Good, Excused = Events, ~overlap', NEW t \in Threads, NEW va \in VAs,
         Malloc(t, va)
  PROVE  Good'
<1>1. UNCHANGED <<setup, pc, n, cn, i, blob, stage, blobMap, tpc, freeing>>
  BY DEF Malloc, watcherVars, blobVars, appVars
<1>2. (\A k \in 1..owned_n : ~(Live(k) /\ owned[k].va = va))
      /\ want' = [want EXCEPT ![va] = Blank]
  <2>1. Met("free", \E k \in 1..owned_n : Live(k) /\ owned[k].va = va) \in SUBSET Events
    BY DEF Met, Events
  <2>2. /\ Met("free", \E k \in 1..owned_n : Live(k) /\ owned[k].va = va) = {}
        /\ want' = [want EXCEPT ![va] = Blank]
    BY <2>1, RecordNothing DEF Malloc
  <2> QED
    BY <2>2 DEF Met
<1>3. \A k \in Slots : Live(k) => owned[k].va \in VAs /\ owned[k].va # va /\ k <= owned_n
  BY <1>2, EngineAssumption DEF Good, Table, Slots, TypeOK
<1>4. /\ reserved' = reserved \cup {va} /\ mapped' = mapped \cup {va}
      /\ mem' = [mem EXCEPT ![va] = Blank] /\ va \notin reserved
  BY DEF Malloc
<1>5. \/ owned' = owned /\ owned_n' = owned_n
      \/ /\ owned_n < MaxOwned /\ owned_n' = owned_n + 1 /\ owned_n + 1 \in Slots
         /\ owned' = [owned EXCEPT ![owned_n + 1] = FreshEntry(va)]
  BY EngineAssumption DEF Malloc, Track, tableVars, Slots, TypeOK
<1>6. \A k \in Slots :
        \/ owned'[k] = owned[k]
        \/ /\ k = owned_n + 1 /\ k = owned_n' /\ ~Live(k) /\ ~Frozen(k)
           /\ owned'[k].va = va /\ owned'[k].live /\ ~owned'[k].frozen
  BY <1>3, <1>5, EngineAssumption DEF FreshEntry, TypeOK, Slots, GateInv
<1>7. owned_n <= owned_n' /\ owned_n \in Nat /\ owned_n' \in Nat
  BY <1>5 DEF TypeOK
<1>8. Table'
  <2>1. \A k \in Slots : owned'[k].live =>
          /\ k <= owned_n' /\ owned'[k].va \in VAs
          /\ owned'[k].va \in reserved' \/ \E s \in Threads : tpc'[s] = "free" /\ freeing'[s] = k
    BY <1>1, <1>3, <1>4, <1>6, <1>7, EngineAssumption DEF Good, Table, Live, Slots
  <2>2. \A j, k \in Slots : owned'[j].live /\ owned'[k].live /\ owned'[j].va = owned'[k].va => j = k
    BY <1>3, <1>6 DEF Good, Table, Live
  <2>3. \A s \in Threads : tpc'[s] = "free" => freeing'[s] \in Slots /\ ~owned'[freeing'[s]].frozen
    BY <1>1, <1>6 DEF Good, Table, Frozen
  <2> QED
    BY <2>1, <2>2, <2>3 DEF Table, Live, Frozen
<1>9. \A k \in Slots : owned'[k].frozen => Frozen(k) /\ Live(k) /\ owned'[k] = owned[k]
  BY <1>6 DEF Good, InBlob, Frozen
<1>10. InBlob'
  BY <1>1, <1>2, <1>3, <1>4, <1>9 DEF Good, InBlob, FrozenIn, Live, Frozen, TypeOK
<1>11. OnDevice'
  <2>1. \A k \in Slots : Frozen(k) => owned'[k].frozen /\ owned'[k].va = owned[k].va
    BY <1>6 DEF Frozen
  <2> QED
    BY <1>2, <1>4, <2>1 DEF Good, OnDevice, Frozen, TypeOK
<1>12. FreezeInv'
  <2>1. ASSUME pc \in Freezing, NEW k \in ToCopy'
        PROVE  k \in ToCopy /\ owned'[k] = owned[k] /\ want'[owned[k].va] = want[owned[k].va]
    <3>1. k \in Slots /\ k \in 1..n /\ k <= owned_n
      BY <1>1, <2>1, EngineAssumption DEF ToCopy, Freezing, GateInv, TypeOK, Slots
    <3>2. owned'[k] = owned[k]
      BY <1>6, <1>7, <3>1
    <3>3. k \in ToCopy
      BY <1>1, <2>1, <3>2 DEF ToCopy, Live
    <3> QED
      BY <1>2, <1>3, <3>1, <3>2, <3>3 DEF ToCopy, TypeOK
  <2>2. Flushed' = Flushed
    BY <1>1 DEF Flushed
  <2>3. FreezeInv
    BY DEF Good
  <2> QED
    BY <1>1, <1>9, <2>1, <2>2, <2>3 DEF FreezeInv, Freezing, Frozen
<1>13. RemapInv'
  <2>1. RemapInv
    BY DEF Good
  <2> QED
    BY <1>1, <1>2, <1>3, <1>4, <1>9, <2>1 DEF RemapInv, Remade, Frozen, TypeOK
<1> QED
  BY <1>8, <1>10, <1>11, <1>12, <1>13 DEF Good

\* Outside a freeze or remap an entry with its data on the device is given up.
LEMMA GoodFreeBegin ==
  ASSUME TypeOK, GateInv, Good, Excused = Events, ~overlap', NEW t \in Threads, NEW k \in Slots,
         FreeBegin(t, k)
  PROVE  Good'
<1>1. UNCHANGED <<setup, pc, n, cn, i, owned, owned_n, blob, stage, blobMap>>
  BY DEF FreeBegin, watcherVars, blobVars, tableVars
<1>2. pc = "poll" /\ ~Frozen(k) /\ Live(k) /\ want' = [want EXCEPT ![owned[k].va] = Blank]
  <2>1. Met("free", pc # "poll" \/ Frozen(k)) \in SUBSET Events
    BY DEF Met, Events
  <2>2. /\ Met("free", pc # "poll" \/ Frozen(k)) = {}
        /\ want' = [want EXCEPT ![owned[k].va] = Blank]
    BY <2>1, RecordNothing DEF FreeBegin
  <2> QED
    BY <2>2 DEF Met, FreeBegin
<1>3. /\ mapped' = mapped \ {owned[k].va} /\ reserved' = reserved \ {owned[k].va}
      /\ mem' = [mem EXCEPT ![owned[k].va] = Blank]
      /\ tpc' = [tpc EXCEPT ![t] = "free"] /\ freeing' = [freeing EXCEPT ![t] = k]
      /\ tpc[t] = "run"
  BY DEF FreeBegin
<1>4. \A j \in Slots : Live(j) /\ j # k => owned[j].va # owned[k].va
  BY <1>2 DEF Good, Table
<1>5. /\ tpc'[t] = "free" /\ freeing'[t] = k
      /\ \A s \in Threads : s # t => tpc'[s] = tpc[s] /\ freeing'[s] = freeing[s]
  BY <1>3 DEF TypeOK
<1>6. Table'
  <2>1. ASSUME NEW j \in Slots, Live(j)
        PROVE  owned[j].va \in reserved' \/ \E s \in Threads : tpc'[s] = "free" /\ freeing'[s] = j
    <3>1. CASE j = k
      BY <1>5, <3>1
    <3>2. CASE j # k /\ owned[j].va \in reserved
      BY <1>3, <1>4, <2>1, <3>2
    <3>3. CASE \E s \in Threads : tpc[s] = "free" /\ freeing[s] = j
      BY <1>3, <1>5, <3>3
    <3> QED
      BY <2>1, <3>1, <3>2, <3>3 DEF Good, Table
  <2>2. \A s \in Threads : tpc'[s] = "free" => freeing'[s] \in Slots /\ ~Frozen(freeing'[s])
    BY <1>2, <1>5 DEF Good, Table
  <2> QED
    BY <1>1, <2>1, <2>2 DEF Good, Table, Live, Frozen
<1>7. InBlob'
  BY <1>1, <1>2, <1>3, <1>4 DEF Good, InBlob, FrozenIn, Live, Frozen, TypeOK
<1>8. OnDevice'
  BY <1>1, <1>2, <1>3 DEF Good, OnDevice, Frozen, TypeOK
<1>9. FreezeInv'
  BY <1>1, <1>2 DEF Good, FreezeInv, Freezing
<1>10. RemapInv'
  BY <1>1, <1>2, <1>3, <1>4 DEF Good, RemapInv, Remade, InBlob, Frozen
<1> QED
  BY <1>6, <1>7, <1>8, <1>9, <1>10 DEF Good

\* cudaFree returns: the entry is not live any more.
LEMMA GoodFreeEnd ==
  ASSUME TypeOK, GateInv, Good, Excused = Events, ~overlap', NEW t \in Threads, FreeEnd(t)
  PROVE  Good'
<1>1. UNCHANGED <<setup, pc, n, cn, i, owned_n, reserved, mapped, mem, blob, stage, blobMap, want>>
      /\ tpc[t] = "free"
  BY DEF FreeEnd, watcherVars, deviceVars, blobVars, historyVars
<1>2. freeing[t] \in Slots /\ ~Frozen(freeing[t]) /\ pc \notin Freezing /\ ~stage.full
  BY <1>1 DEF Good, Table, FreezeInv, Freezing
<1>3. \A k \in Slots : /\ owned'[k].va = owned[k].va /\ owned'[k].frozen = owned[k].frozen
                       /\ owned'[k].off = owned[k].off
                       /\ owned'[k].live <=> Live(k) /\ k # freeing[t]
  BY <1>2 DEF FreeEnd, Live, TypeOK, Entry
<1>4. tpc'[t] = "run" /\ \A s \in Threads : s # t => tpc'[s] = tpc[s] /\ freeing'[s] = freeing[s]
  BY DEF FreeEnd, TypeOK
<1>5. Table'
  <2>1. Table
    BY DEF Good
  <2>2. ASSUME NEW k \in Slots, owned'[k].live
        PROVE  /\ k <= owned_n /\ owned[k].va \in VAs
               /\ owned[k].va \in reserved \/ \E s \in Threads : tpc'[s] = "free" /\ freeing'[s] = k
    BY <1>3, <1>4, <2>1, <2>2 DEF Table
  <2>3. \A j, k \in Slots : owned'[j].live /\ owned'[k].live /\ owned'[j].va = owned'[k].va => j = k
    BY <1>3, <2>1 DEF Table
  <2>4. \A s \in Threads : tpc'[s] = "free" => freeing'[s] \in Slots /\ ~owned'[freeing'[s]].frozen
    BY <1>3, <1>4, <2>1 DEF Table, Frozen
  <2> QED
    BY <1>1, <1>3, <2>2, <2>3, <2>4 DEF Table, Live, Frozen
<1>6. InBlob' /\ OnDevice'
  BY <1>1, <1>2, <1>3 DEF Good, InBlob, OnDevice, FrozenIn, Live, Frozen
<1>7. FreezeInv'
  BY <1>1, <1>2 DEF FreezeInv, Freezing
<1>8. RemapInv'
  BY <1>1, <1>3 DEF Good, RemapInv, Remade, Frozen
<1> QED
  BY <1>5, <1>6, <1>7, <1>8 DEF Good

\* A kernel that runs outside the loops touches no frozen entry.
LEMMA GoodLaunch ==
  ASSUME TypeOK, GateInv, Good, Excused = Events, ~overlap', NEW t \in Threads, NEW va \in VAs,
         NEW v \in Vals, Launch(t, va, v)
  PROVE  Good'
<1>1. UNCHANGED <<setup, pc, n, cn, i, owned, owned_n, reserved, mapped, blob, stage, blobMap,
                  freeing>>
  BY DEF Launch, watcherVars, blobVars, tableVars
<1>2. pc \notin {"copy", "release", "create", "fill"} /\ want' = [want EXCEPT ![va] = v]
  <2>1. Met("launch", pc \in {"copy", "release", "create", "fill"}) \in SUBSET Events
    BY DEF Met, Events
  <2>2. /\ Met("launch", pc \in {"copy", "release", "create", "fill"}) = {}
        /\ want' = [want EXCEPT ![va] = v]
    BY <2>1, RecordNothing DEF Launch
  <2> QED
    BY <2>2 DEF Met
<1>3. va \in mapped /\ mem' = [mem EXCEPT ![va] = v]
      /\ tpc[t] = "launch" /\ tpc' = [tpc EXCEPT ![t] = "run"]
  BY DEF Launch
<1>4. \A s \in Threads : tpc'[s] = "free" <=> tpc[s] = "free"
  BY <1>3 DEF TypeOK
<1>5. \A k \in Slots : Frozen(k) => owned[k].va # va
  BY <1>2, <1>3 DEF Good, RemapInv, Remade
<1>6. Table'
  BY <1>1, <1>4 DEF Good, Table, Live, Frozen
<1>7. InBlob'
  BY <1>1, <1>2, <1>5 DEF Good, InBlob, FrozenIn, Live, Frozen, TypeOK
<1>8. OnDevice'
  BY <1>1, <1>2, <1>3 DEF Good, OnDevice, Frozen, TypeOK
<1>9. FreezeInv'
  BY <1>1, <1>2, <1>4 DEF Good, FreezeInv, Freezing, ToCopy, Live, Frozen
<1>10. RemapInv'
  BY <1>1, <1>2 DEF Good, RemapInv, Remade, Frozen
<1> QED
  BY <1>6, <1>7, <1>8, <1>9, <1>10 DEF Good

-----------------------------------------------------------------------------
(* The invariant                                                           *)

\* What has met a freeze or remap is never forgotten.
LEMMA OverlapStays == [Next]_vars /\ ~overlap' => ~overlap
<1> SUFFICES ASSUME [Next]_vars, overlap PROVE overlap'
  OBVIOUS
<1>1. \A kinds, w : Record(kinds, w) => overlap'
  BY DEF Record
<1>2. \A kind, cond : Note(kind, cond) => overlap'
  BY <1>1 DEF Note
<1>3. ASSUME Watcher PROVE overlap'
  <2>1. ASSUME FreezeScan PROVE overlap'
    BY <1>1, <1>2, <2>1 DEF FreezeScan, historyVars
  <2>2. ASSUME RemapMap PROVE overlap'
    BY <1>2, <2>2 DEF RemapMap, historyVars
  <2>3. ASSUME NEW k \in Slots, FreezeCopyFail(k) \/ RemapCreateFail(k) \/ RemapFillFail(k)
        PROVE  overlap'
    BY <1>2, <2>3 DEF FreezeCopyFail, RemapCreateFail, RemapFillFail
  <2>4. ASSUME FreezeCopyStart PROVE overlap'
    BY <1>2, <2>4 DEF FreezeCopyStart
  <2> QED
    BY <1>3, <2>1, <2>2, <2>3, <2>4 DEF Watcher, historyVars, FreezeBegin, FreezeCopyEnd,
       FreezeEnd, RestoreBegin, RemapCreateEnd, RemapDone, RemapOpen, Ack, FreezeCopy,
       FreezeRelease, RemapCreate, RemapFill
<1>4. ASSUME NEW t \in Threads, App(t) PROVE overlap'
  BY <1>1, <1>4 DEF App, historyVars, GateFast, GateSlow, LaunchOther, FreeEnd, FreeBegin, Malloc,
     LaunchFault, Launch
<1>5. ASSUME NEW s \in {"ckpt", "restore"}, Request(s) PROVE overlap'
  BY <1>5 DEF Request, historyVars
<1> QED
  BY <1>3, <1>4, <1>5 DEF Next, vars, historyVars

\* Nothing is owned when the library is loaded.
LEMMA GoodInit == Init => Good
<1> SUFFICES ASSUME Init PROVE Good
  OBVIOUS
<1> USE DEF Init, Live, Frozen
<1>1. Table /\ InBlob /\ OnDevice
  BY DEF Table, InBlob, OnDevice, NoEntry
<1>2. FreezeInv
  BY DEF FreezeInv, Freezing, NoStage
<1>3. RemapInv
  BY DEF RemapInv, NoEntry
<1> QED
  BY <1>1, <1>2, <1>3 DEF Good

\* The steps of the watcher outside its loops.
LEMMA GoodCalm ==
  ASSUME TypeOK, GateInv, Good, Excused = Events, ~overlap',
         FreezeBegin \/ FreezeEnd \/ RestoreBegin \/ RemapOpen \/ Ack
  PROVE  Good'
<1>1. \A on : GateSet(on) => \A t \in Threads : tpc'[t] = "free" <=> tpc[t] = "free"
  BY DEF GateSet, TypeOK
<1>2. CASE FreezeBegin
  <2>1. \A t \in Threads : tpc'[t] = "free" <=> tpc[t] = "free"
    BY <1>1, <1>2 DEF FreezeBegin
  <2> QED
    BY <1>2, <2>1, Calm DEF FreezeBegin, blobVars, historyVars, WatcherStates
<1>3. CASE FreezeEnd
  BY <1>3, Calm DEF FreezeEnd, appVars, historyVars, WatcherStates
<1>4. CASE RestoreBegin
  <2>1. \A t \in Threads : tpc'[t] = "free" <=> tpc[t] = "free"
    BY <1>1, <1>4 DEF RestoreBegin
  <2> QED
    BY <1>4, <2>1, Calm DEF RestoreBegin, blobVars, historyVars, WatcherStates
<1>5. CASE RemapOpen
  <2>1. \A t \in Threads : tpc'[t] = "free" <=> tpc[t] = "free"
    BY <1>1, <1>5 DEF RemapOpen
  <2> QED
    BY <1>5, <2>1, Calm DEF RemapOpen, blobVars, historyVars, WatcherStates
<1>6. CASE Ack
  BY <1>6, Calm DEF Ack, blobVars, appVars, historyVars, WatcherStates
<1> QED
  BY <1>2, <1>3, <1>4, <1>5, <1>6

\* The steps of threads and agent that touch neither table nor memory.
LEMMA GoodAside ==
  ASSUME TypeOK, Good,
         \/ \E t \in Threads : GateFast(t) \/ GateSlow(t) \/ LaunchOther(t)
         \/ \E t \in Threads, va \in VAs : LaunchFault(t, va)
         \/ \E s \in {"ckpt", "restore"} : Request(s)
         \/ UNCHANGED vars
  PROVE  Good'
<1>1. ASSUME NEW t \in Threads, GateFast(t) \/ GateSlow(t) \/ LaunchOther(t) PROVE Good'
  <2>1. \A s \in Threads : tpc'[s] = "free" <=> tpc[s] = "free"
    BY <1>1 DEF GateFast, GateSlow, LaunchOther, TypeOK
  <2> QED
    BY <1>1, <2>1, Aside DEF GateFast, GateSlow, LaunchOther, historyVars
<1>2. ASSUME NEW t \in Threads, NEW va \in VAs, LaunchFault(t, va) PROVE Good'
  <2>1. \A s \in Threads : tpc'[s] = "free" <=> tpc[s] = "free"
    BY <1>2 DEF LaunchFault, TypeOK
  <2> QED
    BY <1>2, <2>1, Aside DEF LaunchFault, historyVars
<1>3. ASSUME NEW s \in {"ckpt", "restore"}, Request(s) PROVE Good'
  BY <1>3, Aside DEF Request, appVars, historyVars
<1>4. ASSUME UNCHANGED vars PROVE Good'
  BY <1>4, Aside DEF vars, appVars, historyVars
<1> QED
  BY <1>1, <1>2, <1>3, <1>4

\* Every step keeps the data, unless it is one at which an excused event meets
\* a freeze or remap.
LEMMA GoodStep ==
  ASSUME TypeOK, GateInv, Good, Excused = Events, [Next]_vars, ~overlap'
  PROVE  Good'
<1>1. ASSUME Watcher PROVE Good'
  BY <1>1, GoodCalm, GoodScan, GoodCopyStart, GoodCopy, GoodCopyFail, GoodCopyEnd, GoodRelease,
     GoodMap, GoodCreate, GoodCreateFail, GoodCreateEnd, GoodFill, GoodFillFail, GoodDone
     DEF Watcher
<1>2. ASSUME NEW t \in Threads, App(t) PROVE Good'
  BY <1>2, GoodAside, GoodMalloc, GoodFreeBegin, GoodFreeEnd, GoodLaunch DEF App
<1> QED
  BY <1>1, <1>2, GoodAside DEF Next

\* The same for runs in which the event may have happened.
LEMMA DataStep ==
  ASSUME TypeOK, GateInv, DataInv, Excused = Events, [Next]_vars
  PROVE  DataInv'
BY OverlapStays, GoodStep DEF DataInv

-----------------------------------------------------------------------------
(* Integrity                                                               *)

\* The invariant says of every address where its data is.
LEMMA GoodIntact == TypeOK /\ GateInv /\ Good => Intact
<1> SUFFICES ASSUME TypeOK, GateInv, Good, NEW va \in reserved
             PROVE  \/ \E k \in 1..owned_n : /\ Live(k) /\ Frozen(k) /\ owned[k].va = va
                                             /\ blob[owned[k].off] = want[va]
                    \/ /\ \A k \in 1..owned_n : owned[k].va = va => ~(Live(k) /\ Frozen(k))
                       /\ va \in mapped /\ mem[va] = want[va]
  BY DEF Intact
<1>1. 1..owned_n \subseteq Slots
  BY EngineAssumption DEF TypeOK, Slots
<1>2. CASE \E k \in Slots : Frozen(k) /\ owned[k].va = va
  <2>1. PICK k \in Slots : Frozen(k) /\ owned[k].va = va
    BY <1>2
  <2>2. k \in 1..owned_n /\ Live(k) /\ blob[owned[k].off] = want[va]
    BY <2>1, EngineAssumption DEF Good, InBlob, FrozenIn, GateInv, Slots, TypeOK
  <2> QED
    BY <2>1, <2>2
<1>3. CASE \A k \in Slots : Frozen(k) => owned[k].va # va
  BY <1>1, <1>3 DEF Good, OnDevice
<1> QED
  BY <1>2, <1>3

\* Whatever is requested when, no checkpoint and no restore loses data of the
\* application unless a driver call has failed in it or the application has
\* launched, allocated or freed in its middle, or frozen data was frozen again
\* (checkpoint_freeze() against restore_remap()).
THEOREM IntegritySafe ==
  ASSUME Excused = Events
  PROVE  Spec => []Integrity
<1>1. Init => DataInv
  BY GoodInit DEF DataInv
<1>2. TypeOK /\ GateInv /\ DataInv /\ [Next]_vars => DataInv'
  BY DataStep
<1>3. TypeOK /\ GateInv /\ DataInv => Integrity
  BY GoodIntact DEF DataInv, Integrity
<1> QED
  BY <1>1, <1>2, <1>3, TypeInit, TypeStep, GateInit, GateStep, PTL DEF Spec

-----------------------------------------------------------------------------
(* The engine implements memory that knows of no checkpoints               *)

\* Blob and device together hold what the application wrote.
LEMMA DataWanted == TypeOK /\ GateInv /\ Good => LogicalData = [va \in reserved |-> want[va]]
<1> SUFFICES ASSUME TypeOK, GateInv, Good PROVE LogicalData = [va \in reserved |-> want[va]]
  OBVIOUS
<1> DEFINE F(va) == {k \in 1..owned_n : Live(k) /\ Frozen(k) /\ owned[k].va = va}
           At(va) == IF F(va) = {} THEN mem[va] ELSE blob[owned[CHOOSE k \in F(va) : TRUE].off]
<1>1. ASSUME NEW va \in reserved PROVE At(va) = want[va]
  <2>1. CASE F(va) = {}
    <3>1. \A k \in Slots : Frozen(k) => k \in 1..owned_n /\ Live(k)
      BY EngineAssumption DEF Good, InBlob, GateInv, Slots, TypeOK
    <3>2. \A k \in Slots : Frozen(k) => owned[k].va # va
      BY <2>1, <3>1
    <3> QED
      BY <2>1, <3>2 DEF Good, OnDevice
  <2>2. CASE F(va) # {}
    <3>1. PICK k : k = CHOOSE j \in F(va) : TRUE
      OBVIOUS
    <3>2. k \in F(va)
      BY <2>2, <3>1
    <3>3. k \in Slots
      BY <3>2, EngineAssumption DEF TypeOK, Slots
    <3>4. blob[owned[k].off] = want[va]
      BY <3>2, <3>3 DEF Good, InBlob, FrozenIn
    <3> QED
      BY <2>2, <3>1, <3>4
  <2> QED
    BY <2>1, <2>2
<1>2. LogicalData = [va \in reserved |-> At(va)]
  BY DEF LogicalData
<1> HIDE DEF At
<1> QED
  BY <1>1, <1>2

\* The threads that have passed the gate and not finished their launch.
Inside == {t \in Threads : tpc[t] = "launch"}

\* The engine's variables as the application's memory has them, before and after
\* a step.
Seen ==
  /\ LogicalData = [va \in reserved |-> want[va]]
  /\ LogicalData' = [va \in reserved' |-> want'[va]]

\* Raising and lowering the gate is all that is seen of the watcher.
LEMMA WatcherSeen ==
  ASSUME TypeOK, TypeOK', ~overlap, ~overlap', Seen, Watcher
  PROVE  Memory!Gate \/ UNCHANGED Memory!vars
<1>1. UNCHANGED <<reserved, want>>
  <2>1. \A kinds : Record(kinds, want) => want' = want
    BY DEF Record
  <2>2. \A kind, cond : Note(kind, cond) => want' = want
    BY <2>1 DEF Note
  <2>3. ASSUME FreezeScan PROVE UNCHANGED <<reserved, want>>
    BY <2>1, <2>2, <2>3 DEF FreezeScan, historyVars, deviceVars
  <2>4. ASSUME RemapMap PROVE UNCHANGED <<reserved, want>>
    BY <2>2, <2>4 DEF RemapMap, historyVars, deviceVars
  <2>5. ASSUME NEW k \in Slots, FreezeCopyFail(k) \/ RemapCreateFail(k) \/ RemapFillFail(k)
        PROVE  UNCHANGED <<reserved, want>>
    BY <2>2, <2>5 DEF FreezeCopyFail, RemapCreateFail, RemapFillFail, deviceVars
  <2>6. ASSUME FreezeCopyStart PROVE UNCHANGED <<reserved, want>>
    BY <2>2, <2>6 DEF FreezeCopyStart, deviceVars
  <2> QED
    BY <2>3, <2>4, <2>5, <2>6 DEF Watcher, historyVars, deviceVars, FreezeBegin, FreezeCopyEnd,
       FreezeEnd, RestoreBegin, RemapCreateEnd, RemapDone, RemapOpen, Ack, FreezeCopy,
       FreezeRelease, RemapCreate, RemapFill
<1>2. LogicalData' = LogicalData
  BY <1>1 DEF Seen
<1>3. Inside' = Inside /\ (gate' = ~gate \/ gate' = gate)
  <2>1. \A on \in BOOLEAN : GateSet(on) => Inside' = Inside /\ (gate' = ~gate \/ gate' = gate)
    BY DEF GateSet, Inside, TypeOK
  <2>2. FreezeBegin \/ RestoreBegin \/ RemapOpen \/ UNCHANGED <<gate, tpc>>
    BY DEF Watcher, FreezeScan, FreezeCopyStart, FreezeCopyEnd, FreezeEnd, RemapMap,
       RemapCreateEnd, RemapDone, Ack, FreezeCopy, FreezeCopyFail, FreezeRelease,
       RemapCreate, RemapCreateFail, RemapFill, RemapFillFail, appVars
  <2>3. CASE UNCHANGED <<gate, tpc>>
    BY <2>3 DEF Inside
  <2> QED
    BY <2>1, <2>2, <2>3 DEF FreezeBegin, RestoreBegin, RemapOpen, Inside
<1>4. overlap' = overlap
  <2>1. overlap \in BOOLEAN /\ overlap' \in BOOLEAN
    BY DEF TypeOK
  <2> QED
    BY <2>1
<1> QED
  BY <1>2, <1>3, <1>4 DEF Memory!Gate, Memory!vars, Inside

\* The application sees its own calls, and a launch passes an open gate only.
LEMMA AppSeen ==
  ASSUME TypeOK, TypeOK', ~overlap, ~overlap', Seen,
         NEW t \in Threads, App(t)
  PROVE  Memory!Promised \/ UNCHANGED Memory!vars
<1>1. ASSUME UNCHANGED <<reserved, want>> PROVE LogicalData' = LogicalData
  BY <1>1 DEF Seen
<1>2. overlap' = overlap
  <2>1. overlap \in BOOLEAN /\ overlap' \in BOOLEAN
    BY DEF TypeOK
  <2> QED
    BY <2>1
<1>3. ASSUME GateFast(t) \/ GateSlow(t) PROVE Memory!Promised \/ UNCHANGED Memory!vars
  <2>1. LogicalData' = LogicalData /\ gate' = gate
    BY <1>1, <1>3 DEF GateFast, GateSlow, deviceVars, historyVars
  <2>2. CASE gate
    <3>1. Inside' = Inside
      BY <1>3, <2>2 DEF GateFast, GateSlow, Inside, TypeOK
    <3> QED
      BY <1>2, <2>1, <3>1 DEF Memory!vars, Inside
  <2>3. CASE ~gate
    <3>1. t \notin Inside /\ Inside' = Inside \cup {t}
      BY <1>3, <2>3 DEF GateFast, GateSlow, Inside, TypeOK
    <3>2. Memory!Pass(t)
      BY <2>1, <2>3, <3>1 DEF Memory!Pass, Inside
    <3> QED
      BY <3>2 DEF Memory!Promised
  <2> QED
    BY <2>2, <2>3
<1>4. ASSUME \/ LaunchOther(t) \/ \E va \in VAs : LaunchFault(t, va)
      PROVE  Memory!Promised
  <2>1. LogicalData' = LogicalData /\ gate' = gate
    BY <1>1, <1>4 DEF LaunchOther, LaunchFault, deviceVars, historyVars
  <2>2. t \in Inside /\ Inside' = Inside \ {t}
    BY <1>4 DEF LaunchOther, LaunchFault, Inside, TypeOK
  <2>3. Memory!Leave(t)
    BY <2>1, <2>2 DEF Memory!Leave, Inside
  <2> QED
    BY <2>3 DEF Memory!Promised
<1>5. ASSUME FreeEnd(t) PROVE UNCHANGED Memory!vars
  <2>1. LogicalData' = LogicalData /\ gate' = gate
    BY <1>1, <1>5 DEF FreeEnd, deviceVars, historyVars
  <2>2. Inside' = Inside
    BY <1>5 DEF FreeEnd, Inside, TypeOK
  <2> QED
    BY <1>2, <2>1, <2>2 DEF Memory!vars, Inside
<1>6. ASSUME NEW k \in Slots, FreeBegin(t, k) PROVE Memory!Promised
  <2>1. PICK a \in reserved : a = owned[k].va
    BY <1>6 DEF FreeBegin
  <2>2. reserved' = reserved \ {a} /\ gate' = gate /\ want' = [want EXCEPT ![a] = Blank]
    BY <1>6, <2>1, RecordLast DEF FreeBegin
  <2>3. Inside' = Inside
    BY <1>6 DEF FreeBegin, Inside, TypeOK
  <2>4. a \in DOMAIN LogicalData /\ LogicalData' = [b \in DOMAIN LogicalData \ {a} |-> LogicalData[b]]
    BY <2>1, <2>2 DEF Seen, TypeOK
  <2>5. Memory!Free(a) /\ a \in VAs
    BY <2>2, <2>3, <2>4 DEF Memory!Free, Inside, TypeOK
  <2> QED
    BY <2>5 DEF Memory!Promised
<1>7. ASSUME NEW va \in VAs, Malloc(t, va) PROVE Memory!Promised
  <2>1. /\ reserved' = reserved \cup {va} /\ va \notin reserved /\ gate' = gate
        /\ want' = [want EXCEPT ![va] = Blank]
    BY <1>7, RecordLast DEF Malloc
  <2>2. Inside' = Inside
    BY <1>7 DEF Malloc, Inside, appVars
  <2>3. /\ va \notin DOMAIN LogicalData
        /\ LogicalData' = [b \in DOMAIN LogicalData \cup {va} |->
                             IF b = va THEN Blank ELSE LogicalData[b]]
    BY <2>1 DEF Seen, TypeOK
  <2>4. Memory!Alloc(va)
    BY <2>1, <2>2, <2>3 DEF Memory!Alloc, Inside
  <2> QED
    BY <2>4 DEF Memory!Promised
<1>8. ASSUME NEW va \in VAs, NEW v \in Vals, Launch(t, va, v) PROVE Memory!Promised
  <2>1. va \in reserved /\ reserved' = reserved /\ gate' = gate /\ want' = [want EXCEPT ![va] = v]
    BY <1>8, RecordLast DEF Launch
  <2>2. t \in Inside /\ Inside' = Inside \ {t}
    BY <1>8 DEF Launch, Inside, TypeOK
  <2>3. va \in DOMAIN LogicalData /\ LogicalData' = [LogicalData EXCEPT ![va] = v]
    BY <2>1 DEF Seen, TypeOK
  <2>4. Memory!Write(t, va, v)
    BY <2>1, <2>2, <2>3 DEF Memory!Write, Inside
  <2> QED
    BY <2>4 DEF Memory!Promised
<1> QED
  BY <1>3, <1>4, <1>5, <1>6, <1>7, <1>8 DEF App

\* Every step of the engine is one of the promised memory, or none.
LEMMA SeenStep ==
  ASSUME TypeOK, [Next]_vars,
         ~overlap => LogicalData = [va \in reserved |-> want[va]],
         ~overlap' => LogicalData' = [va \in reserved' |-> want'[va]]
  PROVE  [Memory!Next]_(Memory!vars)
<1>1. CASE overlap'
  BY <1>1 DEF Memory!Next
<1>2. CASE ~overlap'
  <2>1. ~overlap /\ Seen /\ TypeOK'
    BY <1>2, OverlapStays, TypeStep DEF Seen
  <2>2. ASSUME Watcher PROVE Memory!Promised \/ UNCHANGED Memory!vars
    BY <1>2, <2>1, <2>2, WatcherSeen DEF Memory!Promised
  <2>3. ASSUME NEW t \in Threads, App(t) PROVE Memory!Promised \/ UNCHANGED Memory!vars
    BY <1>2, <2>1, <2>3, AppSeen
  <2>4. ASSUME \/ \E s \in {"ckpt", "restore"} : Request(s)
               \/ UNCHANGED vars
        PROVE  UNCHANGED Memory!vars
    <3>1. UNCHANGED <<reserved, want, gate, tpc, overlap>>
      BY <2>4 DEF Request, vars, deviceVars, appVars, historyVars
    <3>2. LogicalData' = LogicalData
      BY <2>1, <3>1 DEF Seen
    <3> QED
      BY <3>1, <3>2 DEF Memory!vars
  <2> QED
    BY <1>2, <2>1, <2>2, <2>3, <2>4 DEF Next, Memory!Next
<1> QED
  BY <1>1, <1>2

\* The application cannot tell an engine that freezes and remaps its memory from
\* memory that knows of no checkpoints, but for launches that wait at the gate:
\* as long as no excused event has met a freeze or remap (checkpoint_freeze(),
\* restore_remap(), gcr_gate_wait()).
THEOREM TransparentSafe ==
  ASSUME Excused = Events
  PROVE  Spec => Transparent
<1>1. Init => DataInv /\ Memory!Init
  <2> SUFFICES ASSUME Init PROVE DataInv /\ Memory!Init
    OBVIOUS
  <2>1. LogicalData = [a \in {} |-> Blank]
    BY DEF Init, LogicalData
  <2>2. {t \in Threads : tpc[t] = "launch"} = {}
    BY DEF Init
  <2> QED
    BY <2>1, <2>2, GoodInit DEF Init, DataInv, Memory!Init
<1>2. TypeOK /\ GateInv /\ DataInv /\ [Next]_vars => DataInv'
  BY DataStep
<1>3. TypeOK /\ GateInv /\ DataInv => (~overlap => LogicalData = [va \in reserved |-> want[va]])
  BY DataWanted DEF DataInv
<1>4. /\ TypeOK /\ [Next]_vars
      /\ (~overlap => LogicalData = [va \in reserved |-> want[va]])
      /\ (~overlap => LogicalData = [va \in reserved |-> want[va]])'
      => [Memory!Next]_(Memory!vars)
  BY SeenStep
<1> QED
  BY <1>1, <1>2, <1>3, <1>4, TypeInit, TypeStep, GateInit, GateStep,
     PTL DEF Spec, Transparent, Memory!Spec

==============================================================================
