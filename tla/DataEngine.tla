----------------------------- MODULE DataEngine -----------------------------
(***************************************************************************)
(* The in-Pod Selective Interception data engine (interceptor/preload.c).  *)
(*                                                                         *)
(* One watcher thread polls the control channel and runs                   *)
(* checkpoint_freeze() and restore_remap(); the application's threads call *)
(* cudaMalloc, cudaFree and the kernel-launch entry points at any moment.  *)
(* The watcher takes no lock while it walks g_owned[], so every loop       *)
(* iteration is a step of its own.                                         *)
(*                                                                         *)
(* Abstractions.  All segments have the same size: an offset in the blob   *)
(* counts segments.  A segment's contents is one value.  A kernel runs to  *)
(* its end when it is launched.  Requests may be written to the control    *)
(* channel at any time: the safety results hold for every agent.           *)
(***************************************************************************)
EXTENDS Naturals, FiniteSets

CONSTANTS
  Threads,   \* threads of the application
  VAs,       \* device virtual addresses the driver can reserve
  NoVA,      \* the address in a table entry that was never used
  Vals,      \* contents the application writes
  Blank,     \* contents of memory nobody has written since it was created
  MaxOwned,  \* entries of g_owned[] (GCR_MAX_VMM)
  Setups,    \* what the process may find at its start: a subset of Setup
  Faults,    \* the calls that may fail: subset of FaultKinds
  Excused    \* what may meet a freeze or remap and cost data: subset of Events

FaultKinds == {"d2h", "h2d", "create", "blob"}
Events == {"launch", "malloc", "free", "refreeze", "fault"}

\* async: pinned staging and streams are there, so pipe_copy() runs;
\* symbols: the CUDA entry points freeze and remap need were resolved.
Setup == [async : BOOLEAN, symbols : BOOLEAN]

ASSUME EngineAssumption ==
  /\ MaxOwned \in Nat \ {0}
  /\ Blank \notin Vals /\ NoVA \notin VAs
  /\ Setups \subseteq Setup
  /\ Faults \subseteq FaultKinds /\ Excused \subseteq Events

Slots == 1..MaxOwned
Offsets == 0..(MaxOwned - 1)
Data == Vals \cup {Blank}

VARIABLES
  setup,     \* what the process found at its start
  sig,       \* the control channel's word
  pc,        \* where the watcher thread is
  gate,      \* g_gate: kernel launches are held
  n,         \* loop bound n of checkpoint_freeze / restore_remap
  cn,        \* loop bound n of pipe_copy
  i,         \* next index of the watcher's current loop
  owned,     \* g_owned[]
  owned_n,   \* g_owned_n
  reserved,  \* addresses handed out to the application
  mapped,    \* addresses backed by physical memory
  mem,       \* contents of device memory
  blob,      \* contents of the file data.blob, by offset
  stage,     \* pipe_copy()'s chunk on its way from the device to the blob
  blobMap,   \* g_blob_size; 0 when the file is not mapped
  tpc,       \* where each application thread is
  freeing,   \* the entry a thread in cudaFree has found; 0 when none
  want,      \* history: what the application last wrote at an address, as
             \* long as overlap is FALSE
  overlap    \* history: an excused event has met a freeze or remap

watcherVars == <<pc, n, cn, i>>
tableVars == <<owned, owned_n>>
deviceVars == <<reserved, mapped, mem>>
blobVars == <<blob, blobMap, stage>>
appVars == <<tpc, freeing>>
historyVars == <<want, overlap>>
vars == <<setup, sig, watcherVars, gate, tableVars, deviceVars, blobVars, appVars,
          historyVars>>

Entry == [va : VAs \cup {NoVA}, live : BOOLEAN, frozen : BOOLEAN, off : Offsets]
NoEntry == [va |-> NoVA, live |-> FALSE, frozen |-> FALSE, off |-> 0]
FreshEntry(va) == [va |-> va, live |-> TRUE, frozen |-> FALSE, off |-> 0]
NoStage == [off |-> 0, val |-> Blank, full |-> FALSE]
WatcherStates == {"poll", "scan", "start", "copy", "release", "map",
                  "create", "fill", "open", "ack"}
ThreadStates == {"run", "slow", "wait", "launch", "free", "dead"}

TypeOK ==
  /\ setup \in Setup
  /\ sig \in {"idle", "ckpt", "restore", "gating"}
  /\ pc \in WatcherStates
  /\ gate \in BOOLEAN
  /\ n \in 0..MaxOwned /\ cn \in 0..MaxOwned /\ i \in 1..(MaxOwned + 1)
  /\ owned \in [Slots -> Entry]
  /\ owned_n \in 0..MaxOwned
  /\ reserved \subseteq VAs /\ mapped \subseteq VAs
  /\ mem \in [VAs -> Data]
  /\ blob \in [Offsets -> Data] /\ blobMap \in 0..MaxOwned
  /\ stage \in [off : Offsets, val : Data, full : BOOLEAN]
  /\ tpc \in [Threads -> ThreadStates]
  /\ freeing \in [Threads -> 0..MaxOwned]
  /\ want \in [VAs -> Data]
  /\ overlap \in BOOLEAN

Init ==
  /\ setup \in Setups
  /\ sig = "idle" /\ pc = "poll" /\ gate = FALSE
  /\ n = 0 /\ cn = 0 /\ i = 1
  /\ owned = [k \in Slots |-> NoEntry] /\ owned_n = 0
  /\ reserved = {} /\ mapped = {}
  /\ mem = [a \in VAs |-> Blank] /\ want = [a \in VAs |-> Blank]
  /\ blob = [o \in Offsets |-> Blank] /\ blobMap = 0 /\ stage = NoStage
  /\ tpc = [t \in Threads |-> "run"] /\ freeing = [t \in Threads |-> 0]
  /\ overlap = FALSE

-----------------------------------------------------------------------------
(* Helpers                                                                 *)

Live(k) == owned[k].live
Frozen(k) == owned[k].frozen

\* Entries checkpoint_freeze() offloads: live and not yet frozen.
Selected(k) == Live(k) /\ ~Frozen(k)

\* What the loops of freeze and of remap do not skip.
ToFreeze == {k \in Slots : Selected(k)}
ToRemap == {k \in Slots : Frozen(k)}

\* k is the next entry of the loop `for i < bound` over the entries in S.
IsNext(k, bound, S) ==
  k \in i..bound /\ k \in S /\ \A j \in i..(k - 1) : j \notin S
LoopOver(bound, S) == \A j \in i..bound : j \notin S

\* Mutant: the waiters are not woken.
GateSetSilent(on) == gate' = on /\ UNCHANGED tpc

\* gcr_gate_set(): lowering the gate broadcasts, so every waiter re-checks.
GateSet(on) ==
  /\ gate' = on
  /\ tpc' = IF on THEN tpc
            ELSE [t \in Threads |-> IF tpc[t] = "wait" THEN "slow" ELSE tpc[t]]

\* blob_map(need): a mapping that is large enough is kept, otherwise the file
\* is cut or extended to exactly `need` segments and mapped.
BlobFits(need) == blobMap > 0 /\ blobMap >= need
Resized(need) == [o \in Offsets |-> IF o < need THEN blob[o] ELSE Blank]
BlobMap(need) ==
  IF BlobFits(need)
  THEN UNCHANGED blobVars
  ELSE blob' = Resized(need) /\ blobMap' = need /\ UNCHANGED stage

\* open or ftruncate failed, or mmap did after the file was resized.
BlobMapFail(need) ==
  /\ "blob" \in Faults /\ ~BlobFits(need)
  /\ blob' \in {blob, Resized(need)} /\ blobMap' = 0 /\ UNCHANGED stage

\* Mutant: what is staged is not written to the blob.
FlushedNever == blob

\* memcpy of the staged chunk, if any, to its place in the blob.
Flushed == IF stage.full THEN [blob EXCEPT ![stage.off] = stage.val] ELSE blob

\* cuMemMap succeeds on a reserved address that is not backed already.
CanMap(va) == va \in reserved /\ va \notin mapped

\* The event `kind`, when cond holds.
Met(kind, cond) == {e \in {kind} : cond}

\* Records what the application now has in its memory, w, and that an event of
\* the given kinds has met a freeze or remap.  Once one has, want is not kept.
Record(kinds, w) ==
  /\ overlap' = (overlap \/ kinds \cap Excused # {})
  /\ want' = IF overlap' THEN [a \in VAs |-> Blank] ELSE w
Note(kind, cond) == Record(Met(kind, cond), want)

\* The locals of the function the watcher leaves.
LocalsGone == n' = 0 /\ cn' = 0 /\ i' = 1

-----------------------------------------------------------------------------
(* The watcher: checkpoint_freeze()                                        *)

\* Mutant: all segments at the start of the file.
FreezeOffsetZero(k) == 0

\* The file offsets the sizing loop hands out: it starts at 0 every time.
FreezeOffset(k) == Cardinality({j \in 1..(k - 1) : Selected(j)})
FreezeTotal == Cardinality({j \in 1..owned_n : Selected(j)})

\* checkpoint signal: nothing owned (or nothing resolved) goes straight to ACK.
FreezeBegin ==
  /\ pc = "poll" /\ sig = "ckpt"
  /\ IF owned_n > 0 /\ setup.symbols
     THEN pc' = "scan" /\ GateSet(TRUE)
     ELSE pc' = "ack" /\ UNCHANGED <<gate, tpc>>
  /\ UNCHANGED <<setup, sig, n, cn, i, tableVars, deviceVars, blobVars, freeing,
                 historyVars>>

\* cudaDeviceSynchronize, read g_owned_n, hand out offsets, map the blob file.
FreezeScan ==
  /\ pc = "scan"
  /\ owned' = [k \in Slots |-> IF k <= owned_n /\ Selected(k)
                               THEN [owned[k] EXCEPT !.off = FreezeOffset(k)]
                               ELSE owned[k]]
  /\ IF FreezeTotal = 0
     THEN pc' = "ack" /\ LocalsGone /\ UNCHANGED <<blobVars, historyVars>>
     ELSE \/ /\ pc' = "start"
             /\ BlobMap(FreezeTotal)
             /\ n' = owned_n /\ UNCHANGED <<cn, i>>
             /\ Record(Met("refreeze", \E k \in Slots : Live(k) /\ Frozen(k))
                  \cup Met("free", \E t \in Threads : tpc[t] = "free"), want)
          \/ /\ pc' = "ack" /\ LocalsGone
             /\ BlobMapFail(FreezeTotal)
             /\ Note("fault", TRUE)
  /\ UNCHANGED <<setup, sig, gate, owned_n, deviceVars, appVars>>

\* pipe_copy() reads g_owned_n again; the serial fallback keeps the caller's n.
CopyBound == IF setup.async THEN owned_n ELSE n
FreezeCopyStart ==
  /\ pc = "start" /\ pc' = "copy"
  /\ cn' = CopyBound /\ i' = 1
  /\ Note("malloc", CopyBound > n)
  /\ UNCHANGED <<setup, sig, gate, n, tableVars, deviceVars, blobVars, appVars>>

\* One device-to-host copy.  pipe_copy() stages it and writes the one before
\* it to the blob; the serial loop writes it at once.
FreezeCopy(k) ==
  /\ pc = "copy" /\ IsNext(k, cn, ToFreeze)
  /\ owned[k].va \in mapped
  /\ LET off == owned[k].off
         val == mem[owned[k].va]
     IN IF setup.async THEN blob' = Flushed /\ stage' = [off |-> off, val |-> val, full |-> TRUE]
                 ELSE blob' = [blob EXCEPT ![off] = val] /\ UNCHANGED stage
  /\ i' = k + 1
  /\ UNCHANGED <<setup, sig, pc, n, cn, gate, tableVars, deviceVars, blobMap, appVars,
                 historyVars>>

\* Mutant: the serial loop meets a failed copy with `continue` in place of `break`,
\* and tries it for ever.
FreezeCopyFailAgain(k) ==
  /\ pc = "copy" /\ IsNext(k, cn, ToFreeze)
  /\ owned[k].va \notin mapped \/ "d2h" \in Faults
  /\ IF setup.async THEN pc' = "release" /\ i' = 1 /\ cn' = 0 ELSE UNCHANGED <<pc, i, cn>>
  /\ stage' = NoStage
  /\ Note("fault", owned[k].va \in mapped)
  /\ UNCHANGED <<setup, sig, n, gate, tableVars, deviceVars, blob, blobMap, appVars>>

\* A copy that fails ends pipe_copy() with -1, which nobody looks at, and what
\* is staged is dropped; the serial loop goes on with the next entry.
FreezeCopyFail(k) ==
  /\ pc = "copy" /\ IsNext(k, cn, ToFreeze)
  /\ owned[k].va \notin mapped \/ "d2h" \in Faults
  /\ IF setup.async THEN pc' = "release" /\ i' = 1 /\ cn' = 0
                    ELSE i' = k + 1 /\ UNCHANGED <<pc, cn>>
  /\ stage' = NoStage
  /\ Note("fault", owned[k].va \in mapped)
  /\ UNCHANGED <<setup, sig, n, gate, tableVars, deviceVars, blob, blobMap,
                 appVars>>

FreezeCopyEnd ==
  /\ pc = "copy" /\ LoopOver(cn, ToFreeze)
  /\ pc' = "release" /\ i' = 1 /\ cn' = 0
  /\ blob' = Flushed /\ stage' = NoStage
  /\ UNCHANGED <<setup, sig, n, gate, tableVars, deviceVars, blobMap, appVars,
                 historyVars>>

\* cuMemUnmap + cuMemRelease, the address is kept.
FreezeRelease(k) ==
  /\ pc = "release" /\ IsNext(k, n, ToFreeze)
  /\ mapped' = mapped \ {owned[k].va}
  /\ mem' = [a \in VAs |-> IF a = owned[k].va THEN Blank ELSE mem[a]]
  /\ owned' = [owned EXCEPT ![k].frozen = TRUE]
  /\ i' = k + 1
  /\ UNCHANGED <<setup, sig, pc, n, cn, gate, owned_n, reserved, blobVars, appVars,
                 historyVars>>

\* munmap and close the blob; the gate stays up.
FreezeEnd ==
  /\ pc = "release" /\ LoopOver(n, ToFreeze)
  /\ pc' = "ack" /\ LocalsGone /\ blobMap' = 0
  /\ UNCHANGED <<setup, sig, gate, tableVars, deviceVars, blob, stage, appVars,
                 historyVars>>

-----------------------------------------------------------------------------
(* The watcher: restore_remap()                                            *)

RestoreBegin ==
  /\ pc = "poll" /\ sig = "restore"
  /\ IF owned_n > 0
     THEN pc' = "map" /\ sig' = "gating" /\ GateSet(TRUE)
     ELSE pc' = "ack" /\ UNCHANGED <<sig, gate, tpc>>
  /\ UNCHANGED <<setup, n, cn, i, tableVars, deviceVars, blobVars, freeing, historyVars>>

\* The blob must reach to the end of the last frozen entry.
RemapNeed ==
  Cardinality({o \in Offsets : \E k \in 1..owned_n : Frozen(k) /\ o <= owned[k].off})

\* Mutant: without the entry points the gate is left to the next restore.
RemapPathReturns == IF setup.symbols THEN "create" ELSE "ack"

\* Unresolved entry points end restore_remap() at once.
RemapPath == IF setup.symbols THEN "create" ELSE "open"

\* Map the blob again (unless it still is) and read g_owned_n.
RemapMap ==
  /\ pc = "map"
  /\ i' = 1 /\ n' = owned_n
  /\ pc' = RemapPath
  /\ \/ /\ IF setup.symbols /\ blobMap = 0 /\ RemapNeed > 0
           THEN BlobMap(RemapNeed) ELSE UNCHANGED blobVars
        /\ UNCHANGED historyVars
     \/ /\ setup.symbols /\ blobMap = 0 /\ RemapNeed > 0
        /\ BlobMapFail(RemapNeed)
        /\ Note("fault", TRUE)
  /\ UNCHANGED <<setup, sig, cn, gate, tableVars, deviceVars, appVars>>

\* Phase A: new physical memory at the same address.
RemapCreate(k) ==
  /\ pc = "create" /\ IsNext(k, n, ToRemap)
  /\ CanMap(owned[k].va)
  /\ mapped' = mapped \cup {owned[k].va}
  /\ mem' = [mem EXCEPT ![owned[k].va] = Blank]
  /\ i' = k + 1
  /\ UNCHANGED <<setup, sig, pc, n, cn, gate, tableVars, reserved, blobVars, appVars,
                 historyVars>>

\* cuMemCreate or cuMemMap failed: the entry is given up.
RemapCreateFail(k) ==
  /\ pc = "create" /\ IsNext(k, n, ToRemap)
  /\ ~CanMap(owned[k].va) \/ "create" \in Faults
  /\ owned' = [owned EXCEPT ![k].frozen = FALSE]
  /\ i' = k + 1
  /\ Note("fault", CanMap(owned[k].va))
  /\ UNCHANGED <<setup, sig, pc, n, cn, gate, owned_n, deviceVars, blobVars, appVars>>

RemapCreateEnd ==
  /\ pc = "create" /\ LoopOver(n, ToRemap)
  /\ pc' = "fill" /\ i' = 1
  /\ UNCHANGED <<setup, sig, n, cn, gate, tableVars, deviceVars, blobVars, appVars,
                 historyVars>>

\* Phase B: host-to-device copy from the blob.
RemapFill(k) ==
  /\ pc = "fill" /\ blobMap > 0 /\ IsNext(k, n, ToRemap)
  /\ owned[k].va \in mapped
  /\ mem' = [mem EXCEPT ![owned[k].va] = blob[owned[k].off]]
  /\ i' = k + 1
  /\ UNCHANGED <<setup, sig, pc, n, cn, gate, tableVars, reserved, mapped, blobVars,
                 appVars, historyVars>>

RemapFillFail(k) ==
  /\ pc = "fill" /\ blobMap > 0 /\ IsNext(k, n, ToRemap)
  /\ owned[k].va \notin mapped \/ "h2d" \in Faults
  /\ i' = IF setup.async THEN n + 1 ELSE k + 1
  /\ Note("fault", owned[k].va \in mapped)
  /\ UNCHANGED <<setup, sig, pc, n, cn, gate, tableVars, deviceVars, blobVars, appVars>>

\* Mutant: the last entry is never marked restored.
RestoredShort(k) == k < n

\* Phase C covers the first n entries.
Restored(k) == k <= n

\* Phase C: every frozen entry counts as restored, copied or not.
RemapDone ==
  /\ pc = "fill" /\ (blobMap = 0 \/ LoopOver(n, ToRemap))
  /\ owned' = [k \in Slots |-> IF Restored(k)
                               THEN [owned[k] EXCEPT !.frozen = FALSE] ELSE owned[k]]
  /\ pc' = "open"
  /\ UNCHANGED <<setup, sig, n, cn, i, gate, owned_n, deviceVars, blobVars, appVars,
                 historyVars>>

RemapOpen ==
  /\ pc = "open" /\ pc' = "ack" /\ LocalsGone
  /\ GateSet(FALSE)
  /\ UNCHANGED <<setup, sig, tableVars, deviceVars, blobVars, freeing, historyVars>>

\* write_signal(GCR_IDLE)
Ack ==
  /\ pc = "ack" /\ pc' = "poll" /\ sig' = "idle"
  /\ UNCHANGED <<setup, n, cn, i, gate, tableVars, deviceVars, blobVars, appVars,
                 historyVars>>

Watcher ==
  \/ FreezeBegin \/ FreezeScan \/ FreezeCopyStart \/ FreezeCopyEnd \/ FreezeEnd
  \/ RestoreBegin \/ RemapMap \/ RemapCreateEnd \/ RemapDone \/ RemapOpen \/ Ack
  \/ \E k \in Slots :
       \/ FreezeCopy(k) \/ FreezeCopyFail(k) \/ FreezeRelease(k)
       \/ RemapCreate(k) \/ RemapCreateFail(k) \/ RemapFill(k) \/ RemapFillFail(k)

-----------------------------------------------------------------------------
(* The application                                                         *)

\* Mutant: the table's bound is not checked.
TrackUnbounded(va) ==
  /\ owned' = [owned EXCEPT ![owned_n + 1] = FreshEntry(va)]
  /\ owned_n' = owned_n + 1

\* A new entry at the end of g_owned[]; a full table leaves the memory untracked.
Track(va) ==
  IF owned_n < MaxOwned
  THEN /\ owned' = [owned EXCEPT ![owned_n + 1] = FreshEntry(va)]
       /\ owned_n' = owned_n + 1
  ELSE UNCHANGED tableVars

\* cudaMalloc served by gcr_vmm_alloc(): memory, address and mapping are made
\* before the entry, and nobody else knows the address until it returns.
Malloc(t, va) ==
  /\ tpc[t] = "run" /\ va \notin reserved
  /\ reserved' = reserved \cup {va} /\ mapped' = mapped \cup {va}
  /\ mem' = [mem EXCEPT ![va] = Blank]
  /\ Track(va)
  /\ Record(Met("free", \E k \in 1..owned_n : Live(k) /\ owned[k].va = va),
            [want EXCEPT ![va] = Blank])
  /\ UNCHANGED <<setup, sig, watcherVars, gate, blobVars, appVars>>

\* cudaFree: gcr_vmm_free() finds the entry under the lock, gives memory and
\* address back without it, and clears `live` last.
FreeBegin(t, k) ==
  /\ tpc[t] = "run" /\ k <= owned_n /\ Live(k)
  /\ owned[k].va \in reserved
  /\ \A j \in 1..(k - 1) : ~(Live(j) /\ owned[j].va = owned[k].va)
  /\ mapped' = mapped \ {owned[k].va} /\ reserved' = reserved \ {owned[k].va}
  /\ mem' = [mem EXCEPT ![owned[k].va] = Blank]
  /\ tpc' = [tpc EXCEPT ![t] = "free"] /\ freeing' = [freeing EXCEPT ![t] = k]
  /\ Record(Met("free", pc # "poll" \/ Frozen(k)), [want EXCEPT ![owned[k].va] = Blank])
  /\ UNCHANGED <<setup, sig, watcherVars, gate, tableVars, blobVars>>

FreeEnd(t) ==
  /\ tpc[t] = "free"
  /\ owned' = [owned EXCEPT ![freeing[t]].live = FALSE]
  /\ tpc' = [tpc EXCEPT ![t] = "run"] /\ freeing' = [freeing EXCEPT ![t] = 0]
  /\ UNCHANGED <<setup, sig, watcherVars, gate, owned_n, deviceVars, blobVars, historyVars>>

\* gcr_gate_wait(): the unlocked look at the gate ...
GateFast(t) ==
  /\ tpc[t] = "run"
  /\ tpc' = [tpc EXCEPT ![t] = IF gate THEN "slow" ELSE "launch"]
  /\ UNCHANGED <<setup, sig, watcherVars, gate, tableVars, deviceVars, blobVars,
                 freeing, historyVars>>

\* ... and the loop on the condition variable, under the gate's lock.
GateSlow(t) ==
  /\ tpc[t] = "slow"
  /\ tpc' = [tpc EXCEPT ![t] = IF gate THEN "wait" ELSE "launch"]
  /\ UNCHANGED <<setup, sig, watcherVars, gate, tableVars, deviceVars, blobVars,
                 freeing, historyVars>>

\* The real launch, after the gate: the kernel writes v at va.
Launch(t, va, v) ==
  /\ tpc[t] = "launch" /\ va \in reserved \cap mapped
  /\ mem' = [mem EXCEPT ![va] = v]
  /\ tpc' = [tpc EXCEPT ![t] = "run"]
  /\ Record(Met("launch", pc \in {"copy", "release", "create", "fill"}),
            [want EXCEPT ![va] = v])
  /\ UNCHANGED <<setup, sig, watcherVars, gate, tableVars, reserved, mapped, blobVars,
                 freeing>>

\* A kernel that touches an address without memory kills the CUDA context.
LaunchFault(t, va) ==
  /\ tpc[t] = "launch" /\ va \in reserved \ mapped
  /\ tpc' = [tpc EXCEPT ![t] = "dead"]
  /\ UNCHANGED <<setup, sig, watcherVars, gate, tableVars, deviceVars, blobVars,
                 freeing, historyVars>>

\* A kernel that touches none of the owned memory.
LaunchOther(t) ==
  /\ tpc[t] = "launch"
  /\ tpc' = [tpc EXCEPT ![t] = "run"]
  /\ UNCHANGED <<setup, sig, watcherVars, gate, tableVars, deviceVars, blobVars,
                 freeing, historyVars>>

App(t) ==
  \/ GateFast(t) \/ GateSlow(t) \/ LaunchOther(t) \/ FreeEnd(t)
  \/ \E k \in Slots : FreeBegin(t, k)
  \/ \E va \in VAs : \/ Malloc(t, va) \/ LaunchFault(t, va)
                     \/ \E v \in Vals : Launch(t, va, v)

\* The agent writes a request, whatever the watcher is doing.
Request(s) ==
  /\ sig' = s
  /\ UNCHANGED <<setup, watcherVars, gate, tableVars, deviceVars, blobVars, appVars,
                 historyVars>>

Next ==
  \/ Watcher
  \/ \E t \in Threads : App(t)
  \/ \E s \in {"ckpt", "restore"} : Request(s)

Fairness ==
  /\ WF_vars(Watcher)
  /\ \A t \in Threads : WF_vars(GateSlow(t)) /\ WF_vars(FreeEnd(t))

Spec == Init /\ [][Next]_vars /\ Fairness

-----------------------------------------------------------------------------
(* Properties                                                              *)

\* While the data of any entry is off the device the gate is up, so a launch
\* that looks at the gate then is held (g_gate around freeze and remap).
GateCoversFrozen == (\E k \in 1..owned_n : Frozen(k)) => gate

\* No thread sleeps on the condition variable once the gate is open: lowering
\* the gate under the lock and broadcasting loses no wake-up (gcr_gate_set and
\* gcr_gate_wait).
NoLostWakeup == \A t \in Threads : tpc[t] = "wait" => gate

\* The data of every address the application holds is where the engine will
\* look for it: in the blob while its entry is frozen, in the device otherwise.
Intact ==
  \A va \in reserved :
    \/ \E k \in 1..owned_n : Live(k) /\ Frozen(k) /\ owned[k].va = va
                            /\ blob[owned[k].off] = want[va]
    \/ /\ \A k \in 1..owned_n : owned[k].va = va => ~(Live(k) /\ Frozen(k))
       /\ va \in mapped /\ mem[va] = want[va]

\* Through any sequence of checkpoints and restores, repeated or out of order,
\* no data is lost unless an excused event has met a freeze or remap: a driver
\* call that failed, or a call of the application in its middle.  Without
\* "refreeze" in Excused it says the same of a checkpoint requested while data
\* is still frozen: the file keeps what the device no longer has.
Integrity == ~overlap => Intact

\* Where the application's data is: in the blob while its entry is frozen, in
\* the device otherwise.
LogicalData ==
  [va \in reserved |->
     LET F == {k \in 1..owned_n : Live(k) /\ Frozen(k) /\ owned[k].va = va}
     IN IF F = {} THEN mem[va] ELSE blob[owned[CHOOSE k \in F : TRUE].off]]

Memory == INSTANCE GatedMemory
  WITH data <- LogicalData, held <- gate, void <- overlap,
       inside <- {t \in Threads : tpc[t] = "launch"}

\* The engine implements memory that knows of no checkpoints: every step of
\* freeze and remap leaves the data the application sees as it is, and a launch
\* passes only an open gate (checkpoint_freeze, restore_remap, gcr_gate_wait).
Transparent == Memory!Spec

\* The launch gate's promise: no kernel runs on an address whose memory the
\* freeze has taken away (gcr_gate_wait at the head of every launch hook).
NoLaunchFault == \A t \in Threads : tpc[t] # "dead"

\* A freeze or remap that has started comes to its ACK, whichever of its calls
\* fail, and how often, and whatever the application does to the table meanwhile
\* (checkpoint_freeze and restore_remap have to return to the watcher's loop).
WatcherReturns == (pc # "poll") ~> (pc = "poll")

\* A remap that has started always lowers the gate, whatever failed in it.
RemapLowersGate == (pc = "map") ~> ~gate

=============================================================================
