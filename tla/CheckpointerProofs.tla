------------------------- MODULE CheckpointerProofs -------------------------
(***************************************************************************)
(* Proofs about Checkpointer, for any settings of the agent, any number of *)
(* runs, faults and changes of the data.                                   *)
(*                                                                         *)
(* What a freeze leaves behind (FrozenInBlob) holds for any watchers in    *)
(* the Pod.  That archive and blob belong together and that the Pod is not *)
(* imaged in the middle of a freeze needs a Pod with one watcher: a run    *)
(* that waits for its ACK leaves the wait only when no freeze is under way *)
(* or asked for (NoFreeze), in spite of ACKs that answer an earlier run,   *)
(* because an ACK, late or not, takes the request out of the file.         *)
(***************************************************************************)
EXTENDS Checkpointer, TLAPS

\* Settings: they never change, and what they leave out never happens.
Untouched ==
  ~config.interception =>
    /\ apc \in {"idle", "kubelet", "store", "down", "install"}
    /\ ctl = "" /\ ~frozen
    /\ \A p \in Procs : wpc[p] \in {"poll", "none"}

\* The gate is up before the data leaves the device.
GateFirst == wpc[Owner] = "freeze" => gate

\* A Pod that is not shared has one watcher.
Alone == ~config.shared => \A p \in Others : wpc[p] = "none"

\* What holds in any Pod.
PodInv == Untouched /\ Alone /\ FrozenInBlob /\ GateFirst

\* The agent is between the freeze and the end of its run.
Dumping == {"kubelet", "openRestore", "writeRestore", "waitRemap", "store"}
Dumped == Dumping \ {"kubelet"}

\* No freeze is under way or asked for.
NoFreeze ==
  ~config.dryRun =>
    /\ apc = "waitFreeze" /\ ctl # "ckpt" => wpc[Owner] # "freeze"
    /\ apc \in Dumping => ctl # "ckpt" /\ wpc[Owner] # "freeze"

\* The blob is that of the freeze the archive was taken under.
TarInBlob ==
  ~config.dryRun /\ apc \in Dumped /\ tar.frozen =>
    config.interception /\ (blob = tar.ver \/ tar.spoilt)

\* What holds besides in a Pod with one watcher.
IInv == NoFreeze /\ TarInBlob /\ StoredComplete /\ DumpNotMidFreeze

-----------------------------------------------------------------------------
(* Types                                                                   *)

\* What a run starts with, and what is stored before the first one.
LEMMA Empties ==
  /\ NoTar \in [frozen : BOOLEAN, ver : Vers \cup {NoBlob}, spoilt : BOOLEAN, watcher : WatcherStates]
  /\ NoStored \in [frozen : BOOLEAN, ver : Vers \cup {NoBlob}, spoilt : BOOLEAN, blob : Blobs]
BY DEF NoTar, NoStored, WatcherStates, Blobs

\* A run was due when it started, and is counted at its end.
RunDue == apc \notin {"idle", "down", "install"} => Due
TypeInv == TypeOK /\ RunDue

LEMMA TypeInit == Init => TypeInv
<1> SUFFICES ASSUME Init PROVE TypeInv
  OBVIOUS
<1>2. config \in Config
  BY CheckpointerAssumption DEF Init
<1>1. /\ ver \in Vers /\ blob \in Blobs
      /\ runs \in 0..MaxRuns /\ faults \in 0..config.maxFaults
  <2>1. /\ ver = 0 /\ blob = NoBlob /\ runs = 0 /\ faults = 0
        /\ {MaxVer, MaxRuns, config.maxFaults} \subseteq Nat
    BY <1>2, CheckpointerAssumption DEF Init, Config
  <2> QED
    BY <2>1 DEF Vers, Blobs
<1>3. wpc \in [Procs -> WatcherStates]
  BY DEF Init, WatcherStates
<1> QED
  BY <1>1, <1>2, <1>3, Empties DEF Init, TypeInv, RunDue, TypeOK, Words, AgentStates, WatcherStates

LEMMA FaultTypes ==
  ASSUME TypeOK, Fault \/ UNCHANGED faults
  PROVE  faults' \in 0..config.maxFaults
BY DEF TypeOK, Fault, Config

LEMMA TypeStep == TypeInv /\ [Next]_vars => TypeOK'
<1> SUFFICES ASSUME TypeInv, [Next]_vars PROVE TypeOK'
  BY DEF TypeInv
<1> USE DEF TypeInv, TypeOK
<1>1. CASE UNCHANGED vars
  BY <1>1 DEF vars, agentVars, podVars, memVars
<1>2. CASE Start
  BY <1>2, Empties DEF Start, Goto, AgentStates, podVars, memVars
<1>3. CASE SignalCkpt \/ SignalBest \/ SignalRestore
  <2> DEFINE from == {"openCkpt", "writeCkpt", "openBest", "writeBest", "openRestore", "writeRestore"}
             to == AgentStates
  <2>1. ASSUME NEW a \in from, NEW c \in to, SignalOpen(a, c) PROVE TypeOK'
    <3>1. ctl' \in Words /\ apc' \in AgentStates
      BY <2>1 DEF SignalOpen, Goto, Words
    <3>2. UNCHANGED <<config, tar, stored, runs, lib, wpc, owned, fresh, frozen, gate, blob, spoilt,
                      ver, faults, lost>>
      BY <2>1 DEF SignalOpen, podVars, memVars
    <3> QED
      BY <3>1, <3>2
  <2>2. ASSUME NEW a \in from, NEW c \in to, NEW w \in Words, SignalWrite(a, w, c) PROVE TypeOK'
    BY <2>2 DEF SignalWrite, Goto, podVars, memVars
  <2>3. ASSUME NEW A \in SUBSET from, NEW c \in to, SignalFail(A, c) PROVE TypeOK'
    <3>1. Fault /\ apc' = c /\ lost' \in BOOLEAN
      BY <2>3 DEF SignalFail, Goto
    <3>2. faults' \in 0..config.maxFaults
      BY <3>1, FaultTypes
    <3> QED
      BY <2>3, <3>1, <3>2 DEF SignalFail, podVars, memVars
  <2>4. AfterCkpt \in to /\ AfterRestore \in to
    BY DEF AfterCkpt, AfterRestore, AgentStates
  <2>5. /\ {"writeCkpt", "idle", "writeBest", "writeRestore", "store"} \subseteq to
        /\ {"ckpt", "restore"} \subseteq Words
    BY DEF AgentStates, Words
  <2>6. CASE SignalCkpt
    BY <2>1, <2>2, <2>3, <2>4, <2>5, <2>6 DEF SignalCkpt
  <2>7. CASE SignalBest
    BY <2>1, <2>2, <2>3, <2>4, <2>5, <2>7 DEF SignalBest
  <2>8. CASE SignalRestore
    BY <2>1, <2>2, <2>3, <2>4, <2>5, <2>8 DEF SignalRestore
  <2> QED
    BY <1>3, <2>6, <2>7, <2>8
<1>4. CASE WaitFreeze \/ WaitRemap \/ FreezeTimeout \/ RemapTimeout
  BY <1>4, FaultTypes DEF WaitFreeze, WaitRemap, FreezeTimeout, RemapTimeout, Timeout, Goto,
     AgentStates, AfterLateFreeze, podVars, memVars
<1>5. CASE KubeletCheckpoint
  <2>1. wpc[Owner] \in WatcherStates
    BY DEF Procs
  <2> QED
    BY <1>5, <2>1 DEF KubeletCheckpoint, Goto, AfterDump, AgentStates, podVars, memVars
<1>6. CASE Store
  <2>1. runs' \in 0..MaxRuns
    BY <1>6, CheckpointerAssumption DEF Store, Goto, RunDue, Due
  <2> QED
    BY <1>6, <2>1 DEF Store, Goto, AgentStates, Blobs, podVars, memVars
<1>7. CASE InstallOpen \/ InstallCopy \/ InstallFail \/ InstallSkip
  BY <1>7, FaultTypes DEF InstallOpen, InstallCopy, InstallFail, InstallSkip, Goto, AgentStates, podVars, memVars
<1>8. CASE KubeletFail \/ StoreFail
  BY <1>8, FaultTypes DEF KubeletFail, StoreFail, Goto, AgentStates, podVars, memVars
<1>13. CASE Crash
  BY <1>13, FaultTypes, Empties DEF Crash, AgentStates, podVars, memVars
<1>9. ASSUME NEW p \in Procs, Watcher(p) PROVE TypeOK'
  <2>1. ASSUME NEW q \in Procs, NEW a, NEW c \in WatcherStates, WGoto(q, a, c)
        PROVE  wpc' \in [Procs -> WatcherStates]
    BY <2>1 DEF WGoto
  <2>2. Owner \in Procs /\ {"freeze", "openAck", "openGating", "writeGating", "remap", "writeAck", "poll"}
          \subseteq WatcherStates
    BY DEF Procs, WatcherStates
  <2>3. CASE ReadCkpt(p) \/ ReadRestore(p)
    <3>1. wpc' \in [Procs -> WatcherStates]
      BY <2>1, <2>2, <2>3 DEF ReadCkpt, ReadRestore
    <3>2. gate' \in BOOLEAN
      BY <2>3 DEF ReadCkpt, ReadRestore, FreezeGate, RemapGate
    <3> QED
      BY <2>3, <3>1, <3>2 DEF ReadCkpt, ReadRestore, agentVars
  <2>4. CASE Freeze \/ Remap
    <3>1. wpc' \in [Procs -> WatcherStates]
      BY <2>1, <2>2, <2>4 DEF Freeze, Remap
    <3> QED
      BY <2>4, <3>1 DEF Freeze, Remap, Blobs, agentVars
  <2>5. CASE FreezeFail
    <3>1. wpc' \in [Procs -> WatcherStates] /\ faults' \in 0..config.maxFaults
      BY <2>1, <2>2, <2>5, FaultTypes DEF FreezeFail
    <3>2. fresh' \in BOOLEAN /\ frozen' \in BOOLEAN /\ blob' \in Blobs /\ spoilt' \in BOOLEAN
      BY <2>5 DEF FreezeFail, BlobMapFail, CopyFail, Blobs
    <3> QED
      BY <2>5, <3>1, <3>2 DEF FreezeFail, agentVars
  <2>6. CASE WriteGating \/ WriteAck(p)
    <3>1. wpc' \in [Procs -> WatcherStates]
      BY <2>1, <2>2, <2>6 DEF WriteGating, WriteAck, WatcherOpen, WatcherWrite, WatcherOpenFail
    <3>2. lost' \in BOOLEAN /\ ctl' \in Words /\ UNCHANGED <<agentVars, memVars, ver>>
      BY <2>6 DEF WriteGating, WriteAck, WatcherOpen, WatcherWrite, WatcherOpenFail, Words
    <3>3. faults' \in 0..config.maxFaults
      BY <2>6, FaultTypes DEF WriteGating, WriteAck, WatcherOpen, WatcherWrite, WatcherOpenFail
    <3> QED
      BY <3>1, <3>2, <3>3 DEF agentVars, memVars
  <2> QED
    BY <1>9, <2>3, <2>4, <2>5, <2>6 DEF Watcher, Engine
<1>11. CASE AppStep
  BY <1>11, CheckpointerAssumption DEF AppStep, Vers, agentVars, podVars, memVars
<1>15. CASE Malloc \/ FreeAll
  BY <1>15 DEF Malloc, FreeAll, agentVars
<1>14. CASE PodRestart
  <2>1. wpc' \in [Procs -> WatcherStates]
    BY <1>14 DEF PodRestart, WatcherStates
  <2>2. faults' \in 0..config.maxFaults /\ blob' \in Blobs
    BY <1>14, FaultTypes DEF PodRestart, Blobs
  <2> QED
    BY <1>14, <2>1, <2>2 DEF PodRestart, agentVars
<1>12. CASE PollIdle
  BY <1>12, <1>1 DEF PollIdle
<1> QED
  BY <1>1, <1>2, <1>3, <1>4, <1>5, <1>6, <1>7, <1>8, <1>9, <1>11, <1>12,
     <1>13, <1>14, <1>15 DEF Next, Pipeline, AgentFault, Application

\* Only Store counts a run, and it ends it.
LEMMA DueStep == TypeInv /\ [Next]_vars => RunDue'
<1> SUFFICES ASSUME TypeInv, [Next]_vars PROVE RunDue'
  OBVIOUS
<1> USE DEF TypeInv, RunDue, Due
<1>1. CASE UNCHANGED <<apc, runs>>
  BY <1>1
<1>2. CASE Pipeline
  <2>1. CASE Start
    BY <2>1 DEF Start
  <2>2. CASE SignalCkpt \/ SignalBest \/ SignalRestore
    BY <2>2 DEF SignalCkpt, SignalBest, SignalRestore, SignalOpen, SignalWrite, SignalFail, Goto
  <2>3. CASE WaitFreeze \/ WaitRemap \/ FreezeTimeout \/ RemapTimeout \/ KubeletCheckpoint
    BY <2>3 DEF WaitFreeze, WaitRemap, FreezeTimeout, RemapTimeout, KubeletCheckpoint, Goto
  <2>4. CASE Store \/ InstallOpen \/ InstallCopy
    BY <2>4 DEF Store, InstallOpen, InstallCopy, Goto
  <2> QED
    BY <1>2, <2>1, <2>2, <2>3, <2>4 DEF Pipeline
<1>3. CASE AgentFault
  BY <1>3 DEF AgentFault, KubeletFail, StoreFail, Crash, InstallFail, InstallSkip, Goto
<1>4. ASSUME NEW p \in Procs, Watcher(p) PROVE UNCHANGED <<apc, runs>>
  BY <1>4 DEF Watcher, Engine, ReadCkpt, Freeze, FreezeFail, ReadRestore, WriteGating, Remap, WriteAck,
     WatcherOpen, WatcherWrite, WatcherOpenFail, agentVars
<1> QED
  BY <1>1, <1>2, <1>3, <1>4 DEF Next, Application, AppStep, Malloc, FreeAll, PodRestart, PollIdle, vars, agentVars

\* Every variable keeps its type: the counters stay within their bounds, and the
\* control file holds a word either side knows.
THEOREM TypeCorrect == Spec => []TypeOK
<1>1. TypeInv /\ [Next]_vars => TypeInv'
  BY TypeStep, DueStep DEF TypeInv
<1>2. TypeInv => TypeOK
  BY DEF TypeInv
<1> QED
  BY TypeInit, <1>1, <1>2, PTL DEF Spec

-----------------------------------------------------------------------------
(* Any Pod                                                                 *)

LEMMA PodInit == Init => PodInv
BY CheckpointerAssumption DEF Init, PodInv, Untouched, Alone, Loads, FrozenInBlob, GateFirst, Procs

\* A step of the agent does not touch the memory of the Pod.
LEMMA AgentLeavesPod ==
  ASSUME TypeInv, PodInv, UNCHANGED <<config, podVars, ver>>, Untouched'
  PROVE  PodInv'
BY DEF PodInv, Alone, FrozenInBlob, GateFirst, podVars, memVars

\* A watcher leaves a state for another one that is no freeze.
LEMMA Elsewhere ==
  ASSUME TypeInv, NEW p \in Procs, NEW a, NEW c, WGoto(p, a, c), c # "freeze",
         wpc'[Owner] = "freeze"
  PROVE  wpc[Owner] = "freeze"
BY DEF WGoto, TypeInv, TypeOK, Procs

LEMMA PodStep == TypeInv /\ PodInv /\ [Next]_vars => PodInv'
<1> SUFFICES ASSUME TypeInv, PodInv, [Next]_vars PROVE PodInv'
  OBVIOUS
<1>1. CASE UNCHANGED vars
  BY <1>1 DEF vars, agentVars, podVars, memVars, PodInv, Untouched, Alone, FrozenInBlob, GateFirst
<1>2. CASE Pipeline \/ AgentFault
  <2>1. UNCHANGED <<config, podVars, ver>>
    BY <1>2 DEF Pipeline, AgentFault, Start, SignalCkpt, SignalBest, SignalRestore, SignalOpen,
       SignalWrite, SignalFail, WaitFreeze, WaitRemap, FreezeTimeout, RemapTimeout,
       KubeletCheckpoint, Store, InstallOpen, InstallCopy, KubeletFail, StoreFail, Crash,
       InstallFail, InstallSkip
  <2>2. Untouched'
    <3>1. CASE SignalCkpt \/ SignalBest \/ SignalRestore
      BY <2>1, <3>1 DEF SignalCkpt, SignalBest, SignalRestore, SignalOpen, SignalWrite, SignalFail,
         Goto, podVars, memVars, PodInv, Untouched
    <3>2. CASE Start \/ WaitFreeze \/ WaitRemap \/ FreezeTimeout \/ RemapTimeout \/ KubeletCheckpoint \/ Store
      BY <2>1, <3>2 DEF Start, WaitFreeze, WaitRemap, FreezeTimeout, RemapTimeout, KubeletCheckpoint,
         Store, AfterDump, Goto, podVars, memVars, PodInv, Untouched
    <3>3. CASE InstallOpen \/ InstallCopy \/ AgentFault
      BY <2>1, <3>3 DEF InstallOpen, InstallCopy, AgentFault, KubeletFail, StoreFail, Crash,
         InstallFail, InstallSkip, Goto, podVars, memVars, PodInv, Untouched
    <3> QED
      BY <1>2, <3>1, <3>2, <3>3 DEF Pipeline
  <2> QED
    BY <2>1, <2>2, AgentLeavesPod
<1>3. ASSUME NEW p \in Procs, Watcher(p) PROVE PodInv'
  <2>1. UNCHANGED <<config, apc, ver>>
    BY <1>3 DEF Watcher, Engine, ReadCkpt, Freeze, FreezeFail, ReadRestore, WriteGating, Remap,
       WriteAck, WatcherOpen, WatcherWrite, WatcherOpenFail, agentVars
  \* Without interception there is no word to read and no answer to write.
  <2>2. config.interception
    <3>1. SUFFICES ASSUME ~config.interception PROVE FALSE
      OBVIOUS
    <3>2. ctl = "" /\ wpc[p] \in {"poll", "none"} /\ wpc[Owner] \in {"poll", "none"}
      BY <3>1 DEF PodInv, Untouched, Procs
    <3> QED
      BY <1>3, <3>2 DEF Watcher, Engine, ReadCkpt, Freeze, FreezeFail, ReadRestore, WriteGating,
         Remap, WriteAck, WatcherOpen, WatcherWrite, WatcherOpenFail, WGoto
  <2>3. Untouched' /\ Alone'
    <3>1. ~config.shared => \A q \in Others : wpc'[q] = wpc[q]
      BY <1>3 DEF Watcher, Engine, ReadCkpt, Freeze, FreezeFail, ReadRestore, WriteGating, Remap, WriteAck,
         WatcherOpen, WatcherWrite, WatcherOpenFail, WGoto, PodInv, Alone, Procs, TypeInv, TypeOK
    <3> QED
      BY <2>1, <2>2, <3>1 DEF Untouched, PodInv, Alone
  <2>4. CASE ReadCkpt(p)
    <3>1. CASE Freezes(p)
      BY <2>3, <2>4, <3>1 DEF ReadCkpt, FreezeGate, PodInv, FrozenInBlob, GateFirst
    <3>2. CASE ~Freezes(p)
      BY <2>3, <2>4, <3>2, Elsewhere DEF ReadCkpt, PodInv, FrozenInBlob, GateFirst
    <3> QED
      BY <3>1, <3>2
  <2>5. CASE ReadRestore(p)
    <3>1. wpc'[Owner] = "freeze" => wpc[Owner] = "freeze"
      BY <2>5, Elsewhere DEF ReadRestore
    <3>2. gate' = TRUE \/ gate' = gate
      BY <2>5 DEF ReadRestore, RemapGate
    <3> QED
      BY <2>1, <2>3, <2>5, <3>1, <3>2 DEF ReadRestore, PodInv, FrozenInBlob, GateFirst
  <2>6. CASE Freeze \/ FreezeFail
    <3>1. gate /\ gate' = gate /\ ver' = ver
      BY <2>6 DEF Freeze, FreezeFail, WGoto, PodInv, GateFirst
    <3>2. frozen' => (blob' = ver' \/ spoilt')
      BY <2>6, <3>1 DEF Freeze, FreezeFail, BlobMapFail, CopyFail, PodInv, FrozenInBlob, TypeInv, TypeOK
    <3> QED
      BY <2>3, <3>1, <3>2 DEF PodInv, FrozenInBlob, GateFirst
  <2>7. CASE WriteGating \/ WriteAck(p)
    <3>1. UNCHANGED memVars
      BY <2>7 DEF WriteGating, WriteAck, WatcherOpen, WatcherWrite, WatcherOpenFail
    <3>2. wpc'[Owner] = "freeze" => wpc[Owner] = "freeze"
      BY <2>7, Elsewhere DEF WriteGating, WriteAck, WatcherOpen, WatcherWrite, WatcherOpenFail, Procs
    <3> QED
      BY <2>1, <2>3, <3>1, <3>2 DEF memVars, PodInv, FrozenInBlob, GateFirst
  <2>8. CASE Remap
    <3>1. wpc'[Owner] # "freeze" /\ ~frozen'
      BY <2>8 DEF Remap, WGoto, TypeInv, TypeOK, Procs
    <3> QED
      BY <2>3, <3>1 DEF PodInv, FrozenInBlob, GateFirst
  <2> QED
    BY <1>3, <2>4, <2>5, <2>6, <2>7, <2>8 DEF Watcher, Engine
\* A kernel does not change the data while the gate is up.
<1>4. CASE AppStep
  BY <1>4 DEF AppStep, agentVars, podVars, memVars, PodInv, Untouched, Alone, FrozenInBlob, GateFirst
<1>5. CASE Malloc \/ FreeAll
  <2>1. UNCHANGED <<ctl, config, apc, wpc, frozen, gate, blob, spoilt, ver>>
    BY <1>5 DEF Malloc, FreeAll, agentVars
  <2> QED
    BY <2>1 DEF PodInv, Untouched, Alone, FrozenInBlob, GateFirst
<1>6. CASE PodRestart
  BY <1>6, CheckpointerAssumption DEF PodRestart, agentVars, PodInv, Untouched, Alone, Loads,
     FrozenInBlob, GateFirst, Procs
<1>7. CASE PollIdle
  BY <1>7, <1>1 DEF PollIdle
<1> QED
  BY <1>1, <1>2, <1>3, <1>4, <1>5, <1>6, <1>7 DEF Next, Application

LEMMA PodInvariant == Spec => [](TypeInv /\ PodInv)
<1>1. TypeInv /\ [Next]_vars => TypeInv'
  BY TypeStep, DueStep DEF TypeInv
<1> QED
  BY TypeInit, <1>1, PodInit, PodStep, PTL DEF Spec

\* While data is off the device launches are held and the blob has the data, or
\* the freeze that tore it is on record; for any processes in the Pod.
THEOREM FrozenSafe == Spec => []FrozenInBlob
<1>1. PodInv => FrozenInBlob
  BY DEF PodInv
<1> QED
  BY PodInvariant, <1>1, PTL

-----------------------------------------------------------------------------
(* A Pod with one watcher                                                  *)

LEMMA InvInit == Init => IInv
<1> SUFFICES ASSUME Init PROVE IInv
  OBVIOUS
<1>1. ~tar.frozen /\ ~stored.frozen /\ tar.watcher = "poll" /\ apc = "idle"
  BY DEF Init, NoTar, NoStored
<1> QED
  BY <1>1 DEF IInv, NoFreeze, TarInBlob, StoredComplete, DumpNotMidFreeze, Dumping, Dumped

\* A step of the agent that leaves the Pod, the archive and what is stored alone,
\* and may write to the control file.
LEMMA AgentMoves ==
  ASSUME TypeInv, IInv, UNCHANGED <<config, tar, stored, podVars, ver>>, NoFreeze',
         ~config.dryRun /\ apc' \in Dumped => apc \in Dumped
  PROVE  IInv'
BY DEF IInv, TarInBlob, StoredComplete, DumpNotMidFreeze, podVars, memVars

\* A step of the Pod that leaves the blob alone where an archive refers to it.
LEMMA PodMoves ==
  ASSUME TypeInv, IInv, UNCHANGED agentVars, NoFreeze',
         ~config.dryRun /\ apc \in Dumped => blob' = blob
  PROVE  IInv'
BY DEF IInv, TarInBlob, StoredComplete, DumpNotMidFreeze, agentVars

LEMMA InvStep ==
  ASSUME ~config.shared
  PROVE  TypeInv /\ PodInv /\ IInv /\ [Next]_vars => IInv'
<1> SUFFICES ASSUME TypeInv, PodInv, IInv, [Next]_vars PROVE IInv'
  OBVIOUS
<1> USE DEF Dumping, Dumped
<1>1. CASE UNCHANGED vars
  BY <1>1 DEF vars, agentVars, podVars, memVars, IInv, NoFreeze, TarInBlob, StoredComplete,
     DumpNotMidFreeze
<1>2. CASE Start
  <2>1. /\ apc' \in {"openCkpt", "kubelet"} /\ (apc' = "kubelet" => ~config.interception)
        /\ tar' = NoTar /\ UNCHANGED <<config, ctl, stored, wpc>>
    BY <1>2 DEF Start, Goto, podVars
  <2>2. apc' = "kubelet" => ctl # "ckpt" /\ wpc[Owner] # "freeze"
    BY <2>1 DEF PodInv, Untouched, Procs
  <2> QED
    BY <2>1, <2>2 DEF NoTar, IInv, NoFreeze, TarInBlob, StoredComplete, DumpNotMidFreeze
<1>3. CASE SignalCkpt
  <2>1. NoFreeze'
    BY <1>3 DEF SignalCkpt, SignalOpen, SignalWrite, SignalFail, Goto, AfterCkpt, podVars,
       memVars, IInv, NoFreeze
  <2> QED
    BY <1>3, <2>1, AgentMoves DEF SignalCkpt, SignalOpen, SignalWrite, SignalFail, Goto, AfterCkpt
<1>4. CASE SignalBest
  <2>1. NoFreeze'
    BY <1>4 DEF SignalBest, SignalOpen, SignalWrite, SignalFail, Goto, podVars, memVars, IInv, NoFreeze
  <2> QED
    BY <1>4, <2>1, AgentMoves DEF SignalBest, SignalOpen, SignalWrite, SignalFail, Goto
<1>5. CASE SignalRestore
  <2>1. NoFreeze'
    BY <1>5 DEF SignalRestore, SignalOpen, SignalWrite, SignalFail, Goto, AfterRestore, podVars,
       memVars, IInv, NoFreeze
  <2> QED
    BY <1>5, <2>1, AgentMoves DEF SignalRestore, SignalOpen, SignalWrite, SignalFail, Goto
\* An ACK is a file without a request in it: the freeze is over.
<1>6. CASE WaitFreeze \/ FreezeTimeout
  <2>1. NoFreeze'
    BY <1>6 DEF WaitFreeze, FreezeTimeout, AfterLateFreeze, AckSeen, Goto, podVars, memVars, IInv, NoFreeze
  <2> QED
    BY <1>6, <2>1, AgentMoves DEF WaitFreeze, FreezeTimeout, AfterLateFreeze, Goto
<1>7. CASE WaitRemap \/ RemapTimeout
  <2>1. NoFreeze'
    BY <1>7 DEF WaitRemap, RemapTimeout, Goto, podVars, memVars, IInv, NoFreeze
  <2> QED
    BY <1>7, <2>1, AgentMoves DEF WaitRemap, RemapTimeout, Goto
\* The archive is taken: what is frozen is in the blob.
<1>8. CASE KubeletCheckpoint
  <2>1. NoFreeze' /\ StoredComplete'
    BY <1>8 DEF KubeletCheckpoint, Goto, AfterDump, podVars, memVars, IInv, NoFreeze, StoredComplete
  <2>2. TarInBlob' /\ DumpNotMidFreeze'
    BY <1>8 DEF KubeletCheckpoint, Goto, AfterDump, podVars, memVars, PodInv, Untouched, FrozenInBlob,
       IInv, NoFreeze, TarInBlob, DumpNotMidFreeze
  <2> QED
    BY <2>1, <2>2 DEF IInv
\* The blob that is stored is still the one the archive needs.
<1>9. CASE Store
  <2>1. NoFreeze' /\ TarInBlob' /\ DumpNotMidFreeze'
    BY <1>9 DEF Store, Goto, podVars, memVars, IInv, NoFreeze, TarInBlob, DumpNotMidFreeze
  <2>2. StoredComplete'
    BY <1>9 DEF Store, Goto, IInv, TarInBlob, StoredComplete
  <2> QED
    BY <2>1, <2>2 DEF IInv
<1>10. CASE KubeletFail \/ StoreFail \/ InstallOpen \/ InstallCopy \/ InstallFail \/ InstallSkip
  <2>1. apc' \in {"idle", "openBest", "down", "install"}
    BY <1>10 DEF KubeletFail, StoreFail, InstallOpen, InstallCopy, InstallFail, InstallSkip, Goto
  <2>2. NoFreeze'
    BY <2>1 DEF NoFreeze
  <2> QED
    BY <1>10, <2>1, <2>2, AgentMoves DEF KubeletFail, StoreFail, InstallOpen, InstallCopy, InstallFail,
       InstallSkip, Goto
<1>11. CASE Crash
  BY <1>11 DEF Crash, NoTar, IInv, NoFreeze, TarInBlob, StoredComplete, DumpNotMidFreeze
<1>12. ASSUME NEW p \in Procs, Watcher(p) PROVE IInv'
  <2>1. p = Owner /\ UNCHANGED agentVars /\ wpc \in [Procs -> WatcherStates] /\ Owner \in Procs
    BY <1>12 DEF Procs, Watcher, Engine, ReadCkpt, Freeze, FreezeFail, ReadRestore, WriteGating, Remap,
       WriteAck, WatcherOpen, WatcherWrite, WatcherOpenFail, WGoto, TypeInv, TypeOK, PodInv, Alone
  <2>2. CASE ReadCkpt(p) \/ ReadRestore(p)
    <3>1. NoFreeze'
      BY <2>1, <2>2 DEF ReadCkpt, ReadRestore, WGoto, agentVars, IInv, NoFreeze
    <3> QED
      BY <2>1, <2>2, <3>1, PodMoves DEF ReadCkpt, ReadRestore
  \* The blob changes here and nowhere else but in a restart.
  <2>3. CASE Freeze \/ FreezeFail
    <3>1. wpc[Owner] = "freeze" /\ wpc'[Owner] # "freeze" /\ ctl' = ctl
      BY <2>1, <2>3 DEF Freeze, FreezeFail, WGoto
    <3>2. NoFreeze'
      BY <2>1, <3>1 DEF agentVars, IInv, NoFreeze
    <3>3. ~(~config.dryRun /\ apc \in Dumped)
      BY <3>1 DEF IInv, NoFreeze
    <3> QED
      BY <2>1, <3>2, <3>3, PodMoves
  <2>4. CASE WriteGating \/ WriteAck(p) \/ Remap
    <3>1. wpc'[Owner] # "freeze" /\ ctl' \in {ctl, "", "gating", "idle"} /\ blob' = blob
      BY <2>1, <2>4 DEF WriteGating, WriteAck, Remap, WatcherOpen, WatcherWrite, WatcherOpenFail, WGoto,
         memVars
    <3>2. NoFreeze'
      BY <2>1, <3>1 DEF agentVars, IInv, NoFreeze
    <3> QED
      BY <2>1, <3>1, <3>2, PodMoves
  <2> QED
    BY <1>12, <2>2, <2>3, <2>4 DEF Watcher, Engine
<1>13. CASE PodRestart
  <2>1. wpc'[Owner] # "freeze" /\ ctl' = ctl /\ UNCHANGED agentVars
    BY <1>13 DEF PodRestart, Procs
  <2>2. NoFreeze'
    BY <2>1 DEF agentVars, IInv, NoFreeze
  <2>3. ~config.dryRun /\ apc \in Dumped => blob' = blob
    BY <1>13 DEF PodRestart, IInv, NoFreeze
  <2> QED
    BY <2>1, <2>2, <2>3, PodMoves
<1>14. CASE AppStep \/ Malloc \/ FreeAll
  <2>1. UNCHANGED <<ctl, wpc, blob, agentVars>>
    BY <1>14 DEF AppStep, Malloc, FreeAll, podVars, memVars
  <2>2. NoFreeze'
    BY <2>1 DEF agentVars, IInv, NoFreeze
  <2> QED
    BY <2>1, <2>2, PodMoves
<1>15. CASE PollIdle
  BY <1>15, <1>1 DEF PollIdle
<1> QED
  BY <1>1, <1>2, <1>3, <1>4, <1>5, <1>6, <1>7, <1>8, <1>9, <1>10, <1>11, <1>12, <1>13, <1>14,
     <1>15 DEF Next, Pipeline, AgentFault, Application

\* The settings never change.
LEMMA SettingsStay == [Next]_vars => config' = config
BY DEF Next, Pipeline, AgentFault, Start, SignalCkpt, SignalBest, SignalRestore, SignalOpen,
   SignalWrite, SignalFail, WaitFreeze, WaitRemap, FreezeTimeout, RemapTimeout, KubeletCheckpoint,
   Store, InstallOpen, InstallCopy, KubeletFail, StoreFail, Crash, InstallFail, InstallSkip,
   Watcher, Engine, ReadCkpt, Freeze, FreezeFail, ReadRestore, WriteGating, Remap, WriteAck,
   WatcherOpen, WatcherWrite, WatcherOpenFail, Application, AppStep, Malloc, FreeAll, PodRestart,
   PollIdle, vars, agentVars

LEMMA Invariant == Spec => [](~config.shared => IInv)
<1>1. TypeInv /\ PodInv /\ (~config.shared => IInv) /\ [Next]_vars => (~config.shared => IInv)'
  BY InvStep, SettingsStay
<1> QED
  BY PodInvariant, <1>1, InvInit, PTL DEF Spec

\* In a Pod with one watcher, an archive of a Pod whose data was frozen is stored
\* with the blob of that very freeze, through any timeouts, retries, crashes and
\* restarts, unless that freeze had torn it (storeToDir after step 3).
THEOREM StoredSafe == Spec => []StoredComplete
<1>1. (~config.shared => IInv) => StoredComplete
  BY DEF IInv, StoredComplete
<1> QED
  BY Invariant, <1>1, PTL

\* In a Pod with one watcher, the kubelet never images it in the middle of a freeze
\* (Checkpoint, step 2).
THEOREM DumpSafe == Spec => []DumpNotMidFreeze
<1>1. (~config.shared => IInv) => DumpNotMidFreeze
  BY DEF IInv, DumpNotMidFreeze
<1> QED
  BY Invariant, <1>1, PTL

\* In a Pod with one watcher, no freeze writes the blob while the agent copies it to
\* the backend (storeToDir).
THEOREM BlobSafe == Spec => []BlobNotTorn
<1>1. (~config.shared => IInv) => BlobNotTorn
  BY DEF IInv, NoFreeze, BlobNotTorn, Dumping
<1> QED
  BY Invariant, <1>1, PTL

=============================================================================
