---------------------------- MODULE Checkpointer ----------------------------
(***************************************************************************)
(* The node agent's checkpoint pipeline (internal/agent/checkpoint.go and  *)
(* interceptor.go) against the watcher threads in the Pod                  *)
(* (interceptor/preload.c), over the one-word control file they share.     *)
(*                                                                         *)
(* Every process of the Pod that loads the library starts a watcher, all   *)
(* on one file; the process Owner has the GPU memory.  Agent and watchers  *)
(* write the file in two steps: opening it for writing empties it, and the *)
(* word follows.  The agent handles one request at a time and repeats a    *)
(* failed one; here that is the loop through "idle".  When it starts it    *)
(* installs the interception library again, over the one that running Pods *)
(* have mapped and starting Pods load.  The data engine is reduced to what *)
(* its calls do to the memory as a whole (see DataEngine): memory that is  *)
(* on the device (fresh) or off it (frozen), and what the blob holds.      *)
(***************************************************************************)
EXTENDS Naturals

CONSTANTS
  Owner,      \* the process that uses the GPU
  Others,     \* other processes of the Pod, such as the shell that starts it
  Configs,    \* settings of the agent (interception, dryRun, persist), whether
              \* the Pod's library finds its entry points (symbols), whether Others
              \* load the library too (shared), and the bound on timeouts, failed
              \* calls, crashes and restarts (maxFaults)
  MaxRuns,    \* bound on stored checkpoints (1: a one-shot request)
  MaxVer      \* bound on changes the application makes to its data

Config ==
  [interception : BOOLEAN, dryRun : BOOLEAN, persist : BOOLEAN, symbols : BOOLEAN,
   shared : BOOLEAN, maxFaults : Nat]
Procs == {Owner} \cup Others

ASSUME CheckpointerAssumption ==
  /\ Owner \notin Others /\ Configs \subseteq Config /\ Configs # {}
  /\ MaxRuns \in Nat \ {0} /\ MaxVer \in Nat

VARIABLES
  ctl,     \* the control file: "" or a word
  apc,     \* where the agent is in Checkpoint()
  config,  \* the settings
  tar,     \* the archive the kubelet produced in this run
  stored,  \* the last checkpoint in the backend
  runs,    \* CheckpointCount
  lib,     \* the interception library on the node
  wpc,     \* where each process's watcher is; "none" without the library
  owned,   \* g_owned[] has entries
  fresh,   \* some of them have their memory on the device
  frozen,  \* some of them have it off the device
  gate,    \* kernel launches are held
  blob,    \* version of the data in data.blob; NoBlob without a file, Torn
           \* when some of it is missing
  spoilt,  \* history: a failed copy or a second freeze has torn the blob
           \* of the data that is frozen now
  ver,     \* version of the application's data
  faults,  \* faults that have happened
  lost     \* history: a RESTORE never reached the Owner

agentVars == <<apc, config, tar, stored, runs, lib>>
memVars == <<owned, fresh, frozen, gate, blob, spoilt>>
podVars == <<wpc, memVars>>
vars == <<ctl, agentVars, podVars, ver, faults, lost>>

Words == {"", "idle", "ckpt", "restore", "gating"}
Vers == 0..MaxVer
NoBlob == MaxVer + 1
Torn == MaxVer + 2
Blobs == Vers \cup {NoBlob, Torn}
NoTar == [frozen |-> FALSE, ver |-> NoBlob, spoilt |-> FALSE, watcher |-> "poll"]
NoStored == [frozen |-> FALSE, ver |-> NoBlob, spoilt |-> FALSE, blob |-> NoBlob]
AgentStates == {"idle", "openCkpt", "writeCkpt", "waitFreeze", "kubelet", "openBest",
                "writeBest", "openRestore", "writeRestore", "waitRemap", "store", "down", "install"}
WatcherStates == {"none", "poll", "freeze", "openAck", "writeAck", "openGating", "writeGating",
                  "remap"}

TypeOK ==
  /\ ctl \in Words /\ apc \in AgentStates /\ config \in Config
  /\ tar \in [frozen : BOOLEAN, ver : Vers \cup {NoBlob}, spoilt : BOOLEAN, watcher : WatcherStates]
  /\ stored \in [frozen : BOOLEAN, ver : Vers \cup {NoBlob}, spoilt : BOOLEAN, blob : Blobs]
  /\ runs \in 0..MaxRuns /\ lib \in {"whole", "torn"}
  /\ wpc \in [Procs -> WatcherStates] /\ owned \in BOOLEAN /\ fresh \in BOOLEAN
  /\ frozen \in BOOLEAN /\ gate \in BOOLEAN /\ blob \in Blobs /\ spoilt \in BOOLEAN /\ ver \in Vers
  /\ faults \in 0..config.maxFaults /\ lost \in BOOLEAN

\* Who starts a watcher with the library.
Loads(p) == p = Owner \/ config.shared

\* The Pod may have been started before the first Install(): it has no watcher.
Init ==
  /\ ctl = "" /\ apc = "idle" /\ config \in Configs
  /\ tar = NoTar /\ stored = NoStored /\ runs = 0 /\ lib = "whole"
  /\ \E w \in {"poll", "none"} : wpc = [p \in Procs |-> IF Loads(p) THEN w ELSE "none"]
  /\ owned = FALSE /\ fresh = FALSE /\ frozen = FALSE /\ gate = FALSE /\ blob = NoBlob
  /\ spoilt = FALSE /\ ver = 0 /\ faults = 0 /\ lost = FALSE

\* A step that only a fault explains, within the bound on faults.
Fault == faults < config.maxFaults /\ faults' = faults + 1

-----------------------------------------------------------------------------
(* The agent                                                               *)

Goto(from, to) == apc = from /\ apc' = to

\* Mutant: Reconcile() does not look at LastCheckpointTime.
DueAlways == TRUE

\* A checkpoint is due; MaxRuns = 1 is the one-shot request.
Due == runs < MaxRuns

\* Reconcile() calls Checkpoint() for a due request or a failed one.
Start ==
  /\ Due
  /\ Goto("idle", IF config.interception THEN "openCkpt" ELSE "kubelet")
  /\ tar' = NoTar
  /\ UNCHANGED <<ctl, config, stored, runs, lib, podVars, ver, faults, lost>>

\* Mutant: a word that is still there is not overwritten.
SignalOpenPolite(from, to) ==
  /\ Goto(from, to)
  /\ ctl \in {"", "idle"} /\ ctl' = ""
  /\ UNCHANGED <<config, tar, stored, runs, lib, podVars, ver, faults, lost>>

\* Signal(): os.WriteFile empties the control file and then writes the word.
SignalOpen(from, to) ==
  /\ Goto(from, to)
  /\ ctl' = ""
  /\ UNCHANGED <<config, tar, stored, runs, lib, podVars, ver, faults, lost>>
SignalWrite(from, word, to) ==
  /\ Goto(from, to)
  /\ ctl' = word
  /\ UNCHANGED <<config, tar, stored, runs, lib, podVars, ver, faults, lost>>
SignalFail(from, to) ==
  /\ \E step \in from : Goto(step, to)
  /\ Fault
  /\ lost' = (lost \/ "openCkpt" \notin from)
  /\ UNCHANGED <<ctl, config, tar, stored, runs, lib, podVars, ver>>

\* Where the pipeline goes once a signal is written: a dry run does not wait.
AfterCkpt == IF config.dryRun THEN "kubelet" ELSE "waitFreeze"
AfterRestore == IF config.dryRun THEN "store" ELSE "waitRemap"

SignalCkpt ==
  \/ SignalOpen("openCkpt", "writeCkpt")
  \/ SignalWrite("writeCkpt", "ckpt", AfterCkpt)
  \/ SignalFail({"openCkpt", "writeCkpt"}, "idle")

\* Mutant: WaitForAck() has no deadline.
UnansweredNever == FALSE

\* Nobody will write the ACK: there is no watcher, or the process that wrote
\* GATING is gone.
Unanswered ==
  \/ (\A p \in Procs : wpc[p] = "none") /\ ctl \notin {"", "idle"}
  \/ (\A p \in Procs : wpc[p] \in {"none", "poll"}) /\ ctl = "gating"

\* WaitForAck() gives up after 120 seconds.
Timeout == IF Unanswered THEN UNCHANGED faults ELSE Fault

\* Mutant: any answer will do.
AckSeenAny == TRUE

\* WaitForAck(): an empty file counts as the ACK.
AckSeen == ctl \in {"", "idle"}

WaitFreeze ==
  /\ AckSeen
  /\ Goto("waitFreeze", "kubelet")
  /\ UNCHANGED <<ctl, config, tar, stored, runs, lib, podVars, ver, faults, lost>>

\* Mutant: the time-out of the freeze is only logged, as that of the remap is.
AfterLateFreezeGoesOn == "kubelet"

\* A freeze that does not answer fails the run, and nothing is remapped.
AfterLateFreeze == "idle"

FreezeTimeout ==
  /\ Goto("waitFreeze", AfterLateFreeze) /\ Timeout
  /\ UNCHANGED <<ctl, config, tar, stored, runs, lib, podVars, ver, lost>>

\* Mutant: the remap is left to the next run.
AfterDumpStores == "store"

AfterDump == IF config.interception THEN "openRestore" ELSE "store"

\* The kubelet checkpoints the container: an image of the Pod as it is.
KubeletCheckpoint ==
  /\ Goto("kubelet", AfterDump)
  /\ tar' = IF config.dryRun THEN tar
            ELSE [frozen |-> frozen, ver |-> ver, spoilt |-> spoilt, watcher |-> wpc[Owner]]
  /\ UNCHANGED <<ctl, config, stored, runs, lib, podVars, ver, faults, lost>>

\* It fails: a RESTORE is written, not waited for, and the run fails.
KubeletFail ==
  /\ ~config.dryRun
  /\ Goto("kubelet", IF config.interception THEN "openBest" ELSE "idle") /\ Fault
  /\ UNCHANGED <<ctl, config, tar, stored, runs, lib, podVars, ver, lost>>

SignalBest ==
  \/ SignalOpen("openBest", "writeBest")
  \/ SignalWrite("writeBest", "restore", "idle")
  \/ SignalFail({"openBest", "writeBest"}, "idle")

\* The remap is requested; a failure to write is only logged.
SignalRestore ==
  \/ SignalOpen("openRestore", "writeRestore")
  \/ SignalWrite("writeRestore", "restore", AfterRestore)
  \/ SignalFail({"openRestore", "writeRestore"}, "store")

WaitRemap ==
  /\ AckSeen
  /\ Goto("waitRemap", "store")
  /\ UNCHANGED <<ctl, config, tar, stored, runs, lib, podVars, ver, faults, lost>>

\* Only logged: the run goes on.
RemapTimeout ==
  /\ Goto("waitRemap", "store") /\ Timeout
  /\ UNCHANGED <<ctl, config, tar, stored, runs, lib, podVars, ver, lost>>

\* The archive and, when there is one, the blob as it is now are copied.
Store ==
  /\ Goto("store", "idle")
  /\ stored' = [frozen |-> tar.frozen, ver |-> tar.ver, spoilt |-> tar.spoilt,
                blob |-> IF config.interception /\ config.persist /\ ~config.dryRun
                         THEN blob ELSE NoBlob]
  /\ runs' = runs + 1
  /\ UNCHANGED <<ctl, config, tar, lib, podVars, ver, faults, lost>>

\* What a failed copy leaves in the backend is reported to nobody.
StoreFail ==
  /\ Goto("store", "idle") /\ Fault
  /\ UNCHANGED <<ctl, config, tar, stored, runs, lib, podVars, ver, lost>>

\* The agent's container dies between any two steps and is started again
\* with the same settings; the request is still there.
Crash ==
  /\ apc \notin {"idle", "down"}
  /\ apc' = "down" /\ tar' = NoTar /\ Fault
  /\ UNCHANGED <<ctl, config, stored, runs, lib, podVars, ver, lost>>

\* main() calls Install(), which copies the library over the old one: opening it
\* empties it.
InstallOpen ==
  /\ Goto("down", "install") /\ lib' = "torn"
  /\ UNCHANGED <<ctl, config, tar, stored, runs, podVars, ver, faults, lost>>
InstallCopy ==
  /\ Goto("install", "idle") /\ lib' = "whole"
  /\ UNCHANGED <<ctl, config, tar, stored, runs, podVars, ver, faults, lost>>

\* A failed copy ends the process; a directory that cannot be read does not.
InstallFail ==
  /\ Goto("install", "down") /\ Fault
  /\ UNCHANGED <<ctl, config, tar, stored, runs, lib, podVars, ver, lost>>
InstallSkip ==
  /\ Goto("down", "idle") /\ Fault
  /\ UNCHANGED <<ctl, config, tar, stored, runs, lib, podVars, ver, lost>>

Pipeline ==
  \/ Start \/ SignalCkpt \/ WaitFreeze \/ KubeletCheckpoint \/ SignalBest
  \/ SignalRestore \/ WaitRemap \/ Store \/ FreezeTimeout \/ RemapTimeout
  \/ InstallOpen \/ InstallCopy
AgentFault == KubeletFail \/ StoreFail \/ Crash \/ InstallFail \/ InstallSkip

-----------------------------------------------------------------------------
(* The watchers in the Pod                                                 *)

WGoto(p, from, to) == wpc[p] = from /\ wpc' = [wpc EXCEPT ![p] = to]

\* Mutant: the freeze does not raise the gate.
FreezeGateOpen == gate

\* checkpoint_freeze() raises the gate before it touches the data.
FreezeGate == TRUE

\* A process without memory of its own, or without the entry points, has nothing
\* to freeze, and answers at once.
Freezes(p) == p = Owner /\ owned /\ config.symbols

ReadCkpt(p) ==
  /\ ctl = "ckpt"
  /\ IF Freezes(p) THEN WGoto(p, "poll", "freeze") /\ gate' = FreezeGate
     ELSE WGoto(p, "poll", "openAck") /\ UNCHANGED gate
  /\ UNCHANGED <<ctl, agentVars, owned, fresh, frozen, blob, spoilt, ver, faults, lost>>

\* What is on the device is laid out from the start of the blob, also over data
\* that is frozen already; with nothing on the device the blob is left alone.
Freeze ==
  /\ WGoto(Owner, "freeze", "openAck")
  /\ IF fresh THEN /\ fresh' = FALSE /\ frozen' = TRUE /\ spoilt' = frozen
                   /\ blob' = IF frozen THEN Torn ELSE ver
     ELSE UNCHANGED <<fresh, frozen, blob, spoilt>>
  /\ UNCHANGED <<ctl, agentVars, owned, gate, ver, faults, lost>>

\* The blob cannot be mapped, perhaps after it was resized: nothing is frozen.
BlobMapFail ==
  /\ blob' \in {blob, Torn} /\ spoilt' = (spoilt \/ blob' = Torn)
  /\ UNCHANGED <<fresh, frozen>>

\* A copy fails: the memory is given back all the same.
CopyFail == fresh' = FALSE /\ frozen' = TRUE /\ blob' = Torn /\ spoilt' = TRUE

\* Neither failure shows in the answer.
FreezeFail ==
  /\ WGoto(Owner, "freeze", "openAck") /\ fresh /\ Fault
  /\ BlobMapFail \/ CopyFail
  /\ UNCHANGED <<ctl, agentVars, owned, gate, ver, lost>>

\* Mutant: the gate is lowered before the remap, not after it.
RemapGateDown == FALSE

\* The watcher makes sure that the gate is up before the remap.
RemapGate == TRUE

ReadRestore(p) ==
  /\ ctl = "restore"
  /\ IF p = Owner /\ owned THEN WGoto(p, "poll", "openGating") /\ gate' = RemapGate
     ELSE WGoto(p, "poll", "openAck") /\ UNCHANGED gate
  /\ UNCHANGED <<ctl, agentVars, owned, fresh, frozen, blob, spoilt, ver, faults, lost>>

\* An ACK takes the place of a RESTORE that is still needed.
LosesRestore(from) == ctl = "restore" /\ gate /\ from \in {"openAck", "writeAck"}

\* write_signal(): fopen("w") empties the file, fclose writes the word.
WatcherOpen(p, from, to) ==
  /\ WGoto(p, from, to)
  /\ ctl' = ""
  /\ lost' = (lost \/ LosesRestore(from))
  /\ UNCHANGED <<agentVars, memVars, ver, faults>>
WatcherWrite(p, from, word, to) ==
  /\ WGoto(p, from, to)
  /\ ctl' = word
  /\ lost' = (lost \/ LosesRestore(from))
  /\ UNCHANGED <<agentVars, memVars, ver, faults>>

\* fopen failed: the word is skipped and the watcher goes on.
WatcherOpenFail(p, from, to) ==
  /\ WGoto(p, from, to) /\ Fault
  /\ UNCHANGED <<ctl, agentVars, memVars, ver, lost>>

WriteGating ==
  \/ WatcherOpen(Owner, "openGating", "writeGating")
  \/ WatcherWrite(Owner, "writeGating", "gating", "remap")
  \/ WatcherOpenFail(Owner, "openGating", "remap")

\* restore_remap(), then the gate is lowered.
Remap ==
  /\ WGoto(Owner, "remap", "openAck")
  /\ fresh' = (fresh \/ frozen) /\ frozen' = FALSE /\ gate' = FALSE /\ spoilt' = FALSE
  /\ UNCHANGED <<ctl, agentVars, owned, blob, ver, faults, lost>>

WriteAck(p) ==
  \/ WatcherOpen(p, "openAck", "writeAck")
  \/ WatcherWrite(p, "writeAck", "idle", "poll")
  \/ WatcherOpenFail(p, "openAck", "poll")

Engine == Freeze \/ FreezeFail \/ WriteGating \/ Remap
Watcher(p) == ReadCkpt(p) \/ ReadRestore(p) \/ WriteAck(p) \/ (p = Owner /\ Engine)

\* A kernel changes the data.
AppStep ==
  /\ ~gate /\ ver < MaxVer
  /\ ver' = ver + 1
  /\ UNCHANGED <<ctl, agentVars, podVars, faults, lost>>

\* cudaMalloc and cudaFree are not held by the gate; entries stay in the table.
\* The memory a kernel has not written yet belongs to the data of the moment.
Malloc ==
  /\ ~fresh /\ owned' = TRUE /\ fresh' = TRUE
  /\ UNCHANGED <<ctl, agentVars, wpc, frozen, gate, blob, spoilt, ver, faults, lost>>
FreeAll ==
  /\ fresh /\ fresh' = FALSE
  /\ UNCHANGED <<ctl, agentVars, wpc, owned, frozen, gate, blob, spoilt, ver, faults, lost>>

\* The workload's container is started again, perhaps in the middle of a freeze:
\* new processes on fresh memory, on the same control file and the same data.blob.
\* The loader goes on without a library it cannot load.
PodRestart ==
  /\ Fault
  /\ wpc' = [p \in Procs |-> IF lib = "whole" /\ Loads(p) THEN "poll" ELSE "none"]
  /\ owned' = FALSE /\ fresh' = FALSE /\ frozen' = FALSE /\ gate' = FALSE /\ spoilt' = FALSE
  /\ blob' \in {blob} \cup (IF wpc[Owner] = "freeze" THEN {Torn} ELSE {})
  /\ UNCHANGED <<ctl, agentVars, ver, lost>>

\* The watchers find no request and sleep.
PollIdle ==
  /\ \A p \in Procs : wpc[p] = "none" \/ (wpc[p] = "poll" /\ ctl \notin {"ckpt", "restore"})
  /\ UNCHANGED vars

Application == AppStep \/ Malloc \/ FreeAll \/ PodRestart

Next == Pipeline \/ AgentFault \/ (\E p \in Procs : Watcher(p)) \/ Application \/ PollIdle

Spec == Init /\ [][Next]_vars /\ WF_vars(Pipeline) /\ \A p \in Procs : WF_vars(Watcher(p))

-----------------------------------------------------------------------------
(* Properties                                                              *)

\* An archive of a Pod whose data was frozen is stored with the blob of that
\* very freeze: the copy made after the remap and after any timeout, retry or
\* restart still finds the data the archive lacks (storeToDir after step 3).
\* For a Pod with one watcher, and unless the blob was torn before the archive
\* was made: by a freeze with a failed copy, or by a second one after cudaMalloc.
StoredComplete ==
  /\ ~config.shared /\ config.persist /\ ~config.dryRun
  /\ stored.frozen /\ ~stored.spoilt
  => stored.blob = stored.ver

\* In a Pod with one watcher the kubelet never images a process that is copying
\* its data out (step 2 only after the ACK of step 1), however the earlier runs
\* ended.  A second watcher answers for the first and breaks it.
DumpNotMidFreeze == ~config.shared => tar.watcher # "freeze"

\* In a Pod with one watcher the blob is not written while it is copied to the
\* backend: no freeze runs while the agent stores, late as the watcher may be
\* (step 4, off the workload's downtime).  Store being one step rests on it.
BlobNotTorn == ~config.shared /\ apc = "store" /\ ~config.dryRun => wpc[Owner] # "freeze"

\* Whatever the other watchers of the Pod do to the control file: while data is
\* off the device launches are held, and the blob has the data, but for what a
\* failed copy or a second freeze has torn.
FrozenInBlob == frozen => gate /\ (blob = ver \/ spoilt)

\* The run of a request comes to an end, with a checkpoint or an error.
AgentReturns == (apc # "idle") ~> (apc = "idle")

\* However earlier runs ended, and whatever they left in the control file, the
\* request gets its checkpoints: one of the runs Reconcile() repeats succeeds, but
\* for a Pod that was started before or during Install() and has no watcher.
Retried == <>(~Due \/ wpc[Owner] = "none")

\* The workload runs again after a freeze, also one that held it and froze nothing,
\* unless a RESTORE could not be written or was overwritten in the control file: by
\* the ACK of the freeze, or by that of a watcher that took it for its own.
Resumed == gate ~> (~gate \/ lost)

\* The same without the exception: the remap of step 3 resumes the workload.
AlwaysResumed == frozen ~> ~frozen

=============================================================================
