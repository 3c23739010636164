------------------------------ MODULE Storage ------------------------------
(***************************************************************************)
(* How a node agent brings a finished archive and its data blob into the   *)
(* backend of the request (internal/agent/checkpoint.go: store and all it  *)
(* calls; interceptor.go: copyFile; the destinations of replicas from      *)
(* perPodStorage in workloadcheckpoint_controller.go).                     *)
(*                                                                         *)
(* One agent, which handles one request at a time and repeats a failed     *)
(* one.  The run starts where the kubelet has left an archive on the node; *)
(* the blob is that of the same freeze (Checkpointer, StoredComplete), or  *)
(* there is none.  The mounts the agent made are gone when its Pod is      *)
(* replaced, and so is what its container keeps in file systems of its     *)
(* own.  A path is a sequence of names and a name, like a mount source, a  *)
(* sequence of characters, because the source decides where it is mounted. *)
(* No hostPath goes through "..", and /proc/mounts can be read.            *)
(***************************************************************************)
EXTENDS Integers, Sequences

LOCAL Q == INSTANCE SequencesExt

CONSTANTS
  Requests,   \* the names of the requests
  Scenarios,  \* what the agent may be given: options and requests, a subset of Scenario
  AgentMounts, \* the mounts the agent's container starts with: where -> what
  MountBase,  \* mountBase: the directory the agent mounts backends in
  MaxTime,    \* bound on the clock, in seconds
  MaxTries,   \* bound on runs of a request
  MaxFaults   \* bound on failed calls and crashes

Types == {"mount", "nfs", "hostPath", "s3"}   \* s3 stands for pvc and unknown ones too

Text == Seq(STRING)
Path == Seq(Text)

\* What a path leads to: a file system, and whether it outlasts the agent's Pod
\* (a backend and a volume do; the overlay root and a tmpfs do not).
FileSystem == [fs : STRING, source : Text, lasts : BOOLEAN]

\* A source with a part missing is <<>>; for nfs it is endpoint and path.
StorageSpec ==
  [type : Types, fsType : {"", "nfs", "cifs"}, source : Text,
   badOptions : BOOLEAN, path : Path, subPath : Path]

\* name: Pod, namespace and container in the archive's name; orchestrated: the
\* request is a child of a WorkloadCheckpoint.
Job == [storage : StorageSpec, name : STRING, pod : Text, orchestrated : BOOLEAN]

\* The options DryRun and PersistBlob of the agent, and its requests.
Scenario == [dryRun : BOOLEAN, persist : BOOLEAN, jobs : [Requests -> Job]]

ASSUME StorageAssumption ==
  /\ "none" \notin Requests   \* it stands for no request
  /\ Scenarios \subseteq Scenario
  /\ DOMAIN AgentMounts \subseteq Path /\ <<>> \in DOMAIN AgentMounts
  /\ AgentMounts \in [DOMAIN AgentMounts -> FileSystem]
  /\ MountBase \in Path
  /\ {MaxTime, MaxTries, MaxFaults} \subseteq Nat

VARIABLES
  agent,       \* the scenario; never changes
  now,         \* the clock
  pc,          \* where the agent is in store()
  req,         \* the request it works on
  run,         \* number of the run, and of its archive
  tries,       \* runs of each request so far
  local,       \* archives in the kubelet's directory
  mounts,      \* what is mounted under mountBase: name -> backend
  dst,         \* destination of the current run
  files,       \* what was written: destination -> the runs in .tar and .blob
  reported,    \* requests with the path they report
  faults,      \* faults that have happened
  broken,      \* history: runs that ended in an error or with the agent
  kept,        \* history: runs whose archive could not be removed
  bare,        \* history: runs that found no blob
  overwritten  \* history: runs whose files a later run of that name and second reused

runVars == <<pc, req, run, dst>>
historyVars == <<broken, kept, bare, overwritten>>
vars == <<agent, now, runVars, tries, local, mounts, files, reported, faults, historyVars>>

jobs == agent.jobs
NoRequest == "none"
NoDst == [place |-> AgentMounts[<<>>], dir |-> <<>>, name |-> "none", at |-> 0]
Torn == 0       \* a file that is open for writing; archives count from 1
Missing == -1   \* no such file
NoMounts == [m \in {} |-> <<>>]
NoFiles == [d \in {} |-> [tar |-> Missing, blob |-> Missing]]

Init ==
  /\ agent \in Scenarios
  /\ now = 0 /\ pc = "idle" /\ req = NoRequest /\ run = 0 /\ dst = NoDst
  /\ tries = [q \in Requests |-> 0]
  /\ local = {} /\ mounts = NoMounts /\ files = NoFiles
  /\ reported = {} /\ faults = 0
  /\ broken = {} /\ kept = {} /\ bare = {} /\ overwritten = {}

States == {"idle", "store", "mount", "dir", "openTar", "copyTar", "openBlob", "copyBlob",
           "remove", "report"}

TypeOK ==
  /\ agent \in Scenarios /\ now \in 0..MaxTime /\ pc \in States
  /\ req \in Requests \cup {NoRequest} /\ (pc = "idle") = (req = NoRequest)
  /\ tries \in [Requests -> 0..MaxTries]
  /\ local \subseteq 1..run /\ broken \cup kept \cup bare \cup overwritten \subseteq 1..run
  /\ \A d \in DOMAIN files : {files[d].tar, files[d].blob} \subseteq Missing..run
  /\ \A r \in reported : r.req \in Requests /\ r.run \in 1..run
  /\ faults \in 0..MaxFaults

Fault == faults < MaxFaults /\ faults' = faults + 1

-----------------------------------------------------------------------------
(* Destinations                                                            *)

\* Mutant: a mount is told apart by its path.
perPodStorageByPath(s, pod) ==
  IF s.type \in {"nfs", "s3"} THEN [s EXCEPT !.subPath = Append(@, pod)]
  ELSE [s EXCEPT !.path = Append(@, pod)]

\* perPodStorage(): the Pod's name is added to the destination.
perPodStorage(s, pod) ==
  IF s.type \in {"mount", "nfs", "s3"} THEN [s EXCEPT !.subPath = Append(@, pod)]
  ELSE [s EXCEPT !.path = Append(@, pod)]

\* The storage of the request as the agent gets it.
Storage(q) ==
  IF jobs[q].orchestrated THEN perPodStorage(jobs[q].storage, jobs[q].pod) ELSE jobs[q].storage

\* The backend a request names: file system type and source.
FsType(s) == IF s.type = "nfs" THEN "nfs" ELSE s.fsType
Backend(s) == [fs |-> FsType(s), source |-> s.source, lasts |-> TRUE]

\* The directory under the mount: nfs takes only the subPath (its path is the
\* export and part of the source here), mount the path when there is no subPath.
Subdir(s) == IF s.type = "mount" /\ s.subPath = <<>> THEN s.path ELSE s.subPath

\* sanitizeMount(): separators become "_", which is then cut off at both ends.
sanitizeMount(s) ==
  LET r == [k \in DOMAIN s |-> IF s[k] \in {"/", ":", " "} THEN "_" ELSE s[k]]
      Kept(c) == c # "_"
      first == Q!SelectInSeq(r, Kept)
  IN IF first = 0 THEN <<>> ELSE SubSeq(r, first, Q!SelectLastInSeq(r, Kept))

\* The mount point of a backend.
Mountpoint(s) == sanitizeMount(<<FsType(s), "_">> \o s.source)
isMountpoint(m) == m \in DOMAIN mounts

IsUnder(v, path) == Len(v) <= Len(path) /\ SubSeq(path, 1, Len(v)) = v

ASSUME MountBaseAssumption ==   \* nothing is mounted below it to begin with
  \A v \in DOMAIN AgentMounts : IsUnder(MountBase, v) => v = MountBase

\* The longest path the container starts with a mount at, on the way to path ...
best(path) ==
  CHOOSE v \in DOMAIN AgentMounts :
    /\ IsUnder(v, path)
    /\ \A w \in DOMAIN AgentMounts : IsUnder(w, path) => Len(w) <= Len(v)

\* ... unless the path leads into a backend that the agent has mounted.
InBackend(path) ==
  /\ IsUnder(MountBase, path) /\ Len(path) > Len(MountBase)
  /\ isMountpoint(path[Len(MountBase) + 1])
HostPlace(path) ==
  IF InBackend(path) THEN mounts[path[Len(MountBase) + 1]] ELSE AgentMounts[best(path)]

\* Mutant: any path will do.
ensureRealMountAny(path) == TRUE

\* ensureRealMount(): the path does not lie on the root, or the root is no
\* overlay.  Which other mount it lies on makes no difference.
IsReal(v) == v # <<>> \/ AgentMounts[v].fs # "overlay"
ensureRealMount(path) == InBackend(path) \/ IsReal(best(path))

\* Where files written for the request now would be.
Place(q) ==
  LET s == Storage(q)
  IN CASE s.type = "hostPath" -> HostPlace(s.path)
       [] s.type # "hostPath" /\ isMountpoint(Mountpoint(s)) -> mounts[Mountpoint(s)]
       [] OTHER -> AgentMounts[best(MountBase)]
Dir(q) == IF Storage(q).type = "hostPath" THEN Storage(q).path ELSE Subdir(Storage(q))

\* The name of the archive has the time in seconds.
Destination(q) == [place |-> Place(q), dir |-> Dir(q), name |-> jobs[q].name, at |-> now]

-----------------------------------------------------------------------------
(* A run of the pipeline, from the archive the kubelet produced            *)

Goto(from, to) == pc = from /\ pc' = to

\* Mutant: the request is still at hand for the next run.
LeaveAtHand == pc' = "idle" /\ UNCHANGED <<req, dst>>

\* Reconcile() goes on to other requests.
Leave == pc' = "idle" /\ req' = NoRequest /\ dst' = NoDst

\* A run has produced an archive, in the kubelet's directory unless it is a dry
\* run, for a request that has no recorded checkpoint.
Start(q) ==
  /\ Goto("idle", "store")
  /\ tries[q] < MaxTries /\ \A r \in reported : r.req # q
  /\ req' = q /\ run' = run + 1 /\ tries' = [tries EXCEPT ![q] = @ + 1]
  /\ local' = IF agent.dryRun THEN local ELSE local \cup {run + 1}
  /\ UNCHANGED <<agent, now, dst, mounts, files, reported, faults, historyVars>>

\* store() and storeMount() refuse: an unknown type, a part of the source
\* missing, or a path on the overlay.  The archive stays.
Refused(s) ==
  \/ s.type = "s3"
  \/ s.type \in {"mount", "nfs"} /\ (FsType(s) = "" \/ s.source = <<>>)
  \/ s.type = "hostPath" /\ ~agent.dryRun /\ ~ensureRealMount(s.path)

Refuse ==
  /\ pc = "store" /\ Refused(Storage(req))
  /\ Leave /\ broken' = broken \cup {run}
  /\ UNCHANGED <<agent, now, run, tries, local, mounts, files, reported, faults, kept, bare,
                 overwritten>>

Dispatch ==
  /\ pc = "store" /\ ~Refused(Storage(req))
  /\ pc' = IF Storage(req).type = "hostPath" \/ agent.dryRun THEN "dir" ELSE "mount"
  /\ UNCHANGED <<agent, now, req, run, dst, tries, local, mounts, files, reported, faults,
                 historyVars>>

\* Mutant: no second attempt.
CanMountOnce(s) == ~s.badOptions

\* mount(8) takes the options, or is tried again without them.
CanMount(s) == ~s.badOptions \/ FsType(s) = "nfs"

\* ensureMounted(): whatever is mounted there is kept.
Mount ==
  LET s == Storage(req)
      m == Mountpoint(s)
  IN
  /\ Goto("mount", "dir")
  /\ isMountpoint(m) \/ CanMount(s)
  /\ mounts' = IF isMountpoint(m) THEN mounts
               ELSE [k \in DOMAIN mounts \cup {m} |-> IF k = m THEN Backend(s) ELSE mounts[k]]
  /\ UNCHANGED <<agent, now, req, run, dst, tries, local, files, reported, faults, historyVars>>
MountFail ==
  LET s == Storage(req)
  IN
  /\ pc = "mount" /\ ~isMountpoint(Mountpoint(s))
  /\ IF CanMount(s) THEN Fault ELSE UNCHANGED faults
  /\ Leave /\ broken' = broken \cup {run}
  /\ UNCHANGED <<agent, now, run, tries, local, mounts, files, reported, kept, bare,
                 overwritten>>

\* The file at d now has the given contents.
Written(d, c) == [e \in DOMAIN files \cup {d} |-> IF e = d THEN c ELSE files[e]]
At(d) == IF d \in DOMAIN files THEN files[d] ELSE [tar |-> Missing, blob |-> Missing]

\* storeToDir(): the directory and the name; a dry run writes a few bytes.
Name ==
  LET d == Destination(req)
  IN
  /\ pc = "dir" /\ dst' = d
  /\ IF agent.dryRun
     THEN pc' = "report" /\ files' = Written(d, [At(d) EXCEPT !.tar = run])
     ELSE pc' = "openTar" /\ UNCHANGED files
  /\ overwritten' = overwritten \cup ({At(d).tar, At(d).blob} \ {Missing, Torn})
  /\ UNCHANGED <<agent, now, req, run, tries, local, mounts, reported, faults, broken, kept,
                 bare>>

\* Mutant: the archive is removed as soon as it is copied.
AfterTarRemoves == "remove"

\* The blob goes next to the archive, before the archive is removed ...
AfterTar == IF agent.persist THEN "openBlob" ELSE "remove"

\* ... unless there is none, or it is empty: that is a warning, and the run goes
\* on as if there had been one.
NoBlob ==
  /\ Goto("openBlob", "remove")
  /\ bare' = bare \cup {run}
  /\ UNCHANGED <<agent, now, req, run, dst, tries, local, mounts, files, reported, faults,
                 broken, kept, overwritten>>

\* copyFile(): opening the file empties it, the contents follow.
Copy(from, to, c) ==
  /\ Goto(from, to)
  /\ files' = Written(dst, c)
  /\ UNCHANGED <<agent, now, req, run, dst, tries, local, mounts, reported, faults, historyVars>>
OpenTar == Copy("openTar", "copyTar", [At(dst) EXCEPT !.tar = Torn])
CopyTar == Copy("copyTar", AfterTar, [At(dst) EXCEPT !.tar = run])
OpenBlob == Copy("openBlob", "copyBlob", [At(dst) EXCEPT !.blob = Torn])
CopyBlob == Copy("copyBlob", "remove", [At(dst) EXCEPT !.blob = run])

\* Mutant: the local archive is kept.
RemovedNone == local

\* os.Remove of the kubelet's archive ...
Removed == local \ {run}

Unlink ==
  /\ Goto("remove", "report")
  /\ local' = Removed
  /\ UNCHANGED <<agent, now, req, run, dst, tries, mounts, files, reported, faults, historyVars>>

\* ... whose failure is only logged: the run goes on.
UnlinkFail ==
  /\ Goto("remove", "report") /\ Fault
  /\ kept' = kept \cup {run}
  /\ UNCHANGED <<agent, now, req, run, dst, tries, local, mounts, files, reported, broken, bare,
                 overwritten>>

\* Any other call of store() fails, or the kubelet named no archive.
StoreFail ==
  /\ pc \in {"dir", "openTar", "copyTar", "openBlob", "copyBlob"} /\ Fault
  /\ Leave /\ broken' = broken \cup {run}
  /\ UNCHANGED <<agent, now, run, tries, local, mounts, files, reported, kept, bare,
                 overwritten>>

\* The checkpoint is recorded in the object's status ...
Report ==
  /\ pc = "report" /\ Leave
  /\ reported' = reported \cup {[req |-> req, dst |-> dst, run |-> run]}
  /\ UNCHANGED <<agent, now, run, tries, local, mounts, files, faults, historyVars>>

\* ... unless the update is refused: the run is made again, soon.
ReportFail ==
  /\ pc = "report" /\ Fault /\ Leave
  /\ UNCHANGED <<agent, now, run, tries, local, mounts, files, reported, historyVars>>

\* The agent dies, and another Pod of the DaemonSet takes its place.
Crash ==
  /\ pc # "idle" /\ Fault
  /\ Leave /\ broken' = broken \cup {run}
  /\ mounts' = NoMounts
  /\ files' = [d \in {e \in DOMAIN files : e.place.lasts} |-> files[d]]
  /\ UNCHANGED <<agent, now, run, tries, local, reported, kept, bare,
                 overwritten>>

Tick ==
  /\ now < MaxTime /\ now' = now + 1
  /\ UNCHANGED <<agent, runVars, tries, local, mounts, files, reported, faults, historyVars>>

\* Every request is done or out of tries.
Quiet ==
  /\ pc = "idle" /\ \A q \in Requests : tries[q] = MaxTries \/ \E r \in reported : r.req = q
  /\ UNCHANGED vars

Agent ==
  \/ Refuse \/ Dispatch \/ Mount \/ MountFail \/ Name \/ OpenTar \/ CopyTar \/ NoBlob
  \/ OpenBlob \/ CopyBlob \/ Unlink \/ UnlinkFail \/ StoreFail \/ Report \/ ReportFail

Starts == \E q \in Requests : Start(q)

Next == Agent \/ Crash \/ Tick \/ Quiet \/ Starts

\* The agent goes on, and the work queue is served: a request that failed is
\* taken up again.
Spec == Init /\ [][Next]_vars /\ WF_vars(Agent \/ Starts)

-----------------------------------------------------------------------------
(* Properties                                                              *)

\* A hostPath of the request does not lead to a mount that ensureRealMount takes
\* for a volume although it goes with the agent's Pod: a tmpfs of the container,
\* or a root that is no overlay.
Firm(q) ==
  LET v == best(Storage(q).path)
  IN Storage(q).type = "hostPath" /\ IsReal(v) => AgentMounts[v].lasts

\* The run's archive, and the blob when it is kept and there was one, are both
\* there in full.
Complete(d, k) ==
  /\ d \in DOMAIN files /\ files[d].tar = k
  /\ agent.persist /\ k \notin bare => files[d].blob = k

\* A path that an object reports holds, from then on and over any restart of the
\* agent, the archive and the blob, if there was one, of that very run: in the
\* backend the request names, or for a firm hostPath in something that lasts.
\* Excused are two runs of the same name in the same second (store: the mount
\* behind every path, the mount point of every source, the archive's name).
ReportedIntact ==
  \A r \in reported :
    ~agent.dryRun /\ Firm(r.req) /\ r.run \notin overwritten =>
      /\ Complete(r.dst, r.run)
      /\ IF jobs[r.req].storage.type = "hostPath" THEN r.dst.place.lasts
         ELSE r.dst.place = Backend(jobs[r.req].storage)

\* At any moment, whatever fails and whenever the agent dies, the archive of
\* every run is still on the node or stored in full, with the blob if there was
\* one, as long as every hostPath is firm (storeToDir: remove last).
NothingLost ==
  ~agent.dryRun /\ (\A q \in Requests : Firm(q)) =>
    \A k \in 1..run :
      k \in local \cup overwritten \/ \E d \in DOMAIN files : Complete(d, k)

\* An archive stays on the node only when its run failed or could not remove it.
\* A run that is made again because its status was refused leaves nothing behind,
\* however often that happens.  The object tells nobody of an archive that could
\* not be removed.
NoneLeft == local \subseteq broken \cup kept \cup (IF pc = "idle" THEN {} ELSE {run})

\* Replicas of one workload never write to the same directory, though
\* perPodStorage() and store() each have their own idea of which field counts
\* for which type.
ReplicasApart ==
  \A d, e \in {r \in reported : jobs[r.req].orchestrated} :
    jobs[d.req].pod # jobs[e.req].pod => <<d.dst.place, d.dst.dir>> # <<e.dst.place, e.dst.dir>>

\* A request for a supported, reachable backend is reported in the end, whatever
\* failed before and whatever other requests do; nfs also with options the
\* server does not take.
Supported(q) ==
  LET s == Storage(q)
  IN CASE s.type = "hostPath" -> IsReal(best(s.path))
       [] s.type \in {"mount", "nfs"} ->
            /\ FsType(s) # "" /\ s.source # <<>>
            /\ FsType(s) = "nfs" \/ ~s.badOptions
       [] OTHER -> FALSE
Delivered ==
  \A q \in Requests : (Supported(q) /\ ~agent.dryRun) ~> (\E r \in reported : r.req = q)

=============================================================================
