--------------------------- MODULE StorageProofs ---------------------------
(***************************************************************************)
(* Proofs about Storage, for any requests, backends and volumes, any       *)
(* number of tries, faults and restarts, and any lapse of time.            *)
(*                                                                         *)
(* The argument follows the run in progress: what it has at its            *)
(* destination, that the destination of a firm request lasts, and that     *)
(* what was at the destination before is on the list of overwritten runs   *)
(* before the first byte is written.                                       *)
(***************************************************************************)
EXTENDS Storage, SequenceTheorems, TLAPS

\* The run has its destination.
Named == {"openTar", "copyTar", "openBlob", "copyBlob", "remove", "report"}
Content(k) == [tar : Missing..k, blob : Missing..k]

-----------------------------------------------------------------------------
(* Types                                                                   *)

\* A run in progress has a number, and every file holds what some run wrote.
Shape ==
  /\ run \in Nat /\ (pc # "idle" => run # 0)
  /\ files \in [DOMAIN files -> Content(run)]
TypeInv == TypeOK /\ Shape

\* A file that does not exist, or was emptied, or holds the run.
LEMMA AtTypes ==
  ASSUME TypeInv, NEW d
  PROVE  /\ At(d) \in Content(run)
         /\ \A k \in {Torn, run} : /\ [At(d) EXCEPT !.tar = k] \in Content(run)
                                   /\ [At(d) EXCEPT !.blob = k] \in Content(run)
<1> USE DEF TypeInv, Shape, Content, Missing, Torn
<1>1. At(d) \in Content(run)
  <2>1. CASE d \in DOMAIN files
    BY <2>1 DEF At
  <2>2. CASE d \notin DOMAIN files
    BY <2>2 DEF At
  <2> QED
    BY <2>1, <2>2
<1>2. Torn \in Missing..run /\ run \in Missing..run
  OBVIOUS
<1> QED
  BY <1>1, <1>2

\* Writing at d leaves the other files as they are.
LEMMA Writes ==
  ASSUME NEW d, NEW c, files' = Written(d, c)
  PROVE  /\ DOMAIN files' = DOMAIN files \cup {d}
         /\ files'[d] = c
         /\ \A e \in DOMAIN files : e # d => files'[e] = files[e]
BY DEF Written

LEMMA WritesTypes ==
  ASSUME TypeInv, NEW d, NEW c \in Content(run), files' = Written(d, c)
  PROVE  files' \in [DOMAIN files' -> Content(run)]
BY DEF Written, TypeInv, Shape

LEMMA FilesTypes ==
  ASSUME NEW k \in Nat, NEW f, f \in [DOMAIN f -> Content(k)]
  PROVE  \A d \in DOMAIN f : {f[d].tar, f[d].blob} \subseteq Missing..k
BY DEF Content

LEMMA FaultTypes ==
  ASSUME TypeOK, Fault \/ UNCHANGED faults
  PROVE  faults' \in 0..MaxFaults
BY StorageAssumption DEF TypeOK, Fault

LEMMA TypeInit == Init => TypeInv
<1> SUFFICES ASSUME Init PROVE TypeInv
  OBVIOUS
<1>1. now \in 0..MaxTime /\ faults \in 0..MaxFaults /\ tries \in [Requests -> 0..MaxTries]
  <2>1. {MaxTime, MaxTries, MaxFaults} \subseteq Nat
    BY StorageAssumption
  <2> QED
    BY <2>1 DEF Init
<1>2. DOMAIN files = {} /\ files \in [DOMAIN files -> Content(run)]
  BY DEF Init, NoFiles
<1> QED
  BY <1>1, <1>2 DEF Init, TypeInv, TypeOK, Shape, States, NoRequest

\* The agent's options and requests never change.
LEMMA Same == [Next]_vars => agent' = agent
BY DEF Next, Agent, Starts, Start, Refuse, Dispatch, Mount, MountFail, Name, Copy, OpenTar,
       CopyTar, NoBlob, OpenBlob, CopyBlob, Unlink, UnlinkFail, StoreFail, Report, ReportFail, Crash,
       Tick, Quiet, vars, runVars

\* A step of the run in progress that goes on, or ends it.
Kept == UNCHANGED <<agent, now, run, tries>>
LEMMA TypeKept ==
  ASSUME TypeInv, Kept, pc # "idle",
         pc' \in States, Leave \/ (pc' # "idle" /\ UNCHANGED req),
         Fault \/ UNCHANGED faults,
         local' \subseteq local,
         broken' \subseteq broken \cup {run},
         kept' \subseteq kept \cup {run}, bare' \subseteq bare \cup {run},
         overwritten' \subseteq 1..run,
         files' \in [DOMAIN files' -> Content(run)],
         \A r \in reported' : r.req \in Requests /\ r.run \in 1..run
  PROVE  TypeInv'
<1>1. (pc' = "idle") = (req' = NoRequest) /\ req' \in Requests \cup {NoRequest}
  BY DEF Leave, TypeInv, TypeOK
<1>2. faults' \in 0..MaxFaults
  BY FaultTypes DEF TypeInv
<1>3. run' \in Nat /\ run' # 0 /\ run' = run
  BY DEF TypeInv, Shape, Kept
<1>4. \A d \in DOMAIN files' : {files'[d].tar, files'[d].blob} \subseteq Missing..run
  BY <1>3, FilesTypes
<1>5. /\ local' \subseteq 1..run /\ broken' \subseteq 1..run
      /\ kept' \subseteq 1..run /\ bare' \subseteq 1..run
  BY <1>3 DEF TypeInv, TypeOK
<1>6. agent' \in Scenarios /\ now' \in 0..MaxTime /\ tries' \in [Requests -> 0..MaxTries]
  BY DEF TypeInv, TypeOK, Kept
<1>7. Missing' = Missing
  BY DEF Missing
<1>8. TypeOK'
  BY <1>1, <1>2, <1>3, <1>4, <1>5, <1>6, <1>7 DEF TypeOK
<1> QED
  BY <1>3, <1>8 DEF TypeInv, Shape, Content, Missing

LEMMA TypeStep == TypeInv /\ [Next]_vars => TypeInv'
<1> SUFFICES ASSUME TypeInv, [Next]_vars PROVE TypeInv'
  OBVIOUS
<1>0. /\ run \in Nat /\ pc \in States /\ files \in [DOMAIN files -> Content(run)]
      /\ local \subseteq 1..run /\ overwritten \subseteq 1..run /\ broken \subseteq 1..run
      /\ kept \subseteq 1..run /\ bare \subseteq 1..run
      /\ \A r \in reported : r.req \in Requests /\ r.run \in 1..run
      /\ pc # "idle" => run \in 1..run /\ req \in Requests
  BY DEF TypeInv, TypeOK, Shape
<1>1. CASE UNCHANGED vars
  BY <1>1 DEF vars, runVars, historyVars, TypeInv, TypeOK, Shape, Content, Missing
<1>2. ASSUME NEW q \in Requests, Start(q) PROVE TypeInv'
  <2>1. /\ pc' = "store" /\ req' = q /\ run' = run + 1 /\ faults' = faults
        /\ UNCHANGED <<agent, now, files, reported, broken, kept, bare, overwritten>>
    BY <1>2 DEF Start, Goto, historyVars
  <2>2. tries' \in [Requests -> 0..MaxTries]
    <3>1. tries \in [Requests -> 0..MaxTries] /\ MaxTries \in Nat /\ tries[q] < MaxTries
      BY <1>2, StorageAssumption DEF TypeInv, TypeOK, Start
    <3>2. tries' = [tries EXCEPT ![q] = tries[q] + 1]
      BY <1>2 DEF Start
    <3> QED
      BY <3>1, <3>2
  <2>3. local' \subseteq 1..(run + 1)
    BY <1>2, <1>0 DEF Start
  <2>4. files \in [DOMAIN files -> Content(run + 1)]
    <3>1. Content(run) \subseteq Content(run + 1)
      BY <1>0 DEF Content, Missing
    <3> QED
      BY <1>0, <3>1
  <2>5. \A d \in DOMAIN files : {files[d].tar, files[d].blob} \subseteq Missing..(run + 1)
    BY <1>0, <2>4, FilesTypes
  <2>6. /\ broken \subseteq 1..(run + 1) /\ overwritten \subseteq 1..(run + 1)
        /\ kept \subseteq 1..(run + 1) /\ bare \subseteq 1..(run + 1)
        /\ \A r \in reported : r.req \in Requests /\ r.run \in 1..(run + 1)
    BY <1>0
  <2>7. req' # NoRequest /\ run' \in Nat /\ run' # 0
    BY <1>0, <2>1, StorageAssumption DEF NoRequest
  <2>8. TypeOK'
    BY <2>1, <2>2, <2>3, <2>5, <2>6, <2>7 DEF TypeInv, TypeOK, States, Missing
  <2> QED
    BY <2>1, <2>4, <2>7, <2>8 DEF TypeInv, Shape, Content, Missing
<1>3. CASE Tick
  <2>1. now' \in 0..MaxTime
    BY <1>3, StorageAssumption DEF Tick, TypeInv, TypeOK
  <2> QED
    BY <1>3, <2>1 DEF Tick, runVars, historyVars, TypeInv, TypeOK, Shape, Content, Missing
<1>4. CASE Quiet
  BY <1>1, <1>4 DEF Quiet
<1>5. CASE Refuse \/ MountFail \/ StoreFail \/ ReportFail
  <2>1. /\ Kept /\ pc # "idle" /\ Leave /\ (Fault \/ UNCHANGED faults)
        /\ UNCHANGED <<local, files, reported, kept, bare, overwritten>>
        /\ broken' \subseteq broken \cup {run}
    BY <1>5 DEF Refuse, MountFail, StoreFail, ReportFail, Kept, historyVars
  <2>2. pc' \in States
    BY <2>1 DEF Leave, States
  <2> QED
    BY <1>0, <2>1, <2>2, TypeKept
<1>6. CASE Dispatch \/ Mount \/ NoBlob \/ Unlink \/ UnlinkFail
  <2>1. /\ Kept /\ pc # "idle" /\ UNCHANGED req /\ (Fault \/ UNCHANGED faults)
        /\ UNCHANGED <<files, reported, overwritten>> /\ local' \subseteq local
        /\ broken' \subseteq broken \cup {run} /\ pc' \in States /\ pc' # "idle"
        /\ kept' \subseteq kept \cup {run} /\ bare' \subseteq bare \cup {run}
    BY <1>6 DEF Dispatch, Mount, NoBlob, Unlink, UnlinkFail, Goto, Removed, Kept, historyVars, States
  <2> QED
    BY <1>0, <2>1, TypeKept
<1>7. CASE Name
  <2> DEFINE d == Destination(req)
             at == At(d)
  <2>1. /\ Kept /\ pc = "dir" /\ UNCHANGED <<req, faults, local, reported, broken, kept, bare>>
        /\ overwritten' = overwritten \cup ({at.tar, at.blob} \ {Missing, Torn})
        /\ pc' \in {"report", "openTar"}
        /\ files' = Written(d, [at EXCEPT !.tar = run]) \/ UNCHANGED files
    BY <1>7 DEF Name, Kept
  <2>2. at \in Content(run) /\ [at EXCEPT !.tar = run] \in Content(run)
    BY AtTypes
  <2>3. overwritten' \subseteq 1..run
    BY <1>0, <2>1, <2>2 DEF Content, Missing, Torn
  <2>4. files' \in [DOMAIN files' -> Content(run)]
    BY <1>0, <2>1, <2>2, WritesTypes
  <2>5. pc' \in States /\ pc' # "idle" /\ pc # "idle"
    BY <2>1 DEF States
  <2> HIDE DEF d, at
  <2> QED
    BY <1>0, <2>1, <2>3, <2>4, <2>5, TypeKept
<1>8. CASE OpenTar \/ CopyTar \/ OpenBlob \/ CopyBlob
  <2>1. PICK c \in Content(run) : files' = Written(dst, c)
    BY <1>8, AtTypes DEF OpenTar, CopyTar, OpenBlob, CopyBlob, Copy
  <2>2. /\ Kept /\ pc # "idle" /\ pc' \in States \ {"idle"}
        /\ UNCHANGED <<req, faults, local, reported, broken, kept, bare, overwritten>>
    BY <1>8 DEF OpenTar, CopyTar, OpenBlob, CopyBlob, Copy, Goto, AfterTar, Kept, historyVars, States
  <2>3. files' \in [DOMAIN files' -> Content(run)]
    BY <2>1, WritesTypes
  <2> QED
    BY <1>0, <2>2, <2>3, TypeKept
<1>9. CASE Report
  <2>1. /\ Kept /\ pc = "report" /\ Leave
        /\ UNCHANGED <<faults, local, files, broken, kept, bare, overwritten>>
        /\ reported' = reported \cup {[req |-> req, dst |-> dst, run |-> run]}
    BY <1>9 DEF Report, Kept, historyVars
  <2>2. pc' \in States
    BY <2>1 DEF Leave, States
  <2>3. \A r \in reported' : r.req \in Requests /\ r.run \in 1..run
    BY <1>0, <2>1
  <2> QED
    BY <1>0, <2>1, <2>2, <2>3, TypeKept
<1>10. CASE Crash
  <2>1. /\ Kept /\ pc # "idle" /\ Leave /\ Fault /\ UNCHANGED <<local, reported, kept, bare, overwritten>>
        /\ broken' = broken \cup {run}
        /\ files' = [d \in {e \in DOMAIN files : e.place.lasts} |-> files[d]]
    BY <1>10 DEF Crash, Kept
  <2>2. pc' \in States
    BY <2>1 DEF Leave, States
  <2>3. files' \in [DOMAIN files' -> Content(run)]
    BY <1>0, <2>1
  <2> QED
    BY <1>0, <2>1, <2>2, <2>3, TypeKept
<1> QED
  BY <1>1, <1>2, <1>3, <1>4, <1>5, <1>6, <1>7, <1>8, <1>9, <1>10 DEF Next, Agent, Starts

-----------------------------------------------------------------------------
(* The run in progress                                                     *)

Sharing(p, q) ==
  /\ Storage(p).type # "hostPath" /\ Storage(q).type # "hostPath"
  /\ Mountpoint(Storage(p)) = Mountpoint(Storage(q))

\* Whatever is mounted is the backend of a request, at that backend's mount point.
Mounted ==
  \A m \in DOMAIN mounts :
    \E p \in Requests : /\ Storage(p).type # "hostPath"
                        /\ m = Mountpoint(Storage(p)) /\ mounts[m] = Backend(Storage(p))

\* The place lasts, unless the hostPath is not firm, or is a backend that has the
\* mount point of the request's.
InPlace(q, place) ==
  IF Storage(q).type = "hostPath" THEN Firm(q) => place.lasts
  ELSE \E p \in Requests : Sharing(p, q) /\ place = Backend(Storage(p))

\* The destination is ready: no overlay root, or mounted.
Ready(q) ==
  IF Storage(q).type = "hostPath" THEN ensureRealMount(Storage(q).path)
  ELSE isMountpoint(Mountpoint(Storage(q)))

\* If every request is firm, no file goes with the agent's Pod.
Firmly == \A q \in Requests : Firm(q)
Lasting == Firmly => \A d \in DOMAIN files : d.place.lasts

Placed ==
  /\ pc = "mount" => Storage(req).type # "hostPath"
  /\ pc = "dir" => Ready(req)
  /\ pc \in Named => InPlace(req, dst.place)
  /\ Lasting

\* The archive is on the node until the run has stored it.
AtHand == pc \notin {"idle", "report"} => run \in local

\* What was at the destination before counts as overwritten.
Before ==
  pc \in Named => {At(dst).tar, At(dst).blob} \subseteq {Missing, Torn, run} \cup overwritten

\* How far the run has come.
Progress ==
  /\ pc \in {"openBlob", "copyBlob", "remove"} => dst \in DOMAIN files /\ files[dst].tar = run
  /\ pc \in {"remove", "report"} => Complete(dst, run)

RunInv == ~agent.dryRun => Mounted /\ Placed /\ AtHand /\ Before /\ Progress

\* What is in place for a firm request lasts.
LEMMA BackendPlace ==
  ASSUME NEW q, NEW place, InPlace(q, place), Firm(q)
  PROVE  place.lasts
BY DEF InPlace, Backend

\* A destination that is ready is in place.
LEMMA ReadyPlace ==
  ASSUME Mounted, NEW q \in Requests, Ready(q)
  PROVE  InPlace(q, Place(q))
<1> DEFINE s == Storage(q)
<1>1. CASE s.type = "hostPath"
  <2>1. CASE InBackend(s.path)
    <3>1. \A m \in DOMAIN mounts : mounts[m].lasts
      BY DEF Mounted, Backend
    <3> QED
      BY <1>1, <2>1, <3>1 DEF Place, HostPlace, InPlace, InBackend, isMountpoint
  <2>2. CASE ~InBackend(s.path)
    <3>1. IsReal(best(s.path)) /\ Place(q) = AgentMounts[best(s.path)]
      BY <1>1, <2>2 DEF Ready, ensureRealMount, Place, HostPlace
    <3> QED
      BY <1>1, <3>1 DEF InPlace, Firm
  <2> QED
    BY <2>1, <2>2
<1>2. CASE s.type # "hostPath"
  <2>1. Place(q) = mounts[Mountpoint(s)] /\ Mountpoint(s) \in DOMAIN mounts
    BY <1>2 DEF Place, Ready, isMountpoint
  <2> QED
    BY <1>2, <2>1 DEF Mounted, InPlace, Sharing
<1> QED
  BY <1>1, <1>2

\* What requests name does not change.
LEMMA SameStorage ==
  ASSUME agent' = agent
  PROVE  /\ \A q : Storage(q)' = Storage(q) /\ (Firm(q)' <=> Firm(q))
         /\ \A q, place : InPlace(q, place)' <=> InPlace(q, place)
         /\ mounts' = mounts => (Mounted' <=> Mounted) /\ \A q : Ready(q)' <=> Ready(q)
         /\ Firmly' <=> Firmly
         /\ DOMAIN files' \subseteq DOMAIN files /\ Lasting => Lasting'
<1>1. \A q : Storage(q)' = Storage(q)
  BY DEF Storage, jobs
<1>5. \A q : Firm(q)' <=> Firm(q)
  BY <1>1 DEF Firm
<1>2. \A q, place : InPlace(q, place)' <=> InPlace(q, place)
  BY <1>1, <1>5 DEF InPlace, Sharing
<1>3. ASSUME mounts' = mounts PROVE Mounted' <=> Mounted
  BY <1>1, <1>3 DEF Mounted
<1>4. ASSUME mounts' = mounts, NEW q PROVE Ready(q)' <=> Ready(q)
  BY <1>1, <1>4 DEF Ready, isMountpoint, ensureRealMount, InBackend
<1>6. Firmly' <=> Firmly
  BY <1>5 DEF Firmly
<1>7. DOMAIN files' \subseteq DOMAIN files /\ Lasting => Lasting'
  BY <1>6 DEF Lasting
<1> QED
  BY <1>1, <1>2, <1>3, <1>4, <1>5, <1>6, <1>7

LEMMA RunInit == Init => RunInv
<1> SUFFICES ASSUME Init PROVE RunInv
  OBVIOUS
<1>1. DOMAIN mounts = {} /\ DOMAIN files = {} /\ pc = "idle"
  BY DEF Init, NoMounts, NoFiles
<1> QED
  BY <1>1 DEF RunInv, Mounted, Placed, Lasting, AtHand, Before, Progress, Named

\* A restart loses no file in a place that lasts.
LEMMA CrashFiles ==
  ASSUME Crash
  PROVE  /\ DOMAIN files' = {e \in DOMAIN files : e.place.lasts}
         /\ \A d \in DOMAIN files' : files'[d] = files[d]
<1>1. files' = [d \in {e \in DOMAIN files : e.place.lasts} |-> files[d]]
  BY DEF Crash
<1> QED
  BY <1>1

\* Between runs only the mounts and the files matter.
LEMMA RunIdle ==
  ASSUME pc' = "idle", Mounted', Lasting'
  PROVE  RunInv'
BY DEF RunInv, Placed, AtHand, Before, Progress, Named

\* The file at the destination, before and after it is written.
LEMMA WritesAt ==
  ASSUME NEW d, NEW c, files' = Written(d, c)
  PROVE  At(d)' = c
<1>1. d \in DOMAIN files' /\ files'[d] = c
  BY Writes
<1> QED
  BY <1>1 DEF At

\* A step that touches none of this.
LEMMA RunSame ==
  ASSUME agent' = agent, RunInv,
         UNCHANGED <<pc, req, run, dst, local, mounts, files, bare, overwritten>>
  PROVE  RunInv'
<1> SUFFICES ASSUME ~agent.dryRun PROVE (Mounted /\ Placed /\ AtHand /\ Before /\ Progress)'
  BY DEF RunInv
<1>1. Mounted /\ Placed /\ AtHand /\ Before /\ Progress
  BY DEF RunInv
<1>2. Mounted' /\ Placed'
  BY <1>1, SameStorage DEF Placed
<1>3. AtHand' /\ Before' /\ Progress'
  BY <1>1 DEF AtHand, Before, Progress, At, Complete, Named, Missing, Torn
<1> QED
  BY <1>2, <1>3

LEMMA RunStep == TypeInv /\ RunInv /\ [Next]_vars => RunInv'
<1> SUFFICES ASSUME TypeInv, RunInv, [Next]_vars, ~agent.dryRun
             PROVE  RunInv'
  BY Same DEF RunInv
<1>0. /\ agent' = agent /\ Mounted /\ Placed /\ AtHand /\ Before /\ Progress
      /\ run \in Nat /\ (pc # "idle" => req \in Requests)
  BY Same DEF RunInv, TypeInv, TypeOK, Shape
<1>1. CASE UNCHANGED vars
  <2>1. UNCHANGED <<pc, req, run, dst, local, mounts, files, bare, overwritten>>
    BY <1>1 DEF vars, runVars, historyVars
  <2> QED
    BY <1>0, <2>1, RunSame
<1>2. ASSUME NEW q \in Requests, Start(q) PROVE RunInv'
  <2>1. /\ pc' = "store" /\ run' \in local' /\ UNCHANGED <<mounts, files>>
    BY <1>2, <1>0 DEF Start, Goto
  <2>2. Mounted'
    BY <1>0, <2>1, SameStorage
  <2> QED
    BY <1>0, <2>1, <2>2, SameStorage DEF RunInv, Placed, AtHand, Before, Progress, Named
<1>3. CASE Tick
  <2>1. UNCHANGED <<pc, req, run, dst, local, mounts, files, bare, overwritten>>
    BY <1>3 DEF Tick, runVars, historyVars
  <2> QED
    BY <1>0, <2>1, RunSame
<1>4. CASE Quiet
  BY <1>1, <1>4 DEF Quiet
<1>5. CASE Refuse \/ MountFail \/ StoreFail \/ ReportFail \/ Report
  <2>1. pc' = "idle" /\ UNCHANGED <<mounts, files>>
    BY <1>5 DEF Refuse, MountFail, StoreFail, ReportFail, Report, Leave
  <2>2. Mounted' /\ Lasting'
    BY <1>0, <2>1, SameStorage DEF Placed
  <2> QED
    BY <1>0, <2>1, <2>2, RunIdle DEF Placed
<1>6. CASE Dispatch
  <2>1. /\ pc = "store" /\ ~Refused(Storage(req)) /\ UNCHANGED <<req, run, local, mounts, files>>
        /\ pc' = IF Storage(req).type = "hostPath" THEN "dir" ELSE "mount"
    BY <1>6, <1>0 DEF Dispatch
  <2>2. Storage(req).type = "hostPath" => Ready(req)
    BY <2>1, <1>0 DEF Refused, Ready
  <2>3. Mounted' /\ Lasting' /\ Storage(req)' = Storage(req) /\ (Ready(req) => Ready(req)')
    BY <1>0, <2>1, SameStorage DEF Placed
  <2>4. Placed'
    BY <1>0, <2>1, <2>2, <2>3 DEF Placed, Named
  <2> QED
    BY <1>0, <2>1, <2>3, <2>4 DEF RunInv, AtHand, Before, Progress, Named
<1>7. CASE Mount
  <2> DEFINE s == Storage(req)
             m == Mountpoint(s)
  <2>1. /\ pc = "mount" /\ pc' = "dir" /\ UNCHANGED <<req, run, local, files>>
        /\ mounts' = IF m \in DOMAIN mounts THEN mounts
                     ELSE [k \in DOMAIN mounts \cup {m} |-> IF k = m THEN Backend(s) ELSE mounts[k]]
    BY <1>7 DEF Mount, Goto, isMountpoint
  <2>2. s.type # "hostPath" /\ req \in Requests
    BY <1>0, <2>1 DEF Placed
  <2>3. DOMAIN mounts' = DOMAIN mounts \cup {m}
    BY <2>1
  <2>4. \A k \in DOMAIN mounts' :
          \E p \in Requests : /\ Storage(p).type # "hostPath"
                              /\ k = Mountpoint(Storage(p)) /\ mounts'[k] = Backend(Storage(p))
    <3>1. \A k \in DOMAIN mounts : mounts'[k] = mounts[k]
      BY <2>1
    <3>2. m \notin DOMAIN mounts => mounts'[m] = Backend(s)
      BY <2>1
    <3> QED
      BY <1>0, <2>2, <2>3, <3>1, <3>2 DEF Mounted
  <2>5. Mounted'
    BY <1>0, <2>4, SameStorage DEF Mounted
  <2>6. Ready(req)'
    BY <1>0, <2>1, <2>2, <2>3, SameStorage DEF Ready, isMountpoint
  <2>8. Lasting'
    BY <1>0, <2>1, SameStorage DEF Placed
  <2>7. Placed'
    BY <1>0, <2>1, <2>6, <2>8 DEF Placed, Named
  <2> QED
    BY <1>0, <2>1, <2>5, <2>7 DEF RunInv, AtHand, Before, Progress, Named
<1>8. CASE Name
  <2>0. PICK d : d = Destination(req)
    OBVIOUS
  <2>1. /\ pc = "dir" /\ pc' = "openTar" /\ dst' = d
        /\ UNCHANGED <<req, run, local, mounts, files>>
        /\ overwritten' = overwritten \cup ({At(d).tar, At(d).blob} \ {Missing, Torn})
    BY <1>8, <1>0, <2>0 DEF Name
  <2>2. InPlace(req, d.place)
    BY <1>0, <2>0, <2>1, ReadyPlace DEF Placed, Destination
  <2>6. Mounted' /\ Lasting'
    BY <1>0, <2>1, SameStorage DEF Placed
  <2>3. Placed'
    BY <1>0, <2>1, <2>2, <2>6, SameStorage DEF Placed, Named
  <2>4. At(d)' = At(d)
    BY <2>1 DEF At
  <2>5. Before'
    BY <2>1, <2>4 DEF Before, At, Missing, Torn
  <2> QED
    BY <1>0, <2>1, <2>3, <2>5, <2>6 DEF RunInv, AtHand, Progress
<1>9. CASE OpenTar \/ CopyTar \/ OpenBlob \/ CopyBlob
  <2>1. PICK from, to, c : /\ Copy(from, to, c) /\ from \in Named \ {"remove", "report"}
                           /\ \/ from = "openTar" /\ to = "copyTar" /\ c = [At(dst) EXCEPT !.tar = Torn]
                              \/ from = "copyTar" /\ to = AfterTar /\ c = [At(dst) EXCEPT !.tar = run]
                              \/ from = "openBlob" /\ to = "copyBlob" /\ c = [At(dst) EXCEPT !.blob = Torn]
                              \/ from = "copyBlob" /\ to = "remove" /\ c = [At(dst) EXCEPT !.blob = run]
    BY <1>9 DEF OpenTar, CopyTar, OpenBlob, CopyBlob, Named
  <2>2. /\ pc = from /\ pc' = to /\ files' = Written(dst, c)
        /\ UNCHANGED <<req, run, dst, local, mounts, bare, overwritten>>
    BY <2>1 DEF Copy, Goto, historyVars
  <2>3. /\ DOMAIN files' = DOMAIN files \cup {dst} /\ files'[dst] = c /\ At(dst)' = c
    BY <2>2, Writes, WritesAt DEF At
  <2>4. to \in Named \ {"report"}
    BY <2>1 DEF Named, AfterTar
  <2>5. InPlace(req, dst.place) /\ (Firm(req) => dst.place.lasts)
    BY <1>0, <2>1, <2>2, BackendPlace DEF Placed
  <2>14. req \in Requests /\ (Firmly' <=> Firmly)
    BY <1>0, <2>1, <2>2, SameStorage DEF Named
  <2>15. Lasting'
    BY <1>0, <2>3, <2>5, <2>14 DEF Placed, Lasting, Firmly
  <2>6. Placed' /\ Mounted'
    BY <1>0, <2>1, <2>2, <2>4, <2>5, <2>15, SameStorage DEF Placed, Named
  <2>7. AtHand'
    BY <1>0, <2>1, <2>2, <2>4 DEF AtHand, Named
  <2>8. At(dst) \in Content(run)
    BY AtTypes
  <2>9. /\ c.tar = At(dst).tar \/ c.tar \in {Torn, run}
        /\ c.blob = At(dst).blob \/ c.blob \in {Torn, run}
        /\ from \in {"openBlob", "copyBlob"} => c.tar = At(dst).tar
        /\ from = "copyTar" => c.tar = run
        /\ from = "copyBlob" => c.blob = run
    BY <2>1, <2>8 DEF Content
  <2>10. Before'
    <3>1. {c.tar, c.blob} \subseteq {Missing, Torn, run} \cup overwritten
      BY <1>0, <2>1, <2>2, <2>9 DEF Before
    <3> QED
      BY <2>2, <2>3, <3>1 DEF Before, Missing, Torn
  <2>11. from \in {"openBlob", "copyBlob"} => At(dst).tar = run
    BY <1>0, <2>2 DEF Progress, At
  <2>12. /\ to \in {"openBlob", "copyBlob", "remove"} => c.tar = run
         /\ to = "remove" => (agent.persist => c.blob = run)
    BY <2>1, <2>9, <2>11 DEF AfterTar
  <2>13. Progress'
    BY <1>0, <2>2, <2>3, <2>4, <2>12 DEF Progress, Complete
  <2> QED
    BY <2>6, <2>7, <2>10, <2>13 DEF RunInv
<1>10. CASE Unlink \/ UnlinkFail
  <2>1. /\ pc = "remove" /\ pc' = "report"
        /\ UNCHANGED <<req, run, dst, mounts, files, bare, overwritten>>
    BY <1>10 DEF Unlink, UnlinkFail, Goto, historyVars
  <2>4. Mounted' /\ Lasting'
    BY <1>0, <2>1, SameStorage DEF Placed
  <2>2. Placed' /\ Mounted'
    BY <1>0, <2>1, <2>4, SameStorage DEF Placed, Named
  <2>3. Before' /\ Progress' /\ AtHand'
    BY <1>0, <2>1 DEF Before, Progress, AtHand, Named, At, Complete, Missing, Torn
  <2> QED
    BY <2>2, <2>3 DEF RunInv
<1>11. CASE Crash
  <2>1. pc' = "idle" /\ mounts' = NoMounts /\ DOMAIN files' \subseteq DOMAIN files
    BY <1>11, CrashFiles DEF Crash, Leave
  <2>2. Mounted'
    BY <2>1 DEF Mounted, NoMounts
  <2>3. Lasting'
    BY <1>0, <2>1, SameStorage DEF Placed
  <2> QED
    BY <2>1, <2>2, <2>3, RunIdle
<1>12. CASE NoBlob
  <2>1. /\ pc = "openBlob" /\ pc' = "remove" /\ bare' = bare \cup {run}
        /\ UNCHANGED <<req, run, dst, local, mounts, files, overwritten>>
    BY <1>12 DEF NoBlob, Goto
  <2>4. Mounted' /\ Lasting'
    BY <1>0, <2>1, SameStorage DEF Placed
  <2>2. Placed' /\ Mounted'
    BY <1>0, <2>1, <2>4, SameStorage DEF Placed, Named
  <2>3. Before' /\ Progress' /\ AtHand'
    BY <1>0, <2>1 DEF Before, Progress, AtHand, Named, At, Complete, Missing, Torn
  <2> QED
    BY <2>2, <2>3 DEF RunInv
<1> QED
  BY <1>1, <1>2, <1>3, <1>4, <1>5, <1>6, <1>7, <1>8, <1>9, <1>10, <1>11, <1>12 DEF Next, Agent, Starts

-----------------------------------------------------------------------------
(* The runs before it                                                      *)

Writing == {"openTar", "copyTar", "openBlob", "copyBlob"}

\* A run that found no blob is on that list for ever.
LEMMA Excuses == [Next]_vars => bare \subseteq bare'
BY DEF Next, Agent, Starts, Start, Refuse, Dispatch, Mount, MountFail, Name, Copy, OpenTar,
       CopyTar, NoBlob, OpenBlob, CopyBlob, Unlink, UnlinkFail, StoreFail, Report, ReportFail,
       Crash, Tick, Quiet, vars, runVars, historyVars

\* What a run has stored in full, in a place that lasts, stays, unless a run of its name and second
\* reuses its files: no step of another run, no fault and no restart undoes it.
LEMMA Stays ==
  ASSUME TypeInv, RunInv, ~agent.dryRun, [Next]_vars,
         NEW d, NEW k \in 1..run, Complete(d, k), k \notin overwritten',
         k = run => pc \notin Writing, d.place.lasts
  PROVE  Complete(d, k)'
<1>0. /\ agent' = agent /\ agent.dryRun' = agent.dryRun /\ Placed /\ Before
      /\ bare \subseteq bare'
  BY Same, Excuses DEF RunInv
<1>1. CASE UNCHANGED files
  BY <1>0, <1>1 DEF Complete
<1>2. CASE OpenTar \/ CopyTar \/ OpenBlob \/ CopyBlob
  <2>1. PICK c : files' = Written(dst, c)
    BY <1>2 DEF OpenTar, CopyTar, OpenBlob, CopyBlob, Copy
  <2>2. pc \in Writing /\ UNCHANGED overwritten
    BY <1>2 DEF OpenTar, CopyTar, OpenBlob, CopyBlob, Copy, Goto, Writing, historyVars
  <2>3. d # dst
    <3> SUFFICES ASSUME d = dst PROVE FALSE
      OBVIOUS
    <3>1. At(dst).tar = k
      BY DEF Complete, At
    <3>2. k \in {Missing, Torn, run} \cup overwritten
      BY <1>0, <2>2, <3>1 DEF Before, Named, Writing
    <3>3. k # Missing /\ k # Torn
      BY DEF TypeInv, Shape, Missing, Torn
    <3> QED
      BY <2>2, <3>2, <3>3
  <2>4. d \in DOMAIN files' /\ files'[d] = files[d]
    BY <2>1, <2>3, Writes DEF Complete
  <2> QED
    BY <1>0, <2>4 DEF Complete
<1>3. CASE Crash
  <2>1. d \in DOMAIN files' /\ files'[d] = files[d]
    BY <1>3, CrashFiles DEF Complete
  <2> QED
    BY <1>0, <2>1 DEF Complete
<1>4. CASE Name
  BY <1>0, <1>1, <1>4 DEF Name
<1> QED
  BY <1>1, <1>2, <1>3, <1>4
     DEF Next, Agent, Starts, Start, Refuse, Dispatch, Mount, MountFail, NoBlob, Unlink,
         UnlinkFail, StoreFail, Report, ReportFail, Tick, Quiet, vars, runVars, historyVars

\* Only a start and an Unlink change which archives the kubelet's directory has,
\* and nothing is taken off the list of overwritten runs.
LEMMA Locals ==
  ASSUME TypeInv, ~agent.dryRun, [Next]_vars
  PROVE  /\ overwritten \subseteq overwritten'
         /\ \/ pc = "idle" /\ run' = run + 1 /\ local' = local \cup {run + 1}
            \/ pc = "remove" /\ run' = run /\ local' = local \ {run}
            \/ UNCHANGED <<run, local>>
BY DEF Next, Agent, Starts, Start, Refuse, Dispatch, Mount, MountFail, Name, Copy, OpenTar,
       CopyTar, NoBlob, OpenBlob, CopyBlob, Unlink, UnlinkFail, StoreFail, Report, ReportFail, Crash,
       Tick, Quiet, vars, runVars, historyVars, Goto, Removed

LEMMA LostStep == TypeInv /\ RunInv /\ NothingLost /\ [Next]_vars => NothingLost'
<1> SUFFICES ASSUME TypeInv, RunInv, NothingLost, [Next]_vars, ~agent.dryRun,
                    NEW k \in 1..run', k \notin local', k \notin overwritten',
                    Firmly
             PROVE  \E d \in DOMAIN files' : Complete(d, k)'
  BY Same, SameStorage DEF NothingLost, Firmly
<1>0. /\ run \in Nat /\ AtHand /\ Progress
      /\ overwritten \subseteq overwritten'
      /\ \/ pc = "idle" /\ run' = run + 1 /\ local' = local \cup {run + 1}
         \/ pc = "remove" /\ run' = run /\ local' = local \ {run}
         \/ UNCHANGED <<run, local>>
  BY Locals DEF TypeInv, Shape, RunInv
<1>1. k \in 1..run
  BY <1>0
<1>2. PICK d : Complete(d, k) /\ (k = run => pc \notin Writing)
  <2>1. CASE k = run /\ pc = "remove"
    BY <1>0, <2>1 DEF Progress, Writing
  <2>2. CASE ~(k = run /\ pc = "remove")
    <3>1. k \notin local \cup overwritten
      BY <1>0, <2>2
    <3>2. k = run => pc \notin Writing
      BY <1>0, <3>1 DEF AtHand, Writing
    <3> QED
      BY <1>1, <3>1, <3>2 DEF NothingLost, Firmly
  <2> QED
    BY <2>1, <2>2
<1>4. d.place.lasts
  BY <1>2 DEF RunInv, Placed, Lasting, Complete
<1>3. Complete(d, k)'
  BY <1>1, <1>2, <1>4, Stays
<1> QED
  BY <1>3 DEF Complete

\* A reported path is in place, holds its run, and the run is over.
Stored(r) ==
  /\ Firm(r.req) /\ r.run \notin overwritten => Complete(r.dst, r.run)
  /\ InPlace(r.req, r.dst.place)
  /\ pc # "idle" => r.run # run
ReportInv == ~agent.dryRun => \A r \in reported : Stored(r)

LEMMA ReportStep == TypeInv /\ RunInv /\ ReportInv /\ [Next]_vars => ReportInv'
<1> SUFFICES ASSUME TypeInv, RunInv, ReportInv, [Next]_vars, ~agent.dryRun,
                    NEW r \in reported'
             PROVE  Stored(r)'
  BY Same DEF ReportInv
<1>0. /\ run \in Nat /\ Progress /\ Placed /\ agent' = agent
      /\ overwritten \subseteq overwritten'
      /\ run' \in {run, run + 1} /\ (run' = run + 1 => pc = "idle")
      /\ \A x \in reported : x.run \in 1..run /\ Stored(x)
  BY Same, Locals DEF TypeInv, TypeOK, Shape, RunInv, ReportInv
<1>1. CASE r \in reported
  <2>1. Firm(r.req)' /\ r.run \notin overwritten' => Complete(r.dst, r.run)'
    <3>1. r.run = run => pc \notin Writing
      BY <1>0, <1>1 DEF Stored, Writing
    <3>2. (Firm(r.req)' <=> Firm(r.req)) /\ (Firm(r.req) => r.dst.place.lasts)
      BY <1>0, <1>1, SameStorage, BackendPlace DEF Stored
    <3> QED
      BY <1>0, <1>1, <3>1, <3>2, Stays DEF Stored
  <2>2. InPlace(r.req, r.dst.place)'
    BY <1>0, <1>1, SameStorage DEF Stored
  <2>3. pc' # "idle" => r.run # run'
    <3>1. pc' # "idle" /\ pc = "idle" => run' = run + 1 \/ UNCHANGED vars
      BY DEF Next, Agent, Starts, Start, Refuse, Dispatch, Mount, MountFail, Name, Copy, OpenTar,
             CopyTar, NoBlob, OpenBlob, CopyBlob, Unlink, UnlinkFail, StoreFail, Report, ReportFail, Crash,
             Tick, Quiet, Goto, runVars
    <3>2. UNCHANGED vars => pc' = pc
      BY DEF vars, runVars
    <3>3. r.run \in 1..run /\ (pc # "idle" => r.run # run)
      BY <1>0, <1>1 DEF Stored
    <3> QED
      BY <1>0, <3>1, <3>2, <3>3
  <2> QED
    BY <1>0, <1>1, <2>1, <2>2, <2>3 DEF Stored
<1>2. CASE r \notin reported
  <2>1. Report
    BY <1>2 DEF Next, Agent, Starts, Start, Refuse, Dispatch, Mount, MountFail, Name, Copy, OpenTar,
                CopyTar, NoBlob, OpenBlob, CopyBlob, Unlink, UnlinkFail, StoreFail, ReportFail, Crash,
                Tick, Quiet, vars
  <2>2. /\ pc = "report" /\ pc' = "idle" /\ files' = files /\ bare' = bare
        /\ r = [req |-> req, dst |-> dst, run |-> run]
    BY <1>2, <2>1 DEF Report, Leave, historyVars
  <2>3. Complete(r.dst, r.run) /\ InPlace(r.req, r.dst.place)
    BY <1>0, <2>2 DEF Progress, Placed, Named
  <2>4. Complete(r.dst, r.run)' /\ InPlace(r.req, r.dst.place)'
    BY <1>0, <2>2, <2>3, SameStorage DEF Complete
  <2> QED
    BY <2>2, <2>4 DEF Stored
<1> QED
  BY <1>1, <1>2

-----------------------------------------------------------------------------
(* What is left on the node                                                *)

LeftInv ==
  /\ NoneLeft
  /\ agent.dryRun => local = {}
  /\ pc = "report" /\ run \in local => run \in kept

LEMMA LeftStep == LeftInv /\ [Next]_vars => LeftInv'
<1> SUFFICES ASSUME LeftInv, [Next]_vars PROVE LeftInv'
  OBVIOUS
<1> USE DEF LeftInv, NoneLeft
<1>0. agent' = agent
  BY Same
<1>1. CASE UNCHANGED <<pc, run, local, broken, kept>>
  BY <1>0, <1>1
<1>2. ASSUME NEW q \in Requests, Start(q) PROVE LeftInv'
  BY <1>0, <1>2 DEF Start, Goto, historyVars
<1>3. CASE Refuse \/ MountFail \/ StoreFail \/ Crash
  BY <1>0, <1>3 DEF Refuse, MountFail, StoreFail, Crash, Leave
<1>4. CASE Dispatch \/ Mount \/ OpenTar \/ CopyTar \/ NoBlob \/ OpenBlob \/ CopyBlob
  BY <1>0, <1>4 DEF Dispatch, Mount, OpenTar, CopyTar, NoBlob, OpenBlob, CopyBlob, Copy, Goto, AfterTar,
                    historyVars
<1>5. CASE Name
  BY <1>0, <1>5 DEF Name
<1>6. CASE Unlink
  BY <1>0, <1>6 DEF Unlink, Removed, Goto, historyVars
<1>7. CASE UnlinkFail
  BY <1>0, <1>7 DEF UnlinkFail, Goto
<1>8. CASE Report \/ ReportFail
  BY <1>0, <1>8 DEF Report, ReportFail, Leave, historyVars
<1>9. CASE Tick \/ Quiet \/ UNCHANGED vars
  BY <1>1, <1>9 DEF Tick, Quiet, vars, runVars, historyVars
<1> QED
  BY <1>2, <1>3, <1>4, <1>5, <1>6, <1>7, <1>8, <1>9 DEF Next, Agent, Starts

-----------------------------------------------------------------------------
(* Where replicas write                                                    *)

DirInv ==
  /\ pc \in Named => dst.dir = Dir(req)
  /\ \A r \in reported : r.dst.dir = Dir(r.req)

\* perPodStorage() changes the directory and nothing else of the destination.
LEMMA PerPod ==
  ASSUME NEW s \in StorageSpec, NEW pod \in Text
  PROVE  LET t == perPodStorage(s, pod)
         IN /\ t.type = s.type /\ t.fsType = s.fsType /\ t.source = s.source
            /\ s.type = "hostPath" => t.path = Append(s.path, pod)
            /\ s.type # "hostPath" => t.subPath = Append(s.subPath, pod)
BY DEF perPodStorage, StorageSpec, Types

\* The directory of a replica ends in the name of its Pod, in every backend.
LEMMA ReplicaDir ==
  ASSUME agent \in Scenarios, NEW q \in Requests, jobs[q].orchestrated
  PROVE  \E x \in Path : Dir(q) = Append(x, jobs[q].pod)
<1> DEFINE s == jobs[q].storage
           pod == jobs[q].pod
<1>1. s \in StorageSpec /\ pod \in Text
  BY StorageAssumption DEF Scenario, Job, jobs
<1>2. s.path \in Seq(Text) /\ s.subPath \in Seq(Text)
  BY <1>1 DEF StorageSpec, Path
<1>3. Storage(q) = perPodStorage(s, pod)
  BY DEF Storage
<1> HIDE DEF s, pod
<1>4. Append(s.subPath, pod) # <<>>
  BY <1>1, <1>2, AppendProperties
<1>5. CASE s.type = "hostPath"
  <2>1. Storage(q).type = "hostPath" /\ Storage(q).path = Append(s.path, pod)
    BY <1>1, <1>3, <1>5, PerPod
  <2> QED
    BY <1>2, <2>1 DEF Dir, pod, Path
<1>6. CASE s.type # "hostPath"
  <2>1. Storage(q).type # "hostPath" /\ Storage(q).subPath = Append(s.subPath, pod)
    BY <1>1, <1>3, <1>6, PerPod
  <2> QED
    BY <1>2, <1>4, <2>1 DEF Dir, Subdir, pod, Path
<1> QED
  BY <1>5, <1>6

LEMMA DirStep == DirInv /\ [Next]_vars => DirInv'
<1> SUFFICES ASSUME DirInv, [Next]_vars PROVE DirInv'
  OBVIOUS
<1>0. agent' = agent /\ \A q : Dir(q)' = Dir(q)
  BY Same, SameStorage DEF Dir, Subdir
<1>1. CASE UNCHANGED <<pc, req, dst, reported>>
  BY <1>0, <1>1 DEF DirInv
<1>2. CASE pc' \notin Named /\ UNCHANGED reported
  BY <1>0, <1>2 DEF DirInv
<1>3. CASE pc \in Named /\ UNCHANGED <<req, dst, reported>>
  BY <1>0, <1>3 DEF DirInv
<1>4. CASE Name
  <2>1. dst' = Destination(req) /\ req' = req /\ reported' = reported
    BY <1>4 DEF Name
  <2>2. dst'.dir = Dir(req)
    BY <2>1 DEF Destination
  <2> QED
    BY <1>0, <2>1, <2>2 DEF DirInv
<1>5. CASE Report
  <2>1. pc = "report" /\ pc' = "idle"
        /\ reported' = reported \cup {[req |-> req, dst |-> dst, run |-> run]}
    BY <1>5 DEF Report, Leave
  <2>2. \A r \in reported' : r.dst.dir = Dir(r.req)
    BY <2>1 DEF DirInv, Named
  <2> QED
    BY <1>0, <2>1, <2>2 DEF DirInv, Named
<1>6. ASSUME NEW q \in Requests, Start(q) PROVE DirInv'
  BY <1>2, <1>6 DEF Start, Goto, Named
<1>7. CASE Refuse \/ MountFail \/ StoreFail \/ ReportFail \/ Crash \/ Dispatch \/ Mount
  BY <1>2, <1>7 DEF Refuse, MountFail, StoreFail, ReportFail, Crash, Dispatch, Mount, Leave, Goto,
                    Named
<1>8. CASE OpenTar \/ CopyTar \/ NoBlob \/ OpenBlob \/ CopyBlob \/ Unlink \/ UnlinkFail
  BY <1>3, <1>8 DEF OpenTar, CopyTar, NoBlob, OpenBlob, CopyBlob, Unlink, UnlinkFail, Copy, Goto, Named
<1>9. CASE Tick \/ Quiet \/ UNCHANGED vars
  BY <1>1, <1>9 DEF Tick, Quiet, vars, runVars
<1> QED
  BY <1>4, <1>5, <1>6, <1>7, <1>8, <1>9 DEF Next, Agent, Starts

\* Hence replicas are apart: their Pods have different names.
LEMMA DirsApart == TypeOK /\ DirInv => ReplicasApart
<1> SUFFICES ASSUME TypeOK, DirInv, NEW d \in reported, NEW e \in reported,
                    jobs[d.req].orchestrated, jobs[e.req].orchestrated,
                    d.dst.dir = e.dst.dir
             PROVE  jobs[d.req].pod = jobs[e.req].pod
  BY DEF ReplicasApart
<1>1. agent \in Scenarios /\ d.req \in Requests /\ e.req \in Requests
  BY DEF TypeOK
<1>2. jobs[d.req].pod \in Text /\ jobs[e.req].pod \in Text
  BY <1>1, StorageAssumption DEF Scenario, Job, jobs
<1>3. PICK x \in Path : Dir(d.req) = Append(x, jobs[d.req].pod)
  BY <1>1, ReplicaDir
<1>4. PICK y \in Path : Dir(e.req) = Append(y, jobs[e.req].pod)
  BY <1>1, ReplicaDir
<1>5. Append(x, jobs[d.req].pod) = Append(y, jobs[e.req].pod)
  BY <1>3, <1>4 DEF DirInv
<1> QED
  BY <1>2, <1>3, <1>4, <1>5, AppendInjective

-----------------------------------------------------------------------------
(* Theorems                                                                *)

IInv == TypeInv /\ RunInv /\ NothingLost /\ ReportInv /\ LeftInv /\ DirInv

LEMMA Inductive == Spec => []IInv
<1>1. Init => IInv
  <2> SUFFICES ASSUME Init PROVE IInv
    OBVIOUS
  <2>1. TypeInv /\ RunInv
    BY TypeInit, RunInit
  <2>2. run = 0 /\ local = {} /\ reported = {} /\ pc = "idle"
    BY DEF Init
  <2>3. NothingLost /\ ReportInv /\ LeftInv /\ DirInv
    BY <2>2 DEF NothingLost, ReportInv, LeftInv, NoneLeft, DirInv, Named
  <2> QED
    BY <2>1, <2>3 DEF IInv
<1>2. IInv /\ [Next]_vars => IInv'
  BY TypeStep, RunStep, LostStep, ReportStep, LeftStep, DirStep DEF IInv
<1> QED
  BY <1>1, <1>2, PTL DEF Spec

\* The agent's state, the files and the reports have their types in every
\* reachable state of store() (TypeOK).
THEOREM TypeCorrect == Spec => []TypeOK
<1>1. IInv => TypeOK
  BY DEF IInv, TypeInv
<1> QED
  BY <1>1, Inductive, PTL

\* As long as every hostPath is firm, the archive of every run is on the node or
\* stored in full at every moment, with the blob if there was one, whatever call
\* fails and whenever the agent dies, unless a later run of the same name and
\* second took its place (storeToDir: the archive is removed last).
THEOREM LossSafe == Spec => []NothingLost
<1>1. IInv => NothingLost
  BY DEF IInv
<1> QED
  BY <1>1, Inductive, PTL

\* Only runs that failed, and those whose os.Remove failed, leave an archive in
\* the kubelet's directory (storeToDir, Checkpoint).
THEOREM LeftSafe == Spec => []NoneLeft
<1>1. IInv => NoneLeft
  BY DEF IInv, LeftInv
<1> QED
  BY <1>1, Inductive, PTL

\* Replicas of a workload never write to the same directory (perPodStorage and
\* store agree, for every type, on the field that counts).
THEOREM ReplicasSafe == Spec => []ReplicasApart
<1>1. IInv => ReplicasApart
  BY DirsApart DEF IInv, TypeInv
<1> QED
  BY <1>1, Inductive, PTL

\* Backends that share a mount point are the same backend.  This is what the
\* code does not ensure (sanitizeMount maps several separators to one).
MountsApart ==
  \A p, q \in Requests : Sharing(p, q) => Backend(Storage(p)) = Backend(Storage(q))

\* The backend of a request is that of its storage, replica or not.
LEMMA SameBackend ==
  ASSUME agent \in Scenarios, NEW q \in Requests
  PROVE  /\ Storage(q).type = jobs[q].storage.type
         /\ Backend(Storage(q)) = Backend(jobs[q].storage)
<1>1. jobs[q].storage \in StorageSpec /\ jobs[q].pod \in Text
  BY StorageAssumption DEF Scenario, Job, jobs
<1> QED
  BY <1>1, PerPod DEF Storage, Backend, FsType

\* As long as no two backends share a mount point, a reported path holds the
\* archive of its run, and the blob if there was one, in the backend the request
\* names or behind its firm hostPath, from then on and over every restart of the
\* agent (ensureMounted, ensureRealMount and the order of storeToDir).
THEOREM IntactSafe == Spec => [](MountsApart => ReportedIntact)
<1>1. IInv => (MountsApart => ReportedIntact)
  <2> SUFFICES ASSUME IInv, MountsApart, ~agent.dryRun,
                      NEW r \in reported, Firm(r.req), r.run \notin overwritten
               PROVE  /\ Complete(r.dst, r.run)
                      /\ IF jobs[r.req].storage.type = "hostPath" THEN r.dst.place.lasts
                         ELSE r.dst.place = Backend(jobs[r.req].storage)
    BY DEF ReportedIntact
  <2>1. Stored(r) /\ r.req \in Requests /\ agent \in Scenarios
    BY DEF IInv, ReportInv, TypeInv, TypeOK
  <2>2. /\ Storage(r.req).type = jobs[r.req].storage.type
        /\ Backend(Storage(r.req)) = Backend(jobs[r.req].storage)
    BY <2>1, SameBackend
  <2> QED
    BY <2>1, <2>2 DEF Stored, InPlace, MountsApart
<1> QED
  BY <1>1, Inductive, PTL

=============================================================================
