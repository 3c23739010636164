----------------------------- MODULE MCStorage -----------------------------
(***************************************************************************)
(* Small instances of Storage for TLC.                                     *)
(***************************************************************************)
EXTENDS Storage

Request(pod, s) == [storage |-> s, name |-> pod, pod |-> <<pod>>, orchestrated |-> FALSE]
Replica(pod, s) == [Request(pod, s) EXCEPT !.orchestrated = TRUE]
Both(p, q) == [dryRun |-> FALSE, persist |-> TRUE, jobs |-> [k \in {"p", "q"} |-> IF k = "p" THEN p ELSE q]]

OnMount == [type |-> "mount", fsType |-> "cifs", source |-> <<"h", "/", "x">>,
            badOptions |-> FALSE, path |-> <<<<"p">>>>, subPath |-> <<<<"s">>>>]
NoSub == [OnMount EXCEPT !.subPath = <<>>, !.fsType = "nfs", !.source = <<"k">>, !.badOptions = TRUE]
OnNFS == [OnMount EXCEPT !.type = "nfs", !.source = <<"h", ":", "x">>, !.badOptions = TRUE]
OnHost == [OnMount EXCEPT !.type = "hostPath", !.path = <<<<"vol">>, <<"c">>>>]
OnOverlay == [OnHost EXCEPT !.path = <<<<"tmp">>>>]
OnTmpfs == [OnHost EXCEPT !.path = <<<<"dev">>, <<"shm">>, <<"c">>>>]
BadMount == [OnMount EXCEPT !.badOptions = TRUE]
NoSource == [OnMount EXCEPT !.source = <<>>]
OnS3 == [OnMount EXCEPT !.type = "s3"]

\* Into the backend of OnMount, if it is mounted.
ViaMount == [OnHost EXCEPT !.path = <<<<"mnt">>, Mountpoint(OnMount)>>]

\* The container's root, a tmpfs and a volume of the DaemonSet.
TheBase == <<<<"mnt">>>>
TheMounts ==
  LET FS(fs, lasts) == [fs |-> fs, source |-> <<>>, lasts |-> lasts]
  IN [v \in {<<>>, <<<<"dev">>, <<"shm">>>>, <<<<"vol">>>>} |->
        CASE v = <<>> -> FS("overlay", FALSE)
          [] v = <<<<"vol">>>> -> FS("ext4", TRUE)
          [] OTHER -> FS("tmpfs", FALSE)]

\* Two replicas on each backend, each backend with another one, requests that
\* are refused, one name in two requests, a path into a backend that another
\* request mounts, a path on a tmpfs, and a dry run.
ManyScenarios ==
  {Both(Replica("a", s), Replica("b", s)) : s \in {OnMount, OnNFS, OnHost}}
  \cup {Both(Request("a", s), Request("b", OnNFS)) : s \in {NoSub, OnHost, OnS3, BadMount}}
  \cup {Both(Request("a", s), [Request("b", OnHost) EXCEPT !.name = "a"]) :
          s \in {OnOverlay, NoSource, OnHost}}
  \cup {Both(Request("a", OnMount), Request("b", s)) : s \in {ViaMount, OnTmpfs}}
  \cup {[Both(Request("a", OnMount), Request("b", OnOverlay)) EXCEPT !.dryRun = TRUE],
        [Both(Request("a", OnMount), Request("b", OnHost)) EXCEPT !.persist = FALSE]}

\* Two sources whose names differ only in a separator.
SlashOrColon ==
  {Both(Request("a", [OnMount EXCEPT !.source = <<"h", "/", "x">>]),
        Request("b", [OnMount EXCEPT !.source = <<"h", ":", "x">>]))}

=============================================================================
