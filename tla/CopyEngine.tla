----------------------------- MODULE CopyEngine -----------------------------
(***************************************************************************)
(* The copies between device and blob, chunk by chunk                      *)
(* (interceptor/preload.c: pipe_copy, memcpy_mt, gcr_stage_init, the       *)
(* serial loops of checkpoint_freeze and restore_remap).                   *)
(*                                                                         *)
(* One freeze and then one remap of a fixed table of segments.  The device *)
(* executes what is in its stream in order and at its own pace, the        *)
(* threads of memcpy_mt() copy their parts in any order, and two staging   *)
(* buffers are all that stands between them.  DataEngine takes a segment's *)
(* copy as one step; this module is why it may.                            *)
(*                                                                         *)
(* Memory is counted in units; a unit's contents is the segment and place  *)
(* it belongs to, or Blank.  An asynchronous copy takes effect at once,    *)
(* some time between its call and its event.                               *)
(***************************************************************************)
EXTENDS Naturals, Sequences, FiniteSets

CONSTANTS
  Tables,       \* the tables g_owned[] may be: sequences of [req, sel], where
                \* sel says whether the freeze selects the segment
  Asyncs,       \* whether pinned staging and streams can be there
  StageUnits,   \* GCR_STAGE_BYTES
  PageUnits,    \* the 2 MiB of ROUND2M
  SplitUnits,   \* the 8 MiB from which memcpy_mt() uses threads
  CopyThreads,  \* GCR_COPY_THREADS
  Blank

ASSUME CopyAssumption ==
  /\ \A t \in Tables : t \in Seq([req : Nat \ {0}, sel : BOOLEAN])
  /\ Asyncs \subseteq BOOLEAN
  /\ {StageUnits, PageUnits, SplitUnits, CopyThreads} \subseteq Nat \ {0}

VARIABLES
  seg,       \* g_owned[]: req, sel and blob_off
  async,     \* pipe_copy() runs; otherwise the serial loop
  mode,      \* 0: freeze, 1: remap
  pc,        \* where the copying thread is
  i, coff,   \* its place in the loops: segment and offset in it
  b,         \* j & 1: the staging buffer of the next chunk
  prev,      \* the chunk before it
  work,      \* parts of a memcpy_mt() that are not copied yet
  stream,    \* chunks handed to the device and not yet copied by it
  bufs,      \* g_stageA and g_stageB
  dev, blob, \* contents of device memory and of the blob
  failed     \* history: "call" a call returned an error, "device" a copy
             \* failed after its call

loopVars == <<i, coff, b, prev>>
tableVars == <<seg, async, mode>>
memVars == <<bufs, dev, blob>>
vars == <<tableVars, pc, loopVars, work, stream, memVars, failed>>

-----------------------------------------------------------------------------
(* The table and the layout of the blob                                    *)

ROUND2M(x) == PageUnits * ((x + PageUnits - 1) \div PageUnits)

\* checkpoint_freeze(): the selected segments get the file's next pages; total
\* after each segment of the table.
Totals(t) ==
  LET total[k \in 0..Len(t)] ==
        IF k = 0 THEN 0 ELSE total[k - 1] + (IF t[k].sel THEN ROUND2M(t[k].req) ELSE 0)
  IN total
Assigned(t) ==
  [k \in DOMAIN t |-> [req |-> t[k].req, sel |-> t[k].sel, off |-> Totals(t)[k - 1]]]

Units(k) == 0..(seg[k].req - 1)
Home(k, x) == <<k, x>>
Contents == {Blank} \cup {Home(k, x) : k \in DOMAIN seg, x \in UNION {Units(m) : m \in DOMAIN seg}}
Filled(t) == [k \in DOMAIN t |-> [x \in 0..(t[k].req - 1) |-> Home(k, x)]]
NoChunk == [seg |-> 0, coff |-> 0, len |-> 0, buf |-> 0]
EmptyBuffer == [x \in 0..(StageUnits - 1) |-> Blank]

Init ==
  /\ \E t \in Tables :
       /\ seg = Assigned(t)
       /\ dev = Filled(t)
       /\ blob = [x \in 0..(Totals(t)[Len(t)] - 1) |-> Blank]
  /\ async \in Asyncs
  /\ mode = 0 /\ pc = "loop"
  /\ i = 1 /\ coff = 0 /\ b = 0 /\ prev = NoChunk
  /\ work = {} /\ stream = <<>>
  /\ bufs = [c \in {0, 1} |-> EmptyBuffer]
  /\ failed = {}

TypeOK ==
  /\ seg \in Seq([req : Nat, sel : BOOLEAN, off : Nat])
  /\ async \in BOOLEAN /\ mode \in {0, 1}
  /\ pc \in {"loop", "stage", "sync", "flush", "last", "fin", "ret"}
  /\ i \in 1..(Len(seg) + 1) /\ coff \in Nat /\ b \in {0, 1}
  /\ prev.len \in 0..StageUnits
  /\ \A p \in work : p.from \in 0..(StageUnits - 1) /\ p.to \in 0..(StageUnits - 1)
  /\ Len(stream) <= 2
  /\ bufs \in [{0, 1} -> [0..(StageUnits - 1) -> Contents]]
  /\ \A k \in DOMAIN seg : dev[k] \in [Units(k) -> Contents]
  /\ blob \in [DOMAIN blob -> Contents]
  /\ failed \subseteq {"call", "device"}

-----------------------------------------------------------------------------
(* Helpers                                                                 *)

More == i <= Len(seg)
AtChunk == More /\ seg[i].sel

ChunkLen ==
  IF seg[i].req - coff < StageUnits THEN seg[i].req - coff ELSE StageUnits

Chunk == [seg |-> i, coff |-> coff, len |-> ChunkLen, buf |-> b]

\* Mutant: every chunk is copied from the start of its segment.
AtStart(c, x) == x

\* Where the units of a chunk lie.
At(c, x) == c.coff + x
Place(c, x) == seg[c.seg].off + c.coff + x

\* Mutant: the threads' shares are rounded down.
ShareDown(m) == m \div CopyThreads

\* memcpy_mt(): each thread's share ...
Share(m) == (m + CopyThreads - 1) \div CopyThreads

\* ... and the parts of a copy of m units: a thread that would start behind the
\* end is not needed.
Parts(m) ==
  IF m < SplitUnits
  THEN {[from |-> 0, to |-> m - 1]}
  ELSE LET per == Share(m)
       IN {[from |-> t * per, to |-> (IF m - t * per < per THEN m ELSE (t + 1) * per) - 1] :
             t \in {u \in 0..(CopyThreads - 1) : u * per < m}}

\* Mutant: the event of the chunk is not waited for.
ReachedAtOnce(c) == TRUE

\* rt_event_sync(): the device has done the chunk the event was recorded after.
Reached(c) == \A k \in DOMAIN stream : stream[k] # c

\* Mutant: one buffer for all chunks.
NextBufferSame == b

\* The buffers take turns.
NextBuffer == 1 - b

\* A copy fails; the bound is one failure of each kind.
Fails(kind) == kind \notin failed /\ failed' = failed \cup {kind}

\* To the next chunk: the next part of the segment, or the next segment.
Advance ==
  /\ prev' = Chunk
  /\ b' = NextBuffer
  /\ IF coff + ChunkLen < seg[i].req
     THEN coff' = coff + ChunkLen /\ UNCHANGED i
     ELSE coff' = 0 /\ i' = i + 1
  /\ pc' = "loop"

-----------------------------------------------------------------------------
(* pipe_copy()                                                             *)

\* A segment that is not selected.
Skip ==
  /\ pc = "loop" /\ More /\ ~AtChunk
  /\ i' = i + 1
  /\ UNCHANGED <<tableVars, pc, coff, b, prev, work, stream, memVars, failed>>

\* Remap: the chunk is copied from the blob to the staging buffer first.
StageChunk ==
  /\ async /\ mode = 1 /\ pc = "loop" /\ AtChunk
  /\ pc' = "stage" /\ work' = Parts(ChunkLen)
  /\ UNCHANGED <<tableVars, loopVars, stream, memVars, failed>>

\* rt_memcpy_async and rt_event_record.
CanIssue == async /\ AtChunk /\ IF mode = 0 THEN pc = "loop" ELSE pc = "stage" /\ work = {}
Issue ==
  /\ CanIssue
  /\ stream' = Append(stream, Chunk) /\ pc' = "sync"
  /\ UNCHANGED <<tableVars, loopVars, work, memVars, failed>>

\* Mutant: what is staged is written on the way out.
ErrorExitFlushes ==
  IF mode = 0 /\ prev # NoChunk
  THEN pc' = "last" /\ work' = Parts(prev.len)
  ELSE pc' = "fin" /\ UNCHANGED work

\* goto fin: what is staged is dropped.
ErrorExit == pc' = "fin" /\ UNCHANGED work

\* The call fails: rc = -1.
IssueFail ==
  /\ CanIssue
  /\ ErrorExit /\ Fails("call")
  /\ UNCHANGED <<tableVars, loopVars, stream, memVars>>

\* The chunk before this one is through; a freeze writes it to the blob.
Sync ==
  /\ pc = "sync" /\ (prev = NoChunk \/ Reached(prev))
  /\ IF mode = 0 /\ prev # NoChunk
     THEN pc' = "flush" /\ work' = Parts(prev.len) /\ UNCHANGED loopVars
     ELSE Advance /\ UNCHANGED work
  /\ UNCHANGED <<tableVars, stream, memVars, failed>>
FlushEnd ==
  /\ pc = "flush" /\ work = {}
  /\ Advance
  /\ UNCHANGED <<tableVars, work, stream, memVars, failed>>

\* After the loop, the last chunk.
SyncLast ==
  /\ async /\ pc = "loop" /\ ~More
  /\ prev = NoChunk \/ Reached(prev)
  /\ IF mode = 0 /\ prev # NoChunk
     THEN pc' = "last" /\ work' = Parts(prev.len)
     ELSE pc' = "fin" /\ UNCHANGED work
  /\ UNCHANGED <<tableVars, loopVars, stream, memVars, failed>>
LastEnd ==
  /\ pc = "last" /\ work = {} /\ pc' = "fin"
  /\ UNCHANGED <<tableVars, loopVars, work, stream, memVars, failed>>

\* fin: rt_stream_sync; buffers and events are given back.
Fin ==
  /\ pc = "fin" /\ stream = <<>>
  /\ pc' = "ret"
  /\ UNCHANGED <<tableVars, loopVars, work, stream, memVars, failed>>

\* One thread of memcpy_mt().
Worker(p) ==
  /\ p \in work /\ work' = work \ {p}
  /\ IF mode = 0
     THEN /\ blob' = [x \in DOMAIN blob |->
                        IF x - Place(prev, 0) \in p.from..p.to
                        THEN bufs[prev.buf][x - Place(prev, 0)] ELSE blob[x]]
          /\ UNCHANGED bufs
     ELSE /\ bufs' = [bufs EXCEPT ![b] = [x \in DOMAIN @ |->
                        IF x \in p.from..p.to THEN blob[Place(Chunk, x)] ELSE @[x]]]
          /\ UNCHANGED blob
  /\ UNCHANGED <<tableVars, pc, loopVars, stream, dev, failed>>

\* The device copies the chunk at the head of its stream.
DmaCopied(c) ==
  IF mode = 0
  THEN /\ bufs' = [bufs EXCEPT ![c.buf] = [x \in DOMAIN @ |->
                     IF x < c.len THEN dev[c.seg][At(c, x)] ELSE @[x]]]
       /\ UNCHANGED dev
  ELSE /\ dev' = [dev EXCEPT ![c.seg] = [x \in DOMAIN @ |->
                     IF x - c.coff \in 0..(c.len - 1) THEN bufs[c.buf][x - c.coff] ELSE @[x]]]
       /\ UNCHANGED bufs
Dma ==
  /\ stream # <<>> /\ stream' = Tail(stream)
  /\ DmaCopied(Head(stream))
  /\ UNCHANGED <<tableVars, pc, loopVars, work, blob, failed>>

\* A copy that fails on the device: the error is returned by rt_event_sync and
\* rt_stream_sync, whose results are not looked at.
DmaFail ==
  /\ stream # <<>> /\ stream' = Tail(stream)
  /\ Fails("device")
  /\ UNCHANGED <<tableVars, pc, loopVars, work, memVars>>

-----------------------------------------------------------------------------
(* The serial loops, and the freeze followed by the remap                  *)

\* One chunk through g_stage, device to blob or blob to device.
SerialCopy ==
  /\ ~async /\ pc = "loop" /\ AtChunk
  /\ LET c == Chunk
         mine(x) == x - Place(c, 0) \in 0..(c.len - 1)
     IN IF mode = 0
        THEN /\ blob' = [x \in DOMAIN blob |->
                           IF mine(x) THEN dev[i][x - seg[i].off] ELSE blob[x]]
             /\ UNCHANGED dev
        ELSE /\ dev' = [dev EXCEPT ![i] = [x \in DOMAIN @ |->
                          IF mine(seg[i].off + x) THEN blob[seg[i].off + x] ELSE @[x]]]
             /\ UNCHANGED blob
  /\ Advance
  /\ UNCHANGED <<tableVars, work, stream, bufs, failed>>

\* It fails: a freeze leaves the rest of the segment, a remap goes on.
SerialFail ==
  /\ ~async /\ pc = "loop" /\ AtChunk
  /\ Fails("call")
  /\ IF mode = 0 THEN i' = i + 1 /\ coff' = 0 /\ UNCHANGED <<pc, b, prev>> ELSE Advance
  /\ UNCHANGED <<tableVars, work, stream, memVars>>
SerialEnd ==
  /\ ~async /\ pc = "loop" /\ ~More /\ pc' = "ret"
  /\ UNCHANGED <<tableVars, loopVars, work, stream, memVars, failed>>

\* The memory of the frozen segments was given back; the remap gets new memory.
Remap ==
  /\ pc = "ret" /\ mode = 0
  /\ mode' = 1 /\ pc' = "loop"
  /\ i' = 1 /\ coff' = 0 /\ b' = 0 /\ prev' = NoChunk
  /\ dev' = [k \in DOMAIN seg |-> IF seg[k].sel THEN [x \in Units(k) |-> Blank] ELSE dev[k]]
  /\ UNCHANGED <<seg, async, work, stream, bufs, blob, failed>>

\* restore_remap() has returned.
Returned == pc = "ret" /\ mode = 1 /\ UNCHANGED vars

Host ==
  \/ Skip \/ StageChunk \/ Issue \/ IssueFail \/ Sync \/ FlushEnd \/ SyncLast \/ LastEnd
  \/ Fin \/ SerialCopy \/ SerialFail \/ SerialEnd \/ Remap
  \/ \E p \in work : Worker(p)

Next == Host \/ Dma \/ DmaFail \/ Returned

Spec == Init /\ [][Next]_vars

-----------------------------------------------------------------------------
(* Properties                                                              *)

\* When no copy failed, a freeze and a remap bring every unit of every selected
\* segment back to its place, and leave the others alone, whatever the pace of
\* the device and of the copying threads (pipe_copy, mode 0 and mode 1).
RoundTrip == mode = 1 /\ pc = "ret" /\ failed = {} => dev = Filled(seg)

\* Nor does a call that fails half way put data in a wrong place: a unit of the
\* blob or of the device holds what belongs there or nothing (the staged chunk
\* is dropped at `fin`, not written).
NeverMisplaced ==
  "device" \notin failed =>
    \A k \in DOMAIN seg : \A x \in Units(k) :
      /\ dev[k][x] \in {Blank, Home(k, x)}
      /\ seg[k].sel => blob[seg[k].off + x] \in {Blank, Home(k, x)}

\* The device and the threads of memcpy_mt() never use the same staging buffer
\* at the same time, and no two threads the same unit: two buffers and one
\* event each are enough (the order of event record, event sync and memcpy).
Touched(p) == p.from..p.to
BufferInUse == IF mode = 0 THEN prev.buf ELSE b
NoRace ==
  /\ work # {} => \A k \in DOMAIN stream : stream[k].buf # BufferInUse
  /\ \A p, q \in work : p # q => Touched(p) \cap Touched(q) = {}

\* A copy that fails on the device and goes unnoticed, because the results of
\* rt_event_sync and rt_stream_sync are not looked at, costs its own chunk and no
\* other unit, although the buffer keeps an older chunk that is then taken for it.
Lost == {u \in UNION {{k} \X Units(k) : k \in DOMAIN seg} : dev[u[1]][u[2]] # Home(u[1], u[2])}
OneChunk == \A u, v \in Lost : u[1] = v[1] /\ u[2] \div StageUnits = v[2] \div StageUnits
LossContained == mode = 1 /\ pc = "ret" /\ "call" \notin failed => OneChunk

=============================================================================
