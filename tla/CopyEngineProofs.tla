-------------------------- MODULE CopyEngineProofs --------------------------
(***************************************************************************)
(* Proofs about CopyEngine, for any table of segments, any size of the     *)
(* staging buffers and any number of copying threads.                      *)
(***************************************************************************)
EXTENDS CopyEngine, SequenceTheorems, WellFoundedInduction, TLAPS

-----------------------------------------------------------------------------
(* Induction, for sets of numbers                                          *)

LEMMA LeastNumber ==
  ASSUME NEW T \in SUBSET Nat, T # {}
  PROVE  \E n \in T : \A m \in T : n <= m
<1> DEFINE R == OpToRel(<, Nat)
<1>1. IsWellFoundedOn(R, Nat)
  BY NatLessThanWellFounded
<1>2. \A n, m \in Nat : m < n => <<m, n>> \in R
  BY DEF OpToRel
<1> HIDE DEF R
<1>3. \E n \in T : \A m \in T : ~ (<<m, n>> \in R)
  BY <1>1, WFMin
<1>4. PICK n \in T : \A m \in T : ~ (<<m, n>> \in R)
  BY <1>3, Zenon
<1>5. \A m \in T : ~ (m < n)
  BY <1>2, <1>4, Zenon
<1>6. \A m \in T : n <= m
  BY <1>5
<1> QED
  BY <1>6

LEMMA SetInduction ==
  ASSUME NEW P \in SUBSET Nat, 0 \in P, \A n \in P : n + 1 \in P
  PROVE  P = Nat
<1> SUFFICES ASSUME Nat \ P # {} PROVE FALSE
  OBVIOUS
<1>1. PICK n \in Nat \ P : \A m \in Nat \ P : n <= m
  BY LeastNumber
<1>2. n - 1 \in Nat /\ n - 1 \notin Nat \ P
  BY <1>1
<1> QED
  BY <1>1, <1>2

-----------------------------------------------------------------------------
(* The layout of the blob                                                  *)

\* Rounding up leaves room for the segment.
LEMMA RoundUp ==
  ASSUME NEW x \in Nat
  PROVE  ROUND2M(x) \in Nat /\ ROUND2M(x) >= x
<1>1. PageUnits \in Nat \ {0}
  BY CopyAssumption
<1>2. PICK P \in Nat \ {0} : P = PageUnits
  BY <1>1
<1> DEFINE y == x + P - 1
           q == y \div P
           r == y % P
<1>3. y \in Nat
  OBVIOUS
<1> HIDE DEF y
<1>4. q \in Nat /\ r \in 0..(P - 1) /\ y = P * q + r
  BY <1>3
<1> HIDE DEF q, r
<1>5. P * q \in Nat
  BY <1>4
<1>6. P * q >= x
  BY <1>4, <1>5 DEF y
<1>7. ROUND2M(x) = P * q
  BY <1>2 DEF ROUND2M, q, y
<1> QED
  BY <1>5, <1>6, <1>7

\* The pages a segment takes.
Pages(t, k) == IF t[k].sel THEN ROUND2M(t[k].req) ELSE 0
Table == Seq([req : Nat \ {0}, sel : BOOLEAN])

LEMMA PagesTypes ==
  ASSUME NEW t \in Table, NEW k \in 1..Len(t)
  PROVE  /\ Pages(t, k) \in Nat /\ t[k].req \in Nat \ {0} /\ t[k].sel \in BOOLEAN
         /\ t[k].sel => Pages(t, k) >= t[k].req
<1>1. t[k] \in [req : Nat \ {0}, sel : BOOLEAN]
  BY ElementOfSeq, Zenon DEF Table
<1>2. t[k].req \in Nat \ {0} /\ t[k].sel \in BOOLEAN
  BY <1>1
<1> QED
  BY <1>2, RoundUp DEF Pages

\* The definition of Totals by recursion has a solution.
LEMMA TotalsExist ==
  ASSUME NEW t \in Table
  PROVE  \E f : f = [k \in 0..Len(t) |-> IF k = 0 THEN 0 ELSE f[k - 1] + Pages(t, k)]
<1> DEFINE IsSum(f, n) == \A k \in 0..n : f[k] = IF k = 0 THEN 0 ELSE f[k - 1] + Pages(t, k)
           P == {n \in Nat : n <= Len(t) => \E f \in [0..n -> Nat] : IsSum(f, n)}
<1>0. Len(t) \in Nat /\ \A k \in 1..Len(t) : Pages(t, k) \in Nat
  BY PagesTypes DEF Table
<1>1. 0 \in P
  <2> DEFINE f == [k \in 0..0 |-> 0]
  <2>1. f \in [0..0 -> Nat] /\ IsSum(f, 0)
    OBVIOUS
  <2> QED
    BY <2>1
<1>2. ASSUME NEW n \in P PROVE n + 1 \in P
  <2>0. n \in Nat /\ n + 1 \in Nat
    OBVIOUS
  <2>1. ASSUME n + 1 <= Len(t) PROVE \E g \in [0..(n + 1) -> Nat] : IsSum(g, n + 1)
    <3>1. n <= Len(t) /\ Pages(t, n + 1) \in Nat
      BY <1>0, <2>0, <2>1
    <3>2. PICK f \in [0..n -> Nat] : IsSum(f, n)
      BY <3>1
    <3> DEFINE g == [k \in 0..(n + 1) |-> IF k = n + 1 THEN f[n] + Pages(t, n + 1) ELSE f[k]]
    <3>3. g \in [0..(n + 1) -> Nat]
      BY <2>0, <3>1, <3>2
    <3>4. g[n + 1] = g[n] + Pages(t, n + 1)
      BY <2>0, <3>2
    <3>5. \A k \in 0..n : g[k] = IF k = 0 THEN 0 ELSE g[k - 1] + Pages(t, k)
      BY <2>0, <3>2
    <3> HIDE DEF g
    <3>6. IsSum(g, n + 1)
      BY <2>0, <3>4, <3>5
    <3> QED
      BY <3>3, <3>6
  <2> HIDE DEF IsSum
  <2> QED
    BY <2>0, <2>1
<1>3. P = Nat
  <2> HIDE DEF P
  <2>1. P \in SUBSET Nat
    BY DEF P
  <2> QED
    BY <1>1, <1>2, <2>1, SetInduction
<1>4. PICK f \in [0..Len(t) -> Nat] : IsSum(f, Len(t))
  <2> HIDE DEF IsSum
  <2>1. Len(t) \in P
    BY <1>0, <1>3
  <2> QED
    BY <1>0, <2>1
<1>5. f = [k \in 0..Len(t) |-> IF k = 0 THEN 0 ELSE f[k - 1] + Pages(t, k)]
  BY <1>0, <1>4
<1> QED
  BY <1>5

LEMMA TotalsDef ==
  ASSUME NEW t \in Table
  PROVE  Totals(t) = [k \in 0..Len(t) |-> IF k = 0 THEN 0 ELSE Totals(t)[k - 1] + Pages(t, k)]
BY TotalsExist, Zenon DEF Totals, Pages


LEMMA TotalsStep ==
  ASSUME NEW t \in Table
  PROVE  /\ DOMAIN Totals(t) = 0..Len(t)
         /\ Totals(t)[0] = 0
         /\ \A k \in 1..Len(t) : Totals(t)[k] = Totals(t)[k - 1] + Pages(t, k)
<1>1. Len(t) \in Nat
  BY DEF Table
<1>2. PICK f : f = Totals(t)
  OBVIOUS
<1>3. f = [k \in 0..Len(t) |-> IF k = 0 THEN 0 ELSE f[k - 1] + Pages(t, k)]
  BY <1>2, TotalsDef
<1> QED
  BY <1>1, <1>2, <1>3

\* The totals are numbers that never fall.
LEMMA TotalsGrow ==
  ASSUME NEW t \in Table
  PROVE  \A k \in 0..Len(t) : /\ Totals(t)[k] \in Nat
                              /\ \A j \in 0..k : Totals(t)[j] <= Totals(t)[k]
<1> DEFINE f == Totals(t)
           P == {n \in Nat : n <= Len(t) => \A j \in 0..n : f[j] \in Nat /\ f[j] <= f[n]}
<1>0. /\ Len(t) \in Nat /\ f[0] = 0
      /\ \A k \in 1..Len(t) : f[k] = f[k - 1] + Pages(t, k) /\ Pages(t, k) \in Nat
  BY TotalsStep, PagesTypes DEF Table
<1> HIDE DEF f
<1>1. 0 \in P
  BY <1>0
<1>2. ASSUME NEW n \in P PROVE n + 1 \in P
  <2>1. n \in Nat
    OBVIOUS
  <2>2. ASSUME n + 1 <= Len(t)
        PROVE  \A j \in 0..(n + 1) : f[j] \in Nat /\ f[j] <= f[n + 1]
    <3>1. f[n] \in Nat /\ \A j \in 0..n : f[j] \in Nat /\ f[j] <= f[n]
      BY <1>0, <2>1, <2>2
    <3>2. f[n + 1] = f[n] + Pages(t, n + 1) /\ Pages(t, n + 1) \in Nat
      BY <1>0, <2>1, <2>2
    <3>3. f[n + 1] \in Nat /\ f[n] <= f[n + 1]
      BY <3>1, <3>2
    <3>4. ASSUME NEW j \in 0..(n + 1) PROVE f[j] \in Nat /\ f[j] <= f[n + 1]
      <4>1. CASE j = n + 1
        BY <3>3, <4>1
      <4>2. CASE j \in 0..n
        <5>1. f[j] \in Nat /\ f[j] <= f[n]
          BY <3>1, <4>2
        <5> QED
          BY <3>1, <3>2, <5>1
      <4> QED
        BY <2>1, <4>1, <4>2
    <3> QED
      BY <3>3, <3>4
  <2> QED
    BY <2>1, <2>2
<1>3. P = Nat
  <2> HIDE DEF P
  <2>1. P \in SUBSET Nat
    BY DEF P
  <2> QED
    BY <1>1, <1>2, <2>1, SetInduction
<1>4. \A k \in 0..Len(t) : k \in P
  BY <1>0, <1>3
<1> QED
  BY <1>0, <1>4 DEF f

-----------------------------------------------------------------------------
(* The parts of memcpy_mt()                                                *)

LEMMA Products ==
  ASSUME NEW m \in Nat, NEW n \in Nat, NEW c \in Nat, m <= n
  PROVE  m * c \in Nat /\ n * c \in Nat /\ m * c <= n * c
<1>1. PICK d \in Nat : n = m + d
  <2>1. n - m \in Nat /\ n = m + (n - m)
    OBVIOUS
  <2> QED
    BY <2>1
<1>2. m * c \in Nat /\ d * c \in Nat /\ n * c \in Nat
  OBVIOUS
<1>3. n * c = m * c + d * c
  BY <1>1
<1> QED
  BY <1>2, <1>3

\* The threads' shares are enough for the copy.
LEMMA Shares ==
  ASSUME NEW m \in Nat \ {0}
  PROVE  Share(m) \in Nat \ {0} /\ CopyThreads * Share(m) >= m
<1>1. PICK n \in Nat \ {0} : n = CopyThreads
  BY CopyAssumption
<1> DEFINE y == m + n - 1
           q == y \div n
           r == y % n
<1>2. y \in Nat /\ y >= n
  OBVIOUS
<1> HIDE DEF y
<1>3. q \in Nat /\ r \in 0..(n - 1) /\ y = n * q + r
  BY <1>2
<1> HIDE DEF q, r
<1>4. q # 0
  BY <1>2, <1>3
<1>5. n * q \in Nat
  BY <1>3
<1>6. n * q >= m
  BY <1>3, <1>5 DEF y
<1>7. Share(m) = q
  BY <1>1 DEF Share, q, y
<1> QED
  BY <1>1, <1>3, <1>4, <1>6, <1>7

\* The parts lie within the copy, cover it and do not overlap.
LEMMA PartsCover ==
  ASSUME NEW m \in Nat \ {0}
  PROVE  /\ \A p \in Parts(m) : p.from \in 0..(m - 1) /\ p.to \in 0..(m - 1)
         /\ \A x \in 0..(m - 1) : \E p \in Parts(m) : x \in p.from..p.to
         /\ \A p, q \in Parts(m) : p # q => (p.from..p.to) \cap (q.from..q.to) = {}
<1>1. CASE m < SplitUnits
  <2>1. Parts(m) = {[from |-> 0, to |-> m - 1]}
    BY <1>1 DEF Parts
  <2> QED
    BY <2>1
<1>2. CASE ~(m < SplitUnits)
  <2>1. PICK n \in Nat \ {0} : n = CopyThreads
    BY CopyAssumption
  <2>2. PICK s \in Nat \ {0} : s = Share(m) /\ n * s >= m
    BY <2>1, Shares
  <2> DEFINE part(t) == [from |-> t * s, to |-> (IF m - t * s < s THEN m ELSE (t + 1) * s) - 1]
             T == {u \in 0..(n - 1) : u * s < m}
  <2>3. Parts(m) = {part(t) : t \in T}
    BY <1>2, <2>1, <2>2 DEF Parts
  <2>4. \A t \in T : /\ t * s \in Nat /\ t * s < m /\ (t + 1) * s = t * s + s
                     /\ part(t).from = t * s /\ part(t).to \in t * s..(m - 1)
                     /\ part(t).to <= t * s + s - 1
                     /\ \A x \in t * s..(t * s + s - 1) : x < m => x <= part(t).to
    <3> TAKE t \in T
    <3>1. t \in Nat /\ t * s \in Nat /\ t * s < m
      OBVIOUS
    <3>2. PICK a \in Nat : a = t * s
      BY <3>1
    <3>3. (t + 1) * s = a + s
      BY <3>1, <3>2
    <3>4. part(t).to = (IF m - a < s THEN m ELSE a + s) - 1
      BY <3>2, <3>3
    <3>5. part(t).from = a
      BY <3>2
    <3> HIDE DEF part, T
    <3> QED
      BY <3>1, <3>2, <3>3, <3>4, <3>5
  <2>5. ASSUME NEW x \in 0..(m - 1) PROVE \E t \in T : x \in t * s..(t * s + s - 1)
    <3>1. x \in Nat
      OBVIOUS
    <3>2. PICK t \in Nat, r \in 0..(s - 1) : x = t * s + r
      <4>1. x \div s \in Nat /\ x % s \in 0..(s - 1) /\ x = s * (x \div s) + (x % s)
        BY <3>1
      <4>2. \A c \in Nat : s * c = c * s
        OBVIOUS
      <4> QED
        BY <4>1, <4>2
    <3>3. t * s \in Nat
      BY <3>2
    <3>4. t < n
      <4> SUFFICES ASSUME n <= t PROVE FALSE
        BY <3>2
      <4>1. n * s <= t * s /\ n * s \in Nat
        BY <3>2, Products
      <4> QED
        BY <2>2, <3>2, <3>3, <4>1
    <3> QED
      BY <3>2, <3>3, <3>4
  <2>6. ASSUME NEW t \in T, NEW u \in T, t < u
        PROVE  t * s + s <= u * s
    <3>1. (t + 1) * s <= u * s
      BY <2>6, Products
    <3> QED
      BY <2>4, <3>1
  <2>7. \A t, u \in T : t # u => (part(t).from..part(t).to) \cap (part(u).from..part(u).to) = {}
    <3> SUFFICES ASSUME NEW t \in T, NEW u \in T, t < u
                 PROVE  (part(t).from..part(t).to) \cap (part(u).from..part(u).to) = {}
      OBVIOUS
    <3>1. part(t).to <= t * s + s - 1 /\ part(u).from = u * s /\ t * s + s <= u * s
      BY <2>4, <2>6
    <3>2. t * s \in Nat /\ u * s \in Nat /\ part(t).to \in Int /\ part(u).to \in Int
          /\ part(t).from \in Int
      BY <2>4
    <3> HIDE DEF part
    <3> QED
      BY <3>1, <3>2
  <2> HIDE DEF part, T
  <2>8. \A t \in T : part(t).from \in 0..(m - 1) /\ part(t).to \in 0..(m - 1)
    BY <2>4
  <2>9. \A x \in 0..(m - 1) : \E t \in T : x \in part(t).from..part(t).to
    BY <2>4, <2>5
  <2> QED
    BY <2>3, <2>7, <2>8, <2>9
<1> QED
  BY <1>1, <1>2

-----------------------------------------------------------------------------
(* The invariants                                                          *)

\* The table and the blob: selected segments have room of their own.
Layout ==
  /\ Len(seg) \in Nat /\ DOMAIN seg = 1..Len(seg)
  /\ \A k \in DOMAIN seg : seg[k].req \in Nat \ {0} /\ seg[k].sel \in BOOLEAN /\ seg[k].off \in Nat
  /\ DOMAIN blob \subseteq Nat
  /\ \A k \in DOMAIN seg : seg[k].sel => \A x \in Units(k) : seg[k].off + x \in DOMAIN blob
  /\ \A j, k \in DOMAIN seg :
       seg[j].sel /\ seg[k].sel /\ j < k => seg[j].off + seg[j].req <= seg[k].off

\* A chunk of a selected segment.
IsChunk(c) ==
  /\ c.seg \in DOMAIN seg /\ seg[c.seg].sel
  /\ c.coff \in Nat /\ c.len \in 1..StageUnits /\ c.coff + c.len <= seg[c.seg].req
  /\ c.buf \in {0, 1}

\* The place in the loops, and the chunk before it, which has the other buffer.
Loop ==
  /\ i \in 1..(Len(seg) + 1) /\ coff \in Nat /\ b \in {0, 1}
  /\ coff # 0 => AtChunk /\ coff < seg[i].req
  /\ prev = NoChunk \/ (IsChunk(prev) /\ prev.buf = 1 - b)

\* What the device and the threads may be at work on at each place of the code.
Control ==
  /\ async \in BOOLEAN /\ mode \in {0, 1}
  /\ pc \in {"loop", "stage", "sync", "flush", "last", "fin", "ret"}
  /\ pc \in {"stage", "sync", "flush"} => AtChunk
  /\ pc = "stage" => mode = 1
  /\ pc \in {"flush", "last"} => mode = 0 /\ prev # NoChunk
  /\ pc \notin {"stage", "flush", "last"} => work = {}
  /\ pc = "stage" => work \subseteq Parts(ChunkLen)
  /\ pc \in {"flush", "last"} => work \subseteq Parts(prev.len)
  /\ pc \in {"loop", "stage", "fin"} => stream = <<>> \/ (prev # NoChunk /\ stream = <<prev>>)
  /\ pc = "sync" => \/ stream \in {<<>>, <<Chunk>>}
                    \/ prev # NoChunk /\ stream = <<prev, Chunk>>
  /\ pc = "flush" => stream \in {<<>>, <<Chunk>>}
  /\ pc \in {"last", "ret"} => stream = <<>>
  /\ ~async => pc \in {"loop", "ret"} /\ stream = <<>>
ControlInv == Layout /\ Loop /\ Control

\* Memory has its types.
Memory ==
  /\ bufs \in [{0, 1} -> [0..(StageUnits - 1) -> Contents]]
  /\ DOMAIN dev = DOMAIN seg /\ \A k \in DOMAIN seg : dev[k] \in [Units(k) -> Contents]
  /\ blob \in [DOMAIN blob -> Contents]
  /\ failed \subseteq {"call", "device"}

In(c, k, x) == k = c.seg /\ x - c.coff \in 0..(c.len - 1)

\* The buffer of the chunk has its data.
Loaded(c) == \A x \in 0..(c.len - 1) : bufs[c.buf][x] = Home(c.seg, At(c, x))
Staged(c) == \A x \in 0..(c.len - 1) : bufs[c.buf][x] = blob[Place(c, x)]

\* Freeze: a chunk the device is through with is in its buffer until it is in
\* the blob.
FreezeBuffers ==
  mode = 0 /\ async /\ "device" \notin failed =>
    /\ prev # NoChunk /\ Reached(prev) => Loaded(prev)
    /\ pc \in {"sync", "flush"} /\ Reached(Chunk) => Loaded(Chunk)

\* Remap: a chunk the device is to copy is in its buffer, and so is what the
\* threads have staged.
RemapBuffers ==
  mode = 1 /\ async =>
    /\ \A k \in DOMAIN stream : Staged(stream[k])
    /\ pc = "stage" =>
         \A x \in 0..(ChunkLen - 1) :
           (\A p \in work : x \notin p.from..p.to) => bufs[b][x] = blob[Place(Chunk, x)]

\* No unit is out of its place.
InPlace ==
  /\ mode = 0 => dev = Filled(seg)
  /\ \A k \in DOMAIN seg : \A x \in Units(k) :
       /\ ~seg[k].sel => dev[k][x] = Home(k, x)
       /\ "device" \notin failed =>
            /\ dev[k][x] \in {Blank, Home(k, x)}
            /\ seg[k].sel => blob[seg[k].off + x] \in {Blank, Home(k, x)}

\* The loops have passed the unit.
Passed(k, x) == k < i \/ (k = i /\ x < coff)
\* The freeze has the unit in a buffer and not in the blob.
Unflushed(k, x) ==
  /\ async /\ prev # NoChunk /\ In(prev, k, x)
  /\ \/ pc \in {"loop", "sync"}
     \/ pc \in {"flush", "last"} /\ \E p \in work : x - prev.coff \in p.from..p.to

\* What the loops have passed is copied, as long as no copy failed.
Copied ==
  failed = {} =>
    /\ pc \in {"last", "fin", "ret"} => i = Len(seg) + 1
    /\ \A k \in DOMAIN seg : \A x \in Units(k) : seg[k].sel =>
         /\ mode = 0 /\ Passed(k, x) /\ ~Unflushed(k, x) => blob[seg[k].off + x] = Home(k, x)
         /\ mode = 1 => blob[seg[k].off + x] = Home(k, x)
         /\ /\ mode = 1 /\ (Passed(k, x) \/ (pc = "sync" /\ In(Chunk, k, x)))
            /\ \A n \in DOMAIN stream : ~In(stream[n], k, x)
            => dev[k][x] = Home(k, x)

DataInv == Memory /\ FreezeBuffers /\ RemapBuffers /\ InPlace /\ Copied

-----------------------------------------------------------------------------
(* The initial states                                                      *)

\* The table gets the layout the copies rely on.
LEMMA TableLayout ==
  ASSUME NEW t \in Table, seg = Assigned(t),
         blob = [x \in 0..(Totals(t)[Len(t)] - 1) |-> Blank]
  PROVE  Layout /\ \A k \in 1..Len(t) : seg[k].req = t[k].req /\ seg[k].sel = t[k].sel
<1> DEFINE f == Totals(t)
<1>1. Len(t) \in Nat /\ DOMAIN t = 1..Len(t)
  BY DEF Table
<1>2. /\ DOMAIN seg = 1..Len(t) /\ Len(seg) = Len(t)
      /\ \A k \in 1..Len(t) : seg[k] = [req |-> t[k].req, sel |-> t[k].sel, off |-> f[k - 1]]
  <2>1. seg = [k \in 1..Len(t) |-> [req |-> t[k].req, sel |-> t[k].sel, off |-> f[k - 1]]]
    BY <1>1 DEF Assigned
  <2> HIDE DEF f
  <2> QED
    BY <1>1, <2>1, LenProperties
<1>3. \A k \in 0..Len(t) : f[k] \in Nat /\ \A j \in 0..k : f[j] <= f[k]
  BY TotalsGrow
<1>4. \A k \in 1..Len(t) : f[k] = f[k - 1] + Pages(t, k)
  BY TotalsStep
<1>5. \A k \in 1..Len(t) : /\ t[k].req \in Nat \ {0} /\ t[k].sel \in BOOLEAN
                           /\ Pages(t, k) \in Nat /\ (t[k].sel => Pages(t, k) >= t[k].req)
  BY PagesTypes
<1>6. DOMAIN blob = 0..(f[Len(t)] - 1)
  OBVIOUS
<1> HIDE DEF f
<1>7. \A k \in 1..Len(t) : /\ seg[k].req = t[k].req /\ seg[k].sel = t[k].sel
                           /\ seg[k].off = f[k - 1] /\ f[k - 1] \in Nat /\ f[k] \in Nat
                           /\ (seg[k].sel => f[k - 1] + seg[k].req <= f[k])
  <2> TAKE k \in 1..Len(t)
  <2>1. k \in 0..Len(t) /\ k - 1 \in 0..Len(t)
    BY <1>1
  <2>2. f[k - 1] \in Nat /\ f[k] \in Nat
    BY <1>3, <2>1
  <2>3. seg[k].req = t[k].req /\ seg[k].sel = t[k].sel /\ seg[k].off = f[k - 1]
    BY <1>2
  <2> QED
    BY <1>4, <1>5, <2>2, <2>3
<1>8. \A k \in DOMAIN seg : seg[k].req \in Nat \ {0} /\ seg[k].sel \in BOOLEAN /\ seg[k].off \in Nat
  BY <1>2, <1>5, <1>7
<1>9. ASSUME NEW k \in DOMAIN seg, seg[k].sel, NEW x \in Units(k)
      PROVE  seg[k].off + x \in DOMAIN blob
  <2>1. f[k] <= f[Len(t)] /\ f[Len(t)] \in Nat /\ f[k] \in Nat
    BY <1>1, <1>2, <1>3
  <2>2. seg[k].off + seg[k].req <= f[k] /\ seg[k].off \in Nat
    BY <1>2, <1>7, <1>9
  <2>3. x \in Nat /\ x < seg[k].req /\ seg[k].req \in Nat
    BY <1>8 DEF Units
  <2>4. seg[k].off + x \in 0..(f[Len(t)] - 1)
    BY <2>1, <2>2, <2>3
  <2> QED
    BY <1>6, <2>4
<1>10. ASSUME NEW j \in DOMAIN seg, NEW k \in DOMAIN seg, seg[j].sel, seg[k].sel, j < k
       PROVE  seg[j].off + seg[j].req <= seg[k].off
  <2>1. f[j] <= f[k - 1] /\ f[j] \in Nat /\ f[k - 1] \in Nat
    <3>1. k - 1 \in 0..Len(t) /\ j \in 0..(k - 1)
      BY <1>1, <1>2, <1>10
    <3>2. j \in 0..Len(t)
      BY <1>1, <1>2
    <3> QED
      BY <1>3, <3>1, <3>2
  <2>2. seg[j].off + seg[j].req <= f[j] /\ seg[k].off = f[k - 1]
    BY <1>2, <1>7, <1>10
  <2>3. seg[j].off + seg[j].req \in Nat
    BY <1>8
  <2> QED
    BY <2>1, <2>2, <2>3
<1>11. DOMAIN blob \subseteq Nat
  BY <1>6
<1> QED
  BY <1>1, <1>2, <1>7, <1>8, <1>9, <1>10, <1>11 DEF Layout

LEMMA ControlInit == Init => ControlInv
<1> SUFFICES ASSUME Init PROVE ControlInv
  OBVIOUS
<1>1. PICK t \in Tables : /\ seg = Assigned(t) /\ dev = Filled(t)
                          /\ blob = [x \in 0..(Totals(t)[Len(t)] - 1) |-> Blank]
  BY DEF Init
<1>2. t \in Table /\ async \in BOOLEAN
  BY CopyAssumption DEF Table, Init
<1>3. Layout
  BY <1>1, <1>2, TableLayout
<1>4. Loop
  BY <1>3 DEF Init, Loop, Layout
<1>5. Control
  BY <1>2 DEF Init, Control
<1> QED
  BY <1>3, <1>4, <1>5 DEF ControlInv

LEMMA Fills ==
  ASSUME Layout
  PROVE  /\ DOMAIN Filled(seg) = DOMAIN seg
         /\ \A k \in DOMAIN seg : /\ Filled(seg)[k] \in [Units(k) -> Contents]
                                  /\ \A x \in Units(k) : Filled(seg)[k][x] = Home(k, x)
BY DEF Filled, Units, Contents

LEMMA DataInit == Init => DataInv
<1> SUFFICES ASSUME Init PROVE DataInv
  OBVIOUS
<1>0. Layout /\ mode = 0 /\ prev = NoChunk /\ pc = "loop" /\ failed = {} /\ i = 1 /\ coff = 0
  BY ControlInit DEF ControlInv, Init
<1>1. PICK t \in Tables : /\ seg = Assigned(t) /\ dev = Filled(t)
                          /\ blob = [x \in 0..(Totals(t)[Len(t)] - 1) |-> Blank]
  BY DEF Init
<1>2. t \in Table
  BY CopyAssumption DEF Table
<1>3. DOMAIN t = DOMAIN seg /\ \A k \in DOMAIN seg : seg[k].req = t[k].req
  <2>1. DOMAIN t = 1..Len(t)
    BY <1>2 DEF Table
  <2>2. DOMAIN seg = DOMAIN t
    BY <1>1 DEF Assigned
  <2> QED
    BY <1>1, <1>2, <2>1, <2>2, TableLayout
<1>4. dev = Filled(seg)
  BY <1>1, <1>3 DEF Filled
<1>5. \A x \in DOMAIN blob : blob[x] = Blank
  BY <1>1
<1>6. Memory
  <2>1. Blank \in Contents
    BY DEF Contents
  <2>2. bufs \in [{0, 1} -> [0..(StageUnits - 1) -> Contents]]
    BY <2>1 DEF Init, EmptyBuffer
  <2>3. blob \in [DOMAIN blob -> Contents]
    BY <1>1, <2>1
  <2> QED
    BY <1>0, <1>4, <2>2, <2>3, Fills DEF Memory
<1>7. FreezeBuffers /\ RemapBuffers
  BY <1>0 DEF FreezeBuffers, RemapBuffers
<1>8. InPlace
  BY <1>0, <1>4, <1>5, Fills DEF InPlace, Layout
<1>9. Copied
  <2>1. \A k \in DOMAIN seg : \A x \in Units(k) : ~Passed(k, x)
    BY <1>0 DEF Passed, Units, Layout
  <2> QED
    BY <1>0, <2>1 DEF Copied
<1> QED
  BY <1>6, <1>7, <1>8, <1>9 DEF DataInv

-----------------------------------------------------------------------------
(* Control                                                                 *)

LEMMA AppendOne ==
  ASSUME NEW S, NEW s \in Seq(S), NEW c \in S, Len(s) = 1
  PROVE  /\ Append(s, c) \in Seq(S) /\ Len(Append(s, c)) = 2
         /\ Append(s, c)[1] = s[1] /\ Append(s, c)[2] = c
<1>1. /\ Append(s, c) \in Seq(S) /\ Len(Append(s, c)) = Len(s) + 1
      /\ \A k \in 1..Len(s) : Append(s, c)[k] = s[k]
      /\ Append(s, c)[Len(s) + 1] = c
  BY AppendProperties
<1> QED
  BY <1>1

LEMMA AppendPair ==
  ASSUME NEW p, NEW c
  PROVE  Append(<<p>>, c) = <<p, c>>
<1>1. PICK S : S = {p, c}
  OBVIOUS
<1>2. <<p>> \in Seq(S) /\ Len(<<p>>) = 1 /\ <<p>>[1] = p /\ c \in S
  BY <1>1
<1>3. PICK u \in Seq(S) : u = Append(<<p>>, c) /\ Len(u) = 2 /\ u[1] = p /\ u[2] = c
  BY <1>2, AppendOne, Zenon
<1>4. PICK v \in Seq(S) : v = <<p, c>> /\ Len(v) = 2 /\ v[1] = p /\ v[2] = c
  <2>1. <<p, c>> \in Seq(S)
    BY <1>1
  <2>2. Len(<<p, c>>) = 2 /\ <<p, c>>[1] = p /\ <<p, c>>[2] = c
    OBVIOUS
  <2> QED
    BY <2>1, <2>2, Zenon
<1>5. \A k \in 1..Len(u) : u[k] = v[k]
  BY <1>3, <1>4
<1>6. u = v
  BY <1>3, <1>4, <1>5, SeqEqual
<1> QED
  BY <1>3, <1>4, <1>6

\* Streams of one and two chunks.
LEMMA Streams ==
  ASSUME NEW p, NEW c
  PROVE  /\ Append(<<>>, c) = <<c>> /\ Append(<<p>>, c) = <<p, c>>
         /\ Tail(<<c>>) = <<>> /\ Tail(<<p, c>>) = <<c>>
         /\ Head(<<c>>) = c /\ Head(<<p, c>>) = p
         /\ <<c>> # <<>> /\ <<p, c>> # <<>>
         /\ DOMAIN <<>> = {} /\ DOMAIN <<c>> = {1} /\ DOMAIN <<p, c>> = {1, 2}
         /\ <<c>>[1] = c /\ <<p, c>>[1] = p /\ <<p, c>>[2] = c
<1>1. Append(<<>>, c) = <<c>>
  OBVIOUS
<1>2. Append(<<p>>, c) = <<p, c>>
  BY AppendPair
<1>3. Tail(<<c>>) = <<>>
  OBVIOUS
<1>4. Tail(<<p, c>>) = <<c>>
  OBVIOUS
<1>5. Head(<<c>>) = c /\ Head(<<p, c>>) = p
  OBVIOUS
<1>6. <<c>> # <<>> /\ <<p, c>> # <<>>
  OBVIOUS
<1>7. DOMAIN <<>> = {} /\ DOMAIN <<c>> = {1} /\ DOMAIN <<p, c>> = {1, 2}
  OBVIOUS
<1>8. <<c>>[1] = c /\ <<p, c>>[1] = p /\ <<p, c>>[2] = c
  OBVIOUS
<1> QED
  BY <1>1, <1>2, <1>3, <1>4, <1>5, <1>6, <1>7, <1>8

\* The table never changes, nor does the size of the blob.
LEMMA TableSame == [Next]_vars => seg' = seg /\ async' = async /\ DOMAIN blob' = DOMAIN blob
BY DEF Next, Host, Skip, StageChunk, Issue, IssueFail, Sync, FlushEnd, SyncLast, LastEnd, Fin,
       Worker, Dma, DmaFail, SerialCopy, SerialFail, SerialEnd, Remap, Returned,
       tableVars, memVars, vars, DmaCopied

LEMMA LayoutStep ==
  ASSUME Layout, seg' = seg, DOMAIN blob' = DOMAIN blob
  PROVE  Layout'
BY DEF Layout, Units

\* The chunk at the loops' place lies within its segment.
LEMMA ChunkFits ==
  ASSUME Layout, Loop, AtChunk
  PROVE  /\ i \in DOMAIN seg /\ coff < seg[i].req /\ ChunkLen \in 1..StageUnits
         /\ IsChunk(Chunk) /\ Chunk # NoChunk /\ Chunk.buf = b /\ Chunk.seg = i
         /\ Chunk.coff = coff /\ Chunk.len = ChunkLen
<1>1. i \in DOMAIN seg /\ seg[i].sel /\ seg[i].req \in Nat \ {0} /\ coff \in Nat
  BY DEF Layout, Loop, AtChunk, More
<1>2. coff < seg[i].req
  BY <1>1 DEF Loop
<1>3. StageUnits \in Nat \ {0}
  BY CopyAssumption
<1>4. ChunkLen \in 1..StageUnits /\ coff + ChunkLen <= seg[i].req
  BY <1>1, <1>2, <1>3 DEF ChunkLen
<1>5. /\ Chunk.buf = b /\ Chunk.seg = i /\ Chunk.coff = coff /\ Chunk.len = ChunkLen
      /\ NoChunk.seg = 0
  BY DEF Chunk, NoChunk
<1> QED
  BY <1>1, <1>2, <1>4, <1>5 DEF IsChunk, Loop, Layout

LEMMA AdvanceLoop ==
  ASSUME Layout, Loop, AtChunk, Advance, seg' = seg
  PROVE  Loop' /\ prev' = Chunk /\ prev' # NoChunk /\ pc' = "loop" /\ prev'.buf = b
<1>1. IsChunk(Chunk) /\ Chunk # NoChunk /\ Chunk.buf = b /\ i \in DOMAIN seg /\ coff < seg[i].req
      /\ ChunkLen \in 1..StageUnits
  BY ChunkFits
<1>2. prev' = Chunk /\ b' = 1 - b /\ pc' = "loop"
  BY DEF Advance, NextBuffer
<1>3. b \in {0, 1} /\ b' \in {0, 1} /\ b = 1 - b'
  BY <1>2 DEF Loop
<1>4. IsChunk(prev)'
  BY <1>1, <1>2 DEF IsChunk
<1>5. \/ i' = i /\ coff' = coff + ChunkLen /\ coff + ChunkLen < seg[i].req
      \/ i' = i + 1 /\ coff' = 0
  BY DEF Advance
<1>6. Len(seg) \in Nat /\ i \in 1..Len(seg) /\ coff \in Nat
  BY <1>1 DEF Layout, Loop
<1>7. coff' \in Nat /\ i' \in 1..(Len(seg') + 1)
  BY <1>1, <1>5, <1>6
<1>8. coff' # 0 => AtChunk' /\ coff' < seg'[i'].req
  BY <1>5 DEF AtChunk, More
<1> QED
  BY <1>1, <1>2, <1>3, <1>4, <1>7, <1>8 DEF Loop

\* The loops' place does not move.
LEMMA LoopSame ==
  ASSUME Loop, UNCHANGED <<seg, loopVars>>
  PROVE  /\ Loop' /\ (AtChunk' <=> AtChunk) /\ Chunk' = Chunk /\ ChunkLen' = ChunkLen
         /\ prev' = prev /\ b' = b
BY DEF Loop, AtChunk, More, IsChunk, Chunk, ChunkLen, loopVars, NoChunk

\* The stream in the terms of the two chunks it may hold.
LEMMA ReachedStream ==
  ASSUME NEW c, Reached(c)
  PROVE  /\ \A d : stream # <<c, d>>
         /\ stream # <<c>>
<1>1. ASSUME stream = <<c>> PROVE FALSE
  <2>1. 1 \in DOMAIN stream /\ stream[1] = c
    BY <1>1, Streams
  <2> QED
    BY <2>1 DEF Reached
<1>2. ASSUME NEW d, stream = <<c, d>> PROVE FALSE
  <2>1. 1 \in DOMAIN stream /\ stream[1] = c
    BY <1>2, Streams
  <2> QED
    BY <2>1 DEF Reached
<1> QED
  BY <1>1, <1>2

LEMMA ControlStep == ControlInv /\ [Next]_vars => ControlInv'
<1> SUFFICES ASSUME Layout, Loop, Control, [Next]_vars PROVE ControlInv'
  BY DEF ControlInv
<1>0. Layout' /\ seg' = seg /\ async' = async
  BY TableSame, LayoutStep
<1>1. CASE UNCHANGED vars
  <2>1. Loop' /\ (AtChunk' <=> AtChunk) /\ Chunk' = Chunk /\ ChunkLen' = ChunkLen
    BY <1>0, <1>1, LoopSame DEF vars
  <2> QED
    BY <1>0, <1>1, <2>1 DEF vars, tableVars, loopVars, Control, ControlInv, NoChunk, Parts, Share
<1>2. CASE Skip
  <2>1. pc = "loop" /\ i <= Len(seg) /\ ~seg[i].sel /\ i' = i + 1
        /\ UNCHANGED <<mode, pc, coff, b, prev, work, stream>>
    BY <1>2 DEF Skip, More, AtChunk, tableVars
  <2>2. coff = 0 /\ i' \in 1..(Len(seg) + 1)
    BY <2>1 DEF Loop, AtChunk, Layout
  <2>3. Loop'
    BY <1>0, <2>1, <2>2 DEF Loop, IsChunk, NoChunk
  <2>4. Control'
    BY <1>0, <2>1 DEF Control, NoChunk
  <2> QED
    BY <1>0, <2>3, <2>4 DEF ControlInv
<1>3. CASE StageChunk
  <2>1. Loop' /\ AtChunk' /\ Chunk' = Chunk /\ ChunkLen' = ChunkLen /\ prev' = prev
    BY <1>0, <1>3, LoopSame DEF StageChunk
  <2>2. pc = "loop" /\ pc' = "stage" /\ mode = 1 /\ mode' = 1 /\ async /\ work' = Parts(ChunkLen)
        /\ stream' = stream
    BY <1>3 DEF StageChunk, tableVars
  <2>3. Control'
    BY <1>0, <2>1, <2>2 DEF Control, Parts, Share, NoChunk
  <2> QED
    BY <1>0, <2>1, <2>3 DEF ControlInv
<1>4. CASE Issue
  <2>1. Loop' /\ AtChunk' /\ Chunk' = Chunk /\ prev' = prev
    BY <1>0, <1>4, LoopSame DEF Issue, CanIssue
  <2>2. pc \in {"loop", "stage"} /\ pc' = "sync" /\ mode' = mode /\ async /\ work = {} /\ work' = {}
        /\ stream' = Append(stream, Chunk)
    BY <1>4 DEF Issue, CanIssue, tableVars, Control
  <2>3. stream = <<>> \/ (prev # NoChunk /\ stream = <<prev>>)
    BY <2>2 DEF Control
  <2>4. stream' = <<Chunk>> \/ (prev # NoChunk /\ stream' = <<prev, Chunk>>)
    <3>1. CASE stream = <<>>
      BY <2>2, <3>1, Streams
    <3>2. CASE prev # NoChunk /\ stream = <<prev>>
      <4>1. Append(stream, Chunk) = <<prev, Chunk>>
        BY <3>2, AppendPair
      <4> QED
        BY <2>2, <3>2, <4>1
    <3> QED
      BY <2>3, <3>1, <3>2
  <2>5. Control'
    BY <1>0, <2>1, <2>2, <2>4 DEF Control, NoChunk
  <2> QED
    BY <1>0, <2>1, <2>5 DEF ControlInv
<1>5. CASE IssueFail
  <2>1. Loop' /\ Chunk' = Chunk /\ prev' = prev
    BY <1>0, <1>5, LoopSame DEF IssueFail
  <2>2. pc \in {"loop", "stage"} /\ pc' = "fin" /\ mode' = mode /\ async /\ work = {} /\ work' = {}
        /\ stream' = stream
    BY <1>5 DEF IssueFail, ErrorExit, CanIssue, tableVars, Control
  <2>3. Control'
    BY <1>0, <2>1, <2>2 DEF Control, NoChunk
  <2> QED
    BY <1>0, <2>1, <2>3 DEF ControlInv
<1>6. CASE Sync
  <2>1. pc = "sync" /\ AtChunk /\ (prev = NoChunk \/ Reached(prev)) /\ UNCHANGED <<mode, stream>>
    BY <1>6 DEF Sync, Control, tableVars
  <2>2. stream \in {<<>>, <<Chunk>>}
    BY <2>1, ReachedStream DEF Control
  <2>3. CASE mode = 0 /\ prev # NoChunk
    <3>1. pc' = "flush" /\ work' = Parts(prev.len) /\ UNCHANGED loopVars
      BY <1>6, <2>3 DEF Sync
    <3>2. Loop' /\ AtChunk' /\ Chunk' = Chunk /\ prev' = prev
      BY <1>0, <2>1, <3>1, LoopSame
    <3>3. Control'
      BY <1>0, <2>1, <2>2, <2>3, <3>1, <3>2 DEF Control, Parts, Share, NoChunk
    <3> QED
      BY <1>0, <3>2, <3>3 DEF ControlInv
  <2>4. CASE ~(mode = 0 /\ prev # NoChunk)
    <3>1. Advance /\ work' = work
      BY <1>6, <2>4 DEF Sync
    <3>2. Loop' /\ prev' = Chunk /\ prev' # NoChunk /\ pc' = "loop"
      BY <1>0, <2>1, <3>1, AdvanceLoop
    <3>3. Control'
      BY <1>0, <2>1, <2>2, <3>1, <3>2 DEF Control, NoChunk
    <3> QED
      BY <1>0, <3>2, <3>3 DEF ControlInv
  <2> QED
    BY <2>3, <2>4
<1>7. CASE FlushEnd
  <2>1. pc = "flush" /\ AtChunk /\ work = {} /\ Advance /\ UNCHANGED <<mode, stream, work>>
    BY <1>7 DEF FlushEnd, Control, tableVars
  <2>2. stream \in {<<>>, <<Chunk>>}
    BY <2>1 DEF Control
  <2>3. Loop' /\ prev' = Chunk /\ prev' # NoChunk /\ pc' = "loop"
    BY <1>0, <2>1, AdvanceLoop
  <2>4. Control'
    BY <1>0, <2>1, <2>2, <2>3 DEF Control, NoChunk
  <2> QED
    BY <1>0, <2>3, <2>4 DEF ControlInv
<1>8. CASE SyncLast
  <2>1. Loop' /\ Chunk' = Chunk /\ prev' = prev
    BY <1>0, <1>8, LoopSame DEF SyncLast
  <2>2. /\ pc = "loop" /\ async /\ (prev = NoChunk \/ Reached(prev)) /\ UNCHANGED <<mode, stream>>
        /\ work = {}
        /\ \/ mode = 0 /\ prev # NoChunk /\ pc' = "last" /\ work' = Parts(prev.len)
           \/ pc' = "fin" /\ work' = {}
    BY <1>8 DEF SyncLast, tableVars, Control
  <2>3. stream = <<>>
    BY <2>2, ReachedStream DEF Control
  <2>4. Control'
    BY <1>0, <2>1, <2>2, <2>3 DEF Control, Parts, Share, NoChunk
  <2> QED
    BY <1>0, <2>1, <2>4 DEF ControlInv
<1>9. CASE LastEnd \/ Fin
  <2>1. Loop' /\ Chunk' = Chunk /\ prev' = prev
    BY <1>0, <1>9, LoopSame DEF LastEnd, Fin
  <2>2. /\ UNCHANGED <<mode, stream, work>> /\ work = {} /\ stream = <<>> /\ async
        /\ pc' \in {"fin", "ret"}
    BY <1>9 DEF LastEnd, Fin, tableVars, Control
  <2>3. Control'
    BY <1>0, <2>1, <2>2 DEF Control, NoChunk
  <2> QED
    BY <1>0, <2>1, <2>3 DEF ControlInv
<1>10. ASSUME NEW p \in work, Worker(p) PROVE ControlInv'
  <2>1. Loop' /\ (AtChunk' <=> AtChunk) /\ Chunk' = Chunk /\ ChunkLen' = ChunkLen /\ prev' = prev
    BY <1>0, <1>10, LoopSame DEF Worker
  <2>2. UNCHANGED <<mode, pc, stream>> /\ work' \subseteq work
    BY <1>10 DEF Worker, tableVars
  <2>3. Control'
    BY <1>0, <2>1, <2>2 DEF Control, Parts, Share, NoChunk
  <2> QED
    BY <1>0, <2>1, <2>3 DEF ControlInv
<1>11. CASE Dma \/ DmaFail
  <2>1. Loop' /\ (AtChunk' <=> AtChunk) /\ Chunk' = Chunk /\ ChunkLen' = ChunkLen /\ prev' = prev
    BY <1>0, <1>11, LoopSame DEF Dma, DmaFail
  <2>2. UNCHANGED <<mode, pc, work>> /\ stream # <<>> /\ stream' = Tail(stream)
    BY <1>11 DEF Dma, DmaFail, tableVars
  <2>3. /\ \A c : stream = <<c>> => stream' = <<>>
        /\ \A p, c : stream = <<p, c>> => stream' = <<c>>
    <3>1. ASSUME NEW c, stream = <<c>> PROVE stream' = <<>>
      BY <2>2, <3>1, Streams
    <3>2. ASSUME NEW p, NEW c, stream = <<p, c>> PROVE stream' = <<c>>
      BY <2>2, <3>2, Streams
    <3> QED
      BY <3>1, <3>2
  <2>4. Control'
    BY <1>0, <2>1, <2>2, <2>3 DEF Control, Parts, Share, NoChunk
  <2> QED
    BY <1>0, <2>1, <2>4 DEF ControlInv
<1>12. CASE SerialCopy \/ SerialEnd
  <2>1. ~async /\ pc = "loop" /\ UNCHANGED <<mode, work, stream>>
    BY <1>12 DEF SerialCopy, SerialEnd, tableVars
  <2>2. Loop' /\ pc' \in {"loop", "ret"}
    <3>1. CASE SerialCopy
      BY <1>0, <3>1, AdvanceLoop DEF SerialCopy
    <3>2. CASE SerialEnd
      BY <1>0, <3>2, LoopSame DEF SerialEnd
    <3> QED
      BY <1>12, <3>1, <3>2
  <2>3. Control'
    BY <1>0, <2>1, <2>2 DEF Control
  <2> QED
    BY <1>0, <2>2, <2>3 DEF ControlInv
<1>13. CASE SerialFail
  <2>1. ~async /\ pc = "loop" /\ UNCHANGED <<mode, work, stream>> /\ AtChunk
    BY <1>13 DEF SerialFail, tableVars
  <2>2. CASE Advance
    <3>1. Loop' /\ pc' = "loop"
      BY <1>0, <2>1, <2>2, AdvanceLoop
    <3>2. Control'
      BY <1>0, <2>1, <3>1 DEF Control
    <3> QED
      BY <1>0, <3>1, <3>2 DEF ControlInv
  <2>3. CASE ~Advance
    <3>1. i' = i + 1 /\ coff' = 0 /\ UNCHANGED <<pc, b, prev>>
      BY <1>13, <2>3 DEF SerialFail
    <3>2. i' \in 1..(Len(seg) + 1)
      BY <2>1, <3>1 DEF AtChunk, More, Loop, Layout
    <3>3. Loop'
      BY <1>0, <3>1, <3>2 DEF Loop, IsChunk, NoChunk
    <3>4. Control'
      BY <1>0, <2>1, <3>1 DEF Control
    <3> QED
      BY <1>0, <3>3, <3>4 DEF ControlInv
  <2> QED
    BY <2>2, <2>3
<1>14. CASE Remap
  <2>1. /\ pc = "ret" /\ pc' = "loop" /\ mode' = 1 /\ i' = 1 /\ coff' = 0 /\ b' = 0
        /\ prev' = NoChunk /\ UNCHANGED <<work, stream>>
    BY <1>14 DEF Remap
  <2>2. Loop'
    BY <1>0, <2>1 DEF Loop, Layout, NoChunk
  <2>3. Control'
    BY <1>0, <2>1 DEF Control, NoChunk
  <2> QED
    BY <1>0, <2>2, <2>3 DEF ControlInv
<1>15. CASE Returned
  BY <1>1, <1>15 DEF Returned
<1> QED
  BY <1>1, <1>2, <1>3, <1>4, <1>5, <1>6, <1>7, <1>8, <1>9, <1>10, <1>11, <1>12, <1>13, <1>14, <1>15
     DEF Next, Host

\* The stream has only chunks of the two buffers, and one of prev's buffer is prev.
LEMMA StreamChunks ==
  ASSUME ControlInv, NEW n \in DOMAIN stream
  PROVE  /\ async /\ IsChunk(stream[n])
         /\ \/ stream[n] = prev /\ prev # NoChunk /\ stream[n].buf = 1 - b
            \/ stream[n] = Chunk /\ stream[n].buf = b /\ pc \in {"sync", "flush"}
<1>0. Layout /\ Loop /\ Control
  BY DEF ControlInv
<1>1. stream # <<>>
  BY Streams
<1>2. \/ stream = <<prev>> /\ prev # NoChunk
      \/ stream = <<Chunk>> /\ pc \in {"sync", "flush"}
      \/ stream = <<prev, Chunk>> /\ prev # NoChunk /\ pc \in {"sync", "flush"}
  BY <1>0, <1>1 DEF Control
<1>3. \/ stream[n] = prev /\ prev # NoChunk
      \/ stream[n] = Chunk /\ pc \in {"sync", "flush"}
  BY <1>2, Streams
<1>4. prev # NoChunk => IsChunk(prev) /\ prev.buf = 1 - b
  BY <1>0 DEF Loop
<1>5. pc \in {"sync", "flush"} => IsChunk(Chunk) /\ Chunk.buf = b
  BY <1>0, ChunkFits DEF Control
<1>6. async
  BY <1>0, <1>1 DEF Control
<1> QED
  BY <1>3, <1>4, <1>5, <1>6

LEMMA RaceFree == ControlInv => NoRace
<1> SUFFICES ASSUME ControlInv PROVE NoRace
  OBVIOUS
<1>0. Layout /\ Loop /\ Control /\ b \in {0, 1}
  BY DEF ControlInv, Loop
<1>1. ASSUME work # {}, NEW n \in DOMAIN stream PROVE stream[n].buf # BufferInUse
  <2>1. pc \in {"stage", "flush", "last"} /\ (pc = "stage" => mode = 1)
        /\ (pc \in {"flush", "last"} => mode = 0 /\ prev # NoChunk)
    BY <1>0, <1>1 DEF Control
  <2>2. CASE pc = "stage"
    BY <1>0, <2>1, <2>2, StreamChunks DEF BufferInUse
  <2>3. CASE pc = "flush"
    <3>1. stream = <<Chunk>>
      BY <1>0, <1>1, <2>3, Streams DEF Control
    <3>2. stream[n] = Chunk /\ Chunk.buf = b
      BY <3>1, Streams DEF Chunk
    <3>3. prev.buf = 1 - b
      BY <1>0, <2>1, <2>3 DEF Loop
    <3> QED
      BY <1>0, <2>1, <2>3, <3>2, <3>3 DEF BufferInUse
  <2>4. CASE pc = "last"
    BY <1>0, <1>1, <2>4, Streams DEF Control
  <2> QED
    BY <2>1, <2>2, <2>3, <2>4
<1>2. ASSUME NEW p \in work, NEW q \in work, p # q PROVE Touched(p) \cap Touched(q) = {}
  <2>1. PICK m \in Nat \ {0} : work \subseteq Parts(m)
    <3>1. pc \in {"stage", "flush", "last"}
      BY <1>0, <1>2 DEF Control
    <3>2. CASE pc = "stage"
      <4>1. ChunkLen \in 1..StageUnits
        BY <1>0, <3>2, ChunkFits DEF Control
      <4>2. ChunkLen \in Nat \ {0}
        BY <4>1
      <4> QED
        BY <1>0, <3>2, <4>2 DEF Control
    <3>3. CASE pc \in {"flush", "last"}
      <4>1. prev.len \in 1..StageUnits
        BY <1>0, <3>3 DEF Control, Loop, IsChunk
      <4>2. prev.len \in Nat \ {0}
        BY <4>1
      <4> QED
        BY <1>0, <3>3, <4>2 DEF Control
    <3> QED
      BY <3>1, <3>2, <3>3
  <2> QED
    BY <1>2, <2>1, PartsCover DEF Touched
<1> QED
  BY <1>1, <1>2 DEF NoRace

-----------------------------------------------------------------------------
(* Data                                                                    *)

\* Units of the blob belong to one place.
LEMMA UnitsApart ==
  ASSUME Layout, NEW j \in DOMAIN seg, NEW k \in DOMAIN seg, seg[j].sel, seg[k].sel,
         NEW x \in Units(j), NEW y \in Units(k), seg[j].off + x = seg[k].off + y
  PROVE  j = k /\ x = y
<1>1. /\ j \in Nat /\ k \in Nat /\ seg[j].off \in Nat /\ seg[k].off \in Nat
      /\ seg[j].req \in Nat /\ seg[k].req \in Nat
  BY DEF Layout
<1>5. x \in Nat /\ y \in Nat /\ x < seg[j].req /\ y < seg[k].req
  BY <1>1 DEF Units
<1>2. j < k => seg[j].off + seg[j].req <= seg[k].off
  BY DEF Layout
<1>3. k < j => seg[k].off + seg[k].req <= seg[j].off
  BY DEF Layout
<1> QED
  BY <1>1, <1>2, <1>3, <1>5

\* The units of a chunk.
LEMMA ChunkUnits ==
  ASSUME Layout, NEW c, IsChunk(c), NEW y \in 0..(c.len - 1)
  PROVE  /\ At(c, y) \in Units(c.seg) /\ Place(c, y) = seg[c.seg].off + At(c, y)
         /\ Place(c, y) \in DOMAIN blob /\ Place(c, y) - Place(c, 0) = y
         /\ At(c, y) - c.coff = y /\ y \in 0..(StageUnits - 1)
<1>1. /\ c.seg \in DOMAIN seg /\ seg[c.seg].sel /\ c.coff \in Nat /\ c.len \in 1..StageUnits
      /\ c.coff + c.len <= seg[c.seg].req /\ seg[c.seg].off \in Nat /\ seg[c.seg].req \in Nat
      /\ StageUnits \in Nat
  BY CopyAssumption DEF IsChunk, Layout
<1>2. At(c, y) \in Units(c.seg)
  BY <1>1 DEF At, Units
<1>3. Place(c, y) = seg[c.seg].off + At(c, y) /\ Place(c, y) - Place(c, 0) = y
      /\ At(c, y) - c.coff = y /\ y \in 0..(StageUnits - 1)
  BY <1>1 DEF At, Place
<1> QED
  BY <1>1, <1>2, <1>3 DEF Layout

\* A unit of the blob that lies in a chunk's place is that chunk's.
LEMMA UnitOfChunk ==
  ASSUME Layout, NEW c, IsChunk(c), NEW k \in DOMAIN seg, seg[k].sel, NEW x \in Units(k),
         NEW y \in 0..(c.len - 1), (seg[k].off + x) - Place(c, 0) = y
  PROVE  k = c.seg /\ x = At(c, y) /\ x - c.coff = y
<1>1. At(c, y) \in Units(c.seg) /\ Place(c, y) = seg[c.seg].off + At(c, y)
      /\ Place(c, y) - Place(c, 0) = y /\ At(c, y) - c.coff = y
  BY ChunkUnits
<1>2. c.seg \in DOMAIN seg /\ seg[c.seg].sel /\ c.coff \in Nat /\ seg[c.seg].off \in Nat
      /\ seg[k].off \in Nat /\ x \in Nat
  BY DEF IsChunk, Layout, Units
<1>3. Place(c, 0) \in Nat /\ Place(c, y) \in Nat
  BY <1>2 DEF Place
<1>4. seg[k].off + x = seg[c.seg].off + At(c, y)
  <2>1. PICK u \in Nat : u = seg[k].off + x
    BY <1>2
  <2>2. u - Place(c, 0) = Place(c, y) - Place(c, 0)
    BY <1>1, <2>1
  <2>3. u = Place(c, y)
    BY <1>3, <2>2
  <2> QED
    BY <1>1, <2>1, <2>3
<1>5. k = c.seg /\ x = At(c, y)
  <2>1. PICK j \in DOMAIN seg : j = c.seg /\ seg[j].sel
    BY <1>2
  <2>2. PICK z \in Units(j) : z = At(c, y)
    BY <1>1, <2>1
  <2>3. seg[k].off + x = seg[j].off + z
    BY <1>4, <2>1, <2>2
  <2>4. k = j /\ x = z
    BY <2>1, <2>3, UnitsApart
  <2> QED
    BY <2>1, <2>2, <2>4
<1> QED
  BY <1>1, <1>5

\* To the next chunk: the loops have passed this one.
LEMMA AdvancePassed ==
  ASSUME Layout, Loop, AtChunk, Advance, NEW k \in DOMAIN seg, NEW x \in Units(k)
  PROVE  Passed(k, x)' <=> Passed(k, x) \/ In(Chunk, k, x)
<1>1. /\ i \in DOMAIN seg /\ coff < seg[i].req /\ ChunkLen \in 1..StageUnits
      /\ Chunk.seg = i /\ Chunk.coff = coff /\ Chunk.len = ChunkLen /\ IsChunk(Chunk)
  BY ChunkFits
<1>2. /\ i \in Nat /\ k \in Nat /\ coff \in Nat /\ x \in Nat /\ x < seg[k].req
      /\ seg[k].req \in Nat /\ seg[i].req \in Nat /\ ChunkLen \in Nat
      /\ coff + ChunkLen <= seg[i].req
  BY <1>1 DEF Layout, Loop, Units, IsChunk
<1>3. In(Chunk, k, x) <=> k = i /\ coff <= x /\ x < coff + ChunkLen
  BY <1>1, <1>2 DEF In
<1>4. CASE coff + ChunkLen < seg[i].req
  <2>1. i' = i /\ coff' = coff + ChunkLen
    BY <1>4 DEF Advance
  <2> QED
    BY <1>2, <1>3, <2>1 DEF Passed
<1>5. CASE ~(coff + ChunkLen < seg[i].req)
  <2>1. i' = i + 1 /\ coff' = 0
    BY <1>5 DEF Advance
  <2>2. Passed(k, x)' <=> k < i + 1
    BY <1>2, <2>1 DEF Passed
  <2> QED
    BY <1>2, <1>3, <1>5, <2>2 DEF Passed
<1> QED
  BY <1>4, <1>5

\* A step that copies nothing; a failure may be noted.
Still == /\ UNCHANGED <<seg, async, memVars, mode>>
         /\ failed \subseteq failed' /\ failed' \subseteq {"call", "device"}

LEMMA StillMemory ==
  ASSUME Memory, InPlace, Still
  PROVE  Memory' /\ InPlace'
<1>1. seg' = seg /\ dev' = dev /\ blob' = blob /\ bufs' = bufs /\ mode' = mode
      /\ ("device" \notin failed' => "device" \notin failed)
      /\ failed' \subseteq {"call", "device"}
  BY DEF Still, memVars
<1>2. Memory'
  BY <1>1 DEF Memory, Contents, Units, Home
<1>3. InPlace'
  BY <1>1 DEF InPlace, Filled, Units, Home
<1> QED
  BY <1>2, <1>3

LEMMA StillRemap ==
  ASSUME RemapBuffers, Still, UNCHANGED stream, pc' # "stage"
  PROVE  RemapBuffers'
BY DEF RemapBuffers, Staged, Place, Still, memVars

\* The loops stay where they are, and so does the device.
LEMMA StillFreeze ==
  ASSUME FreezeBuffers, Still, UNCHANGED <<loopVars, stream>>,
         pc' \in {"sync", "flush"} => pc \in {"sync", "flush"}
  PROVE  FreezeBuffers'
BY DEF FreezeBuffers, Loaded, Home, At, Reached, NoChunk, Still, memVars, loopVars, Chunk, ChunkLen

\* On to the next chunk, which the device has.
LEMMA AdvanceFreeze ==
  ASSUME ControlInv, FreezeBuffers, Still, UNCHANGED stream, Advance, pc \in {"sync", "flush"}
  PROVE  FreezeBuffers'
<1>1. prev' = Chunk /\ pc' = "loop"
  BY DEF Advance
<1> QED
  BY <1>1 DEF FreezeBuffers, Loaded, Home, At, Reached, Still, memVars

LEMMA AdvanceCopied ==
  ASSUME ControlInv, Copied, Still, UNCHANGED stream, Advance,
         \/ pc = "sync" /\ (mode = 1 \/ prev = NoChunk)
         \/ pc = "flush" /\ work = {}
  PROVE  Copied'
<1>0. Layout /\ Loop /\ Control /\ AtChunk /\ async /\ pc' = "loop" /\ prev' = Chunk
      /\ Chunk # NoChunk
  BY ChunkFits DEF ControlInv, Control, Advance
<1>1. seg' = seg /\ mode' = mode /\ async' = async /\ dev' = dev /\ blob' = blob
      /\ (failed' = {} => failed = {})
  BY DEF Still, memVars
<1> SUFFICES ASSUME failed' = {}, NEW k \in DOMAIN seg, NEW x \in Units(k), seg[k].sel
             PROVE  /\ mode = 0 /\ Passed(k, x)' /\ ~Unflushed(k, x)' => blob[seg[k].off + x] = Home(k, x)
                    /\ mode = 1 => blob[seg[k].off + x] = Home(k, x)
                    /\ /\ mode = 1 /\ Passed(k, x)'
                       /\ \A n \in DOMAIN stream : ~In(stream[n], k, x)
                       => dev[k][x] = Home(k, x)
  BY <1>0, <1>1 DEF Copied, Units, Home, In
<1>2. Passed(k, x)' <=> Passed(k, x) \/ In(Chunk, k, x)
  BY <1>0, AdvancePassed
<1>3. In(Chunk, k, x) => Unflushed(k, x)'
  BY <1>0, <1>1 DEF Unflushed, In
<1>4. mode = 0 => ~Unflushed(k, x)
  BY <1>0 DEF Unflushed
<1>5. mode = 1 => pc = "sync"
  BY <1>0 DEF Control
<1>6. CASE mode = 0
  BY <1>1, <1>2, <1>3, <1>4, <1>6 DEF Copied
<1>7. CASE mode = 1
  BY <1>1, <1>2, <1>5, <1>7 DEF Copied
<1> QED
  BY <1>0, <1>6, <1>7 DEF Control

\* The loops stay where they are: what was not in the blob and what was under way
\* stays so.
LEMMA StillCopied ==
  ASSUME ControlInv, Copied, Still, UNCHANGED loopVars,
         failed' = {} =>
           /\ pc' \in {"last", "fin", "ret"} => i = Len(seg) + 1
           /\ \A k \in DOMAIN seg : \A x \in Units(k) : seg[k].sel =>
                /\ mode = 0 /\ Unflushed(k, x) => Unflushed(k, x)'
                /\ mode = 1 /\ pc' = "sync" /\ In(Chunk, k, x)
                   => pc = "sync" \/ \E n \in DOMAIN stream' : In(stream'[n], k, x)
                /\ mode = 1 /\ (\A n \in DOMAIN stream' : ~In(stream'[n], k, x))
                   => \A n \in DOMAIN stream : ~In(stream[n], k, x)
  PROVE  Copied'
<1>1. seg' = seg /\ mode' = mode /\ async' = async /\ dev' = dev /\ blob' = blob
      /\ (failed' = {} => failed = {}) /\ i' = i /\ coff' = coff
  BY DEF Still, memVars, loopVars
<1>2. Chunk' = Chunk
  BY <1>1 DEF Chunk, ChunkLen, loopVars
<1>3. \A k, x : /\ (k \in DOMAIN seg)' <=> k \in DOMAIN seg
                /\ (x \in Units(k))' <=> x \in Units(k)
                /\ Home(k, x)' = Home(k, x) /\ (Passed(k, x)' <=> Passed(k, x))
                /\ In(Chunk, k, x)' <=> In(Chunk, k, x)
  BY <1>1, <1>2 DEF Units, Home, Passed, In
<1> SUFFICES ASSUME failed' = {}, NEW k \in DOMAIN seg, NEW x \in Units(k), seg[k].sel
             PROVE  /\ mode = 0 /\ Passed(k, x) /\ ~Unflushed(k, x)' => blob[seg[k].off + x] = Home(k, x)
                    /\ mode = 1 => blob[seg[k].off + x] = Home(k, x)
                    /\ /\ mode = 1 /\ (Passed(k, x) \/ (pc' = "sync" /\ In(Chunk, k, x)))
                       /\ \A n \in DOMAIN stream' : ~In(stream'[n], k, x)
                       => dev[k][x] = Home(k, x)
  <2> DEFINE Goal(k, x) ==
               /\ mode = 0 /\ Passed(k, x) /\ ~Unflushed(k, x)' => blob[seg[k].off + x] = Home(k, x)
               /\ mode = 1 => blob[seg[k].off + x] = Home(k, x)
               /\ /\ mode = 1 /\ (Passed(k, x) \/ (pc' = "sync" /\ In(Chunk, k, x)))
                  /\ \A n \in DOMAIN stream' : ~In(stream'[n], k, x)
                  => dev[k][x] = Home(k, x)
  <2>1. SUFFICES ASSUME failed' = {}, \A k \in DOMAIN seg : \A x \in Units(k) : seg[k].sel => Goal(k, x)
                 PROVE  Copied'
    BY DEF Copied
  <2>2. pc' \in {"last", "fin", "ret"} => i' = Len(seg') + 1
    BY <1>1, <2>1
  <2> QED
    BY <1>1, <1>3, <2>1, <2>2 DEF Copied, In
<1> QED
  BY <1>1 DEF Copied

\* In any state, a unit and what it holds.
LEMMA Units_Home ==
  ASSUME seg' = seg
  PROVE  /\ \A k : Units(k)' = Units(k)
         /\ \A k, x : Home(k, x)' = Home(k, x)
         /\ Contents' = Contents
BY DEF Units, Home, Contents

\* What Copied says of the next state.
LEMMA CopiedNext ==
  ASSUME seg' = seg,
         failed' = {} /\ pc' \in {"last", "fin", "ret"} => i' = Len(seg) + 1,
         \A k \in DOMAIN seg : \A x \in Units(k) : seg[k].sel /\ failed' = {} =>
           /\ mode' = 0 /\ Passed(k, x)' /\ ~Unflushed(k, x)' => blob'[seg[k].off + x] = Home(k, x)
           /\ mode' = 1 => blob'[seg[k].off + x] = Home(k, x)
           /\ /\ mode' = 1 /\ (Passed(k, x)' \/ (pc' = "sync" /\ In(Chunk', k, x)))
              /\ \A n \in DOMAIN stream' : ~In(stream'[n], k, x)
              => dev'[k][x] = Home(k, x)
  PROVE  Copied'
<1>1. /\ (\A k : Units(k)' = Units(k)) /\ (\A k, x : Home(k, x)' = Home(k, x))
  BY Units_Home
<1>2. \A k, x : In(Chunk, k, x)' <=> In(Chunk', k, x)
  BY DEF In
<1>3. \A k, x, n : In(stream[n], k, x)' <=> In(stream'[n], k, x)
  BY DEF In
<1> QED
  BY <1>1, <1>2, <1>3 DEF Copied

\* One thread writes its part of the chunk before to the blob.
LEMMA FlushData ==
  ASSUME ControlInv, DataInv, NEW p \in work, Worker(p), mode = 0
  PROVE  DataInv'
<1> DEFINE P0 == Place(prev, 0)
<1>0. /\ Layout /\ Loop /\ Control /\ Memory /\ FreezeBuffers /\ InPlace /\ Copied
      /\ pc \in {"flush", "last"} /\ async /\ prev # NoChunk /\ IsChunk(prev) /\ prev.buf = 1 - b
  BY DEF ControlInv, DataInv, Control, Loop
<1>1. /\ blob' = [x \in DOMAIN blob |-> IF x - P0 \in p.from..p.to
                                        THEN bufs[prev.buf][x - P0] ELSE blob[x]]
      /\ work' = work \ {p}
      /\ UNCHANGED <<seg, async, mode, pc, i, coff, b, prev, stream, bufs, dev, failed>>
  BY DEF Worker, tableVars, loopVars
<1>2. p.from \in 0..(prev.len - 1) /\ p.to \in 0..(prev.len - 1)
      /\ prev.len \in 1..StageUnits /\ StageUnits \in Nat
  <2>1. prev.len \in 1..StageUnits /\ StageUnits \in Nat
    BY <1>0, CopyAssumption DEF IsChunk
  <2>2. prev.len \in Nat \ {0} /\ p \in Parts(prev.len)
    BY <1>0, <2>1 DEF Control
  <2> QED
    BY <2>1, <2>2, PartsCover
<1>3. Reached(prev)
  <2>1. pc = "flush" => Chunk.buf = b
    BY DEF Chunk
  <2>2. stream \in {<<>>, <<Chunk>>} /\ (pc = "last" => stream = <<>>)
    BY <1>0 DEF Control
  <2>3. b \in {0, 1}
    BY <1>0 DEF Loop
  <2> QED
    BY <1>0, <2>1, <2>2, <2>3, Streams DEF Reached
<1>4. "device" \notin failed => Loaded(prev)
  BY <1>0, <1>3 DEF FreezeBuffers, ControlInv, DataInv
<1> DEFINE mine(k, x) == k = prev.seg /\ x - prev.coff \in p.from..p.to
<1>5. ASSUME NEW k \in DOMAIN seg, NEW x \in Units(k), seg[k].sel
      PROVE  /\ mine(k, x) /\ "device" \notin failed => blob'[seg[k].off + x] = Home(k, x)
             /\ ~mine(k, x) => blob'[seg[k].off + x] = blob[seg[k].off + x]
  <2>0. PICK u, y : u = seg[k].off + x /\ y = u - Place(prev, 0)
    OBVIOUS
  <2>1. u \in DOMAIN blob
    BY <1>0, <1>5, <2>0 DEF Layout
  <2>2. CASE y \in p.from..p.to
    <3>1. y \in 0..(prev.len - 1)
      BY <1>2, <2>2
    <3>2. k = prev.seg /\ x = At(prev, y) /\ x - prev.coff = y
      <4>1. (seg[k].off + x) - Place(prev, 0) = y
        BY <2>0
      <4>2. Layout /\ IsChunk(prev) /\ seg[k].sel
        BY <1>0, <1>5
      <4> QED
        BY <3>1, <4>1, <4>2, UnitOfChunk
    <3>3. blob'[u] = bufs[prev.buf][y]
      BY <1>1, <2>0, <2>1, <2>2
    <3>4. "device" \notin failed => bufs[prev.buf][y] = Home(prev.seg, At(prev, y))
      BY <1>4, <3>1 DEF Loaded
    <3> QED
      BY <2>0, <2>2, <3>2, <3>3, <3>4
  <2>3. CASE y \notin p.from..p.to
    <3>1. blob'[u] = blob[u]
      BY <1>1, <2>0, <2>1, <2>3
    <3>2. ~mine(k, x)
      <4> SUFFICES ASSUME mine(k, x) PROVE FALSE
        OBVIOUS
      <4>1. prev.coff \in Nat /\ seg[k].off \in Nat /\ x \in Nat /\ P0 = seg[k].off + prev.coff + 0
        BY <1>0, <1>5 DEF IsChunk, Layout, Units, Place
      <4>2. y = x - prev.coff
        BY <2>0, <4>1
      <4> QED
        BY <2>3, <4>2
    <3> QED
      BY <2>0, <3>1, <3>2
  <2> QED
    BY <2>2, <2>3
<1> HIDE DEF mine
<1>6. /\ (\A k : Units(k)' = Units(k)) /\ (\A k, x : Home(k, x)' = Home(k, x)) /\ Contents' = Contents
  BY <1>1, Units_Home
<1>7. Memory'
  <2>1. ASSUME NEW x \in DOMAIN blob PROVE blob'[x] \in Contents
    <3>1. x - P0 \in p.from..p.to => x - P0 \in 0..(StageUnits - 1)
      BY <1>2
    <3>2. prev.buf \in {0, 1} /\ bufs \in [{0, 1} -> [0..(StageUnits - 1) -> Contents]]
      BY <1>0 DEF IsChunk, Memory
    <3>3. blob[x] \in Contents
      BY <1>0 DEF Memory
    <3> QED
      BY <1>1, <3>1, <3>2, <3>3
  <2>2. blob' \in [DOMAIN blob' -> Contents]
    BY <1>1, <2>1
  <2> QED
    BY <1>0, <1>1, <1>6, <2>2 DEF Memory
<1>8. FreezeBuffers'
  BY <1>0, <1>1
     DEF FreezeBuffers, Loaded, Home, At, Reached, NoChunk, Chunk, ChunkLen
<1>9. RemapBuffers'
  BY <1>1 DEF RemapBuffers
<1>10. InPlace'
  <2>1. dev' = Filled(seg)'
    BY <1>0, <1>1 DEF InPlace, Filled, Home
  <2>2. ASSUME NEW k \in DOMAIN seg, NEW x \in Units(k), "device" \notin failed, seg[k].sel
        PROVE  blob'[seg[k].off + x] \in {Blank, Home(k, x)}
    BY <1>0, <1>5, <2>2 DEF InPlace
  <2> QED
    BY <1>0, <1>1, <1>6, <2>1, <2>2 DEF InPlace
<1>11. Copied'
  <2>1. ASSUME failed = {}, NEW k \in DOMAIN seg, NEW x \in Units(k), seg[k].sel,
               Passed(k, x), ~Unflushed(k, x)'
        PROVE  blob'[seg[k].off + x] = Home(k, x)
    <3>1. CASE mine(k, x)
      BY <1>5, <2>1, <3>1
    <3>2. CASE ~mine(k, x)
      <4>1. ~Unflushed(k, x)
        BY <1>0, <1>1, <2>1, <3>2 DEF Unflushed, In, mine, NoChunk
      <4>2. blob[seg[k].off + x] = Home(k, x)
        BY <1>0, <2>1, <4>1 DEF Copied
      <4> QED
        BY <1>5, <2>1, <3>2, <4>2
    <3> QED
      BY <3>1, <3>2
  <2>2. \A k, x : Passed(k, x)' <=> Passed(k, x)
    BY <1>1 DEF Passed
  <2> QED
    BY <1>0, <1>1, <1>6, <2>1, <2>2 DEF Copied
<1> QED
  BY <1>7, <1>8, <1>9, <1>10, <1>11 DEF DataInv

\* One thread brings its part of the chunk from the blob to the staging buffer.
LEMMA StageData ==
  ASSUME ControlInv, DataInv, NEW p \in work, Worker(p), mode = 1
  PROVE  DataInv'
<1>0. /\ Layout /\ Loop /\ Control /\ Memory /\ RemapBuffers /\ InPlace /\ Copied
      /\ pc = "stage" /\ async /\ AtChunk /\ b \in {0, 1} /\ work \subseteq Parts(ChunkLen)
  BY DEF ControlInv, DataInv, Control, Loop
<1>1. /\ bufs' = [bufs EXCEPT ![b] = [x \in DOMAIN bufs[b] |->
                    IF x \in p.from..p.to THEN blob[Place(Chunk, x)] ELSE bufs[b][x]]]
      /\ work' = work \ {p}
      /\ UNCHANGED <<seg, async, mode, pc, i, coff, b, prev, stream, blob, dev, failed>>
  BY DEF Worker, tableVars, loopVars
<1>2. IsChunk(Chunk) /\ Chunk.len = ChunkLen /\ ChunkLen \in 1..StageUnits /\ Chunk.buf = b
  BY <1>0, ChunkFits
<1>3. p.from \in 0..(ChunkLen - 1) /\ p.to \in 0..(ChunkLen - 1)
  <2>1. ChunkLen \in Nat \ {0}
    BY <1>2
  <2> QED
    BY <1>0, <2>1, PartsCover
<1>4. StageUnits \in Nat \ {0}
  BY CopyAssumption
<1>5. /\ DOMAIN bufs' = {0, 1} /\ \A c \in {0, 1} : c # b => bufs'[c] = bufs[c]
      /\ DOMAIN bufs'[b] = 0..(StageUnits - 1)
      /\ \A x \in 0..(StageUnits - 1) :
           bufs'[b][x] = IF x \in p.from..p.to THEN blob[Place(Chunk, x)] ELSE bufs[b][x]
  BY <1>0, <1>1 DEF Memory
<1>6. /\ (\A k : Units(k)' = Units(k)) /\ (\A k, x : Home(k, x)' = Home(k, x)) /\ Contents' = Contents
      /\ Chunk' = Chunk /\ ChunkLen' = ChunkLen
  BY <1>1, Units_Home DEF Chunk, ChunkLen
<1>7. Memory'
  <2>1. ASSUME NEW x \in p.from..p.to PROVE blob[Place(Chunk, x)] \in Contents
    <3>1. x \in 0..(Chunk.len - 1)
      BY <1>2, <1>3
    <3>2. Place(Chunk, x) \in DOMAIN blob
      BY <1>0, <1>2, <3>1, ChunkUnits
    <3> QED
      BY <1>0, <3>2 DEF Memory
  <2>2. ASSUME NEW x \in 0..(StageUnits - 1) PROVE bufs'[b][x] \in Contents
    <3>1. bufs[b][x] \in Contents
      BY <1>0 DEF Memory
    <3>2. bufs'[b][x] = IF x \in p.from..p.to THEN blob[Place(Chunk, x)] ELSE bufs[b][x]
      BY <1>5
    <3> HIDE <1>5
    <3> QED
      BY <2>1, <3>1, <3>2
  <2>3. bufs'[b] \in [0..(StageUnits - 1) -> Contents]
    <3>1. bufs'[b] = [x \in 0..(StageUnits - 1) |->
                        IF x \in p.from..p.to THEN blob[Place(Chunk, x)] ELSE bufs[b][x]]
      BY <1>0, <1>1 DEF Memory
    <3> QED
      BY <1>5, <2>2, <3>1
  <2>4. bufs' \in [{0, 1} -> [0..(StageUnits - 1) -> Contents]]
    BY <1>0, <1>1, <2>3 DEF Memory
  <2> QED
    BY <1>0, <1>1, <1>6, <2>4 DEF Memory
<1>8. RemapBuffers'
  <2>1. ASSUME NEW n \in DOMAIN stream PROVE Staged(stream[n])'
    <3>1. stream[n].buf = 1 - b /\ IsChunk(stream[n])
      BY <1>0, StreamChunks
    <3>2. bufs'[stream[n].buf] = bufs[stream[n].buf]
      BY <1>0, <1>5, <3>1
    <3>3. Staged(stream[n])
      BY <1>0 DEF RemapBuffers, ControlInv, DataInv
    <3> QED
      BY <1>1, <3>2, <3>3 DEF Staged, Place
  <2>2. ASSUME NEW x \in 0..(ChunkLen - 1), \A q \in work' : x \notin q.from..q.to
        PROVE  bufs'[b][x] = blob[Place(Chunk, x)]
    <3>1. x \in 0..(StageUnits - 1)
      BY <1>2, <1>4
    <3>2. x \notin p.from..p.to => bufs[b][x] = blob[Place(Chunk, x)]
      BY <1>0, <1>1, <2>2 DEF RemapBuffers
    <3> QED
      BY <1>5, <3>1, <3>2
  <2> QED
    BY <1>0, <1>1, <1>6, <2>1, <2>2 DEF RemapBuffers, Place
<1>9. FreezeBuffers'
  BY <1>1 DEF FreezeBuffers
<1>10. InPlace'
  BY <1>0, <1>1, <1>6 DEF InPlace
<1>11. Copied'
  BY <1>0, <1>1, <1>6 DEF Copied, Passed, In
<1> QED
  BY <1>7, <1>8, <1>9, <1>10, <1>11 DEF DataInv

\* The chunk at the head of the stream, and the others.
LEMMA StreamHead ==
  ASSUME ControlInv, stream # <<>>, stream' = Tail(stream)
  PROVE  /\ 1 \in DOMAIN stream /\ Head(stream) = stream[1]
         /\ \A n \in DOMAIN stream' : \E m \in DOMAIN stream : stream'[n] = stream[m] /\ m # 1
         /\ \A m \in DOMAIN stream : m # 1 => \E n \in DOMAIN stream' : stream'[n] = stream[m]
<1>1. \/ \E c : stream = <<c>>
      \/ \E p, c : stream = <<p, c>>
  BY DEF ControlInv, Control
<1>2. ASSUME NEW c, stream = <<c>>
      PROVE  /\ 1 \in DOMAIN stream /\ Head(stream) = stream[1] /\ DOMAIN stream = {1}
             /\ DOMAIN stream' = {}
  BY <1>2, Streams
<1>3. ASSUME NEW p, NEW c, stream = <<p, c>>
      PROVE  /\ DOMAIN stream = {1, 2} /\ Head(stream) = stream[1]
             /\ DOMAIN stream' = {1} /\ stream'[1] = stream[2]
  BY <1>3, Streams
<1> QED
  BY <1>1, <1>2, <1>3

\* A copy of the device that fails.
LEMMA DmaFailData ==
  ASSUME ControlInv, DataInv, DmaFail
  PROVE  DataInv'
<1>0. /\ Still /\ UNCHANGED <<pc, loopVars, work>> /\ "device" \in failed' /\ stream # <<>>
      /\ stream' = Tail(stream)
  BY DEF DmaFail, Fails, Still, tableVars, memVars, DataInv, Memory
<1>1. Memory' /\ InPlace'
  BY <1>0, StillMemory DEF DataInv
<1>2. FreezeBuffers' /\ Copied'
  BY <1>0 DEF FreezeBuffers, Copied
<1>3. RemapBuffers'
  <2>1. \A n \in DOMAIN stream' : \E m \in DOMAIN stream : stream'[n] = stream[m]
    BY <1>0, StreamHead
  <2>2. pc # "stage" \/ mode # 1 \/ ~async \/ UNCHANGED <<work, bufs, blob, Chunk, ChunkLen, b>>
    BY <1>0 DEF Still, memVars, loopVars, Chunk, ChunkLen
  <2> QED
    BY <1>0, <2>1, <2>2 DEF DataInv, RemapBuffers, Staged, Place, Still, memVars, loopVars
<1> QED
  BY <1>1, <1>2, <1>3 DEF DataInv

\* Freeze: the device fills the buffer of the chunk at the head of its stream.
LEMMA DmaFreezeData ==
  ASSUME ControlInv, DataInv, Dma, mode = 0
  PROVE  DataInv'
<1> DEFINE c == stream[1]
<1>0. /\ Layout /\ Loop /\ Control /\ Memory /\ FreezeBuffers /\ InPlace /\ Copied
  BY DEF ControlInv, DataInv
<1>1. /\ stream # <<>> /\ stream' = Tail(stream) /\ 1 \in DOMAIN stream
      /\ bufs' = [bufs EXCEPT ![c.buf] = [x \in DOMAIN bufs[c.buf] |->
                    IF x < c.len THEN dev[c.seg][At(c, x)] ELSE bufs[c.buf][x]]]
      /\ UNCHANGED <<seg, async, mode, pc, i, coff, b, prev, work, blob, dev, failed>>
  BY StreamHead DEF Dma, DmaCopied, tableVars, loopVars
<1>2. /\ IsChunk(c)
      /\ \/ c = prev /\ prev # NoChunk /\ c.buf = 1 - b
         \/ c = Chunk /\ c.buf = b /\ pc \in {"sync", "flush"}
      /\ b \in {0, 1}
  BY <1>0, <1>1, StreamChunks DEF Loop
<1> HIDE DEF c
<1>3. /\ c.buf \in {0, 1} /\ c.len \in 1..StageUnits /\ c.seg \in DOMAIN seg /\ StageUnits \in Nat
  BY <1>2, CopyAssumption DEF IsChunk
<1>4. /\ \A a \in {0, 1} : a # c.buf => bufs'[a] = bufs[a]
      /\ \A x \in 0..(StageUnits - 1) :
           bufs'[c.buf][x] = IF x < c.len THEN dev[c.seg][At(c, x)] ELSE bufs[c.buf][x]
  BY <1>0, <1>1, <1>3 DEF Memory
<1>5. \A x \in 0..(c.len - 1) : /\ At(c, x) \in Units(c.seg)
                                /\ dev[c.seg][At(c, x)] = Home(c.seg, At(c, x))
  <2> TAKE x \in 0..(c.len - 1)
  <2>1. At(c, x) \in Units(c.seg)
    BY <1>0, <1>2, ChunkUnits
  <2>2. dev = Filled(seg)
    BY <1>0 DEF InPlace
  <2> QED
    BY <1>0, <1>3, <2>1, <2>2, Fills
<1>6. /\ (\A k : Units(k)' = Units(k)) /\ (\A k, x : Home(k, x)' = Home(k, x)) /\ Contents' = Contents
      /\ Chunk' = Chunk /\ ChunkLen' = ChunkLen
  BY <1>1, Units_Home DEF Chunk, ChunkLen
<1>7. Memory'
  <2>1. \A x \in 0..(StageUnits - 1) : bufs'[c.buf][x] \in Contents
    <3> TAKE x \in 0..(StageUnits - 1)
    <3>1. CASE x < c.len
      <4>1. x \in 0..(c.len - 1)
        BY <1>3, <3>1
      <4> QED
        BY <1>0, <1>3, <1>4, <1>5, <3>1, <4>1 DEF Memory
    <3>2. CASE ~(x < c.len)
      BY <1>0, <1>3, <1>4, <3>2 DEF Memory
    <3> QED
      BY <3>1, <3>2
  <2>2. bufs'[c.buf] \in [0..(StageUnits - 1) -> Contents]
    <3>1. bufs'[c.buf] = [x \in 0..(StageUnits - 1) |->
                            IF x < c.len THEN dev[c.seg][At(c, x)] ELSE bufs[c.buf][x]]
      BY <1>0, <1>1, <1>3 DEF Memory
    <3> QED
      BY <2>1, <3>1
  <2>3. bufs' \in [{0, 1} -> [0..(StageUnits - 1) -> Contents]]
    BY <1>0, <1>1, <2>2 DEF Memory
  <2> QED
    BY <1>0, <1>1, <1>6, <2>3 DEF Memory
<1>8. ASSUME NEW d, \/ d = prev /\ prev # NoChunk
                    \/ d = Chunk /\ pc \in {"sync", "flush"},
             \A n \in DOMAIN stream' : stream'[n] # d, "device" \notin failed, async
      PROVE  \A x \in 0..(d.len - 1) : bufs'[d.buf][x] = Home(d.seg, At(d, x))
  <2>1. CASE d = c
    BY <1>4, <1>5, <1>3, <2>1
  <2>2. CASE d # c
    <3>1. Reached(d)
      <4>1. \A m \in DOMAIN stream : m # 1 => \E n \in DOMAIN stream' : stream'[n] = stream[m]
        BY <1>1, StreamHead
      <4> QED
        BY <1>8, <2>2, <4>1 DEF Reached, c
    <3>2. Loaded(d)
      BY <1>0, <1>8, <3>1 DEF FreezeBuffers
    <3>3. d.buf # c.buf /\ d.buf \in {0, 1}
      <4>1. prev # NoChunk => prev.buf = 1 - b
        BY <1>0 DEF Loop
      <4>2. Chunk.buf = b
        BY DEF Chunk
      <4> QED
        BY <1>2, <1>8, <2>2, <4>1, <4>2
    <3> QED
      BY <1>4, <3>2, <3>3 DEF Loaded
  <2> QED
    BY <2>1, <2>2
<1>9. FreezeBuffers'
  <2>1. prev' = prev /\ (prev # NoChunk)' = (prev # NoChunk)
    BY <1>1 DEF NoChunk
  <2>2. async /\ "device" \notin failed /\ prev # NoChunk /\ Reached(prev)' => Loaded(prev)'
    BY <1>1, <1>6, <1>8 DEF Reached, Loaded, At
  <2>3. async /\ "device" \notin failed /\ pc \in {"sync", "flush"} /\ Reached(Chunk)'
        => Loaded(Chunk)'
    BY <1>1, <1>6, <1>8 DEF Reached, Loaded, At
  <2> QED
    BY <1>1, <2>1, <2>2, <2>3 DEF FreezeBuffers
<1>10. RemapBuffers'
  BY <1>1 DEF RemapBuffers
<1>11. InPlace'
  BY <1>0, <1>1, <1>6 DEF InPlace, Filled
<1>12. Copied'
  <2>1. \A k, x : (Passed(k, x)' <=> Passed(k, x)) /\ (Unflushed(k, x)' <=> Unflushed(k, x))
    BY <1>1 DEF Passed, Unflushed, In, NoChunk
  <2> QED
    BY <1>0, <1>1, <1>6, <2>1 DEF Copied
<1> QED
  BY <1>7, <1>9, <1>10, <1>11, <1>12 DEF DataInv

\* Units of a chunk that is copied to the device, from whatever holds the blob's
\* units: they get what the blob has in their place, and no other unit changes.
LEMMA DeviceGets ==
  ASSUME ControlInv, Memory, InPlace, seg' = seg, blob' = blob, mode = 1, mode' = 1,
         "device" \in failed' \/ "device" \notin failed, failed' \subseteq {"call", "device"},
         UNCHANGED bufs, DOMAIN dev' = DOMAIN dev,
         \A k \in DOMAIN seg : DOMAIN dev'[k] = DOMAIN dev[k],
         NEW c, IsChunk(c),
         \A k \in DOMAIN seg : \A x \in Units(k) :
           dev'[k][x] = IF In(c, k, x) THEN blob[seg[k].off + x] ELSE dev[k][x],
         \A k \in DOMAIN seg : dev'[k] = [x \in DOMAIN dev'[k] |-> dev'[k][x]]
  PROVE  Memory' /\ InPlace'
<1>0. Layout /\ c.seg \in DOMAIN seg /\ seg[c.seg].sel
  BY DEF ControlInv, IsChunk
<1>1. /\ (\A k : Units(k)' = Units(k)) /\ (\A k, x : Home(k, x)' = Home(k, x)) /\ Contents' = Contents
  BY Units_Home
<1>2. \A k \in DOMAIN seg : \A x \in Units(k) : In(c, k, x) => seg[k].sel
  BY <1>0 DEF In
<1>3. ASSUME NEW k \in DOMAIN seg, NEW x \in Units(k) PROVE dev'[k][x] \in Contents
  <2>1. dev[k][x] \in Contents
    BY DEF Memory
  <2>2. In(c, k, x) => blob[seg[k].off + x] \in Contents
    BY <1>0, <1>2 DEF Memory, Layout
  <2> QED
    BY <2>1, <2>2
<1>4. \A k \in DOMAIN seg : dev'[k] \in [Units(k) -> Contents]
  BY <1>3 DEF Memory
<1>5. Memory'
  BY <1>1, <1>4 DEF Memory
<1>6. InPlace'
  BY <1>1, <1>2 DEF InPlace
<1> QED
  BY <1>5, <1>6

\* Remap: the device empties the buffer of the chunk at the head of its stream.
LEMMA DmaRemapData ==
  ASSUME ControlInv, DataInv, Dma, mode = 1
  PROVE  DataInv'
<1>0. /\ Layout /\ Loop /\ Control /\ Memory /\ RemapBuffers /\ InPlace /\ Copied
  BY DEF ControlInv, DataInv
<1>1. PICK c : c = stream[1]
  OBVIOUS
<1>2. /\ stream # <<>> /\ stream' = Tail(stream) /\ 1 \in DOMAIN stream
      /\ dev' = [dev EXCEPT ![c.seg] = [x \in DOMAIN dev[c.seg] |->
                   IF x - c.coff \in 0..(c.len - 1) THEN bufs[c.buf][x - c.coff] ELSE dev[c.seg][x]]]
      /\ UNCHANGED <<seg, async, mode, pc, i, coff, b, prev, work, blob, bufs, failed>>
  BY <1>1, StreamHead DEF Dma, DmaCopied, tableVars, loopVars
<1>3. IsChunk(c) /\ async /\ Staged(c)
  BY <1>0, <1>1, <1>2, StreamChunks DEF RemapBuffers
<1>4. /\ DOMAIN dev = DOMAIN seg /\ \A k \in DOMAIN seg : dev[k] \in [Units(k) -> Contents]
      /\ c.seg \in DOMAIN seg
  BY <1>0, <1>3 DEF Memory, IsChunk
<1>5. \A k \in DOMAIN seg : \A x \in Units(k) :
        dev'[k][x] = IF In(c, k, x) THEN blob[seg[k].off + x] ELSE dev[k][x]
  <2> TAKE k \in DOMAIN seg
  <2> TAKE x \in Units(k)
  <2>1. CASE In(c, k, x)
    <3>1. PICK y \in 0..(c.len - 1) : y = x - c.coff
      BY <2>1 DEF In
    <3>2. dev'[k][x] = bufs[c.buf][y]
      BY <1>2, <1>4, <2>1, <3>1 DEF In
    <3>3. bufs[c.buf][y] = blob[Place(c, y)]
      BY <1>3 DEF Staged
    <3>4. Place(c, y) = seg[k].off + x
      <4>1. c.coff \in Nat /\ x \in Nat /\ seg[k].off \in Nat /\ k = c.seg
        BY <1>0, <1>3, <2>1 DEF IsChunk, Layout, Units, In
      <4> QED
        BY <3>1, <4>1 DEF Place
    <3> QED
      BY <2>1, <3>2, <3>3, <3>4
  <2>2. CASE ~In(c, k, x)
    BY <1>2, <1>4, <2>2 DEF In
  <2> QED
    BY <2>1, <2>2
<1>6. Memory' /\ InPlace'
  <2>1. DOMAIN dev' = DOMAIN dev /\ \A k \in DOMAIN seg : DOMAIN dev'[k] = DOMAIN dev[k]
    BY <1>2, <1>4
  <2>2. \A k \in DOMAIN seg : dev'[k] = [x \in DOMAIN dev'[k] |-> dev'[k][x]]
    BY <1>2, <1>4
  <2>3. failed' \subseteq {"call", "device"}
    BY <1>0, <1>2 DEF Memory
  <2> QED
    BY <1>0, <1>2, <1>3, <1>5, <2>1, <2>2, <2>3, DeviceGets
<1>7. /\ \A n \in DOMAIN stream' : \E m \in DOMAIN stream : stream'[n] = stream[m] /\ m # 1
      /\ \A m \in DOMAIN stream : m # 1 => \E n \in DOMAIN stream' : stream'[n] = stream[m]
  BY <1>0, <1>2, StreamHead
<1>8. /\ (\A k : Units(k)' = Units(k)) /\ (\A k, x : Home(k, x)' = Home(k, x))
      /\ Chunk' = Chunk /\ ChunkLen' = ChunkLen
  BY <1>2, Units_Home DEF Chunk, ChunkLen
<1>9. RemapBuffers'
  BY <1>0, <1>2, <1>7, <1>8 DEF RemapBuffers, Staged, Place
<1>10. FreezeBuffers'
  BY <1>2 DEF FreezeBuffers
<1>11. Copied'
  <2>1. ASSUME failed = {}, NEW k \in DOMAIN seg, NEW x \in Units(k), seg[k].sel,
               Passed(k, x) \/ (pc = "sync" /\ In(Chunk, k, x)),
               \A n \in DOMAIN stream' : ~In(stream'[n], k, x)
        PROVE  dev'[k][x] = Home(k, x)
    <3>1. blob[seg[k].off + x] = Home(k, x)
      BY <1>0, <2>1 DEF Copied
    <3>2. CASE In(c, k, x)
      BY <1>5, <2>1, <3>1, <3>2
    <3>3. CASE ~In(c, k, x)
      <4>1. \A m \in DOMAIN stream : ~In(stream[m], k, x)
        BY <1>1, <1>7, <2>1, <3>3
      <4>2. dev[k][x] = Home(k, x)
        BY <1>0, <2>1, <4>1 DEF Copied
      <4> QED
        BY <1>5, <2>1, <3>3, <4>2
    <3> QED
      BY <3>2, <3>3
  <2>2. \A k, x : (Passed(k, x)' <=> Passed(k, x)) /\ (In(Chunk', k, x) <=> In(Chunk, k, x))
    BY <1>2, <1>8 DEF Passed
  <2>3. failed' = {} /\ pc' \in {"last", "fin", "ret"} => i' = Len(seg) + 1
    BY <1>0, <1>2 DEF Copied
  <2>4. ASSUME failed = {}, NEW k \in DOMAIN seg, NEW x \in Units(k), seg[k].sel
        PROVE  blob'[seg[k].off + x] = Home(k, x)
    BY <1>0, <1>2, <2>4 DEF Copied
  <2> QED
    BY <1>2, <2>1, <2>2, <2>3, <2>4, CopiedNext
<1> QED
  BY <1>6, <1>9, <1>10, <1>11 DEF DataInv

\* The serial loops are past the chunk when they have copied it.
LEMMA SerialData ==
  ASSUME ControlInv, DataInv, SerialCopy
  PROVE  DataInv'
<1>0. /\ Layout /\ Loop /\ Control /\ Memory /\ InPlace /\ Copied /\ ~async /\ AtChunk /\ Advance
      /\ pc = "loop" /\ stream = <<>> /\ DOMAIN stream = {}
      /\ UNCHANGED <<seg, async, mode, work, stream, bufs, failed>>
  BY Streams DEF ControlInv, DataInv, SerialCopy, Control, tableVars
<1>1. PICK c : c = Chunk
  OBVIOUS
<1>2. /\ IsChunk(c) /\ c.seg = i /\ c.coff = coff /\ c.len = ChunkLen /\ i \in DOMAIN seg
      /\ pc' = "loop" /\ seg[i].sel
  BY <1>0, <1>1, ChunkFits, AdvanceLoop DEF AtChunk
<1>3. /\ (\A k : Units(k)' = Units(k)) /\ (\A k, x : Home(k, x)' = Home(k, x)) /\ Contents' = Contents
  BY <1>0, Units_Home
<1>4. FreezeBuffers' /\ RemapBuffers'
  BY <1>0 DEF FreezeBuffers, RemapBuffers
<1>5. \A k, x : ~Unflushed(k, x)'
  BY <1>0 DEF Unflushed
<1>6. \A k \in DOMAIN seg : \A x \in Units(k) : Passed(k, x)' <=> Passed(k, x) \/ In(c, k, x)
  BY <1>0, <1>1, AdvancePassed
<1>7. CASE mode = 0
  <2>1. /\ blob' = [x \in DOMAIN blob |-> IF x - Place(c, 0) \in 0..(c.len - 1)
                                          THEN dev[i][x - seg[i].off] ELSE blob[x]]
        /\ dev' = dev
    BY <1>1, <1>7 DEF SerialCopy
  <2>2. \A k \in DOMAIN seg : \A x \in Units(k) : dev[k][x] = Home(k, x) /\ dev[k][x] \in Contents
    BY <1>0, <1>7, Fills DEF InPlace
  <2>3. ASSUME NEW k \in DOMAIN seg, NEW x \in Units(k), seg[k].sel
        PROVE  blob'[seg[k].off + x] = IF In(c, k, x) THEN Home(k, x) ELSE blob[seg[k].off + x]
    <3>1. PICK u, y : u = seg[k].off + x /\ y = u - Place(c, 0)
      OBVIOUS
    <3>2. u \in DOMAIN blob /\ seg[k].off \in Nat /\ x \in Nat
      BY <1>0, <2>3, <3>1 DEF Layout, Units
    <3>3. CASE y \in 0..(c.len - 1)
      <4>1. Layout /\ IsChunk(c) /\ seg[k].sel /\ (seg[k].off + x) - Place(c, 0) = y
        BY <1>0, <1>2, <2>3, <3>1
      <4>2. k = c.seg /\ x = At(c, y) /\ x - c.coff = y
        BY <3>3, <4>1, UnitOfChunk
      <4>3. u - seg[i].off = x
        BY <1>2, <3>1, <3>2, <4>2
      <4>4. blob'[u] = dev[i][x]
        BY <2>1, <3>1, <3>2, <3>3, <4>3
      <4> QED
        BY <1>2, <2>2, <2>3, <3>1, <3>3, <4>2, <4>4 DEF In
    <3>4. CASE y \notin 0..(c.len - 1)
      <4>1. ~In(c, k, x)
        <5> SUFFICES ASSUME In(c, k, x) PROVE FALSE
          OBVIOUS
        <5>1. c.coff \in Nat /\ k = c.seg /\ x - c.coff \in 0..(c.len - 1)
          BY <1>2 DEF IsChunk, In
        <5>2. Place(c, 0) = seg[k].off + c.coff
          BY <3>2, <5>1 DEF Place
        <5>3. y = x - c.coff
          BY <3>1, <3>2, <5>1, <5>2
        <5> QED
          BY <3>4, <5>1, <5>3
      <4> QED
        BY <2>1, <3>1, <3>2, <3>4, <4>1
    <3> QED
      BY <3>3, <3>4
  <2>4. \A u \in DOMAIN blob : blob'[u] \in Contents
    <3> TAKE u \in DOMAIN blob
    <3>1. CASE u - Place(c, 0) \in 0..(c.len - 1)
      <4>1. PICK y \in 0..(c.len - 1) : y = u - Place(c, 0)
        BY <3>1
      <4>2. At(c, y) \in Units(c.seg) /\ Place(c, y) = seg[c.seg].off + At(c, y)
            /\ Place(c, y) - Place(c, 0) = y
        BY <1>0, <1>2, ChunkUnits
      <4>3. u \in Nat /\ Place(c, 0) \in Nat /\ Place(c, y) \in Nat /\ seg[i].off \in Nat
            /\ At(c, y) \in Nat
        <5>1. seg[i].off \in Nat /\ seg[i].req \in Nat /\ c.coff \in Nat /\ u \in Nat
          BY <1>0, <1>2 DEF Layout, IsChunk
        <5>2. At(c, y) \in Nat
          BY <1>2, <4>2, <5>1 DEF Units
        <5>3. Place(c, 0) \in Nat
          BY <1>2, <5>1 DEF Place
        <5>4. Place(c, y) \in Nat
          BY <1>2, <4>2, <5>1, <5>2
        <5> QED
          BY <5>1, <5>2, <5>3, <5>4
      <4>4. u = Place(c, y)
        BY <4>1, <4>2, <4>3
      <4>5. u - seg[i].off = At(c, y)
        BY <1>2, <4>2, <4>3, <4>4
      <4> QED
        BY <1>2, <2>1, <2>2, <3>1, <4>2, <4>5
    <3>2. CASE u - Place(c, 0) \notin 0..(c.len - 1)
      BY <1>0, <2>1, <3>2 DEF Memory
    <3> QED
      BY <3>1, <3>2
  <2>5. Memory'
    <3>1. blob' \in [DOMAIN blob' -> Contents]
      BY <2>1, <2>4
    <3> QED
      BY <1>0, <1>3, <2>1, <3>1 DEF Memory
  <2>6. InPlace'
    BY <1>0, <1>3, <2>1, <2>3 DEF InPlace, Filled
  <2>7. Copied'
    <3>1. \A k \in DOMAIN seg : \A x \in Units(k) : ~Unflushed(k, x)
      BY <1>0 DEF Unflushed
    <3> QED
      BY <1>0, <1>2, <1>3, <1>6, <1>7, <2>3, <3>1 DEF Copied
  <2> QED
    BY <1>4, <2>5, <2>6, <2>7 DEF DataInv
<1>8. CASE mode = 1
  <2>1. /\ dev' = [dev EXCEPT ![i] = [x \in DOMAIN dev[i] |->
                     IF (seg[i].off + x) - Place(c, 0) \in 0..(c.len - 1)
                     THEN blob[seg[i].off + x] ELSE dev[i][x]]]
        /\ blob' = blob
    BY <1>1, <1>8 DEF SerialCopy
  <2>2. DOMAIN dev = DOMAIN seg /\ \A k \in DOMAIN seg : dev[k] \in [Units(k) -> Contents]
    BY <1>0 DEF Memory
  <2>3. \A k \in DOMAIN seg : \A x \in Units(k) :
          dev'[k][x] = IF In(c, k, x) THEN blob[seg[k].off + x] ELSE dev[k][x]
    <3> TAKE k \in DOMAIN seg
    <3> TAKE x \in Units(k)
    <3>1. k = i => (seg[i].off + x) - Place(c, 0) = x - c.coff
      <4>1. x \in Nat /\ seg[i].off \in Nat /\ c.coff \in Nat
        BY <1>0, <1>2 DEF Layout, Units, IsChunk
      <4>2. Place(c, 0) = seg[i].off + c.coff
        BY <1>2, <4>1 DEF Place
      <4> QED
        BY <4>1, <4>2
    <3> QED
      BY <1>2, <2>1, <2>2, <3>1 DEF In
  <2>4. Memory' /\ InPlace'
    <3>1. DOMAIN dev' = DOMAIN dev /\ \A k \in DOMAIN seg : DOMAIN dev'[k] = DOMAIN dev[k]
      BY <1>2, <2>1, <2>2
    <3>2. \A k \in DOMAIN seg : dev'[k] = [x \in DOMAIN dev'[k] |-> dev'[k][x]]
      BY <1>2, <2>1, <2>2
    <3>3. failed' \subseteq {"call", "device"}
      BY <1>0 DEF Memory
    <3> QED
      BY <1>0, <1>2, <1>8, <2>1, <2>3, <3>1, <3>2, <3>3, DeviceGets
  <2>5. Copied'
    <3>1. ASSUME failed = {}, NEW k \in DOMAIN seg, NEW x \in Units(k), seg[k].sel, Passed(k, x)'
          PROVE  dev'[k][x] = Home(k, x)
      <4>1. blob[seg[k].off + x] = Home(k, x)
        BY <1>0, <1>8, <3>1 DEF Copied
      <4>2. CASE In(c, k, x)
        BY <2>3, <4>1, <4>2
      <4>3. CASE ~In(c, k, x)
        BY <1>0, <1>6, <1>8, <2>3, <3>1, <4>3 DEF Copied
      <4> QED
        BY <4>2, <4>3
    <3> QED
      BY <1>0, <1>2, <1>3, <1>8, <2>1, <3>1 DEF Copied
  <2> QED
    BY <1>4, <2>4, <2>5 DEF DataInv
<1> QED
  BY <1>0, <1>7, <1>8 DEF Control

\* The remap starts: everything selected is in the blob, when no copy failed.
LEMMA RemapData ==
  ASSUME ControlInv, DataInv, Remap
  PROVE  DataInv'
<1>0. /\ Layout /\ Loop /\ Control /\ Memory /\ InPlace /\ Copied
      /\ pc = "ret" /\ mode = 0 /\ mode' = 1 /\ pc' = "loop" /\ i' = 1 /\ coff' = 0
      /\ stream = <<>> /\ DOMAIN stream = {}
      /\ UNCHANGED <<seg, async, stream, bufs, blob, failed>>
      /\ dev' = [k \in DOMAIN seg |-> IF seg[k].sel THEN [x \in Units(k) |-> Blank] ELSE dev[k]]
  BY Streams DEF ControlInv, DataInv, Remap, Control
<1>1. /\ (\A k : Units(k)' = Units(k)) /\ (\A k, x : Home(k, x)' = Home(k, x)) /\ Contents' = Contents
  BY <1>0, Units_Home
<1>2. Memory'
  <2>1. Blank \in Contents
    BY DEF Contents
  <2>2. \A k \in DOMAIN seg : dev'[k] \in [Units(k) -> Contents]
    BY <1>0, <2>1 DEF Memory
  <2> QED
    BY <1>0, <1>1, <2>2 DEF Memory
<1>3. FreezeBuffers' /\ RemapBuffers'
  BY <1>0 DEF FreezeBuffers, RemapBuffers
<1>4. InPlace'
  BY <1>0, <1>1 DEF InPlace
<1>5. Copied'
  <2>1. ASSUME NEW k \in DOMAIN seg, NEW x \in Units(k) PROVE ~Passed(k, x)'
    <3>1. k \in Nat \ {0} /\ x \in Nat
      BY <1>0 DEF Layout, Units
    <3> QED
      BY <1>0, <3>1 DEF Passed
  <2>2. ASSUME NEW k \in DOMAIN seg, NEW x \in Units(k), seg[k].sel, failed = {}
        PROVE  blob'[seg[k].off + x] = Home(k, x)
    <3>1. k < i /\ ~Unflushed(k, x)
      BY <1>0, <2>2 DEF Copied, Layout, Unflushed
    <3> QED
      BY <1>0, <2>2, <3>1 DEF Copied, Passed
  <2> QED
    BY <1>0, <2>1, <2>2, CopiedNext
<1> QED
  BY <1>2, <1>3, <1>4, <1>5 DEF DataInv

\* A chunk is put behind what the stream holds.
LEMMA StreamTail ==
  ASSUME NEW c, stream = <<>> \/ stream = <<prev>>, stream' = Append(stream, c)
  PROVE  /\ \A m \in DOMAIN stream : \E n \in DOMAIN stream' : stream'[n] = stream[m]
         /\ \E n \in DOMAIN stream' : stream'[n] = c
         /\ \A n \in DOMAIN stream' : stream'[n] = c \/ \E m \in DOMAIN stream : stream'[n] = stream[m]
<1>1. CASE stream = <<>>
  <2>1. stream' = <<c>>
    BY <1>1, Streams
  <2> QED
    BY <1>1, <2>1, Streams
<1>2. CASE stream = <<prev>>
  <2>1. stream' = <<prev, c>>
    BY <1>2, AppendPair
  <2>2. DOMAIN stream = {1} /\ DOMAIN stream' = {1, 2} /\ stream[1] = prev /\ stream'[1] = prev
        /\ stream'[2] = c
    BY <1>2, <2>1, Streams
  <2> QED
    BY <2>2
<1> QED
  BY <1>1, <1>2

\* The device gets its next chunk.
LEMMA IssueData ==
  ASSUME ControlInv, DataInv, Issue
  PROVE  DataInv'
<1>0. /\ Layout /\ Loop /\ Control /\ Memory /\ FreezeBuffers /\ RemapBuffers /\ InPlace /\ Copied
      /\ async /\ AtChunk /\ work = {} /\ pc' = "sync" /\ stream' = Append(stream, Chunk)
      /\ Still /\ UNCHANGED <<loopVars, work>>
      /\ mode = 0 => pc = "loop"
      /\ mode = 1 => pc = "stage"
  BY DEF ControlInv, DataInv, Issue, CanIssue, Control, Still, tableVars, Memory
<1>1. /\ \A m \in DOMAIN stream : \E n \in DOMAIN stream' : stream'[n] = stream[m]
      /\ \E n \in DOMAIN stream' : stream'[n] = Chunk
      /\ \A n \in DOMAIN stream' : stream'[n] = Chunk \/ \E m \in DOMAIN stream : stream'[n] = stream[m]
  <2>1. stream = <<>> \/ stream = <<prev>>
    BY <1>0 DEF Control
  <2> QED
    BY <1>0, <2>1, StreamTail
<1>2. Chunk' = Chunk /\ ChunkLen' = ChunkLen /\ Chunk.buf = b /\ Chunk.len = ChunkLen
  BY <1>0, ChunkFits DEF Still, loopVars, Chunk, ChunkLen
<1>3. Memory' /\ InPlace'
  BY <1>0, StillMemory
<1>4. FreezeBuffers'
  <2>1. ~Reached(Chunk)'
    BY <1>1, <1>2 DEF Reached
  <2>2. Reached(prev)' => Reached(prev)
    BY <1>0, <1>1 DEF Reached, loopVars
  <2> QED
    BY <1>0, <2>1, <2>2 DEF FreezeBuffers, Loaded, Home, At, NoChunk, Still, memVars, loopVars
<1>5. RemapBuffers'
  <2>1. mode = 1 => Staged(Chunk)
    BY <1>0, <1>2 DEF RemapBuffers, Staged
  <2>2. mode = 1 => \A n \in DOMAIN stream' : Staged(stream'[n])
    BY <1>0, <1>1, <2>1 DEF RemapBuffers
  <2> QED
    BY <1>0, <2>2 DEF RemapBuffers, Staged, Place, Still, memVars
<1>6. Copied'
  <2>1. \A k, x : mode = 0 /\ Unflushed(k, x) => Unflushed(k, x)'
    BY <1>0 DEF Unflushed, In, Still, loopVars, NoChunk
  <2> QED
    BY <1>0, <1>1, <2>1, StillCopied
<1> QED
  BY <1>3, <1>4, <1>5, <1>6 DEF DataInv

\* A chunk that is waited for goes to its parts: none of it is in the blob yet.
LEMMA ToParts ==
  ASSUME Loop, prev # NoChunk, UNCHANGED <<seg, async, loopVars>>, pc' \in {"flush", "last"},
         work' = Parts(prev.len), NEW k, NEW x, Unflushed(k, x)
  PROVE  Unflushed(k, x)'
<1>1. prev.len \in 1..StageUnits
  BY DEF Loop, IsChunk
<1>2. prev.len \in Nat \ {0}
  BY <1>1
<1>3. async /\ In(prev, k, x)
  BY DEF Unflushed
<1>4. PICK y \in 0..(prev.len - 1) : y = x - prev.coff
  BY <1>3 DEF In
<1>5. \E p \in Parts(prev.len) : y \in p.from..p.to
  BY <1>2, PartsCover
<1> QED
  BY <1>3, <1>4, <1>5 DEF Unflushed, In, loopVars, NoChunk

LEMMA DataStep == ControlInv /\ DataInv /\ [Next]_vars => DataInv'
<1> SUFFICES ASSUME ControlInv, DataInv, [Next]_vars PROVE DataInv'
  OBVIOUS
<1>0. Layout /\ Loop /\ Control /\ Memory /\ FreezeBuffers /\ RemapBuffers /\ InPlace /\ Copied
      /\ failed \subseteq {"call", "device"}
  BY DEF ControlInv, DataInv, Memory
<1>1. CASE UNCHANGED vars
  <2>1. Still /\ UNCHANGED <<pc, loopVars, work, stream>>
    BY <1>0, <1>1 DEF vars, tableVars, Still
  <2>2. Memory' /\ InPlace'
    BY <1>0, <2>1, StillMemory
  <2>3. FreezeBuffers'
    BY <1>0, <2>1, StillFreeze
  <2>4. RemapBuffers'
    BY <1>0, <2>1 DEF RemapBuffers, Staged, Place, Chunk, ChunkLen, Still, memVars, loopVars
  <2>5. Copied'
    <3>1. \A k, x : Unflushed(k, x)' <=> Unflushed(k, x)
      BY <2>1 DEF Unflushed, In, Still, loopVars, NoChunk
    <3>2. failed' = failed
      BY <1>1 DEF vars
    <3>3. failed' = {} /\ pc' \in {"last", "fin", "ret"} => i = Len(seg) + 1
      BY <1>0, <2>1, <3>2 DEF Copied
    <3> QED
      BY <1>0, <2>1, <3>1, <3>3, StillCopied
  <2> QED
    BY <2>2, <2>3, <2>4, <2>5 DEF DataInv
<1>2. CASE Skip
  <2>1. /\ pc = "loop" /\ i <= Len(seg) /\ ~seg[i].sel /\ i' = i + 1 /\ coff' = coff /\ Still
        /\ UNCHANGED <<pc, b, prev, work, stream, failed>>
    BY <1>0, <1>2 DEF Skip, More, AtChunk, tableVars, Still
  <2>2. coff = 0
    BY <1>0, <2>1 DEF Loop, AtChunk
  <2>3. Memory' /\ InPlace'
    BY <1>0, <2>1, StillMemory
  <2>4. FreezeBuffers'
    BY <1>0, <2>1 DEF FreezeBuffers, Loaded, Home, At, Reached, NoChunk, Still, memVars
  <2>5. RemapBuffers'
    BY <1>0, <2>1, StillRemap
  <2>6. Copied'
    <3>1. ASSUME NEW k \in DOMAIN seg, NEW x \in Units(k), seg[k].sel, Passed(k, x)'
          PROVE  Passed(k, x)
      <4>1. k \in Nat /\ i \in Nat /\ x \in Nat
        BY <1>0, <3>1 DEF Layout, Loop, Units
      <4> QED
        BY <2>1, <2>2, <3>1, <4>1 DEF Passed
    <3>2. \A k, x : Unflushed(k, x)' <=> Unflushed(k, x)
      BY <2>1 DEF Unflushed, In, Still, NoChunk
    <3>3. mode' = mode /\ blob' = blob /\ dev' = dev /\ seg' = seg
      BY <2>1 DEF Still, memVars
    <3> QED
      BY <1>0, <2>1, <3>1, <3>2, <3>3, CopiedNext DEF Copied
  <2> QED
    BY <2>3, <2>4, <2>5, <2>6 DEF DataInv
<1>3. CASE StageChunk
  <2>1. /\ async /\ mode = 1 /\ AtChunk /\ pc' = "stage" /\ work' = Parts(ChunkLen)
        /\ Still /\ UNCHANGED <<loopVars, stream>> /\ mode' = 1
    BY <1>0, <1>3 DEF StageChunk, tableVars, Still
  <2>2. Memory' /\ InPlace'
    BY <1>0, <2>1, StillMemory
  <2>3. FreezeBuffers'
    BY <2>1 DEF FreezeBuffers
  <2>4. RemapBuffers'
    <3>1. ChunkLen \in Nat \ {0}
      <4>1. ChunkLen \in 1..StageUnits
        BY <1>0, <2>1, ChunkFits
      <4> QED
        BY <4>1
    <3>2. \A x \in 0..(ChunkLen - 1) : \E p \in work' : x \in p.from..p.to
      BY <2>1, <3>1, PartsCover
    <3>3. ChunkLen' = ChunkLen
      BY <2>1 DEF Still, loopVars, ChunkLen
    <3> QED
      BY <1>0, <2>1, <3>2, <3>3 DEF RemapBuffers, Staged, Place, Still, memVars
  <2>5. Copied'
    BY <1>0, <2>1, StillCopied
  <2> QED
    BY <2>2, <2>3, <2>4, <2>5 DEF DataInv
<1>4. CASE Issue
  BY <1>4, IssueData
<1>5. CASE IssueFail
  <2>1. Still /\ UNCHANGED <<loopVars, stream>> /\ pc' = "fin" /\ "call" \in failed'
    BY <1>0, <1>5 DEF IssueFail, ErrorExit, Fails, tableVars, Still
  <2>2. Copied'
    BY <2>1 DEF Copied
  <2> QED
    BY <1>0, <2>1, <2>2, StillMemory, StillFreeze, StillRemap DEF DataInv
<1>6. CASE Sync
  <2>1. /\ pc = "sync" /\ Still /\ UNCHANGED <<stream, failed>>
    BY <1>0, <1>6 DEF Sync, tableVars, Still
  <2>2. CASE mode = 0 /\ prev # NoChunk
    <3>1. pc' = "flush" /\ work' = Parts(prev.len) /\ UNCHANGED loopVars
      BY <1>6, <2>2 DEF Sync
    <3>2. \A k, x : Unflushed(k, x) => Unflushed(k, x)'
      BY <1>0, <2>1, <2>2, <3>1, ToParts DEF Still
    <3>3. Copied'
      BY <1>0, <2>1, <2>2, <3>1, <3>2, StillCopied
    <3> QED
      BY <1>0, <2>1, <3>1, <3>3, StillMemory, StillFreeze, StillRemap DEF DataInv
  <2>3. CASE ~(mode = 0 /\ prev # NoChunk)
    <3>1. Advance /\ (mode = 1 \/ prev = NoChunk)
      BY <1>0, <1>6, <2>3 DEF Sync, Control
    <3>2. pc' # "stage"
      BY <3>1 DEF Advance
    <3> QED
      BY <1>0, <2>1, <3>1, <3>2, StillMemory, AdvanceFreeze, AdvanceCopied, StillRemap DEF DataInv
  <2> QED
    BY <2>2, <2>3
<1>7. CASE FlushEnd
  <2>1. /\ pc = "flush" /\ work = {} /\ Still /\ UNCHANGED stream /\ Advance /\ pc' = "loop"
    BY <1>0, <1>7 DEF FlushEnd, tableVars, Still, Advance
  <2> QED
    BY <1>0, <2>1, StillMemory, AdvanceFreeze, AdvanceCopied, StillRemap DEF DataInv
<1>8. CASE SyncLast
  <2>1. /\ pc = "loop" /\ ~More /\ Still /\ UNCHANGED <<loopVars, stream>> /\ pc' \in {"last", "fin"}
        /\ mode = 0 /\ prev # NoChunk => pc' = "last" /\ work' = Parts(prev.len)
    BY <1>0, <1>8 DEF SyncLast, tableVars, Still
  <2>2. i = Len(seg) + 1
    BY <1>0, <2>1 DEF More, Loop, Layout
  <2>3. ASSUME NEW k, NEW x, mode = 0, Unflushed(k, x) PROVE Unflushed(k, x)'
    <3>1. prev # NoChunk
      BY <2>3 DEF Unflushed
    <3> QED
      BY <1>0, <2>1, <2>3, <3>1, ToParts DEF Still
  <2>4. Copied'
    BY <1>0, <2>1, <2>2, <2>3, StillCopied
  <2> QED
    BY <1>0, <2>1, <2>4, StillMemory, StillFreeze, StillRemap DEF DataInv
<1>9. CASE LastEnd \/ Fin \/ SerialEnd
  <2>1. /\ Still /\ UNCHANGED <<loopVars, stream, failed>> /\ pc' \in {"fin", "ret"}
        /\ (pc = "last" /\ work = {}) \/ pc = "fin" \/ (pc = "loop" /\ ~async /\ ~More)
    BY <1>0, <1>9 DEF LastEnd, Fin, SerialEnd, tableVars, Still
  <2>2. \A k, x : ~Unflushed(k, x)
    BY <2>1 DEF Unflushed
  <2>3. failed = {} => i = Len(seg) + 1
    <3>1. ~More => i = Len(seg) + 1
      BY <1>0 DEF More, Loop, Layout
    <3> QED
      BY <1>0, <2>1, <3>1 DEF Copied
  <2>4. Copied'
    BY <1>0, <2>1, <2>2, <2>3, StillCopied
  <2> QED
    BY <1>0, <2>1, <2>4, StillMemory, StillFreeze, StillRemap DEF DataInv
<1>10. ASSUME NEW p \in work, Worker(p) PROVE DataInv'
  BY <1>0, <1>10, FlushData, StageData DEF Control
<1>11. CASE Dma
  BY <1>0, <1>11, DmaFreezeData, DmaRemapData DEF Control
<1>12. CASE DmaFail
  BY <1>12, DmaFailData
<1>13. CASE SerialCopy
  BY <1>13, SerialData
<1>14. CASE SerialFail
  <2>1. Still /\ UNCHANGED stream /\ ~async /\ "call" \in failed'
    BY <1>0, <1>14 DEF SerialFail, Fails, tableVars, Still
  <2>2. FreezeBuffers' /\ RemapBuffers'
    BY <2>1 DEF FreezeBuffers, RemapBuffers, Still
  <2>3. Copied'
    BY <2>1 DEF Copied
  <2> QED
    BY <1>0, <2>1, <2>2, <2>3, StillMemory DEF DataInv
<1>15. CASE Remap
  BY <1>15, RemapData
<1>16. CASE Returned
  BY <1>1, <1>16 DEF Returned
<1> QED
  BY <1>1, <1>2, <1>3, <1>4, <1>5, <1>6, <1>7, <1>8, <1>9, <1>10, <1>11, <1>12, <1>13, <1>14, <1>15,
     <1>16 DEF Next, Host

-----------------------------------------------------------------------------
(* The theorems                                                            *)

\* The table is one of segments, and the device holds each of them.
TableInv ==
  /\ seg \in Seq([req : Nat, sel : BOOLEAN, off : Nat])
  /\ dev = [k \in DOMAIN seg |-> dev[k]]

LEMMA TableInit == Init => TableInv
<1> SUFFICES ASSUME Init PROVE TableInv
  OBVIOUS
<1>1. PICK t \in Tables : seg = Assigned(t) /\ dev = Filled(t)
  BY DEF Init
<1>2. t \in Table
  BY <1>1, CopyAssumption DEF Table
<1> DEFINE f == Totals(t)
<1>3. Len(t) \in Nat /\ DOMAIN t = 1..Len(t) /\ \A k \in 0..Len(t) : f[k] \in Nat
  BY <1>2, TotalsGrow DEF Table
<1>4. seg = [k \in 1..Len(t) |-> [req |-> t[k].req, sel |-> t[k].sel, off |-> f[k - 1]]]
  BY <1>1, <1>3 DEF Assigned
<1> HIDE DEF f
<1>5. ASSUME NEW k \in 1..Len(t)
      PROVE  [req |-> t[k].req, sel |-> t[k].sel, off |-> f[k - 1]]
             \in [req : Nat, sel : BOOLEAN, off : Nat]
  <2>1. t[k].req \in Nat /\ t[k].sel \in BOOLEAN
    BY <1>2, PagesTypes
  <2>2. f[k - 1] \in Nat
    BY <1>3
  <2> QED
    BY <2>1, <2>2
<1>6. \A k \in 1..Len(t) : seg[k] \in [req : Nat, sel : BOOLEAN, off : Nat]
  BY <1>4, <1>5
<1>7. seg \in [1..Len(t) -> [req : Nat, sel : BOOLEAN, off : Nat]]
  BY <1>4, <1>5
<1>8. seg \in Seq([req : Nat, sel : BOOLEAN, off : Nat])
  BY <1>3, <1>7, SeqDef
<1>9. dev = [k \in DOMAIN seg |-> dev[k]]
  BY <1>1, <1>3, <1>4 DEF Filled
<1> QED
  BY <1>8, <1>9 DEF TableInv

\* The device keeps its segments.
LEMMA DeviceStep ==
  ASSUME TableInv, [Next]_vars
  PROVE  dev' = [k \in DOMAIN seg |-> dev'[k]]
<1>0. dev = [k \in DOMAIN seg |-> dev[k]]
  BY DEF TableInv
<1>1. \/ dev' = dev
      \/ \E k, v : dev' = [dev EXCEPT ![k] = v]
      \/ \E v : dev' = [k \in DOMAIN seg |-> v[k]]
  <2>1. CASE Remap
    <3> DEFINE v == [k \in DOMAIN seg |->
                      IF seg[k].sel THEN [x \in Units(k) |-> Blank] ELSE dev[k]]
    <3>1. dev' = v /\ v = [k \in DOMAIN seg |-> v[k]]
      BY <2>1 DEF Remap
    <3> HIDE DEF v
    <3> QED
      BY <3>1
  <2>2. CASE ~Remap
    BY <2>2
    DEF Next, Host, Skip, StageChunk, Issue, IssueFail, Sync, FlushEnd, SyncLast, LastEnd, Fin,
        Worker, Dma, DmaFail, SerialCopy, SerialFail, SerialEnd, Returned,
        tableVars, memVars, vars, DmaCopied
  <2> QED
    BY <2>1, <2>2
<1>2. ASSUME NEW k, NEW v, dev' = [dev EXCEPT ![k] = v] PROVE dev' = [j \in DOMAIN seg |-> dev'[j]]
  BY <1>0, <1>2
<1>3. ASSUME NEW v, dev' = [k \in DOMAIN seg |-> v[k]] PROVE dev' = [j \in DOMAIN seg |-> dev'[j]]
  BY <1>3
<1> QED
  BY <1>0, <1>1, <1>2, <1>3

IInv == TableInv /\ ControlInv /\ DataInv

LEMMA Invariant == Spec => []IInv
<1>1. Init => IInv
  BY TableInit, ControlInit, DataInit DEF IInv
<1>2. IInv /\ [Next]_vars => IInv'
  <2> SUFFICES ASSUME IInv, [Next]_vars PROVE IInv'
    OBVIOUS
  <2>1. TableInv'
    BY TableSame, DeviceStep DEF IInv, TableInv
  <2> QED
    BY <2>1, ControlStep, DataStep DEF IInv
<1> QED
  BY <1>1, <1>2, PTL DEF Spec

\* No thread has a part behind the end of a staging buffer.
LEMMA PartsInBuffer ==
  ASSUME ControlInv, NEW p \in work
  PROVE  p.from \in 0..(StageUnits - 1) /\ p.to \in 0..(StageUnits - 1)
<1>0. Layout /\ Loop /\ Control /\ StageUnits \in Nat
  BY CopyAssumption DEF ControlInv
<1>1. PICK m \in 1..StageUnits : work \subseteq Parts(m)
  <2>1. CASE pc = "stage"
    BY <1>0, <2>1, ChunkFits DEF Control
  <2>2. CASE pc \in {"flush", "last"}
    BY <1>0, <2>2 DEF Control, Loop, IsChunk
  <2> QED
    BY <1>0, <2>1, <2>2 DEF Control
<1>2. m \in Nat \ {0} /\ p \in Parts(m)
  BY <1>0, <1>1
<1>3. p.from \in 0..(m - 1) /\ p.to \in 0..(m - 1)
  BY <1>2, PartsCover
<1> QED
  BY <1>0, <1>1, <1>3

\* Every variable keeps its type: the two staging buffers are never left, no copy
\* leaves its segment or the blob, and the device never has more than two chunks
\* (pipe_copy, memcpy_mt and the serial loops, for any table and any sizes).
THEOREM TypeCorrect == Spec => []TypeOK
<1>1. IInv => TypeOK
  <2> SUFFICES ASSUME IInv PROVE TypeOK
    OBVIOUS
  <2>0. TableInv /\ ControlInv /\ Loop /\ Control /\ Memory
    BY DEF IInv, ControlInv, DataInv
  <2>1. prev.len \in 0..StageUnits
    <3>1. StageUnits \in Nat
      BY CopyAssumption
    <3> QED
      BY <2>0, <3>1 DEF Loop, IsChunk, NoChunk
  <2>2. \A p \in work : p.from \in 0..(StageUnits - 1) /\ p.to \in 0..(StageUnits - 1)
    BY <2>0, PartsInBuffer
  <2>3. Len(stream) <= 2
    <3>1. CASE stream = <<>>
      BY <3>1
    <3>2. ASSUME NEW c, stream = <<c>> PROVE Len(stream) <= 2
      <4>1. Len(<<c>>) = 1
        OBVIOUS
      <4> QED
        BY <3>2, <4>1
    <3>3. ASSUME NEW p, NEW c, stream = <<p, c>> PROVE Len(stream) <= 2
      <4>1. Len(<<p, c>>) = 2
        OBVIOUS
      <4> QED
        BY <3>3, <4>1
    <3>4. stream = <<>> \/ (\E c : stream = <<c>>) \/ (\E p, c : stream = <<p, c>>)
      BY <2>0 DEF Control
    <3> QED
      BY <3>1, <3>2, <3>3, <3>4
  <2>4. /\ bufs \in [{0, 1} -> [0..(StageUnits - 1) -> Contents]]
        /\ \A k \in DOMAIN seg : dev[k] \in [Units(k) -> Contents]
        /\ blob \in [DOMAIN blob -> Contents]
        /\ failed \subseteq {"call", "device"}
    BY <2>0 DEF Memory
  <2> QED
    BY <2>0, <2>1, <2>2, <2>3, <2>4 DEF TypeOK, TableInv, Control, Loop
<1> QED
  BY <1>1, Invariant, PTL

\* The device and the threads of memcpy_mt() are never at work on one staging
\* buffer at the same time, nor two threads on one unit: the order of event
\* record, event sync and memcpy in pipe_copy() is enough for two buffers, for
\* any table, chunk size and number of threads.
THEOREM RaceSafe == Spec => []NoRace
<1>1. IInv => NoRace
  BY RaceFree DEF IInv
<1> QED
  BY <1>1, Invariant, PTL

\* As long as the device has not failed, whatever call fails and whenever, a unit
\* of the blob or the device holds what belongs there or nothing (the `goto fin`
\* of pipe_copy and the serial loops' error paths).
THEOREM PlaceSafe == Spec => []NeverMisplaced
<1>1. IInv => NeverMisplaced
  BY DEF IInv, DataInv, InPlace, NeverMisplaced
<1> QED
  BY <1>1, Invariant, PTL

\* A freeze and a remap in which no copy failed bring the memory back as it was
\* (checkpoint_freeze and restore_remap, with pipe_copy or the serial loops).
THEOREM RoundTripSafe == Spec => []RoundTrip
<1>1. IInv => RoundTrip
  <2> SUFFICES ASSUME IInv, mode = 1, pc = "ret", failed = {} PROVE dev = Filled(seg)
    BY DEF RoundTrip
  <2>0. Layout /\ Loop /\ Control /\ Memory /\ InPlace /\ Copied
    BY DEF IInv, ControlInv, DataInv
  <2>1. stream = <<>> /\ DOMAIN stream = {} /\ i = Len(seg) + 1
    BY <2>0, Streams DEF Control, Copied
  <2>2. ASSUME NEW k \in DOMAIN seg, NEW x \in Units(k) PROVE dev[k][x] = Home(k, x)
    <3>1. CASE seg[k].sel
      <4>1. Passed(k, x)
        BY <2>0, <2>1 DEF Passed, Layout
      <4> QED
        BY <2>0, <2>1, <3>1, <4>1 DEF Copied
    <3>2. CASE ~seg[k].sel
      BY <2>0, <3>2 DEF InPlace
    <3> QED
      BY <3>1, <3>2
  <2>3. ASSUME NEW k \in DOMAIN seg PROVE dev[k] = Filled(seg)[k]
    <3>1. dev[k] \in [Units(k) -> Contents]
      BY <2>0 DEF Memory
    <3>2. Filled(seg)[k] = [x \in Units(k) |-> Home(k, x)]
      BY DEF Filled, Units
    <3>3. dev[k] = [x \in Units(k) |-> Home(k, x)]
      BY <2>2, <3>1
    <3> QED
      BY <3>2, <3>3
  <2>4. dev = [k \in DOMAIN seg |-> Filled(seg)[k]]
    <3>1. dev = [k \in DOMAIN seg |-> dev[k]]
      BY DEF IInv, TableInv
    <3> QED
      BY <2>3, <3>1
  <2> QED
    BY <2>0, <2>4 DEF Filled
<1> QED
  BY <1>1, Invariant, PTL

=============================================================================
