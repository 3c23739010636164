---------------------------- MODULE GatedMemory ----------------------------
(***************************************************************************)
(* What the data engine promises the application (interceptor/preload.c,   *)
(* README "non-destructive resume"): device memory that behaves as if no   *)
(* checkpoint were ever taken, behind a gate that holds new launches.      *)
(*                                                                         *)
(* A freeze or remap is invisible here except for the gate: no step        *)
(* changes what is stored at an address but a kernel's write, and no       *)
(* address comes or goes but by the application's own call.  Once the      *)
(* promise is void (see Excused in DataEngine) everything may happen.      *)
(***************************************************************************)
CONSTANTS
  Threads, VAs, Vals,
  Blank   \* contents of memory nobody has written

VARIABLES
  data,    \* contents of the addresses the application holds
  held,    \* the gate is up
  inside,  \* threads that have passed the gate and not finished their launch
  void     \* the promise is void

vars == <<data, held, inside, void>>

Init ==
  /\ data = [a \in {} |-> Blank]
  /\ held = FALSE /\ inside = {} /\ void = FALSE

\* cudaMalloc and cudaFree of the application, never held by the gate.
Alloc(a) ==
  /\ a \notin DOMAIN data
  /\ data' = [b \in DOMAIN data \cup {a} |-> IF b = a THEN Blank ELSE data[b]]
  /\ UNCHANGED <<held, inside>>
Free(a) ==
  /\ a \in DOMAIN data
  /\ data' = [b \in DOMAIN data \ {a} |-> data[b]]
  /\ UNCHANGED <<held, inside>>

\* A launch passes the gate, if it is open at that moment ...
Pass(t) ==
  /\ ~held /\ t \notin inside
  /\ inside' = inside \cup {t}
  /\ UNCHANGED <<data, held>>

\* ... and its kernel writes v at a, or touches none of this memory.
Write(t, a, v) ==
  /\ t \in inside /\ inside' = inside \ {t}
  /\ a \in DOMAIN data
  /\ data' = [data EXCEPT ![a] = v]
  /\ UNCHANGED held
Leave(t) ==
  /\ t \in inside /\ inside' = inside \ {t}
  /\ UNCHANGED <<data, held>>

\* The engine raises and lowers the gate.
Gate ==
  /\ held' = ~held
  /\ UNCHANGED <<data, inside>>

Promised ==
  \/ Gate
  \/ \E t \in Threads : Pass(t) \/ Leave(t)
  \/ \E a \in VAs : Alloc(a) \/ Free(a)
  \/ \E t \in Threads, a \in VAs, v \in Vals : Write(t, a, v)

Next ==
  \/ ~void /\ ~void' /\ Promised
  \/ void'

Spec == Init /\ [][Next]_vars

=============================================================================
