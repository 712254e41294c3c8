----------------------------- MODULE MemBlocks ------------------------------
(***************************************************************************)
(* utils/rq_memblocks.c: the memory of the decoder, five blocks that grow  *)
(* with the cases it is asked to handle.  The receiver owns one, passes it *)
(* from segment to segment and includes a case before each decoding.       *)
(*                                                                         *)
(* An allocation is a number, 0 is NULL; heap has the size of each one     *)
(* that was not freed.  What a case needs is up to the library.            *)
(***************************************************************************)
EXTENDS Integers

CONSTANTS
  Cases,             \* records [nMaxK, nMaxExtraIn, nMaxOut, nMaxT]
  InterWorkSize(_, _), InterProgSize(_, _), InterSymNum(_, _),
                     \* RqInterGetMemSizes()
  OutWorkSize(_), OutProgSize(_),
                     \* RqOutGetMemSizes()
  AllocErrors,       \* whether malloc() may return NULL
  MAX_CALLS          \* bound: cases included

Limits == [nMaxK : Nat, nMaxExtraIn : Nat, nMaxOut : Nat, nMaxT : Nat]

MemAssumption ==
  /\ Cases \subseteq Limits
  /\ \A c \in Cases :
       /\ InterWorkSize(c.nMaxK, c.nMaxExtraIn) \in Nat
       /\ InterProgSize(c.nMaxK, c.nMaxExtraIn) \in Nat
       /\ InterSymNum(c.nMaxK, c.nMaxExtraIn) \in Nat
       /\ OutWorkSize(c.nMaxOut) \in Nat
       /\ OutProgSize(c.nMaxOut) \in Nat
  /\ AllocErrors \in BOOLEAN
  /\ MAX_CALLS \in Nat

Blocks == {"InterWorkMem", "InterProgMem", "InterSymMem", "OutWorkMem",
           "OutProgMem"}

VARIABLES
  limits,   \* "Limits on the parameters"
  size,     \* nInterWorkMemSize etc.
  ptr,      \* pInterWorkMem etc.
  heap,     \* allocations not yet freed, with their sizes
  calls,    \* cases included so far
  included, \* the cases (history)
  pc        \* "run", "freed"

vars == <<limits, size, ptr, heap, calls, included, pc>>

Init ==
  /\ limits = [nMaxK |-> 0, nMaxExtraIn |-> 0, nMaxOut |-> 0, nMaxT |-> 0]
  /\ size = [b \in Blocks |-> 0]
  /\ ptr = [b \in Blocks |-> 0]
  /\ heap = [p \in {} |-> 0]
  /\ calls = 0 /\ included = {} /\ pc = "run"

Needed(c) ==
  [b \in Blocks |->
     CASE b = "InterWorkMem" -> InterWorkSize(c.nMaxK, c.nMaxExtraIn)
       [] b = "InterProgMem" -> InterProgSize(c.nMaxK, c.nMaxExtraIn)
       [] b = "InterSymMem" -> c.nMaxT * InterSymNum(c.nMaxK, c.nMaxExtraIn)
       [] b = "OutWorkMem" -> OutWorkSize(c.nMaxOut)
       [] b = "OutProgMem" -> OutProgSize(c.nMaxOut)]

\* Variant: every block gets the size of the case.
AllBlocks(c) == Blocks
\* The blocks that are too small for a case.
Growing(c) == {b \in Blocks : Needed(c)[b] > size[b]}

\* Variant: the old block is not freed.
FreedNone(grown) == {}
\* The old blocks of those that grow.
Freed(grown) == {ptr[b] : b \in grown} \ {0}

\* The allocation for block b in this call.
Index == [InterWorkMem |-> 1, InterProgMem |-> 2, InterSymMem |-> 3,
          OutWorkMem |-> 4, OutProgMem |-> 5]
Fresh(b) == 5 * calls + Index[b]

\* The result of malloc() is not tested: the size is recorded in any case.
RqMemBlocksIncludeCase(c) ==
  LET grown == Growing(c) IN
  /\ pc = "run" /\ calls < MAX_CALLS
  /\ \E failed \in SUBSET grown :
       /\ AllocErrors \/ failed = {}
       /\ ptr' = [b \in Blocks |-> IF b \in failed THEN 0
                                   ELSE IF b \in grown THEN Fresh(b) ELSE ptr[b]]
       /\ heap' = [p \in (DOMAIN heap \ Freed(grown))
                          \cup {Fresh(b) : b \in grown \ failed} |->
                     IF p \in DOMAIN heap THEN heap[p]
                     ELSE Needed(c)[CHOOSE b \in grown : p = Fresh(b)]]
  /\ size' = [b \in Blocks |-> IF b \in grown THEN Needed(c)[b] ELSE size[b]]
  /\ limits' = c
  /\ calls' = calls + 1
  /\ included' = included \cup {c}
  /\ UNCHANGED pc

\* A case the library refuses changes nothing.
CaseRefused ==
  /\ pc = "run" /\ calls < MAX_CALLS
  /\ calls' = calls + 1
  /\ UNCHANGED <<limits, size, ptr, heap, included, pc>>

\* The pointers keep their values.
RqMemBlocksFreeMem ==
  /\ pc = "run"
  /\ heap' = [p \in DOMAIN heap \ Freed(Blocks) |-> heap[p]]
  /\ pc' = "freed"
  /\ UNCHANGED <<limits, size, ptr, calls, included>>

Next ==
  \/ \E c \in Cases : RqMemBlocksIncludeCase(c)
  \/ CaseRefused
  \/ RqMemBlocksFreeMem

Spec == Init /\ [][Next]_vars

-----------------------------------------------------------------------------
(* Properties.                                                             *)

\* The memory is enough for every case included so far, not only for the last:
\* what is told to the decoder as the size of a block is what is there.
EveryCaseFits ==
  pc = "run" =>
    \A c \in included, b \in Blocks :
      Needed(c)[b] > 0 =>
        /\ size[b] >= Needed(c)[b]
        /\ ptr[b] \in DOMAIN heap /\ heap[ptr[b]] >= Needed(c)[b]

\* Nothing is leaked, shared between blocks or freed under a pointer: the blocks
\* and the heap correspond one to one, and nothing is left at the end.
HeapExact ==
  /\ DOMAIN heap = IF pc = "run" THEN {ptr[b] : b \in Blocks} \ {0} ELSE {}
  /\ \A a, b \in Blocks : ptr[a] = ptr[b] /\ ptr[a] # 0 => a = b
=============================================================================
