---------------------------- MODULE SegStateSet -----------------------------
(***************************************************************************)
(* receiver/segstateset.c: the segments being processed, a ring of         *)
(* SEGSTATE_SET_N slots that holds the window of files                     *)
(*                                                                         *)
(*     min_file_nbr .. min_file_nbr + SEGSTATE_SET_N - 1 .                 *)
(*                                                                         *)
(* A set is a record with the fields of the C structure and an operation a *)
(* function from sets to sets, so that a caller's step can chain them.     *)
(***************************************************************************)
EXTENDS SegState

CONSTANT SEGSTATE_SET_N   \* 4 in segstateset.h

ASSUME RingAssumption == SEGSTATE_SET_N \in Nat \ {0}

Slots == 0..(SEGSTATE_SET_N - 1)

SegmentSets ==
  [min_file_nbr : Nat, first_index_in_array : Slots,
   states_initialized : [Slots -> BOOLEAN], states : [Slots -> Segments]]

\* A slot of the zeroed structure: segstateset_init() copies one over the set.
ZeroSegment ==
  [file_nbr |-> 0, file_len |-> 0, mode |-> "RECEIVING", esis |-> {},
   out_fd |-> 0, out_cb |-> 0, offs |-> 0, buf |-> {}]

segstateset_init(min_file_nbr) ==
  [min_file_nbr |-> min_file_nbr, first_index_in_array |-> 0,
   states_initialized |-> [i \in Slots |-> FALSE],
   states |-> [i \in Slots |-> ZeroSegment]]

-----------------------------------------------------------------------------
(* Lookup.                                                                 *)

InternalIndex(S, file_nbr) ==
  (file_nbr - S.min_file_nbr + S.first_index_in_array) % SEGSTATE_SET_N

\* The status segstateset_get() returns.
segstateset_get(S, file_nbr) ==
  IF file_nbr < S.min_file_nbr THEN "SS_BELOW_MIN"
  ELSE IF file_nbr >= S.min_file_nbr + SEGSTATE_SET_N THEN "SS_ABOVE_MAX"
  ELSE IF S.states_initialized[InternalIndex(S, file_nbr)] THEN "SS_OK"
  ELSE "SS_UNINITIALIZED"

\* The segment behind the pointer segstateset_get() stores, and the set after
\* a write through that pointer.
Slot(S, file_nbr) == S.states[InternalIndex(S, file_nbr)]
PutSlot(S, file_nbr, seg) ==
  [S EXCEPT !.states[InternalIndex(S, file_nbr)] = seg]

-----------------------------------------------------------------------------
(* Updates.                                                                *)

\* Variants: the ring index is not wrapped; it is not advanced.
IncWithoutWrap(S) ==
  [S EXCEPT !.states_initialized[S.first_index_in_array] = FALSE,
            !.first_index_in_array = @ + 1,
            !.min_file_nbr = @ + 1]
IncKeepsFirst(S) ==
  [S EXCEPT !.states_initialized[S.first_index_in_array] = FALSE,
            !.min_file_nbr = @ + 1]
segstateset_inc_min_file_nbr(S) ==
  [S EXCEPT !.states_initialized[S.first_index_in_array] = FALSE,
            !.first_index_in_array =
               IF @ + 1 = SEGSTATE_SET_N THEN 0 ELSE @ + 1,
            !.min_file_nbr = @ + 1]

segstateset_mark_initialized(S, file_nbr) ==
  [S EXCEPT !.states_initialized[InternalIndex(S, file_nbr)] = TRUE]

\* Variants: the newest segment is marked too; the one before it is not; a
\* segment being written is marked again.
MarkIncludesNewest(S, file_nbr) ==
  [S EXCEPT !.states =
     [i \in Slots |->
        IF /\ S.states_initialized[i]
           /\ @[i].mode = "RECEIVING"
           /\ @[i].file_nbr <= file_nbr
        THEN segstate_ready_for_write(@[i]) ELSE @[i]]]
MarkSkipsPrevious(S, file_nbr) ==
  [S EXCEPT !.states =
     [i \in Slots |->
        IF /\ S.states_initialized[i]
           /\ @[i].mode = "RECEIVING"
           /\ @[i].file_nbr < file_nbr - 1
        THEN segstate_ready_for_write(@[i]) ELSE @[i]]]
MarkIgnoresMode(S, file_nbr) ==
  [S EXCEPT !.states =
     [i \in Slots |->
        IF S.states_initialized[i] /\ @[i].file_nbr < file_nbr
        THEN segstate_ready_for_write(@[i]) ELSE @[i]]]
\* Every segment below file_nbr that is still receiving becomes ready.
segstateset_mark_readytowrite(S, file_nbr) ==
  [S EXCEPT !.states =
     [i \in Slots |->
        IF /\ S.states_initialized[i]
           /\ @[i].mode = "RECEIVING"
           /\ @[i].file_nbr < file_nbr
        THEN segstate_ready_for_write(@[i]) ELSE @[i]]]

-----------------------------------------------------------------------------
(* The set seen as a map from file numbers to segments.                    *)

OpenFiles(S) ==
  {f \in S.min_file_nbr..(S.min_file_nbr + SEGSTATE_SET_N - 1) :
     segstateset_get(S, f) = "SS_OK"}
=============================================================================
