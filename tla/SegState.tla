------------------------------ MODULE SegState ------------------------------
(***************************************************************************)
(* receiver/segstate.c: the state of one segment, from its first packet to *)
(* its last byte of output.  A segment is a record and every operation of  *)
(* the C file a function from segments to segments; segstateset.c and      *)
(* receiver.c call them on the slots of the ring.                          *)
(*                                                                         *)
(*   esis   the symbols held by the only code block (see Coding)           *)
(*   buf    the source symbols that are right in out_cb_buf                *)
(*   offs   out_cb_buf_offs, the bytes already written from out_cb_buf     *)
(***************************************************************************)
EXTENDS Coding

Modes == {"RECEIVING", "READY_TO_WRITE", "WRITING"}

NoFd == -1

Segments ==
  [file_nbr : Nat, file_len : Nat, mode : Modes, esis : SUBSET Nat,
   out_fd : Int, out_cb : Int, offs : Nat, buf : SUBSET Nat]

segstate_init(file_nbr, file_len) ==
  [file_nbr |-> file_nbr, file_len |-> file_len, mode |-> "RECEIVING",
   esis |-> {}, out_fd |-> NoFd, out_cb |-> -1, offs |-> 0, buf |-> {}]

\* Code blocks and output buffer are released, the other fields keep their
\* last values.
segstate_free(S) == [S EXCEPT !.esis = {}, !.buf = {}]

-----------------------------------------------------------------------------
(* Receiving.                                                              *)

\* Variant: a segment takes packets in any mode.
AssertsWithoutMode(S, p) ==
  p.toi = S.file_nbr /\ p.tos = S.file_len /\ p.payload_size <= PD_T

\* The assertions at the head of segstate_add_packet() and of
\* codeblockstate_add_sym().
AddPacketAsserts(S, p) ==
  /\ p.toi = S.file_nbr
  /\ p.tos = S.file_len
  /\ S.mode = "RECEIVING"
  /\ p.payload_size <= PD_T

segstate_add_packet(S, p) ==
  [S EXCEPT !.esis = AddSymbol(@, KLarge(S.file_len), SymbolId(p))]

segstate_ready_for_write(S) == [S EXCEPT !.mode = "READY_TO_WRITE"]

-----------------------------------------------------------------------------
(* Writing.                                                                *)

\* What load_cb_buf() may put into the output buffer.
load_cb_buf(S) == Reconstructions(S.esis, KLarge(S.file_len))

segstate_prepare_output(S, out_fd, buf) ==
  [S EXCEPT !.mode = "WRITING", !.out_fd = out_fd, !.out_cb = 0,
            !.offs = 0, !.buf = buf]

\* Variant: the padding of the last symbol is written too.
CbSizePadded(S) == PD_T * KLarge(S.file_len)

\* The bytes of the only (hence last) code block: K symbols less the padding
\* of the last one.
CbSize(S) ==
  LET n_pad_bytes == KLarge(S.file_len) * PD_T - S.file_len
  IN  PD_T * KLarge(S.file_len) - n_pad_bytes

\* A write() that took n bytes; the block is left once its last byte is out.
segstate_write_more(S, n) ==
  IF S.offs + n = CbSize(S)
  THEN [S EXCEPT !.offs = 0, !.out_cb = @ + 1]
  ELSE [S EXCEPT !.offs = @ + n]

\* segstate_write_more() returns false: out_cb has reached n_cb = 1.
Written(S) == S.out_cb = 1
=============================================================================
