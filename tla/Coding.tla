------------------------------- MODULE Coding -------------------------------
(***************************************************************************)
(* The coding parameters and the packets that sender and receiver share.   *)
(*                                                                         *)
(* A segment file of len bytes is one code block of KLarge(len) source     *)
(* symbols of PD_T bytes; param_deriv.c asserts that there is one block.   *)
(* Symbols are named by their encoding symbol identifier (ESI): 0..K-1 are *)
(* the source symbols and K, K+1, ... the repair symbols.  The bytes of a  *)
(* symbol are abstracted: a set of ESIs stands for the symbols it names.   *)
(***************************************************************************)
EXTENDS Integers, FiniteSets

CONSTANTS
  PD_T,       \* symbol size in bytes (1024 in param_deriv.h)
  ESI_SLACK   \* symbols a code block can hold beyond K (30 in the code)

ASSUME CodingAssumption == PD_T \in Nat \ {0} /\ ESI_SLACK \in Nat

SOURCE == 0   \* ROUTE_ENS_ID_SOURCE
REPAIR == 1   \* ROUTE_ENS_ID_REPAIR

CeilDiv(a, b) == (a + b - 1) \div b

\* The number of source symbols of a file: K_large of param_deriv().
KLarge(file_size) == CeilDiv(file_size, PD_T)

-----------------------------------------------------------------------------
(* Packets.  payload_size is what the datagram carries after the header.   *)

\* Source packet j: the last one is cut at the end of the file.
SourcePacket(toi, file_size, j) ==
  [ens_id |-> SOURCE, toi |-> toi, payload_id |-> j * PD_T, tos |-> file_size,
   payload_size |-> IF file_size - PD_T * j < PD_T
                    THEN file_size - PD_T * j ELSE PD_T]

\* Repair packet j: its offset restarts from 0, so that only ens_id tells it
\* from the source packet at the same offset.
RepairPacket(toi, file_size, j) ==
  [ens_id |-> REPAIR, toi |-> toi, payload_id |-> j * PD_T, tos |-> file_size,
   payload_size |-> PD_T]

\* The symbol a packet carries, as segstate_add_packet() computes it.
SymbolIdOffsetOnly(p) == p.payload_id \div PD_T
SymbolId(p) ==
  IF p.ens_id = SOURCE THEN p.payload_id \div PD_T
                       ELSE KLarge(p.tos) + p.payload_id \div PD_T

-----------------------------------------------------------------------------
(* The code block of a segment, as the set of symbols it holds.            *)

\* n_esi_max of codeblockstate_init().
Capacity(K) == K + ESI_SLACK

\* codeblockstate_add_sym(): a full block skips the symbol, a duplicate is
\* discarded.
AddSymbol(esis, K, id) ==
  IF Cardinality(esis) >= Capacity(K) THEN esis ELSE esis \cup {id}

SourceIds(K) == 0..(K - 1)

\* codeblockstate_get_data(): the source symbols that are right in the output
\* buffer; the others are zero.  With every source symbol, or with too few
\* symbols to decode, the source symbols received are copied.  Otherwise the
\* decoder, an external library, either reconstructs the block, or finds the
\* symbols insufficient (the received ones are copied), or fails with an error
\* and leaves the buffer cleared.
Reconstructions(esis, K) ==
  IF SourceIds(K) \subseteq esis \/ Cardinality(esis) < K
  THEN {esis \cap SourceIds(K)}
  ELSE {SourceIds(K), esis \cap SourceIds(K), {}}
=============================================================================
