----------------------------- MODULE SymbolSet ------------------------------
(***************************************************************************)
(* What a code block promises, and what Receiver takes it for: a set of    *)
(* symbols of limited size, read once.                                     *)
(***************************************************************************)
EXTENDS Coding

CONSTANTS
  K,     \* source symbols of the block
  Ids    \* identifiers of the symbols that may come

VARIABLES
  esis,  \* symbols held
  read,  \* the block has been read
  data   \* source symbols that were right when it was

vars == <<esis, read, data>>

Init == esis = {} /\ read = FALSE /\ data = {}

Add(id) ==
  /\ ~read
  /\ esis' = AddSymbol(esis, K, id)
  /\ UNCHANGED <<read, data>>

Get ==
  /\ ~read
  /\ read' = TRUE
  /\ data' \in Reconstructions(esis, K)
  /\ UNCHANGED esis

Next == Get \/ \E id \in Ids : Add(id)

Spec == Init /\ [][Next]_vars
=============================================================================
