----------------------------- MODULE MCReceiver -----------------------------
(***************************************************************************)
(* Small instances of the receiver, under packets in any order.            *)
(***************************************************************************)
EXTENDS Receiver

\* Sizes that end within a symbol, at its end and below one symbol.
MCFileSize == [f \in Files |-> CASE f = 0 -> 3 [] f = 1 -> 2 [] OTHER -> 1]
=============================================================================
