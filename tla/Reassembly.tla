---------------------------- MODULE Reassembly ------------------------------
(***************************************************************************)
(* What the receiver promises, without ring, descriptors or event loop.    *)
(*                                                                         *)
(* Packets fill segments; segments leave in playlist order, one by one,    *)
(* none skipped, none twice.  A segment leaves only after a later one has  *)
(* been seen, and what leaves is a reconstruction of every symbol that was *)
(* accepted for it: nothing is accepted once its output is decided.        *)
(***************************************************************************)
EXTENDS Coding, Sequences

CONSTANTS
  NFiles,     \* number of files the sender transmits
  FileSize,   \* their sizes in bytes, a function on Files
  Symbols,    \* the symbol identifiers that packets can carry
  Window,     \* how far ahead of the output a segment may be
  IOErrors    \* whether writing a segment file may fail

Files == 0..(NFiles - 1)

VARIABLES
  segs,     \* the open segments: file number -> set of symbols
  newest,   \* the highest file number seen, -1 at first
  output    \* the segments that have left, in order

vars == <<segs, newest, output>>

Init == segs = <<>> /\ newest = -1 /\ output = <<>>

\* The file that leaves next.
Base == Len(output)

\* The first packet of a segment opens it, possibly without its symbol yet.
Admit(f) ==
  /\ f \in Base..(Base + Window - 1)
  /\ f \notin DOMAIN segs
  /\ \E ids \in {{}} \cup {{id} : id \in Symbols} :
       segs' = [g \in DOMAIN segs \cup {f} |-> IF g = f THEN ids ELSE segs[g]]
  /\ newest' = IF f > newest THEN f ELSE newest
  /\ UNCHANGED output

Accept(f) ==
  /\ f \in DOMAIN segs
  /\ \E id \in Symbols : segs' = [segs EXCEPT ![f] = @ \cup {id}]
  /\ UNCHANGED <<newest, output>>

Emit ==
  /\ Base \in DOMAIN segs
  /\ newest > Base
  /\ \E syms \in Reconstructions(segs[Base], KLarge(FileSize[Base])),
        len \in 0..FileSize[Base] :
       /\ len < FileSize[Base] => IOErrors
       /\ output' = Append(output,
                           [file_nbr |-> Base, len |-> len, syms |-> syms])
  /\ segs' = [g \in DOMAIN segs \ {Base} |-> segs[g]]
  /\ UNCHANGED newest

Next == Emit \/ \E f \in Files : Admit(f) \/ Accept(f)

Spec == Init /\ [][Next]_vars
=============================================================================
