---------------------------- MODULE MCRouteDemo -----------------------------
(***************************************************************************)
(* Small instances of the whole demo.                                      *)
(***************************************************************************)
EXTENDS RouteDemo

\* A file of two symbols, the second cut short, then files of one symbol.
MCFileSize == [f \in 0..(NFiles - 1) |-> IF f = 0 THEN 3 ELSE 2]
=============================================================================
