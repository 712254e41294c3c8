--------------------------- MODULE MCTimedSender ----------------------------
(***************************************************************************)
(* Small instances of the sender against the clock.                        *)
(***************************************************************************)
EXTENDS TimedSender

\* Files of four packets, the last one cut short, with one of two between.
MCFileSize == [f \in Files |-> IF f % 2 = 0 THEN 7 ELSE 4]
MCDuration == [f \in Files |-> 4 - f]
=============================================================================
