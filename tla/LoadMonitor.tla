---------------------------- MODULE LoadMonitor -----------------------------
(***************************************************************************)
(* gui/load_monitor.py: the samples of processor time over which the       *)
(* window of the demo shows an average.  The clock goes forward; the       *)
(* samples are a second apart unless the program was held up.              *)
(***************************************************************************)
EXTENDS Integers, Sequences

CONSTANTS
  win_sz,    \* averaging window (5 seconds)
  Steps,     \* seconds from one sample to the next
  MAX_TIME   \* bound: seconds

LoadAssumption ==
  /\ win_sz \in Nat \ {0} /\ Steps \subseteq Nat \ {0} /\ MAX_TIME \in Nat

VARIABLES
  data,    \* samples, each a processor time and the time it was taken at
  used,    \* processor time of the process
  clock,
  removed  \* whether a sample was removed since the last reset (history)

vars == <<data, used, clock, removed>>

Init == data = <<>> /\ used = 0 /\ clock = 0 /\ removed = FALSE

\* Variants: the oldest sample is tested, or the one before the last.
OldestOutside(d) == Len(d) > 2 /\ d[Len(d)].time - d[1].time >= win_sz
LastOutside(d) == Len(d) > 2 /\ d[Len(d)].time - d[Len(d) - 1].time >= win_sz
\* The window is full without the oldest sample.
Outside(d) == Len(d) > 2 /\ d[Len(d)].time - d[2].time >= win_sz

\* The process was on the processor for some of the time.  At most one sample
\* is removed.
add_data_point ==
  \E step \in Steps :
    /\ clock + step <= MAX_TIME
    /\ clock' = clock + step
    /\ used' \in used..(used + step)
    /\ LET d == Append(data, [used |-> used', time |-> clock'])
       IN  /\ data' = IF Outside(d) THEN Tail(d) ELSE d
           /\ removed' = (removed \/ Outside(d))

\* Variant: the samples of the process before are kept.
reset_kept == UNCHANGED <<data, removed, clock>> /\ used' = 0
\* A restart: another process is watched.
reset == data' = <<>> /\ used' = 0 /\ removed' = FALSE /\ UNCHANGED clock

\* get_load_avg(), as numerator and denominator.
delta_pt == data[Len(data)].used - data[1].used
delta_rt == data[Len(data)].time - data[1].time

Next ==
  \/ add_data_point
  \/ reset

Spec == Init /\ [][Next]_vars

-----------------------------------------------------------------------------
(* Properties.                                                             *)

\* The average is over a full window once there was one, however irregular the
\* samples are, and the samples kept do not pile up.
WindowIsFull ==
  /\ removed => delta_rt >= win_sz
  /\ Len(data) <= win_sz + 1

\* The load is that of one process, between 0 and 1, and defined.
LoadIsSound ==
  Len(data) >= 2 => 0 <= delta_pt /\ delta_pt <= delta_rt /\ delta_rt > 0
=============================================================================
