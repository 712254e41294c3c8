------------------------------ MODULE TimeUtil ------------------------------
(***************************************************************************)
(* utils/timeutil.c: arithmetic with struct timespec and delays in seconds *)
(* as floating-point numbers, in the order in which the receiver computes  *)
(* its deadline and the timeout that is left.                              *)
(*                                                                         *)
(* A second has NS nanoseconds of SUB parts; delays are whole parts.  What *)
(* floating-point numbers make of a value next to a whole nanosecond is a  *)
(* choice between the two sides.                                           *)
(***************************************************************************)
EXTENDS Integers

CONSTANTS
  NS,        \* nanoseconds of a second (10^9)
  SUB,       \* parts of a nanosecond
  Starts,    \* times the clock may show, in nanoseconds
  Delays,    \* delays that are added, in parts
  MAX_ADDS   \* bound: delays

TimeAssumption ==
  /\ NS \in Nat \ {0} /\ SUB \in Nat \ {0, 1}
  /\ Starts \subseteq Nat /\ Delays \subseteq Int
  /\ MAX_ADDS \in Nat

Second == NS * SUB

VARIABLES
  ts,       \* the timespec
  exact,    \* what it should be, in parts (history)
  adds,     \* delays added
  now,      \* the clock when the timeout is computed
  timeout   \* timespec, or None before that

vars == <<ts, exact, adds, now, timeout>>
None == [tv_sec |-> -1, tv_nsec |-> -1]

Timespec(ns) == [tv_sec |-> ns \div NS, tv_nsec |-> ns % NS]
Nanoseconds(t) == t.tv_sec * NS + t.tv_nsec

Init ==
  /\ \E t \in Starts : ts = Timespec(t) /\ exact = t * SUB
  /\ adds = 0 /\ now = 0 /\ timeout = None

-----------------------------------------------------------------------------
\* Variant: a full second of nanoseconds is not carried.
CarryLate(t) ==
  IF t.tv_nsec > NS THEN [tv_sec |-> t.tv_sec + 1, tv_nsec |-> t.tv_nsec - NS] ELSE t
\* Variant: the carry does not reach the seconds.
CarryLost(t) == [t EXCEPT !.tv_nsec = IF t.tv_nsec >= NS THEN @ - NS ELSE @]
Carry(t) ==
  IF t.tv_nsec >= NS THEN [tv_sec |-> t.tv_sec + 1, tv_nsec |-> t.tv_nsec - NS] ELSE t

\* The fraction of a delay; next to a second it may be rounded to one.
Fractions(d) ==
  {d % Second} \cup (IF d % Second = Second - 1 THEN {Second} ELSE {})

\* A sum in parts made whole nanoseconds: cut off, next to one rounded.
Whole(x) ==
  {x \div SUB}
    \cup (IF x % SUB = SUB - 1 THEN {x \div SUB + 1} ELSE {})
    \cup (IF x % SUB = 0 /\ x > 0 THEN {x \div SUB - 1} ELSE {})

\* add_delta_to(): floor() leaves a fraction that is not negative.
AddDelta(d) ==
  /\ timeout = None /\ adds < MAX_ADDS
  /\ \E frac \in Fractions(d) :
       \E ns \in IF frac = 0 THEN {ts.tv_nsec} ELSE Whole(ts.tv_nsec * SUB + frac) :
         ts' = Carry([tv_sec |-> ts.tv_sec + d \div Second, tv_nsec |-> ns])
  /\ exact' = exact + d
  /\ adds' = adds + 1
  /\ UNCHANGED <<now, timeout>>

\* Variant: the whole difference is taken for nanoseconds.
SplitNot(d) == [tv_sec |-> 0, tv_nsec |-> d]
\* get_timespec_from_seconds() of a delay above 0.
Split(d) == Timespec(d)

\* get_delta_seconds() and the timeout of pselect().
ComputeTimeout ==
  /\ timeout = None
  /\ now' \in Starts
  /\ LET left == Nanoseconds(ts) - now'
     IN  IF left > 0 THEN \E d \in {left - 1, left} : timeout' = Split(d)
                     ELSE timeout' = Timespec(0)
  /\ UNCHANGED <<ts, exact, adds>>

Next ==
  \/ \E d \in Delays : AddDelta(d)
  \/ ComputeTimeout

Spec == Init /\ [][Next]_vars

-----------------------------------------------------------------------------
(* Properties.                                                             *)

\* The assertion of add_delta_to(), and what the system calls ask for: there
\* is less than a second of nanoseconds, and not less than none, for any sign
\* of the delays and with a fraction that was rounded up to a second.
Normalised ==
  /\ 0 <= ts.tv_nsec /\ ts.tv_nsec < NS
  /\ timeout # None => 0 <= timeout.tv_nsec /\ timeout.tv_nsec < NS

\* Errors do not add up to more than a nanosecond lost, or a part gained, per
\* addition; the timeout loses one more, so that the receiver wakes at its
\* deadline or just before it, and not early by a carry that was forgotten.
Accurate ==
  LET error == Nanoseconds(ts) * SUB - exact
      wake_error == (now + Nanoseconds(timeout)) * SUB - exact
  IN  /\ -(adds * SUB) <= error /\ error <= adds
      /\ timeout # None /\ now < Nanoseconds(ts) =>
           -((adds + 1) * SUB) <= wake_error /\ wake_error <= adds
=============================================================================
