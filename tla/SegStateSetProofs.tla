------------------------- MODULE SegStateSetProofs --------------------------
(***************************************************************************)
(* Facts about the ring of segments: the places of the files of the window *)
(* and the types of what the operations return.                            *)
(***************************************************************************)
EXTENDS SegStateSet, TLAPS

Window(S) == S.min_file_nbr..(S.min_file_nbr + SEGSTATE_SET_N - 1)

-----------------------------------------------------------------------------
(* Remainders, for a divisor that is not a number.                         *)

\* A remainder lies below its divisor.
LEMMA ModRange ==
  ASSUME NEW n \in Nat \ {0}, NEW x \in Int
  PROVE  x % n \in 0..(n - 1)
  OBVIOUS

\* A number below the divisor is its own remainder.
LEMMA ModSmall ==
  ASSUME NEW n \in Nat \ {0}, NEW x \in 0..(n - 1)
  PROVE  x % n = x
  OBVIOUS

\* Between the divisor and its double the remainder is one subtraction.
LEMMA ModOnce ==
  ASSUME NEW n \in Nat \ {0}, NEW x \in n..(2 * n - 1)
  PROVE  x % n = x - n
  OBVIOUS

-----------------------------------------------------------------------------
(* get_internal_index().                                                   *)

\* The index of a file is an index of the array.
LEMMA IndexInSlots ==
  ASSUME NEW S \in SegmentSets, NEW f \in Int
  PROVE  InternalIndex(S, f) \in Slots
<1>1. f - S.min_file_nbr + S.first_index_in_array \in Int
  BY RingAssumption DEF SegmentSets, Slots
<1> QED BY <1>1, RingAssumption, ModRange DEF InternalIndex, Slots

\* Where a file of the window is, without remainders.
LEMMA IndexInWindow ==
  ASSUME NEW S \in SegmentSets, NEW f \in Window(S)
  PROVE  LET d == f - S.min_file_nbr + S.first_index_in_array
         IN  InternalIndex(S, f) = IF d < SEGSTATE_SET_N
                                   THEN d ELSE d - SEGSTATE_SET_N
<1> DEFINE d == f - S.min_file_nbr + S.first_index_in_array
<1>1. d \in 0..(2 * SEGSTATE_SET_N - 2) /\ SEGSTATE_SET_N \in Nat \ {0}
  BY RingAssumption DEF SegmentSets, Slots, Window
<1>2. InternalIndex(S, f) = d % SEGSTATE_SET_N
  BY DEF InternalIndex
<1> HIDE DEF d
<1>3. CASE d < SEGSTATE_SET_N
  <2>1. d % SEGSTATE_SET_N = d
    BY <1>1, <1>3, ModSmall
  <2> QED BY <1>2, <1>3, <2>1 DEF d
<1>4. CASE ~(d < SEGSTATE_SET_N)
  <2>1. d % SEGSTATE_SET_N = d - SEGSTATE_SET_N
    BY <1>1, <1>4, ModOnce
  <2> QED BY <1>2, <1>4, <2>1 DEF d
<1> QED BY <1>3, <1>4

\* The file that leaves next is at the first index.
LEMMA IndexOfMin ==
  ASSUME NEW S \in SegmentSets
  PROVE  InternalIndex(S, S.min_file_nbr) = S.first_index_in_array
<1>1. S.min_file_nbr \in Window(S)
  BY RingAssumption DEF SegmentSets, Window
<1> QED BY <1>1, IndexInWindow, RingAssumption DEF SegmentSets, Slots

\* No two files of the window share a slot.
LEMMA IndexInjective ==
  ASSUME NEW S \in SegmentSets, NEW f \in Window(S), NEW g \in Window(S),
         InternalIndex(S, f) = InternalIndex(S, g)
  PROVE  f = g
  BY IndexInWindow, RingAssumption DEF SegmentSets, Slots, Window

\* A file that stays in the window keeps its slot when the window moves on.
LEMMA IndexAfterInc ==
  ASSUME NEW S \in SegmentSets, NEW f \in Window(S), f # S.min_file_nbr,
         segstateset_inc_min_file_nbr(S) \in SegmentSets
  PROVE  /\ f \in Window(segstateset_inc_min_file_nbr(S))
         /\ InternalIndex(segstateset_inc_min_file_nbr(S), f)
              = InternalIndex(S, f)
<1> DEFINE I == segstateset_inc_min_file_nbr(S)
<1>1. /\ I.min_file_nbr = S.min_file_nbr + 1
      /\ I.first_index_in_array = IF S.first_index_in_array + 1 = SEGSTATE_SET_N
                                  THEN 0 ELSE S.first_index_in_array + 1
  BY DEF segstateset_inc_min_file_nbr, SegmentSets
<1>2. f \in Window(I)
  BY <1>1, RingAssumption DEF SegmentSets, Window
<1>3. InternalIndex(I, f) = InternalIndex(S, f)
  <2>1. I \in SegmentSets
    OBVIOUS
  <2> HIDE DEF I
  <2>2. LET d == f - I.min_file_nbr + I.first_index_in_array
        IN  InternalIndex(I, f) = IF d < SEGSTATE_SET_N
                                  THEN d ELSE d - SEGSTATE_SET_N
    BY <1>2, <2>1, IndexInWindow
  <2>3. LET d == f - S.min_file_nbr + S.first_index_in_array
        IN  InternalIndex(S, f) = IF d < SEGSTATE_SET_N
                                  THEN d ELSE d - SEGSTATE_SET_N
    BY IndexInWindow
  <2>4. /\ S.first_index_in_array \in 0..(SEGSTATE_SET_N - 1)
        /\ S.min_file_nbr \in Nat /\ SEGSTATE_SET_N \in Nat \ {0}
        /\ f \in (S.min_file_nbr + 1)..(S.min_file_nbr + SEGSTATE_SET_N - 1)
    BY RingAssumption DEF SegmentSets, Slots, Window
  <2> QED BY <1>1, <2>2, <2>3, <2>4
<1> QED BY <1>2, <1>3

-----------------------------------------------------------------------------
(* Types.                                                                  *)

\* A write through the pointer of segstateset_get() keeps the set typed.
LEMMA PutSlotType ==
  ASSUME NEW S \in SegmentSets, NEW f \in Int, NEW seg \in Segments
  PROVE  PutSlot(S, f, seg) \in SegmentSets
  BY DEF PutSlot, SegmentSets

\* What segstateset_get() points at is a segment.
LEMMA SlotType ==
  ASSUME NEW S \in SegmentSets, NEW f \in Int
  PROVE  Slot(S, f) \in Segments
  BY IndexInSlots DEF Slot, SegmentSets

\* segstateset_inc_min_file_nbr() wraps its index and keeps the set typed.
LEMMA IncType ==
  ASSUME NEW S \in SegmentSets
  PROVE  segstateset_inc_min_file_nbr(S) \in SegmentSets
<1> DEFINE next == IF S.first_index_in_array + 1 = SEGSTATE_SET_N
                   THEN 0 ELSE S.first_index_in_array + 1
           inits == [S.states_initialized EXCEPT
                       ![S.first_index_in_array] = FALSE]
           A == [S EXCEPT !.states_initialized = inits,
                          !.first_index_in_array = next]
<1>1. next \in Slots
  BY RingAssumption DEF SegmentSets, Slots
<1>2. inits \in [Slots -> BOOLEAN]
  BY DEF SegmentSets
<1>3. segstateset_inc_min_file_nbr(S)
        = [A EXCEPT !.min_file_nbr = S.min_file_nbr + 1]
  BY DEF segstateset_inc_min_file_nbr
<1> HIDE DEF next, inits
<1>4. A \in SegmentSets
  BY <1>1, <1>2 DEF SegmentSets
<1>5. S.min_file_nbr + 1 \in Nat
  BY DEF SegmentSets
<1> HIDE DEF A
<1> QED BY <1>3, <1>4, <1>5 DEF SegmentSets

\* segstateset_mark_initialized() keeps the set typed.
LEMMA MarkInitializedType ==
  ASSUME NEW S \in SegmentSets, NEW f \in Int
  PROVE  segstateset_mark_initialized(S, f) \in SegmentSets
  BY DEF segstateset_mark_initialized, SegmentSets

\* segstate_ready_for_write() keeps a segment a segment.
LEMMA ReadyType ==
  ASSUME NEW seg \in Segments
  PROVE  segstate_ready_for_write(seg) \in Segments
  BY DEF segstate_ready_for_write, Segments, Modes

\* segstateset_mark_readytowrite() keeps the set typed.
LEMMA MarkReadyType ==
  ASSUME NEW S \in SegmentSets, NEW f \in Int
  PROVE  segstateset_mark_readytowrite(S, f) \in SegmentSets
  BY ReadyType DEF segstateset_mark_readytowrite, SegmentSets

-----------------------------------------------------------------------------
(* The set as a map: OpenFiles(S) is its domain and Slot(S, f) its value.  *)

\* The four results of segstateset_get().
LEMMA GetStatus ==
  ASSUME NEW S \in SegmentSets, NEW f \in Int
  PROVE  /\ segstateset_get(S, f) = "SS_OK" <=> f \in OpenFiles(S)
         /\ segstateset_get(S, f) = "SS_UNINITIALIZED"
              <=> f \in Window(S) /\ f \notin OpenFiles(S)
         /\ OpenFiles(S) \subseteq Window(S)
  BY RingAssumption DEF segstateset_get, OpenFiles, Window, SegmentSets

\* A file of the window is open when the flag of its slot is set.
LEMMA OpenFilesByIndex ==
  ASSUME NEW S \in SegmentSets, NEW f \in Window(S)
  PROVE  f \in OpenFiles(S) <=> S.states_initialized[InternalIndex(S, f)]
  BY RingAssumption DEF segstateset_get, OpenFiles, Window, SegmentSets

\* Every slot is the slot of a file of the window.
LEMMA IndexOnto ==
  ASSUME NEW S \in SegmentSets, NEW i \in Slots
  PROVE  \E f \in Window(S) : InternalIndex(S, f) = i
<1> DEFINE m == S.min_file_nbr
           a == S.first_index_in_array
           f == IF i >= a THEN m + (i - a) ELSE m + (i - a) + SEGSTATE_SET_N
<1>1. m \in Nat /\ a \in Slots /\ SEGSTATE_SET_N \in Nat \ {0}
  BY RingAssumption DEF SegmentSets
<1>2. f \in Window(S)
  BY <1>1 DEF Slots, Window
<1>3. InternalIndex(S, f) = i
  BY <1>1, <1>2, IndexInWindow DEF Slots, Window
<1> QED BY <1>2, <1>3

\* A write through the pointer changes the segment of that file only.
LEMMA PutSlotMap ==
  ASSUME NEW S \in SegmentSets, NEW f \in Window(S), NEW seg \in Segments
  PROVE  LET P == PutSlot(S, f, seg)
         IN  /\ P \in SegmentSets
             /\ P.min_file_nbr = S.min_file_nbr
             /\ Window(P) = Window(S)
             /\ OpenFiles(P) = OpenFiles(S)
             /\ Slot(P, f) = seg
             /\ \A g \in Window(S) : g # f => Slot(P, g) = Slot(S, g)
<1> DEFINE P == PutSlot(S, f, seg)
<1>1. P \in SegmentSets
  BY PutSlotType DEF Window
<1>2. /\ P.min_file_nbr = S.min_file_nbr
      /\ P.first_index_in_array = S.first_index_in_array
      /\ P.states_initialized = S.states_initialized
      /\ P.states = [S.states EXCEPT ![InternalIndex(S, f)] = seg]
  BY DEF PutSlot, SegmentSets
<1> HIDE DEF P
<1>3. \A g : InternalIndex(P, g) = InternalIndex(S, g)
  BY <1>2 DEF InternalIndex
<1>4. Window(P) = Window(S) /\ OpenFiles(P) = OpenFiles(S)
  BY <1>2, <1>3 DEF Window, OpenFiles, segstateset_get
<1>5. Slot(P, f) = seg
  BY <1>2, <1>3, IndexInSlots DEF Slot, SegmentSets, Window
<1>6. ASSUME NEW g \in Window(S), g # f
      PROVE  Slot(P, g) = Slot(S, g)
  <2>1. InternalIndex(S, g) # InternalIndex(S, f)
    BY <1>6, IndexInjective
  <2>2. InternalIndex(S, g) \in Slots
    BY IndexInSlots DEF Window
  <2> QED BY <1>2, <1>3, <2>1, <2>2 DEF Slot, SegmentSets
<1> QED BY <1>1, <1>2, <1>4, <1>5, <1>6 DEF P

\* segstateset_mark_initialized() adds one file to the map.
LEMMA MarkInitializedMap ==
  ASSUME NEW S \in SegmentSets, NEW f \in Window(S)
  PROVE  LET P == segstateset_mark_initialized(S, f)
         IN  /\ P \in SegmentSets
             /\ P.min_file_nbr = S.min_file_nbr
             /\ Window(P) = Window(S)
             /\ OpenFiles(P) = OpenFiles(S) \cup {f}
             /\ \A g \in Int : Slot(P, g) = Slot(S, g)
<1> DEFINE P == segstateset_mark_initialized(S, f)
<1>1. P \in SegmentSets
  BY MarkInitializedType DEF Window
<1>2. /\ P.min_file_nbr = S.min_file_nbr
      /\ P.first_index_in_array = S.first_index_in_array
      /\ P.states_initialized
           = [S.states_initialized EXCEPT ![InternalIndex(S, f)] = TRUE]
      /\ P.states = S.states
  BY DEF segstateset_mark_initialized, SegmentSets
<1> HIDE DEF P
<1>3. \A g : InternalIndex(P, g) = InternalIndex(S, g)
  BY <1>2 DEF InternalIndex
<1>4. Window(P) = Window(S)
  BY <1>2 DEF Window
<1>5. \A g : Slot(P, g) = Slot(S, g)
  BY <1>2, <1>3 DEF Slot
<1>6. ASSUME NEW g \in Window(S)
      PROVE  g \in OpenFiles(P) <=> g \in OpenFiles(S) \/ g = f
  <2>1. InternalIndex(S, g) \in Slots
    BY IndexInSlots DEF Window
  <2>2. g # f => InternalIndex(S, g) # InternalIndex(S, f)
    BY IndexInjective
  <2>3. P.states_initialized[InternalIndex(S, g)]
          <=> S.states_initialized[InternalIndex(S, g)] \/ g = f
    BY <1>2, <2>1, <2>2 DEF SegmentSets
  <2> QED BY <1>1, <1>3, <1>4, <2>3, OpenFilesByIndex
<1>7. OpenFiles(P) = OpenFiles(S) \cup {f}
  BY <1>1, <1>4, <1>6 DEF OpenFiles, Window
<1> QED BY <1>1, <1>2, <1>4, <1>5, <1>7 DEF P

\* segstateset_mark_readytowrite() changes the mode of the receiving segments
\* below file f, and nothing else.
LEMMA MarkReadyMap ==
  ASSUME NEW S \in SegmentSets, NEW f \in Int
  PROVE  LET P == segstateset_mark_readytowrite(S, f)
         IN  /\ P \in SegmentSets
             /\ P.min_file_nbr = S.min_file_nbr
             /\ Window(P) = Window(S)
             /\ OpenFiles(P) = OpenFiles(S)
             /\ \A g \in OpenFiles(S) :
                  Slot(P, g) = IF /\ Slot(S, g).mode = "RECEIVING"
                                  /\ Slot(S, g).file_nbr < f
                               THEN segstate_ready_for_write(Slot(S, g))
                               ELSE Slot(S, g)
<1> DEFINE P == segstateset_mark_readytowrite(S, f)
<1>1. P \in SegmentSets
  BY MarkReadyType
<1>2. /\ P.min_file_nbr = S.min_file_nbr
      /\ P.first_index_in_array = S.first_index_in_array
      /\ P.states_initialized = S.states_initialized
      /\ P.states = [i \in Slots |->
                       IF /\ S.states_initialized[i]
                          /\ S.states[i].mode = "RECEIVING"
                          /\ S.states[i].file_nbr < f
                       THEN segstate_ready_for_write(S.states[i])
                       ELSE S.states[i]]
  BY DEF segstateset_mark_readytowrite, SegmentSets
<1> HIDE DEF P
<1>3. \A g : InternalIndex(P, g) = InternalIndex(S, g)
  BY <1>2 DEF InternalIndex
<1>4. Window(P) = Window(S) /\ OpenFiles(P) = OpenFiles(S)
  BY <1>2, <1>3 DEF Window, OpenFiles, segstateset_get
<1>5. ASSUME NEW g \in OpenFiles(S)
      PROVE  Slot(P, g) = IF /\ Slot(S, g).mode = "RECEIVING"
                             /\ Slot(S, g).file_nbr < f
                          THEN segstate_ready_for_write(Slot(S, g))
                          ELSE Slot(S, g)
  <2>1. g \in Window(S)
    BY DEF OpenFiles, Window
  <2>2. InternalIndex(S, g) \in Slots /\ S.states_initialized[InternalIndex(S, g)]
    BY <2>1, IndexInSlots, OpenFilesByIndex DEF Window
  <2> QED BY <1>2, <1>3, <2>2 DEF Slot
<1> QED BY <1>1, <1>2, <1>4, <1>5 DEF P

\* segstateset_inc_min_file_nbr() drops the file that leaves and keeps the others.
LEMMA IncMap ==
  ASSUME NEW S \in SegmentSets
  PROVE  LET P == segstateset_inc_min_file_nbr(S)
         IN  /\ P \in SegmentSets
             /\ P.min_file_nbr = S.min_file_nbr + 1
             /\ OpenFiles(P) = OpenFiles(S) \ {S.min_file_nbr}
             /\ \A g \in OpenFiles(P) : Slot(P, g) = Slot(S, g)
<1> DEFINE P == segstateset_inc_min_file_nbr(S)
<1>1. P \in SegmentSets
  BY IncType
<1>2. /\ P.min_file_nbr = S.min_file_nbr + 1
      /\ P.states_initialized
           = [S.states_initialized EXCEPT ![S.first_index_in_array] = FALSE]
      /\ P.states = S.states
  BY DEF segstateset_inc_min_file_nbr, SegmentSets
<1>3. ASSUME NEW g \in Window(S), g # S.min_file_nbr
      PROVE  g \in Window(P) /\ InternalIndex(P, g) = InternalIndex(S, g)
  BY <1>1, <1>3, IndexAfterInc
<1>4. S.min_file_nbr \in Window(S) /\ SEGSTATE_SET_N \in Nat \ {0}
      /\ S.min_file_nbr \in Nat
  BY RingAssumption DEF SegmentSets, Window
<1> HIDE DEF P
<1>5. ASSUME NEW g \in Window(S), g # S.min_file_nbr
      PROVE  g \in OpenFiles(P) <=> g \in OpenFiles(S)
  <2>1. InternalIndex(S, g) # S.first_index_in_array
    BY <1>4, <1>5, IndexOfMin, IndexInjective
  <2>2. InternalIndex(S, g) \in Slots
    BY IndexInSlots DEF Window
  <2> QED BY <1>1, <1>2, <1>3, <1>5, <2>1, <2>2, OpenFilesByIndex
          DEF SegmentSets
<1>6. ASSUME NEW g \in Window(P), g \notin Window(S)
      PROVE  g \notin OpenFiles(P)
  \* The file that enters the window takes the slot of the one that leaves.
  <2>1. g = S.min_file_nbr + SEGSTATE_SET_N
    BY <1>2, <1>4, <1>6 DEF Window
  <2>2. PICK h \in Window(P) : InternalIndex(P, h) = S.first_index_in_array
    BY <1>1, IndexOnto DEF SegmentSets
  <2>3. h = g
    <3>1. SUFFICES ASSUME h # g PROVE FALSE
      OBVIOUS
    <3>2. h \in Window(S) /\ h # S.min_file_nbr
      BY <1>2, <1>4, <2>1, <3>1 DEF Window
    <3>3. InternalIndex(S, h) = InternalIndex(S, S.min_file_nbr)
      BY <1>3, <2>2, <3>2, IndexOfMin
    <3> QED BY <1>4, <3>2, <3>3, IndexInjective
  <2>4. ~P.states_initialized[InternalIndex(P, g)]
    BY <1>2, <2>2, <2>3 DEF SegmentSets
  <2> QED BY <1>1, <2>4, OpenFilesByIndex
<1>7. OpenFiles(P) = OpenFiles(S) \ {S.min_file_nbr}
  <2>1. OpenFiles(P) \subseteq Window(P) /\ OpenFiles(S) \subseteq Window(S)
        /\ S.min_file_nbr \notin Window(P)
    BY <1>2, <1>4 DEF OpenFiles, Window
  <2> QED BY <1>5, <1>6, <2>1
<1>8. ASSUME NEW g \in OpenFiles(P)
      PROVE  Slot(P, g) = Slot(S, g)
  <2>1. g \in Window(S) /\ g # S.min_file_nbr
    BY <1>7 DEF OpenFiles, Window
  <2> QED BY <1>2, <1>3, <2>1 DEF Slot
<1> QED BY <1>1, <1>2, <1>7, <1>8 DEF P
=============================================================================
