--------------------------- MODULE ReceiverProofs ---------------------------
(***************************************************************************)
(* Invariants of the receiver, for every ring size, playlist, file size    *)
(* and buffer size, and for packets in any order, lost and duplicated.     *)
(***************************************************************************)
EXTENDS Receiver, SegStateSetProofs

-----------------------------------------------------------------------------
(* Arithmetic of the coding parameters.                                    *)

\* A product of naturals is a natural.
LEMMA ProductNat ==
  ASSUME NEW a \in Nat, NEW b \in Nat
  PROVE  a * b \in Nat
  OBVIOUS

\* A natural divided by a positive one is a natural.
LEMMA QuotientNat ==
  ASSUME NEW a \in Nat, NEW b \in Nat \ {0}
  PROVE  a \div b \in Nat
  OBVIOUS

\* A file has a natural number of source symbols.
LEMMA KLargeNat ==
  ASSUME NEW len \in Nat
  PROVE  KLarge(len) \in Nat
<1>1. len + PD_T - 1 \in Nat /\ PD_T \in Nat \ {0}
  BY CodingAssumption
<1> QED BY <1>1, QuotientNat DEF KLarge, CeilDiv

\* The bytes segstate_write_more() writes are the bytes of the file.
LEMMA CbSizeIsFileLen ==
  ASSUME NEW seg \in Segments
  PROVE  CbSize(seg) = seg.file_len
<1>1. seg.file_len \in Nat
  BY DEF Segments
<1>2. KLarge(seg.file_len) * PD_T \in Nat
  BY <1>1, KLargeNat, ProductNat, CodingAssumption
<1>3. PD_T * KLarge(seg.file_len) = KLarge(seg.file_len) * PD_T
  BY <1>1, KLargeNat, CodingAssumption
<1> QED BY <1>1, <1>2, <1>3 DEF CbSize

-----------------------------------------------------------------------------
(* Packets.                                                                *)

\* What the receiver may rely on in a packet of the sender.
LEMMA PacketFields ==
  ASSUME NEW p \in Packets
  PROVE  /\ p.toi \in Files /\ p.toi \in Nat
         /\ p.tos = FileSize[p.toi] /\ p.tos \in Nat \ {0}
         /\ p.payload_id \in Nat
<1>1. PICK f \in Files : p \in SourcePackets(f) \/ p \in RepairPackets(f)
  BY DEF Packets
<1>2. FileSize[f] \in Nat \ {0} /\ PD_T \in Nat \ {0} /\ MAX_REPAIR \in Nat
  BY ReceiverAssumption, CodingAssumption
<1>2a. f \in Nat /\ KLarge(FileSize[f]) \in Nat
  BY <1>2, KLargeNat, ReceiverAssumption DEF Files
<1>3. CASE p \in SourcePackets(f)
  <2>1. PICK j \in 0..(KLarge(FileSize[f]) - 1) :
          p = SourcePacket(f, FileSize[f], j)
    BY <1>3 DEF SourcePackets
  <2>2. j * PD_T \in Nat
    BY <1>2, <1>2a, ProductNat
  <2> QED BY <1>2, <1>2a, <2>1, <2>2 DEF SourcePacket
<1>4. CASE p \in RepairPackets(f)
  <2>1. PICK j \in 0..(MAX_REPAIR - 1) : p = RepairPacket(f, FileSize[f], j)
    BY <1>4 DEF RepairPackets
  <2>2. j * PD_T \in Nat
    BY <1>2, <1>2a, ProductNat
  <2> QED BY <1>2, <1>2a, <2>1, <2>2 DEF RepairPacket
<1> QED BY <1>1, <1>3, <1>4

\* A packet carries the symbol of a natural identifier.
LEMMA SymbolIdNat ==
  ASSUME NEW p \in Packets
  PROVE  SymbolId(p) \in Nat
<1>1. p.payload_id \div PD_T \in Nat
  BY PacketFields, QuotientNat, CodingAssumption
<1>2. KLarge(p.tos) \in Nat
  BY PacketFields, KLargeNat
<1> QED BY <1>1, <1>2 DEF SymbolId

-----------------------------------------------------------------------------
(* Types of the operations of segstate.c.                                  *)

\* segstate_init() makes a segment.
LEMMA InitSegmentType ==
  ASSUME NEW p \in Packets
  PROVE  segstate_init(p.toi, p.tos) \in Segments
  BY PacketFields DEF segstate_init, Segments, Modes, NoFd

\* segstate_add_packet() adds a symbol at most and changes nothing else.
LEMMA AddPacketType ==
  ASSUME NEW seg \in Segments, NEW p \in Packets
  PROVE  LET T == segstate_add_packet(seg, p)
         IN  /\ T \in Segments
             /\ T.file_nbr = seg.file_nbr /\ T.file_len = seg.file_len
             /\ T.mode = seg.mode /\ T.out_fd = seg.out_fd
             /\ T.out_cb = seg.out_cb /\ T.offs = seg.offs
<1>1. AddSymbol(seg.esis, KLarge(seg.file_len), SymbolId(p)) \in SUBSET Nat
  BY SymbolIdNat DEF AddSymbol, Segments
<1> QED BY <1>1 DEF segstate_add_packet, Segments

\* segstate_free() keeps a segment a segment.
LEMMA FreeType ==
  ASSUME NEW seg \in Segments
  PROVE  segstate_free(seg) \in Segments
  BY DEF segstate_free, Segments

\* segstate_prepare_output() makes a segment that is being written.
LEMMA PrepareType ==
  ASSUME NEW seg \in Segments, NEW f \in Nat, NEW buf \in load_cb_buf(seg)
  PROVE  segstate_prepare_output(seg, f, buf) \in Segments
<1>1. SourceIds(KLarge(seg.file_len)) \subseteq Nat
  BY KLargeNat DEF SourceIds, Segments
<1>2. buf \in SUBSET Nat
  BY <1>1 DEF load_cb_buf, Reconstructions, Segments
<1> DEFINE A == [seg EXCEPT !.mode = "WRITING"]
           B == [A EXCEPT !.out_fd = f]
           C == [B EXCEPT !.out_cb = 0]
           D == [C EXCEPT !.offs = 0]
<1>3. segstate_prepare_output(seg, f, buf) = [D EXCEPT !.buf = buf]
  BY DEF segstate_prepare_output
<1>4. A \in Segments
  BY DEF Segments, Modes
<1> HIDE DEF A
<1>5. B \in Segments
  BY <1>4 DEF Segments
<1> HIDE DEF B
<1>6. C \in Segments
  BY <1>5 DEF Segments
<1> HIDE DEF C
<1>7. D \in Segments
  BY <1>6 DEF Segments
<1> HIDE DEF D
<1> QED BY <1>2, <1>3, <1>7 DEF Segments

\* segstate_write_more() moves the output cursor only.
LEMMA WriteMoreType ==
  ASSUME NEW seg \in Segments, NEW n \in 1..(CbSize(seg) - seg.offs)
  PROVE  segstate_write_more(seg, n) \in Segments
<1>1. seg.offs + n \in Nat /\ seg.out_cb + 1 \in Int
  BY CbSizeIsFileLen DEF Segments
<1>2. [seg EXCEPT !.offs = 0, !.out_cb = seg.out_cb + 1] \in Segments
  BY <1>1 DEF Segments
<1>3. [seg EXCEPT !.offs = seg.offs + n] \in Segments
  BY <1>1 DEF Segments
<1> QED BY <1>2, <1>3 DEF segstate_write_more

-----------------------------------------------------------------------------
(* Type correctness.                                                       *)

\* segstate_add_packet() on a slot of the set keeps it a set of segments.
LEMMA AddPacketSetType ==
  ASSUME NEW S \in SegmentSets, NEW p \in Packets
  PROVE  AddPacket(S, p) \in SegmentSets
<1>1. Slot(S, p.toi) \in Segments /\ p.toi \in Int
  BY PacketFields, SlotType
<1> QED BY <1>1, AddPacketType, PutSlotType DEF AddPacket

\* The end of the packet handler keeps the types.
LEMMA AddOrAbortType ==
  ASSUME NEW S \in SegmentSets, NEW p \in Packets, AddOrAbort(S, p)
  PROVE  SS' \in SegmentSets /\ pc' \in {"select", "abort"}
  BY AddPacketSetType DEF AddOrAbort

\* The set the handler of the first packet of a file makes.
LEMMA OpenedType ==
  ASSUME NEW S \in SegmentSets, NEW p \in Packets, NEW n \in Int
  PROVE  /\ Opened(S, p) \in SegmentSets
         /\ segstateset_mark_readytowrite(Opened(S, p), n) \in SegmentSets
<1>1. p.toi \in Int
  BY PacketFields
<1> QED
  BY <1>1, InitSegmentType, PutSlotType, MarkInitializedType, MarkReadyType
  DEF Opened

\* The end of a segment keeps the types.
LEMMA FinishSegmentType ==
  ASSUME SS \in SegmentSets, out_fd \in Nat,
         output \in Seq([file_nbr : Nat, len : Nat, syms : SUBSET Nat]),
         NEW seg \in Segments, NEW len \in Nat, FinishSegment(seg, len)
  PROVE  /\ SS' \in SegmentSets
         /\ out_fd' = NoFd
         /\ pc' \in {"select", "open"}
         /\ output' \in Seq([file_nbr : Nat, len : Nat, syms : SUBSET Nat])
<1>1. PutSlot(SS, SS.min_file_nbr, segstate_free(seg)) \in SegmentSets
  BY FreeType, PutSlotType DEF SegmentSets
<1>2. [file_nbr |-> out_fd, len |-> len, syms |-> seg.buf]
        \in [file_nbr : Nat, len : Nat, syms : SUBSET Nat]
  BY DEF Segments
<1> QED BY <1>1, <1>2, IncType DEF FinishSegment, task_start_write

\* Every variable keeps its type, whatever the step.
LEMMA TypeStep ==
  ASSUME TypeOK, [Next]_vars
  PROVE  TypeOK'
<1> USE DEF TypeOK
<1>0. /\ sock # <<>> => Head(sock) \in Packets /\ Tail(sock) \in Seq(Packets)
      /\ pending # <<>> => Head(pending) \in Packets
      /\ SS.min_file_nbr \in Nat
  BY DEF SegmentSets
<1>1. CASE TaskSignalReady
  BY <1>1 DEF TaskSignalReady
<1>2. CASE RecvUninitialized
  <2> DEFINE p == Head(sock)
             marked == IF p.toi > recv_file_nbr
                       THEN segstateset_mark_readytowrite(Opened(SS, p), p.toi)
                       ELSE Opened(SS, p)
  <2>1. p \in Packets /\ sock' \in Seq(Packets)
    BY <1>0, <1>2 DEF RecvUninitialized, AtRecv
  <2>2. p.toi \in Files /\ p.toi \in Int
    BY <2>1, PacketFields
  <2>3. marked \in SegmentSets
    BY <2>1, <2>2, OpenedType
  <2>4. \/ SS' = marked /\ pc' = "open" /\ pending' = <<p>>
        \/ AddOrAbort(marked, p) /\ pending' = pending
    BY <1>2 DEF RecvUninitialized
  <2> HIDE DEF marked, p
  <2>5. SS' \in SegmentSets /\ pc' \in {"select", "abort", "open"}
        /\ pending' \in Seq(Packets)
    <3>1. CASE SS' = marked /\ pc' = "open" /\ pending' = <<p>>
      BY <2>1, <2>3, <3>1
    <3>2. CASE AddOrAbort(marked, p) /\ pending' = pending
      BY <2>1, <2>3, <3>2, AddOrAbortType
    <3> QED BY <2>4, <3>1, <3>2
  <2>6. recv_file_nbr' \in Files \cup {-1} /\ started' \in BOOLEAN
    BY <1>2, <2>2 DEF RecvUninitialized, p
  <2> QED BY <1>2, <2>1, <2>5, <2>6 DEF RecvUninitialized
<1>3. CASE RecvOk
  <2>1. Head(sock) \in Packets /\ sock' \in Seq(Packets)
    BY <1>0, <1>3 DEF RecvOk, AtRecv
  <2> QED BY <1>3, <2>1, AddOrAbortType DEF RecvOk
<1>4. CASE RecvRejected
  BY <1>0, <1>4 DEF RecvRejected, AtRecv
<1>5. CASE TaskStartWrite
  BY <1>5 DEF TaskStartWrite, task_start_write
<1>6. CASE OpenReturns
  <2> DEFINE f == SS.min_file_nbr
  <2>1. PICK buf \in load_cb_buf(Slot(SS, f)) :
          LET S == PutSlot(SS, f, segstate_prepare_output(Slot(SS, f), f, buf))
          IN  IF pending = <<>> THEN SS' = S /\ pc' = "select"
                                ELSE AddOrAbort(S, Head(pending))
    BY <1>6 DEF OpenReturns
  <2>2. PutSlot(SS, f, segstate_prepare_output(Slot(SS, f), f, buf))
          \in SegmentSets
    BY <1>0, SlotType, PrepareType, PutSlotType
  <2>3. SS' \in SegmentSets /\ pc' \in {"select", "abort"}
    BY <1>0, <2>1, <2>2, AddOrAbortType
  <2> QED BY <1>0, <1>6, <2>3 DEF OpenReturns
<1>7. CASE OpenFails
  <2>1. SS' \in SegmentSets /\ pc' \in {"select", "abort"}
    BY <1>0, <1>7, AddOrAbortType DEF OpenFails
  <2>2. <<SS.min_file_nbr, recv_file_nbr>>
          \in (Nat \cup {NoFile}) \X (Files \cup {NoFile})
    BY <1>0 DEF NoFile
  <2>3. /\ open_failed' = <<SS.min_file_nbr, recv_file_nbr>> /\ pending' = <<>>
        /\ UNCHANGED <<out_fd, started, write_ok, recv_file_nbr, ready_fd, sock,
                       output>>
    BY <1>7 DEF OpenFails
  <2> QED BY <2>1, <2>2, <2>3
<1>8. CASE TaskWrite
  <2> DEFINE seg == Slot(SS, SS.min_file_nbr)
  <2>1. out_fd \in Nat /\ seg \in Segments
    BY <1>0, <1>8, SlotType DEF TaskWrite, AtWrite
  <2>2. PICK n \in 1..(CbSize(seg) - seg.offs) :
          LET more == segstate_write_more(seg, n)
          IN  IF Written(more)
              THEN FinishSegment(more, CbSize(seg))
              ELSE /\ SS' = PutSlot(SS, SS.min_file_nbr, more)
                   /\ UNCHANGED <<out_fd, pc, output>>
    BY <1>8 DEF TaskWrite
  <2>3. segstate_write_more(seg, n) \in Segments /\ CbSize(seg) \in Nat
    BY <2>1, WriteMoreType, CbSizeIsFileLen DEF Segments
  <2> HIDE DEF seg
  <2>4. CASE Written(segstate_write_more(seg, n))
    <3>1. FinishSegment(segstate_write_more(seg, n), CbSize(seg))
      BY <2>2, <2>4
    <3>2. /\ SS' \in SegmentSets /\ out_fd' = NoFd /\ pc' \in {"select", "open"}
          /\ output' \in Seq([file_nbr : Nat, len : Nat, syms : SUBSET Nat])
      BY <2>1, <2>3, <3>1, FinishSegmentType
    <3> QED BY <1>8, <3>2 DEF TaskWrite
  <2>5. CASE ~Written(segstate_write_more(seg, n))
    <3>1. PutSlot(SS, SS.min_file_nbr, segstate_write_more(seg, n))
            \in SegmentSets
      BY <1>0, <2>3, PutSlotType
    <3>2. SS' \in SegmentSets /\ UNCHANGED <<out_fd, pc, output>>
      BY <2>2, <2>5, <3>1
    <3> QED BY <1>8, <3>2 DEF TaskWrite
  <2> QED BY <2>4, <2>5
<1>9. CASE TaskWriteFails
  <2> DEFINE seg == Slot(SS, SS.min_file_nbr)
  <2>1. out_fd \in Nat /\ seg \in Segments
    BY <1>0, <1>9, SlotType DEF TaskWriteFails, AtWrite
  <2>2. seg.offs \in Nat /\ FinishSegment(seg, seg.offs)
    BY <1>9, <2>1 DEF TaskWriteFails, Segments
  <2>3. /\ SS' \in SegmentSets /\ out_fd' = NoFd /\ pc' \in {"select", "open"}
        /\ output' \in Seq([file_nbr : Nat, len : Nat, syms : SUBSET Nat])
    BY <2>1, <2>2, FinishSegmentType
  <2> QED BY <1>9, <2>3 DEF TaskWriteFails
<1>10. CASE Finish
  BY <1>10 DEF Finish, Stop
<1>11. CASE LoopFails
  BY <1>11 DEF LoopFails, Stop
<1>12. CASE \E p \in Packets : Arrive(p)
  BY <1>12 DEF Arrive
<1>13. CASE UNCHANGED vars
  BY <1>13 DEF vars
<1> QED
  BY <1>1, <1>2, <1>3, <1>4, <1>5, <1>6, <1>7, <1>8, <1>9, <1>10, <1>11,
     <1>12, <1>13 DEF Next, ReceiverStep

\* The variables have their types at the start: segstateset_init() and the
\* declarations of receive_write().
LEMMA TypeInit == Init => TypeOK
<1>1. ZeroSegment \in Segments
  BY DEF ZeroSegment, Segments, Modes
<1>2. segstateset_init(0) \in SegmentSets
  <2>1. 0 \in Slots /\ 0 \in Nat
    BY RingAssumption DEF Slots
  <2>2. /\ [i \in Slots |-> FALSE] \in [Slots -> BOOLEAN]
        /\ [i \in Slots |-> ZeroSegment] \in [Slots -> Segments]
    BY <1>1
  <2> QED BY <2>1, <2>2 DEF segstateset_init, SegmentSets
<1>3. <<>> \in Seq(Packets)
      /\ <<>> \in Seq([file_nbr : Nat, len : Nat, syms : SUBSET Nat])
  OBVIOUS
<1>4. <<NoFile, NoFile>> \in (Nat \cup {NoFile}) \X (Files \cup {NoFile})
  OBVIOUS
<1> QED
  BY <1>2, <1>3, <1>4, ReceiverAssumption DEF Init, TypeOK, NoFd

\* Type correctness of the receiver: in particular the ring index stays in the
\* array and the file number and length passed on at the end of a segment are
\* those of a file (segstateset.c, task_write()).
THEOREM TypeCorrect == Spec => []TypeOK
  BY TypeInit, TypeStep, PTL DEF Spec

-----------------------------------------------------------------------------
(* The inductive invariant, over the ring seen as a map.                   *)

\* RingConsistent by files instead of slots.
InPlace(S) ==
  \A f \in OpenFiles(S) :
     /\ f \in Files
     /\ Slot(S, f).file_nbr = f
     /\ Slot(S, f).file_len = FileSize[f]

\* OneWriter by files: fd is the open descriptor and c the control state.
Writer(S, fd, c) ==
  /\ fd # NoFd =>
       LET seg == Slot(S, S.min_file_nbr)
       IN  /\ fd = S.min_file_nbr
           /\ S.min_file_nbr \in OpenFiles(S)
           /\ seg.mode = "WRITING" /\ seg.out_fd = fd
           /\ seg.out_cb = 0 /\ seg.offs < seg.file_len
  /\ \A f \in OpenFiles(S) : Slot(S, f).mode = "WRITING" => fd = f
  /\ c = "open" => fd = NoFd /\ MinReady(S)

\* A segment that is not being written has no descriptor: the assertion of
\* segstate_prepare_output().
IdleHasNoFd(S) ==
  \A f \in OpenFiles(S) :
     Slot(S, f).mode # "WRITING" => Slot(S, f).out_fd = NoFd

\* ClosedBelowNewest, n being the newest file.
Closed(S, n) ==
  \A f \in OpenFiles(S) : Slot(S, f).mode # "RECEIVING" => f < n

\* NoMissedStart, over every variable it reads.
Started(S, fd, ok, n, failed, c) ==
  c = "select" /\ ok /\ fd = NoFd /\ MinReady(S) => failed = <<S.min_file_nbr, n>>

Inv ==
  /\ TypeOK
  /\ InPlace(SS)
  /\ Writer(SS, out_fd, pc)
  /\ IdleHasNoFd(SS)
  /\ Closed(SS, recv_file_nbr)
  /\ Started(SS, out_fd, write_ok, recv_file_nbr, open_failed, pc)

\* RingConsistent and InPlace say the same.
LEMMA RingConsistentByFile ==
  ASSUME TypeOK
  PROVE  RingConsistent <=> InPlace(SS)
<1>0. SS \in SegmentSets
  BY DEF TypeOK
<1>1. ASSUME RingConsistent, NEW f \in OpenFiles(SS)
      PROVE  /\ f \in Files /\ Slot(SS, f).file_nbr = f
             /\ Slot(SS, f).file_len = FileSize[f]
  <2> DEFINE i == InternalIndex(SS, f)
             g == SS.states[i].file_nbr
  <2>1. f \in Window(SS) /\ i \in Slots /\ SS.states_initialized[i]
    BY <1>0, GetStatus, OpenFilesByIndex, IndexInSlots DEF OpenFiles, Window
  <2>2. g \in Window(SS) /\ InternalIndex(SS, g) = i /\ g \in Files
        /\ SS.states[i].file_len = FileSize[g]
    BY <1>1, <2>1 DEF RingConsistent, Window
  <2>3. g = f
    BY <1>0, <2>1, <2>2, IndexInjective
  <2> QED BY <2>2, <2>3 DEF Slot
<1>2. ASSUME InPlace(SS), NEW i \in Slots, SS.states_initialized[i]
      PROVE  LET f == SS.states[i].file_nbr
             IN  /\ f \in Window(SS)
                 /\ InternalIndex(SS, f) = i
                 /\ f \in Files /\ SS.states[i].file_len = FileSize[f]
  <2>1. PICK f \in Window(SS) : InternalIndex(SS, f) = i
    BY <1>0, IndexOnto
  <2>2. f \in OpenFiles(SS)
    BY <1>0, <1>2, <2>1, OpenFilesByIndex
  <2> QED BY <1>2, <2>1, <2>2 DEF InPlace, Slot
<1> QED BY <1>1, <1>2 DEF RingConsistent, InPlace, Window

-----------------------------------------------------------------------------
(* What the operations of the receiver do to the map.                      *)

\* T differs from S in the symbols received and in the output buffers only.
SameButSymbols(S, T) ==
  /\ T.min_file_nbr = S.min_file_nbr
  /\ OpenFiles(T) = OpenFiles(S)
  /\ \A g \in Int : /\ Slot(T, g).file_nbr = Slot(S, g).file_nbr
                    /\ Slot(T, g).file_len = Slot(S, g).file_len
                    /\ Slot(T, g).mode = Slot(S, g).mode
                    /\ Slot(T, g).out_fd = Slot(S, g).out_fd
                    /\ Slot(T, g).out_cb = Slot(S, g).out_cb
                    /\ Slot(T, g).offs = Slot(S, g).offs

\* The end of the packet handler adds a symbol or aborts.
LEMMA AddOrAbortMap ==
  ASSUME NEW S \in SegmentSets, NEW p \in Packets, AddOrAbort(S, p)
  PROVE  SameButSymbols(S, SS') /\ pc' \in {"select", "abort"}
<1>1. CASE SS' = S /\ pc' = "abort"
  BY <1>1 DEF SameButSymbols
<1>2. CASE SS' = AddPacket(S, p) /\ pc' = "select"
  <2> DEFINE i == InternalIndex(S, p.toi)
             T == AddPacket(S, p)
  <2>1. i \in Slots
    BY IndexInSlots, PacketFields
  <2>2. /\ T.min_file_nbr = S.min_file_nbr
        /\ T.first_index_in_array = S.first_index_in_array
        /\ T.states_initialized = S.states_initialized
        /\ T.states = [S.states EXCEPT ![i] =
                         segstate_add_packet(S.states[i], p)]
    BY DEF AddPacket, PutSlot, Slot, SegmentSets
  <2> HIDE DEF T
  <2>3. \A g : InternalIndex(T, g) = InternalIndex(S, g)
    BY <2>2 DEF InternalIndex
  <2>4. OpenFiles(T) = OpenFiles(S)
    BY <2>2, <2>3 DEF OpenFiles, segstateset_get
  <2>5. ASSUME NEW g \in Int
        PROVE  /\ Slot(T, g).file_nbr = Slot(S, g).file_nbr
               /\ Slot(T, g).file_len = Slot(S, g).file_len
               /\ Slot(T, g).mode = Slot(S, g).mode
               /\ Slot(T, g).out_fd = Slot(S, g).out_fd
               /\ Slot(T, g).out_cb = Slot(S, g).out_cb
               /\ Slot(T, g).offs = Slot(S, g).offs
    <3>1. InternalIndex(S, g) \in Slots /\ Slot(S, g) \in Segments
          /\ Slot(S, g) = S.states[InternalIndex(S, g)]
      BY IndexInSlots, SlotType DEF Slot
    <3>2. Slot(T, g) = IF InternalIndex(S, g) = i
                       THEN segstate_add_packet(Slot(S, g), p) ELSE Slot(S, g)
      BY <2>1, <2>2, <2>3, <3>1 DEF Slot, SegmentSets
    <3> QED BY <3>1, <3>2, AddPacketType
  <2> QED BY <1>2, <2>2, <2>4, <2>5 DEF SameButSymbols, T
<1> QED BY <1>1, <1>2 DEF AddOrAbort

\* A new segment is added to the map, receiving.
LEMMA OpenedMap ==
  ASSUME NEW S \in SegmentSets, NEW p \in Packets,
         p.toi \in Window(S), p.toi \notin OpenFiles(S)
  PROVE  LET O == Opened(S, p)
         IN  /\ O \in SegmentSets
             /\ O.min_file_nbr = S.min_file_nbr
             /\ OpenFiles(O) = OpenFiles(S) \cup {p.toi}
             /\ Slot(O, p.toi) = segstate_init(p.toi, p.tos)
             /\ \A g \in OpenFiles(S) : Slot(O, g) = Slot(S, g)
<1> DEFINE A == PutSlot(S, p.toi, segstate_init(p.toi, p.tos))
<1>1. /\ A \in SegmentSets
      /\ A.min_file_nbr = S.min_file_nbr
      /\ Window(A) = Window(S)
      /\ OpenFiles(A) = OpenFiles(S)
      /\ Slot(A, p.toi) = segstate_init(p.toi, p.tos)
      /\ \A g \in Window(S) : g # p.toi => Slot(A, g) = Slot(S, g)
  BY InitSegmentType, PutSlotMap
<1>2. Opened(S, p) = segstateset_mark_initialized(A, p.toi)
  BY DEF Opened
<1> HIDE DEF A
<1>3. OpenFiles(S) \subseteq Window(S) /\ OpenFiles(S) \subseteq Int
      /\ p.toi \in Int
  BY PacketFields DEF OpenFiles, Window
<1> QED BY <1>1, <1>2, <1>3, MarkInitializedMap

\* The segment that leaves next is replaced.
LEMMA PutFirstMap ==
  ASSUME NEW S \in SegmentSets, NEW seg \in Segments
  PROVE  LET P == PutSlot(S, S.min_file_nbr, seg)
         IN  /\ P \in SegmentSets
             /\ P.min_file_nbr = S.min_file_nbr
             /\ OpenFiles(P) = OpenFiles(S)
             /\ Slot(P, S.min_file_nbr) = seg
             /\ \A g \in OpenFiles(S) :
                  g # S.min_file_nbr => Slot(P, g) = Slot(S, g)
<1>1. S.min_file_nbr \in Window(S) /\ OpenFiles(S) \subseteq Window(S)
  BY RingAssumption DEF Window, SegmentSets, OpenFiles
<1> QED BY <1>1, PutSlotMap

\* The segment that leaves next is ready when it is open and in that mode.
LEMMA MinReadyByFile ==
  ASSUME NEW S \in SegmentSets
  PROVE  MinReady(S) <=> /\ S.min_file_nbr \in OpenFiles(S)
                         /\ Slot(S, S.min_file_nbr).mode = "READY_TO_WRITE"
<1>1. S.min_file_nbr \in Int
  BY DEF SegmentSets
<1> QED BY <1>1, GetStatus DEF MinReady

\* The invariant gives the four properties of Receiver.
LEMMA InvImplies ==
  ASSUME Inv
  PROVE  RingConsistent /\ OneWriter /\ ClosedBelowNewest /\ NoMissedStart
<1>1. SS \in SegmentSets /\ SS.min_file_nbr \in Int
  BY DEF Inv, TypeOK, SegmentSets
<1>2. RingConsistent
  BY RingConsistentByFile DEF Inv
<1>3. OneWriter
  <2>1. CbSize(Slot(SS, SS.min_file_nbr)) = Slot(SS, SS.min_file_nbr).file_len
    BY <1>1, SlotType, CbSizeIsFileLen
  <2>2. segstateset_get(SS, SS.min_file_nbr) = "SS_OK"
          <=> SS.min_file_nbr \in OpenFiles(SS)
    BY <1>1, GetStatus
  <2>3. MinReady(SS) => Slot(SS, SS.min_file_nbr).out_fd = NoFd
    BY <1>1, MinReadyByFile DEF Inv, IdleHasNoFd
  <2> QED BY <2>1, <2>2, <2>3 DEF Inv, Writer, OneWriter
<1> QED BY <1>2, <1>3 DEF Inv, Closed, ClosedBelowNewest, Started, NoMissedStart

\* What SameButSymbols keeps.
LEMMA SameKeeps ==
  ASSUME NEW S \in SegmentSets, NEW T \in SegmentSets, SameButSymbols(S, T)
  PROVE  /\ InPlace(S) => InPlace(T)
         /\ \A fd, c : Writer(S, fd, c) => Writer(T, fd, c)
         /\ IdleHasNoFd(S) => IdleHasNoFd(T)
         /\ \A n : Closed(S, n) => Closed(T, n)
         /\ MinReady(T) <=> MinReady(S)
         /\ T.min_file_nbr = S.min_file_nbr
<1>1. /\ S.min_file_nbr \in Int /\ T.min_file_nbr = S.min_file_nbr
      /\ OpenFiles(S) \subseteq Int /\ OpenFiles(T) = OpenFiles(S)
  BY DEF SegmentSets, OpenFiles, SameButSymbols
<1>2. MinReady(T) <=> MinReady(S)
  BY <1>1, MinReadyByFile DEF SameButSymbols
<1>3. InPlace(S) => InPlace(T)
  BY <1>1 DEF InPlace, SameButSymbols
<1>4. \A fd, c : Writer(S, fd, c) => Writer(T, fd, c)
  BY <1>1, <1>2 DEF Writer, SameButSymbols
<1>5. IdleHasNoFd(S) => IdleHasNoFd(T)
  BY <1>1 DEF IdleHasNoFd, SameButSymbols
<1>6. \A n : Closed(S, n) => Closed(T, n)
  BY <1>1 DEF Closed, SameButSymbols
<1> QED BY <1>1, <1>2, <1>3, <1>4, <1>5, <1>6

-----------------------------------------------------------------------------
(* The steps.                                                              *)

\* The segments at the end of a step are good when those of a set S are, from
\* which they differ by one packet at most.
LEMMA StepBySet ==
  ASSUME TypeOK', NEW S \in SegmentSets, SameButSymbols(S, SS'),
         InPlace(S), Writer(S, out_fd', pc'), IdleHasNoFd(S),
         Closed(S, recv_file_nbr'),
         Started(S, out_fd', write_ok', recv_file_nbr', open_failed', pc')
  PROVE  Inv'
<1>1. SS' \in SegmentSets
  BY DEF TypeOK
<1>2. Started(SS', out_fd', write_ok', recv_file_nbr', open_failed', pc')
  BY <1>1, SameKeeps DEF Started
<1> QED BY <1>1, <1>2, SameKeeps DEF Inv

\* A set differs from itself by nothing.
LEMMA SameRefl == ASSUME NEW S PROVE SameButSymbols(S, S)
  BY DEF SameButSymbols

\* RECV of a packet of an open segment.
LEMMA RecvOkStep ==
  ASSUME Inv, TypeOK', RecvOk
  PROVE  Inv'
<1>1. SS \in SegmentSets /\ Head(sock) \in Packets
  BY DEF Inv, TypeOK, RecvOk, AtRecv
<1>2. SameButSymbols(SS, SS') /\ pc' \in {"select", "abort"} /\ pc = "select"
  BY <1>1, AddOrAbortMap DEF RecvOk, AtRecv, AtSelect
<1>3. Writer(SS, out_fd', pc') /\ Closed(SS, recv_file_nbr')
      /\ Started(SS, out_fd', write_ok', recv_file_nbr', open_failed', pc')
  BY <1>2 DEF Inv, Writer, Closed, Started, RecvOk
<1> QED BY <1>1, <1>2, <1>3, StepBySet DEF Inv

\* RECV of the first packet of a file.
LEMMA RecvUninitializedStep ==
  ASSUME Inv, TypeOK', RecvUninitialized
  PROVE  Inv'
<1> DEFINE p == Head(sock)
           newer == p.toi > recv_file_nbr
           O == Opened(SS, p)
           M == IF newer THEN segstateset_mark_readytowrite(O, p.toi) ELSE O
<1>1. /\ SS \in SegmentSets /\ p \in Packets /\ recv_file_nbr \in Int
      /\ pc = "select"
  BY DEF Inv, TypeOK, RecvUninitialized, AtRecv, AtSelect, Files
<1>2. p.toi \in Files /\ p.toi \in Nat /\ p.tos = FileSize[p.toi]
  BY <1>1, PacketFields
<1>3. p.toi \in Window(SS) /\ p.toi \notin OpenFiles(SS)
  BY <1>1, <1>2, GetStatus DEF RecvUninitialized, AtRecv
<1>4. /\ O \in SegmentSets
      /\ O.min_file_nbr = SS.min_file_nbr
      /\ OpenFiles(O) = OpenFiles(SS) \cup {p.toi}
      /\ Slot(O, p.toi) = segstate_init(p.toi, p.tos)
      /\ \A g \in OpenFiles(SS) : Slot(O, g) = Slot(SS, g)
  BY <1>1, <1>3, OpenedMap
<1> HIDE DEF O
<1>5. /\ M \in SegmentSets
      /\ M.min_file_nbr = SS.min_file_nbr
      /\ OpenFiles(M) = OpenFiles(SS) \cup {p.toi}
      /\ Slot(M, p.toi) = segstate_init(p.toi, p.tos)
      /\ \A g \in OpenFiles(SS) :
           Slot(M, g) = IF newer /\ Slot(SS, g).mode = "RECEIVING"
                             /\ Slot(SS, g).file_nbr < p.toi
                        THEN segstate_ready_for_write(Slot(SS, g))
                        ELSE Slot(SS, g)
  <2>1. CASE ~newer
    BY <1>4, <2>1
  <2>2. CASE newer
    <3>1. /\ M \in SegmentSets
          /\ M.min_file_nbr = O.min_file_nbr
          /\ OpenFiles(M) = OpenFiles(O)
          /\ \A g \in OpenFiles(O) :
               Slot(M, g) = IF /\ Slot(O, g).mode = "RECEIVING"
                               /\ Slot(O, g).file_nbr < p.toi
                            THEN segstate_ready_for_write(Slot(O, g))
                            ELSE Slot(O, g)
      <4>1. M = segstateset_mark_readytowrite(O, p.toi)
        BY <2>2
      <4>2. p.toi \in Int /\ O \in SegmentSets
        BY <1>2, <1>4
      <4> HIDE DEF M
      <4> QED BY ONLY <4>1, <4>2, MarkReadyMap
    <3>2. ~(Slot(O, p.toi).file_nbr < p.toi)
      BY <1>2, <1>4 DEF segstate_init
    <3> QED BY <1>4, <2>2, <3>1, <3>2
  <2> QED BY <2>1, <2>2
<1>6. \/ /\ newer /\ write_ok /\ out_fd = NoFd /\ MinReady(M)
         /\ SS' = M /\ pc' = "open"
      \/ /\ ~(newer /\ write_ok /\ out_fd = NoFd /\ MinReady(M))
         /\ AddOrAbort(M, p)
  BY DEF RecvUninitialized, O
<1>7. UNCHANGED <<out_fd, write_ok, open_failed>>
      /\ recv_file_nbr' = IF newer THEN p.toi ELSE recv_file_nbr
  BY DEF RecvUninitialized
<1> HIDE DEF M
<1>8. SameButSymbols(M, SS')
      /\ \/ pc' = "open" /\ out_fd = NoFd /\ MinReady(M)
         \/ /\ pc' \in {"select", "abort"}
            /\ ~(newer /\ write_ok /\ out_fd = NoFd /\ MinReady(M))
  BY <1>1, <1>5, <1>6, SameRefl, AddOrAbortMap
<1>9. \A g \in OpenFiles(SS) : Slot(SS, g) \in Segments /\ g \in Int
  BY <1>1, SlotType DEF OpenFiles, SegmentSets
<1>10. \A g \in OpenFiles(SS) :
         /\ Slot(M, g).file_nbr = Slot(SS, g).file_nbr
         /\ Slot(M, g).file_len = Slot(SS, g).file_len
         /\ Slot(M, g).out_fd = Slot(SS, g).out_fd
         /\ Slot(M, g).out_cb = Slot(SS, g).out_cb
         /\ Slot(M, g).offs = Slot(SS, g).offs
         /\ \/ Slot(M, g).mode = Slot(SS, g).mode
            \/ /\ newer /\ Slot(SS, g).file_nbr < p.toi
               /\ Slot(SS, g).mode = "RECEIVING"
               /\ Slot(M, g).mode = "READY_TO_WRITE"
  BY <1>5, <1>9 DEF segstate_ready_for_write, Segments
<1>11. /\ Slot(M, p.toi).file_nbr = p.toi
       /\ Slot(M, p.toi).file_len = p.tos
       /\ Slot(M, p.toi).mode = "RECEIVING"
       /\ Slot(M, p.toi).out_fd = NoFd
  BY <1>5 DEF segstate_init
<1>12. InPlace(M)
  BY <1>2, <1>5, <1>10, <1>11 DEF Inv, InPlace
<1>13. Writer(M, out_fd', pc')
  <2>1. out_fd # NoFd => SS.min_file_nbr \in OpenFiles(SS)
    BY DEF Inv, Writer
  <2> QED BY <1>5, <1>7, <1>8, <1>10, <1>11, <2>1 DEF Inv, Writer
<1>14. IdleHasNoFd(M)
  BY <1>5, <1>10, <1>11 DEF Inv, IdleHasNoFd
<1>15. Closed(M, recv_file_nbr')
  BY <1>1, <1>2, <1>5, <1>7, <1>9, <1>10, <1>11 DEF Inv, Closed, InPlace
<1>16. Started(M, out_fd', write_ok', recv_file_nbr', open_failed', pc')
  <2>1. CASE newer
    BY <1>7, <1>8, <2>1 DEF Started
  <2>2. CASE ~newer
    <3>1. MinReady(M) => MinReady(SS)
      BY <1>1, <1>5, <1>10, <1>11, <2>2, MinReadyByFile
    <3> QED BY <1>1, <1>5, <1>7, <1>8, <3>1 DEF Inv, Started
  <2> QED BY <2>1, <2>2
<1> QED BY <1>5, <1>8, <1>12, <1>13, <1>14, <1>15, <1>16, StepBySet

\* The segment that leaves next is a segment.
LEMMA FirstSlot ==
  ASSUME TypeOK
  PROVE  /\ SS \in SegmentSets /\ SS.min_file_nbr \in Nat
         /\ Slot(SS, SS.min_file_nbr) \in Segments
<1>1. SS \in SegmentSets /\ SS.min_file_nbr \in Nat
  BY DEF TypeOK, SegmentSets
<1> QED BY <1>1, SlotType

\* A step that touches neither the segments nor the writer, and goes on or
\* ends the process.
LEMMA QuietStep ==
  ASSUME Inv, TypeOK',
         UNCHANGED <<SS, out_fd, recv_file_nbr, write_ok, open_failed>>,
         pc' = pc \/ pc' \in {"done", "error"}
  PROVE  Inv'
  BY DEF Inv, Writer, Started

\* The first deadline passes.
LEMMA TaskStartWriteStep ==
  ASSUME Inv, TypeOK', TaskStartWrite
  PROVE  Inv'
<1>1. /\ SS' = SS /\ out_fd' = NoFd /\ out_fd = NoFd
      /\ UNCHANGED <<recv_file_nbr, open_failed>>
      /\ pc' = IF MinReady(SS) THEN "open" ELSE "select"
  BY DEF TaskStartWrite, task_start_write
<1> QED BY <1>1 DEF Inv, Writer, Started

\* The player has opened the file, and the handler that waited goes on.
LEMMA OpenReturnsStep ==
  ASSUME Inv, TypeOK', OpenReturns
  PROVE  Inv'
<1> DEFINE f == SS.min_file_nbr
           seg == Slot(SS, f)
<1>1. /\ SS \in SegmentSets /\ f \in Nat /\ seg \in Segments
      /\ pending # <<>> => Head(pending) \in Packets
  BY FirstSlot DEF Inv, TypeOK
<1>2. /\ pc = "open" /\ out_fd = NoFd /\ out_fd' = f
      /\ UNCHANGED <<recv_file_nbr, write_ok, open_failed>>
      /\ f \in OpenFiles(SS) /\ seg.mode = "READY_TO_WRITE"
  <2>1. /\ pc = "open" /\ out_fd' = f
        /\ UNCHANGED <<recv_file_nbr, write_ok, open_failed>>
    BY DEF OpenReturns
  <2>2. out_fd = NoFd /\ MinReady(SS)
    BY <2>1 DEF Inv, Writer
  <2> QED BY <1>1, <2>1, <2>2, MinReadyByFile
<1>3. PICK buf \in load_cb_buf(seg) :
        LET S == PutSlot(SS, f, segstate_prepare_output(seg, f, buf))
        IN  IF pending = <<>> THEN SS' = S /\ pc' = "select"
                              ELSE AddOrAbort(S, Head(pending))
  BY DEF OpenReturns
<1> DEFINE T == segstate_prepare_output(seg, f, buf)
           S == PutSlot(SS, f, T)
<1>4. T \in Segments
  BY <1>1, PrepareType
<1>5. /\ T.file_nbr = seg.file_nbr /\ T.file_len = seg.file_len
      /\ T.mode = "WRITING" /\ T.out_fd = f /\ T.out_cb = 0 /\ T.offs = 0
  BY <1>1 DEF segstate_prepare_output, Segments
<1> HIDE DEF T
<1>6. /\ S \in SegmentSets /\ S.min_file_nbr = f
      /\ OpenFiles(S) = OpenFiles(SS) /\ Slot(S, f) = T
      /\ \A g \in OpenFiles(SS) : g # f => Slot(S, g) = Slot(SS, g)
  BY <1>1, <1>4, PutFirstMap
<1>7. (pending = <<>> /\ SS' = S /\ pc' = "select")
        \/ (pending # <<>> /\ AddOrAbort(S, Head(pending)))
  BY <1>3 DEF T
<1> HIDE DEF S
<1>8. SameButSymbols(S, SS') /\ pc' \in {"select", "abort"}
  BY <1>1, <1>6, <1>7, SameRefl, AddOrAbortMap
<1>9. InPlace(S)
  BY <1>2, <1>5, <1>6 DEF Inv, InPlace
<1>10. Writer(S, out_fd', pc')
  <2>1. T.offs < T.file_len
    BY <1>2, <1>5, ReceiverAssumption DEF Inv, InPlace
  <2>2. \A g \in OpenFiles(SS) : Slot(SS, g).mode # "WRITING"
    BY <1>1, <1>2 DEF Inv, Writer, OpenFiles, NoFd
  <2> QED BY <1>2, <1>5, <1>6, <1>8, <2>1, <2>2 DEF Writer
<1>11. IdleHasNoFd(S)
  BY <1>5, <1>6 DEF Inv, IdleHasNoFd
<1>12. Closed(S, recv_file_nbr')
  BY <1>2, <1>5, <1>6 DEF Inv, Closed
<1>13. Started(S, out_fd', write_ok', recv_file_nbr', open_failed', pc')
  BY <1>1, <1>2 DEF Started, NoFd
<1> QED BY <1>6, <1>8, <1>9, <1>10, <1>11, <1>12, <1>13, StepBySet

\* open() fails, and the handler that waited goes on.
LEMMA OpenFailsStep ==
  ASSUME Inv, TypeOK', OpenFails
  PROVE  Inv'
<1>1. SS \in SegmentSets /\ (pending # <<>> => Head(pending) \in Packets)
  BY DEF Inv, TypeOK
<1>2. /\ UNCHANGED <<out_fd, recv_file_nbr, write_ok>>
      /\ open_failed' = <<SS.min_file_nbr, recv_file_nbr>> /\ pc = "open"
      /\ \/ pc' = "select" /\ SS' = SS
         \/ pending # <<>> /\ AddOrAbort(SS, Head(pending))
  BY DEF OpenFails
<1>3. SameButSymbols(SS, SS') /\ pc' \in {"select", "abort"}
  BY <1>1, <1>2, SameRefl, AddOrAbortMap
<1>4. Writer(SS, out_fd', pc') /\ Closed(SS, recv_file_nbr')
      /\ Started(SS, out_fd', write_ok', recv_file_nbr', open_failed', pc')
  BY <1>2, <1>3 DEF Inv, Writer, Closed, Started
<1> QED BY <1>1, <1>3, <1>4, StepBySet DEF Inv

\* The end of a segment.
LEMMA FinishSegmentStep ==
  ASSUME Inv, TypeOK', out_fd # NoFd,
         NEW seg \in Segments, NEW len, FinishSegment(seg, len),
         UNCHANGED <<recv_file_nbr, write_ok, open_failed>>
  PROVE  Inv'
<1> DEFINE f == SS.min_file_nbr
           P == PutSlot(SS, f, segstate_free(seg))
           S == segstateset_inc_min_file_nbr(P)
<1>1. SS \in SegmentSets /\ f \in Nat /\ segstate_free(seg) \in Segments
  BY FreeType DEF Inv, TypeOK, SegmentSets
<1>2. /\ P \in SegmentSets /\ P.min_file_nbr = f
      /\ OpenFiles(P) = OpenFiles(SS)
      /\ \A g \in OpenFiles(SS) : g # f => Slot(P, g) = Slot(SS, g)
  BY <1>1, PutFirstMap
<1>3. /\ SS' = S /\ out_fd' = NoFd
      /\ pc' = IF MinReady(S) THEN "open" ELSE "select"
  BY DEF FinishSegment, task_start_write
<1> HIDE DEF P
<1>4. /\ S \in SegmentSets /\ OpenFiles(S) = OpenFiles(SS) \ {f}
      /\ \A g \in OpenFiles(S) : Slot(S, g) = Slot(SS, g)
  BY <1>2, IncMap
<1> HIDE DEF S
<1>5. InPlace(S) /\ IdleHasNoFd(S) /\ Closed(S, recv_file_nbr')
  BY <1>4 DEF Inv, InPlace, IdleHasNoFd, Closed
<1>6. Writer(S, out_fd', pc')
  \* The only segment being written was the one that has left.
  <2>1. \A g \in OpenFiles(S) : Slot(S, g).mode # "WRITING"
    BY <1>4 DEF Inv, Writer
  <2> QED BY <1>3, <2>1 DEF Writer
<1>7. Started(S, out_fd', write_ok', recv_file_nbr', open_failed', pc')
  BY <1>3 DEF Started
<1> QED BY <1>3, <1>4, <1>5, <1>6, <1>7, SameRefl, StepBySet

\* write() takes some bytes.
LEMMA TaskWriteStep ==
  ASSUME Inv, TypeOK', TaskWrite
  PROVE  Inv'
<1> DEFINE f == SS.min_file_nbr
           seg == Slot(SS, f)
<1>1. /\ SS \in SegmentSets /\ f \in Nat /\ seg \in Segments
      /\ pc = "select" /\ out_fd # NoFd
      /\ UNCHANGED <<recv_file_nbr, write_ok, open_failed>>
  BY FirstSlot DEF Inv, TaskWrite, AtWrite, AtSelect
<1>2. PICK n \in 1..(CbSize(seg) - seg.offs) :
        LET more == segstate_write_more(seg, n)
        IN  IF Written(more)
            THEN FinishSegment(more, CbSize(seg))
            ELSE SS' = PutSlot(SS, f, more) /\ UNCHANGED <<out_fd, pc, output>>
  BY DEF TaskWrite
<1> DEFINE more == segstate_write_more(seg, n)
<1>3. more \in Segments
  BY <1>1, WriteMoreType
<1>4. CASE Written(more)
  BY <1>1, <1>2, <1>3, <1>4, FinishSegmentStep
<1>5. CASE ~Written(more)
  <2>1. /\ out_fd = f /\ f \in OpenFiles(SS) /\ seg.mode = "WRITING"
        /\ seg.out_fd = out_fd /\ seg.out_cb = 0 /\ seg.offs < seg.file_len
    BY <1>1 DEF Inv, Writer
  <2>2. CbSize(seg) = seg.file_len /\ seg.file_len \in Nat /\ seg.offs \in Nat
    BY <1>1, CbSizeIsFileLen DEF Segments
  <2>3. seg.offs + n # CbSize(seg)
    BY <1>1, <1>5, <2>1 DEF segstate_write_more, Written, Segments
  <2>4. more = [seg EXCEPT !.offs = seg.offs + n]
    BY <2>3 DEF segstate_write_more
  <2>5. /\ more.file_nbr = seg.file_nbr /\ more.file_len = seg.file_len
        /\ more.mode = seg.mode /\ more.out_fd = seg.out_fd
        /\ more.out_cb = seg.out_cb /\ more.offs = seg.offs + n
    BY <1>1, <2>4 DEF Segments
  <2>6. more.offs < more.file_len
    BY <2>2, <2>3, <2>5
  <2> HIDE DEF more
  <2>7. SS' = PutSlot(SS, f, more) /\ UNCHANGED <<out_fd, pc>>
    BY <1>2, <1>5 DEF more
  <2>8. /\ SS'.min_file_nbr = f /\ SS' \in SegmentSets
        /\ OpenFiles(SS') = OpenFiles(SS) /\ Slot(SS', f) = more
        /\ \A g \in OpenFiles(SS) : g # f => Slot(SS', g) = Slot(SS, g)
    BY <1>1, <1>3, <2>7, PutFirstMap
  <2>9. InPlace(SS') /\ IdleHasNoFd(SS') /\ Closed(SS', recv_file_nbr')
    BY <1>1, <2>1, <2>5, <2>8 DEF Inv, InPlace, IdleHasNoFd, Closed
  <2>10. Writer(SS', out_fd', pc')
    BY <1>1, <2>1, <2>5, <2>6, <2>7, <2>8 DEF Inv, Writer
  <2>11. Started(SS', out_fd', write_ok', recv_file_nbr', open_failed', pc')
    BY <1>1, <2>7 DEF Started
  <2> QED BY <2>9, <2>10, <2>11 DEF Inv
<1> QED BY <1>4, <1>5

\* write() fails.
LEMMA TaskWriteFailsStep ==
  ASSUME Inv, TypeOK', TaskWriteFails
  PROVE  Inv'
<1>1. Slot(SS, SS.min_file_nbr) \in Segments /\ out_fd # NoFd
      /\ UNCHANGED <<recv_file_nbr, write_ok, open_failed>>
  BY FirstSlot DEF Inv, TaskWriteFails, AtWrite
<1>2. FinishSegment(Slot(SS, SS.min_file_nbr), Slot(SS, SS.min_file_nbr).offs)
  BY DEF TaskWriteFails
<1> QED BY <1>1, <1>2, FinishSegmentStep

-----------------------------------------------------------------------------
(* The theorems.                                                           *)

\* The invariant holds at the start.
LEMMA InvInit == Init => Inv
<1> SUFFICES ASSUME Init PROVE Inv
  OBVIOUS
<1>1. TypeOK
  BY TypeInit
<1>2. OpenFiles(SS) = {}
  <2>1. \A i \in Slots : ~SS.states_initialized[i]
    BY DEF Init, segstateset_init
  <2>2. \A f \in Window(SS) : InternalIndex(SS, f) \in Slots
    BY <1>1, IndexInSlots DEF TypeOK, Window
  <2>3. \A f \in Window(SS) : f \notin OpenFiles(SS)
    BY <1>1, <2>1, <2>2, OpenFilesByIndex DEF TypeOK
  <2> QED BY <2>3 DEF OpenFiles, Window
<1> QED
  BY <1>1, <1>2 DEF Init, Inv, InPlace, Writer, IdleHasNoFd, Closed, Started

\* The invariant is inductive: one step of the proof per action.
LEMMA InvStep ==
  ASSUME Inv, [Next]_vars
  PROVE  Inv'
<1>0. TypeOK'
  BY TypeStep DEF Inv
<1>1. CASE TaskSignalReady
  BY <1>0, <1>1, QuietStep DEF TaskSignalReady
<1>2. CASE RecvUninitialized
  BY <1>0, <1>2, RecvUninitializedStep
<1>3. CASE RecvOk
  BY <1>0, <1>3, RecvOkStep
<1>4. CASE RecvRejected
  BY <1>0, <1>4, QuietStep DEF RecvRejected
<1>5. CASE TaskStartWrite
  BY <1>0, <1>5, TaskStartWriteStep
<1>6. CASE OpenReturns
  BY <1>0, <1>6, OpenReturnsStep
<1>7. CASE OpenFails
  BY <1>0, <1>7, OpenFailsStep
<1>8. CASE TaskWrite
  BY <1>0, <1>8, TaskWriteStep
<1>9. CASE TaskWriteFails
  BY <1>0, <1>9, TaskWriteFailsStep
<1>10. CASE Finish
  BY <1>0, <1>10, QuietStep DEF Finish, Stop
<1>11. CASE LoopFails
  BY <1>0, <1>11, QuietStep DEF LoopFails, Stop
<1>12. CASE \E p \in Packets : Arrive(p)
  BY <1>0, <1>12, QuietStep DEF Arrive
<1>13. CASE UNCHANGED vars
  BY <1>0, <1>13, QuietStep DEF vars
<1> QED
  BY <1>1, <1>2, <1>3, <1>4, <1>5, <1>6, <1>7, <1>8, <1>9, <1>10, <1>11,
     <1>12, <1>13 DEF Next, ReceiverStep

\* The strengthened invariant holds in every state of the receiver.
THEOREM Invariance == Spec => []Inv
  BY InvInit, InvStep, PTL DEF Spec

\* However often the ring has turned, a slot in use holds the segment of the
\* file its place stands for (get_internal_index()).
THEOREM RingStaysConsistent == Spec => []RingConsistent
  BY Invariance, InvImplies, PTL

\* There is one segment being written, the next to leave, with its descriptor:
\* the assertions of task_write(), segstate_write_more() and
\* segstate_prepare_output() never fail.
THEOREM WriterIsUnique == Spec => []OneWriter
  BY Invariance, InvImplies, PTL

\* The loop never waits for packets while the next segment is ready and
\* writing has been allowed (receive_write(), task_write()).
THEOREM NoStartIsMissed == Spec => []NoMissedStart
  BY Invariance, InvImplies, PTL

\* A segment is closed to packets only when a later file has been seen
\* (segstateset_mark_readytowrite()).
THEOREM ClosedStaysBelowNewest == Spec => []ClosedBelowNewest
  BY Invariance, InvImplies, PTL

\* Nothing is opened or written before the first deadline, nor is the clock
\* started before the sender was told to start (receive_write()).
THEOREM DeadlineIsKept == Spec => []WriteAfterDeadline
<1>1. Init => WriteAfterDeadline
  BY DEF Init, WriteAfterDeadline
<1>2. WriteAfterDeadline /\ [Next]_vars => WriteAfterDeadline'
  <2> SUFFICES ASSUME WriteAfterDeadline, [Next]_vars
               PROVE  WriteAfterDeadline'
    OBVIOUS
  <2> USE DEF WriteAfterDeadline
  <2>1. CASE TaskSignalReady
    BY <2>1 DEF TaskSignalReady, AtSelect, Signalling
  <2>2. CASE RecvUninitialized
    <3>1. /\ UNCHANGED <<out_fd, write_ok, ready_fd, output>> /\ started'
          /\ pc' = "open" => write_ok \/ pc = "open"
      BY <2>2 DEF RecvUninitialized, AddOrAbort
    <3>2. ~started => ~ready_fd
      BY <2>2 DEF RecvUninitialized, AtRecv, Signalling
    <3> QED BY <3>1, <3>2
  <2>3. CASE RecvOk
    BY <2>3 DEF RecvOk, AddOrAbort
  <2>4. CASE RecvRejected
    BY <2>4 DEF RecvRejected
  <2>5. CASE TaskStartWrite
    BY <2>5 DEF TaskStartWrite, task_start_write
  <2>6. CASE OpenReturns
    <3>1. UNCHANGED <<started, write_ok, ready_fd, output>> /\ pc = "open"
      BY <2>6 DEF OpenReturns
    <3> QED BY <3>1
  <2>7. CASE OpenFails
    BY <2>7 DEF OpenFails, AddOrAbort
  <2>8. CASE TaskWrite
    <3>1. UNCHANGED <<started, write_ok, ready_fd>> /\ out_fd # NoFd
      BY <2>8 DEF TaskWrite, AtWrite
    <3> QED BY <3>1
  <2>9. CASE TaskWriteFails
    <3>1. UNCHANGED <<started, write_ok, ready_fd>> /\ out_fd # NoFd
      BY <2>9 DEF TaskWriteFails, AtWrite
    <3> QED BY <3>1
  <2>10. CASE Finish
    BY <2>10 DEF Finish, Stop
  <2>11. CASE LoopFails
    BY <2>11 DEF LoopFails, Stop
  <2>12. CASE \E p \in Packets : Arrive(p)
    BY <2>12 DEF Arrive
  <2>13. CASE UNCHANGED vars
    BY <2>13 DEF vars
  <2> QED
    BY <2>1, <2>2, <2>3, <2>4, <2>5, <2>6, <2>7, <2>8, <2>9, <2>10, <2>11,
       <2>12, <2>13 DEF Next, ReceiverStep
<1> QED BY <1>1, <1>2, PTL DEF Spec
=============================================================================
