-------------------------- MODULE ReassemblyProofs --------------------------
(***************************************************************************)
(* The receiver implements Reassembly, for every ring size, playlist and   *)
(* packet order, and its segments only go forward.                         *)
(*                                                                         *)
(* Every step of the receiver is, on the segments seen as a map from file  *)
(* numbers, one of three: no segment comes or leaves (Unmoved), one comes  *)
(* (Admitted), the one that leaves next leaves (Left).                     *)
(***************************************************************************)
EXTENDS ReceiverProofs

-----------------------------------------------------------------------------
(* One segment over one step.                                              *)

\* The buffer that is written is what load_cb_buf() made of the symbols.
Loaded(S) ==
  \A f \in OpenFiles(S) :
     Slot(S, f).mode = "WRITING" => Slot(S, f).buf \in load_cb_buf(Slot(S, f))

\* The invariant of the refinement: segments left in order without a gap.
OutInv == Inv /\ Loaded(SS) /\ Len(output) = SS.min_file_nbr

\* Segment t is segment s a step later: its mode has not gone back, it took a
\* symbol only while it was receiving, and a buffer that is written was loaded
\* in this step or is the one that was being written.
Later(s, t) ==
  /\ t.file_len = s.file_len
  /\ ModeRank(s.mode) <= ModeRank(t.mode)
  /\ s.mode # "RECEIVING" => t.esis = s.esis
  /\ t.mode = "WRITING" =>
       /\ t.esis = s.esis
       /\ t.buf \in load_cb_buf(t) \/ (s.mode = "WRITING" /\ t.buf = s.buf)

\* Open files have natural numbers, and segments.
LEMMA OpenSlots ==
  ASSUME NEW S \in SegmentSets
  PROVE  \A f \in OpenFiles(S) : f \in Nat /\ Slot(S, f) \in Segments
<1>1. OpenFiles(S) \subseteq Nat
  BY RingAssumption DEF OpenFiles, SegmentSets
<1> QED BY <1>1, SlotType

\* Nothing changes at all.
LEMMA LaterRefl == ASSUME NEW s \in Segments PROVE Later(s, s)
  BY DEF Later, ModeRank, Segments, Modes, load_cb_buf

\* segstate_add_packet() of a segment that is receiving.
LEMMA LaterAdd ==
  ASSUME NEW s \in Segments, NEW p \in Packets, s.mode = "RECEIVING"
  PROVE  Later(s, segstate_add_packet(s, p))
  BY AddPacketType DEF Later, ModeRank

\* segstate_ready_for_write() of a segment that is receiving.
LEMMA LaterReady ==
  ASSUME NEW s \in Segments, s.mode = "RECEIVING"
  PROVE  /\ Later(s, segstate_ready_for_write(s))
         /\ segstate_ready_for_write(s).esis = s.esis
  BY DEF Later, ModeRank, segstate_ready_for_write, Segments

\* segstate_prepare_output() of a segment that is ready.
LEMMA LaterPrepare ==
  ASSUME NEW s \in Segments, s.mode = "READY_TO_WRITE", NEW f \in Nat,
         NEW buf \in load_cb_buf(s)
  PROVE  /\ Later(s, segstate_prepare_output(s, f, buf))
         /\ segstate_prepare_output(s, f, buf).esis = s.esis
<1> DEFINE t == segstate_prepare_output(s, f, buf)
<1>1. /\ t.file_len = s.file_len /\ t.esis = s.esis
      /\ t.mode = "WRITING" /\ t.buf = buf
  BY DEF segstate_prepare_output, Segments
<1> HIDE DEF t
<1>2. buf \in load_cb_buf(t)
  BY <1>1 DEF load_cb_buf
<1> QED BY <1>1, <1>2 DEF Later, ModeRank, t

\* segstate_write_more() moves the cursor only.
LEMMA LaterWrite ==
  ASSUME NEW s \in Segments, NEW n \in 1..(CbSize(s) - s.offs)
  PROVE  /\ Later(s, segstate_write_more(s, n))
         /\ segstate_write_more(s, n).esis = s.esis
         /\ segstate_write_more(s, n).buf = s.buf
<1> DEFINE t == segstate_write_more(s, n)
<1>1. /\ t.file_len = s.file_len /\ t.esis = s.esis
      /\ t.mode = s.mode /\ t.buf = s.buf
  BY DEF segstate_write_more, Segments
<1> HIDE DEF t
<1>2. s.mode \in Modes
  BY DEF Segments
<1> QED BY <1>1, <1>2 DEF Later, ModeRank, Modes, t

-----------------------------------------------------------------------------
(* The kinds of steps.                                                     *)

\* The packets a step may hand to segstate_add_packet(): the one that is read
\* and the one that waited for open().
Handled ==
  {p \in Packets : \/ sock # <<>> /\ sock' = Tail(sock) /\ p = Head(sock)
                   \/ pending # <<>> /\ p = Head(pending)}

\* The symbols of the open segments after a step: as before, or one segment
\* has the symbol of a packet more.
SameSymbols == \A f \in OpenFiles(SS) : Slot(SS', f).esis = Slot(SS, f).esis
OneSymbol ==
  \E p \in Handled :
     /\ p.toi \in OpenFiles(SS)
     /\ \A f \in OpenFiles(SS) :
          Slot(SS', f).esis =
            IF f = p.toi THEN Slot(SS, f).esis \cup {SymbolId(p)}
                         ELSE Slot(SS, f).esis

Unmoved ==
  /\ SS'.min_file_nbr = SS.min_file_nbr
  /\ OpenFiles(SS') = OpenFiles(SS)
  /\ \A f \in OpenFiles(SS) : Later(Slot(SS, f), Slot(SS', f))
  /\ SameSymbols \/ OneSymbol
  /\ UNCHANGED <<recv_file_nbr, output>>

Admitted(f) ==
  /\ sock # <<>> /\ sock' = Tail(sock) /\ f = Head(sock).toi
  /\ f \in Files /\ f \in Window(SS) /\ f \notin OpenFiles(SS)
  /\ SS'.min_file_nbr = SS.min_file_nbr
  /\ OpenFiles(SS') = OpenFiles(SS) \cup {f}
  /\ \A g \in OpenFiles(SS) : Later(Slot(SS, g), Slot(SS', g))
  /\ f > recv_file_nbr =>
       \A g \in OpenFiles(SS) : g < f => Slot(SS', g).mode # "RECEIVING"
  /\ SameSymbols
  /\ Slot(SS', f).mode = "RECEIVING"
  /\ \/ Slot(SS', f).esis = {}
     \/ Slot(SS', f).esis = {SymbolId(Head(sock))}
  /\ recv_file_nbr' = IF f > recv_file_nbr THEN f ELSE recv_file_nbr
  /\ UNCHANGED output

Left(f, len) ==
  /\ f = SS.min_file_nbr /\ f \in OpenFiles(SS) /\ out_fd = f
  /\ Slot(SS, f).mode = "WRITING"
  /\ SS'.min_file_nbr = f + 1
  /\ OpenFiles(SS') = OpenFiles(SS) \ {f}
  /\ \A g \in OpenFiles(SS') : Slot(SS', g) = Slot(SS, g)
  /\ len \in 0..FileSize[f] /\ (len < FileSize[f] => IOErrors)
  /\ output' = Append(output, [file_nbr |-> f, len |-> len,
                               syms |-> Slot(SS, f).buf])
  /\ UNCHANGED recv_file_nbr

StepKind == Unmoved \/ (\E f : Admitted(f)) \/ (\E f, len : Left(f, len))

\* The end of the packet handler adds the packet to the segment of its own
\* file, which is receiving, or to none.
LEMMA AddOrAbortSlots ==
  ASSUME NEW S \in SegmentSets, NEW p \in Packets, InPlace(S), AddOrAbort(S, p)
  PROVE  \A f \in OpenFiles(S) :
            \/ Slot(SS', f) = Slot(S, f)
            \/ /\ f = p.toi /\ Slot(S, f).mode = "RECEIVING"
               /\ Slot(SS', f) = segstate_add_packet(Slot(S, f), p)
<1>1. CASE SS' = S /\ pc' = "abort"
  BY <1>1
<1>2. CASE AddPacketAsserts(Slot(S, p.toi), p) /\ SS' = AddPacket(S, p)
  <2> DEFINE i == InternalIndex(S, p.toi)
             T == AddPacket(S, p)
  <2>1. i \in Slots
    BY IndexInSlots, PacketFields
  <2>2. /\ T.min_file_nbr = S.min_file_nbr
        /\ T.first_index_in_array = S.first_index_in_array
        /\ T.states = [S.states EXCEPT ![i] =
                         segstate_add_packet(S.states[i], p)]
    BY DEF AddPacket, PutSlot, Slot, SegmentSets
  <2> HIDE DEF T
  <2>3. Slot(S, p.toi).file_nbr = p.toi /\ Slot(S, p.toi).mode = "RECEIVING"
        /\ Slot(S, p.toi) = S.states[i]
    BY <1>2 DEF AddPacketAsserts, Slot
  <2> SUFFICES ASSUME NEW f \in OpenFiles(S)
               PROVE  \/ Slot(T, f) = Slot(S, f)
                      \/ /\ f = p.toi /\ Slot(S, f).mode = "RECEIVING"
                         /\ Slot(T, f) = segstate_add_packet(Slot(S, f), p)
    BY <1>2 DEF T
  <2>4. InternalIndex(S, f) \in Slots /\ InternalIndex(T, f) = InternalIndex(S, f)
    BY <2>2, IndexInSlots DEF InternalIndex, OpenFiles, SegmentSets
  <2>5. Slot(S, f) = S.states[InternalIndex(S, f)] /\ Slot(S, f).file_nbr = f
    BY DEF Slot, InPlace
  <2>6. CASE InternalIndex(S, f) = i
    <3>1. Slot(S, f) = Slot(S, p.toi) /\ f = p.toi
      BY <2>3, <2>5, <2>6
    <3>2. Slot(T, f) = segstate_add_packet(Slot(S, f), p)
      BY <2>1, <2>2, <2>4, <2>5, <2>6 DEF Slot, SegmentSets
    <3> QED BY <2>3, <3>1, <3>2
  <2>7. CASE InternalIndex(S, f) # i
    BY <2>1, <2>2, <2>4, <2>5, <2>7 DEF Slot, SegmentSets
  <2> QED BY <2>6, <2>7
<1> QED BY <1>1, <1>2 DEF AddOrAbort

\* A packet is added to the segments of a set in which no segment has come or
\* left.
LEMMA PacketKind ==
  ASSUME NEW S \in SegmentSets, NEW p \in Packets, InPlace(S),
         AddOrAbort(S, p) \/ SS' = S, p \in Handled,
         SS \in SegmentSets,
         S.min_file_nbr = SS.min_file_nbr, OpenFiles(S) = OpenFiles(SS),
         \A f \in OpenFiles(SS) : /\ Later(Slot(SS, f), Slot(S, f))
                                  /\ Slot(S, f).esis = Slot(SS, f).esis
                                  /\ \/ Slot(S, f) = Slot(SS, f)
                                     \/ Slot(S, f).mode # "RECEIVING",
         UNCHANGED <<recv_file_nbr, output>>
  PROVE  Unmoved
<1>0. \A f \in OpenFiles(SS) : Slot(S, f) \in Segments /\ Slot(SS, f) \in Segments
  BY OpenSlots
<1>1. CASE SS' = S
  BY <1>1 DEF Unmoved, SameSymbols
<1>2. CASE AddOrAbort(S, p)
  <2>1. SS'.min_file_nbr = SS.min_file_nbr /\ OpenFiles(SS') = OpenFiles(SS)
    BY <1>2, AddOrAbortMap DEF SameButSymbols
  <2>2. \A f \in OpenFiles(SS) :
            \/ Slot(SS', f) = Slot(S, f)
            \/ /\ f = p.toi /\ Slot(S, f).mode = "RECEIVING"
               /\ Slot(SS', f) = segstate_add_packet(Slot(S, f), p)
    BY <1>2, AddOrAbortSlots
  <2>3. ASSUME NEW f \in OpenFiles(SS)
        PROVE  Later(Slot(SS, f), Slot(SS', f))
    <3>1. CASE Slot(SS', f) = Slot(S, f)
      BY <3>1
    <3>2. CASE /\ Slot(S, f).mode = "RECEIVING"
               /\ Slot(SS', f) = segstate_add_packet(Slot(S, f), p)
      BY <1>0, <3>2, LaterAdd
    <3> QED BY <2>2, <3>1, <3>2
  <2>4. SameSymbols \/ OneSymbol
    <3>1. CASE \A f \in OpenFiles(SS) : Slot(SS', f) = Slot(S, f)
      BY <3>1 DEF SameSymbols
    <3>2. CASE /\ p.toi \in OpenFiles(SS)
               /\ Slot(SS', p.toi) = segstate_add_packet(Slot(S, p.toi), p)
      <4> DEFINE s == Slot(S, p.toi)
      <4>2. \/ Slot(SS', p.toi).esis = s.esis
            \/ Slot(SS', p.toi).esis = s.esis \cup {SymbolId(p)}
        BY <1>0, <3>2 DEF segstate_add_packet, AddSymbol, Segments
      <4>3. \A f \in OpenFiles(SS) : f # p.toi => Slot(SS', f).esis = Slot(SS, f).esis
        BY <2>2
      <4> QED BY <3>2, <4>2, <4>3 DEF SameSymbols, OneSymbol
    <3> QED BY <2>2, <3>1, <3>2
  <2> QED BY <2>1, <2>3, <2>4 DEF Unmoved
<1> QED BY <1>1, <1>2

\* A step that leaves the segments alone.
LEMMA QuietKind ==
  ASSUME Inv, UNCHANGED <<SS, recv_file_nbr, output>>
  PROVE  Unmoved
<1>1. \A f \in OpenFiles(SS) : Slot(SS, f) \in Segments
  BY OpenSlots DEF Inv, TypeOK
<1> QED BY <1>1, LaterRefl DEF Unmoved, SameSymbols

\* RECV of a packet of an open segment.
LEMMA RecvOkKind ==
  ASSUME Inv, RecvOk
  PROVE  Unmoved
<1>1. /\ SS \in SegmentSets /\ Head(sock) \in Packets
      /\ AddOrAbort(SS, Head(sock)) /\ UNCHANGED <<recv_file_nbr, output>>
      /\ Head(sock) \in Handled
  BY DEF Inv, TypeOK, RecvOk, AtRecv, Handled
<1>2. \A f \in OpenFiles(SS) : Slot(SS, f) \in Segments
  BY <1>1, OpenSlots
<1> QED BY <1>1, <1>2, LaterRefl, PacketKind DEF Inv

\* open() has returned: the first segment is prepared, and the packet that
\* waited is added to its own.
LEMMA OpenReturnsKind ==
  ASSUME Inv, OpenReturns
  PROVE  Unmoved
<1> DEFINE f == SS.min_file_nbr
           seg == Slot(SS, f)
<1>1. /\ SS \in SegmentSets /\ f \in Nat /\ seg \in Segments
      /\ pending # <<>> => Head(pending) \in Packets
  BY FirstSlot DEF Inv, TypeOK
<1>2. UNCHANGED <<recv_file_nbr, output>> /\ f \in OpenFiles(SS)
      /\ seg.mode = "READY_TO_WRITE"
  <2>1. pc = "open" /\ UNCHANGED <<recv_file_nbr, output>>
    BY DEF OpenReturns
  <2>2. MinReady(SS)
    BY <2>1 DEF Inv, Writer
  <2> QED BY <1>1, <2>1, <2>2, MinReadyByFile
<1>3. PICK buf \in load_cb_buf(seg) :
        LET S == PutSlot(SS, f, segstate_prepare_output(seg, f, buf))
        IN  IF pending = <<>> THEN SS' = S /\ pc' = "select"
                              ELSE AddOrAbort(S, Head(pending))
  BY DEF OpenReturns
<1> DEFINE T == segstate_prepare_output(seg, f, buf)
           S == PutSlot(SS, f, T)
<1>4. T \in Segments /\ Later(seg, T) /\ T.esis = seg.esis /\ T.mode = "WRITING"
      /\ T.file_nbr = seg.file_nbr /\ T.file_len = seg.file_len
  <2>1. T \in Segments /\ Later(seg, T) /\ T.esis = seg.esis
    BY <1>1, <1>2, PrepareType, LaterPrepare
  <2>2. T.mode = "WRITING" /\ T.file_nbr = seg.file_nbr
        /\ T.file_len = seg.file_len
    BY <1>1 DEF segstate_prepare_output, Segments
  <2> QED BY <2>1, <2>2
<1> HIDE DEF T
<1>5. /\ S \in SegmentSets /\ S.min_file_nbr = f
      /\ OpenFiles(S) = OpenFiles(SS) /\ Slot(S, f) = T
      /\ \A g \in OpenFiles(SS) : g # f => Slot(S, g) = Slot(SS, g)
  BY <1>1, <1>4, PutFirstMap
<1>6. (pending = <<>> /\ SS' = S)
        \/ (pending # <<>> /\ AddOrAbort(S, Head(pending)))
  BY <1>3 DEF T
<1> HIDE DEF S
<1>7. InPlace(S)
  BY <1>2, <1>4, <1>5 DEF Inv, InPlace
<1>8. \A g \in OpenFiles(SS) : Slot(SS, g) \in Segments
  BY <1>1, OpenSlots
<1>9. \A g \in OpenFiles(SS) : /\ Later(Slot(SS, g), Slot(S, g))
                               /\ Slot(S, g).esis = Slot(SS, g).esis
                               /\ Slot(S, g) = Slot(SS, g)
                                    \/ Slot(S, g).mode # "RECEIVING"
  BY <1>4, <1>5, <1>8, LaterRefl
<1>10. CASE pending = <<>>
  BY <1>2, <1>5, <1>6, <1>9, <1>10 DEF Unmoved, SameSymbols
<1>11. CASE pending # <<>>
  <2>1. Head(pending) \in Handled
    BY <1>1, <1>11 DEF Handled
  <2> QED BY <2>1, <1>1, <1>2, <1>5, <1>6, <1>7, <1>9, <1>11, PacketKind
<1> QED BY <1>10, <1>11

\* open() fails, and the handler that waited goes on.
LEMMA OpenFailsKind ==
  ASSUME Inv, OpenFails
  PROVE  Unmoved
<1>1. SS \in SegmentSets /\ (pending # <<>> => Head(pending) \in Packets)
  BY DEF Inv, TypeOK
<1>2. /\ UNCHANGED <<recv_file_nbr, output>>
      /\ SS' = SS \/ (pending # <<>> /\ AddOrAbort(SS, Head(pending)))
  BY DEF OpenFails
<1>3. \A f \in OpenFiles(SS) : Slot(SS, f) \in Segments
  BY <1>1, OpenSlots
<1>4. CASE SS' = SS
  BY <1>2, <1>4, QuietKind
<1>5. CASE pending # <<>> /\ AddOrAbort(SS, Head(pending))
  <2>1. Head(pending) \in Handled
    BY <1>1, <1>5 DEF Handled
  <2> QED BY <1>1, <1>2, <1>3, <1>5, <2>1, LaterRefl, PacketKind DEF Inv
<1> QED BY <1>2, <1>4, <1>5

\* RECV of the first packet of a file makes a set M of segments, to which the
\* packet is added now or when open() has returned: the new segment is receiving
\* and empty, and older ones become ready if the file is the newest.
LEMMA RecvUninitializedSet ==
  ASSUME Inv, RecvUninitialized
  PROVE  LET p == Head(sock)
             newer == p.toi > recv_file_nbr
         IN  /\ p \in Packets /\ p.toi \in Files
             /\ p.toi \in Window(SS) /\ p.toi \notin OpenFiles(SS)
             /\ recv_file_nbr' = IF newer THEN p.toi ELSE recv_file_nbr
             /\ UNCHANGED output
             /\ \E M \in SegmentSets :
                  /\ \/ /\ newer /\ SS' = M /\ pc' = "open" /\ pending' = <<p>>
                     \/ AddOrAbort(M, p) /\ UNCHANGED pending
                  /\ M.min_file_nbr = SS.min_file_nbr
                  /\ OpenFiles(M) = OpenFiles(SS) \cup {p.toi}
                  /\ Slot(M, p.toi) = segstate_init(p.toi, p.tos)
                  /\ InPlace(M)
                  /\ \A g \in OpenFiles(SS) :
                       /\ Later(Slot(SS, g), Slot(M, g))
                       /\ Slot(M, g).esis = Slot(SS, g).esis
                       /\ newer /\ g < p.toi => Slot(M, g).mode # "RECEIVING"
<1> DEFINE p == Head(sock)
           newer == p.toi > recv_file_nbr
           O == Opened(SS, p)
           M == IF newer THEN segstateset_mark_readytowrite(O, p.toi) ELSE O
<1>1. /\ SS \in SegmentSets /\ p \in Packets
      /\ recv_file_nbr' = IF newer THEN p.toi ELSE recv_file_nbr
      /\ UNCHANGED output
  BY DEF Inv, TypeOK, RecvUninitialized, AtRecv
<1>2. p.toi \in Files /\ p.toi \in Nat /\ p.tos = FileSize[p.toi]
  BY <1>1, PacketFields
<1>3. p.toi \in Window(SS) /\ p.toi \notin OpenFiles(SS)
  BY <1>1, <1>2, GetStatus DEF RecvUninitialized, AtRecv
<1>4. /\ O \in SegmentSets
      /\ O.min_file_nbr = SS.min_file_nbr
      /\ OpenFiles(O) = OpenFiles(SS) \cup {p.toi}
      /\ Slot(O, p.toi) = segstate_init(p.toi, p.tos)
      /\ \A g \in OpenFiles(SS) : Slot(O, g) = Slot(SS, g)
  BY <1>1, <1>3, OpenedMap
<1>5. \/ newer /\ SS' = M /\ pc' = "open" /\ pending' = <<p>>
      \/ AddOrAbort(M, p) /\ UNCHANGED pending
  BY DEF RecvUninitialized
<1> HIDE DEF O
<1>6. /\ M \in SegmentSets
      /\ M.min_file_nbr = SS.min_file_nbr
      /\ OpenFiles(M) = OpenFiles(SS) \cup {p.toi}
      /\ Slot(M, p.toi) = segstate_init(p.toi, p.tos)
      /\ \A g \in OpenFiles(SS) :
           \/ Slot(M, g) = Slot(SS, g)
           \/ /\ Slot(SS, g).mode = "RECEIVING"
              /\ Slot(M, g) = segstate_ready_for_write(Slot(SS, g))
      /\ \A g \in OpenFiles(SS) :
           /\ newer /\ Slot(SS, g).mode = "RECEIVING"
           /\ Slot(SS, g).file_nbr < p.toi
           => Slot(M, g) = segstate_ready_for_write(Slot(SS, g))
  <2>1. CASE ~newer
    BY <1>4, <2>1
  <2>2. CASE newer
    <3>1. /\ M \in SegmentSets
          /\ M.min_file_nbr = O.min_file_nbr
          /\ OpenFiles(M) = OpenFiles(O)
          /\ \A g \in OpenFiles(O) :
               Slot(M, g) = IF /\ Slot(O, g).mode = "RECEIVING"
                               /\ Slot(O, g).file_nbr < p.toi
                            THEN segstate_ready_for_write(Slot(O, g))
                            ELSE Slot(O, g)
      <4>1. M = segstateset_mark_readytowrite(O, p.toi)
        BY <2>2
      <4>2. p.toi \in Int /\ O \in SegmentSets
        BY <1>2, <1>4
      <4> HIDE DEF M
      <4> QED BY ONLY <4>1, <4>2, MarkReadyMap
    <3>2. ~(Slot(O, p.toi).file_nbr < p.toi)
      BY <1>2, <1>4 DEF segstate_init
    <3> QED BY <1>4, <2>2, <3>1, <3>2
  <2> QED BY <2>1, <2>2
<1> HIDE DEF M
<1>7. \A g \in OpenFiles(SS) : /\ Slot(SS, g) \in Segments
                               /\ Later(Slot(SS, g), Slot(M, g))
                               /\ Slot(M, g).esis = Slot(SS, g).esis
                               /\ Slot(M, g).file_nbr = Slot(SS, g).file_nbr
                               /\ Slot(M, g).file_len = Slot(SS, g).file_len
                               /\ newer /\ g < p.toi
                                    => Slot(M, g).mode # "RECEIVING"
  <2>1. \A g \in OpenFiles(SS) : Slot(SS, g) \in Segments
    BY <1>1, OpenSlots
  <2>2. \A t \in Segments : /\ segstate_ready_for_write(t).mode = "READY_TO_WRITE"
                            /\ segstate_ready_for_write(t).file_nbr = t.file_nbr
                            /\ segstate_ready_for_write(t).file_len = t.file_len
    BY DEF segstate_ready_for_write, Segments
  <2>3. \A g \in OpenFiles(SS) : Slot(SS, g).file_nbr = g
    BY DEF Inv, InPlace
  <2> QED BY <1>6, <2>1, <2>2, <2>3, LaterRefl, LaterReady
<1>8. InPlace(M)
  <2>1. /\ Slot(M, p.toi).file_nbr = p.toi
        /\ Slot(M, p.toi).file_len = FileSize[p.toi]
    BY <1>2, <1>6 DEF segstate_init
  <2> QED BY <1>2, <1>6, <1>7, <2>1 DEF Inv, InPlace
<1> HIDE DEF p, newer
<1> QED BY <1>1, <1>2, <1>3, <1>5, <1>6, <1>7, <1>8 DEF p, newer

\* RECV of the first packet of a file: its segment comes, with or without the
\* symbol.
LEMMA RecvUninitializedKind ==
  ASSUME Inv, RecvUninitialized
  PROVE  Admitted(Head(sock).toi)
<1> DEFINE p == Head(sock)
           newer == p.toi > recv_file_nbr
<1>1. /\ p \in Packets /\ p.toi \in Files /\ SS \in SegmentSets
      /\ sock # <<>> /\ sock' = Tail(sock)
      /\ p.toi \in Window(SS) /\ p.toi \notin OpenFiles(SS)
      /\ recv_file_nbr' = IF newer THEN p.toi ELSE recv_file_nbr
      /\ UNCHANGED output
  BY RecvUninitializedSet DEF Inv, TypeOK, RecvUninitialized, AtRecv
<1>2. PICK M \in SegmentSets :
        /\ SS' = M \/ AddOrAbort(M, p)
        /\ M.min_file_nbr = SS.min_file_nbr
        /\ OpenFiles(M) = OpenFiles(SS) \cup {p.toi}
        /\ Slot(M, p.toi) = segstate_init(p.toi, p.tos)
        /\ InPlace(M)
        /\ \A g \in OpenFiles(SS) :
             /\ Later(Slot(SS, g), Slot(M, g))
             /\ Slot(M, g).esis = Slot(SS, g).esis
             /\ newer /\ g < p.toi => Slot(M, g).mode # "RECEIVING"
  BY RecvUninitializedSet
<1>3. /\ Slot(M, p.toi).mode = "RECEIVING" /\ Slot(M, p.toi).esis = {}
      /\ Slot(M, p.toi) \in Segments
  BY <1>1, <1>2, InitSegmentType DEF segstate_init
<1>4. CASE SS' = M
  BY <1>1, <1>2, <1>3, <1>4 DEF Admitted, SameSymbols
<1>5. CASE AddOrAbort(M, p)
  <2>1. SS'.min_file_nbr = M.min_file_nbr /\ OpenFiles(SS') = OpenFiles(M)
    BY <1>1, <1>2, <1>5, AddOrAbortMap DEF SameButSymbols
  <2>2. \A g \in OpenFiles(M) :
           \/ Slot(SS', g) = Slot(M, g)
           \/ /\ g = p.toi
              /\ Slot(SS', g) = segstate_add_packet(Slot(M, g), p)
    BY <1>1, <1>2, <1>5, AddOrAbortSlots
  <2>3. \A g \in OpenFiles(SS) : Slot(SS', g) = Slot(M, g)
    BY <1>1, <1>2, <2>2
  <2>4. /\ Slot(SS', p.toi).mode = "RECEIVING"
        /\ \/ Slot(SS', p.toi).esis = {}
           \/ Slot(SS', p.toi).esis = {SymbolId(p)}
    <3>1. CASE Slot(SS', p.toi) = Slot(M, p.toi)
      BY <1>3, <3>1
    <3>2. CASE Slot(SS', p.toi) = segstate_add_packet(Slot(M, p.toi), p)
      BY <1>3, <3>2 DEF segstate_add_packet, AddSymbol, Segments
    <3> QED BY <1>2, <2>2, <3>1, <3>2
  <2> QED
    BY <1>1, <1>2, <2>1, <2>3, <2>4 DEF Admitted, SameSymbols
<1> QED BY <1>2, <1>4, <1>5

\* The end of a segment, of which len bytes were written from the buffer it has
\* been written from all along.
LEMMA FinishSegmentKind ==
  ASSUME Inv, out_fd # NoFd, NEW seg \in Segments, NEW len \in Nat,
         seg.buf = Slot(SS, SS.min_file_nbr).buf,
         len <= FileSize[SS.min_file_nbr],
         len < FileSize[SS.min_file_nbr] => IOErrors,
         FinishSegment(seg, len), UNCHANGED recv_file_nbr
  PROVE  Left(SS.min_file_nbr, len)
<1> DEFINE f == SS.min_file_nbr
           P == PutSlot(SS, f, segstate_free(seg))
           S == segstateset_inc_min_file_nbr(P)
<1>1. SS \in SegmentSets /\ f \in Nat /\ segstate_free(seg) \in Segments
  BY FreeType DEF Inv, TypeOK, SegmentSets
<1>2. /\ P \in SegmentSets /\ P.min_file_nbr = f
      /\ OpenFiles(P) = OpenFiles(SS)
      /\ \A g \in OpenFiles(SS) : g # f => Slot(P, g) = Slot(SS, g)
  BY <1>1, PutFirstMap
<1>3. /\ SS' = S
      /\ output' = Append(output, [file_nbr |-> out_fd, len |-> len,
                                   syms |-> seg.buf])
  BY DEF FinishSegment, task_start_write
<1> HIDE DEF P
<1>4. /\ S.min_file_nbr = f + 1 /\ OpenFiles(S) = OpenFiles(SS) \ {f}
      /\ \A g \in OpenFiles(S) : Slot(S, g) = Slot(SS, g)
  BY <1>2, IncMap
<1> HIDE DEF S
<1>5. out_fd = f /\ f \in OpenFiles(SS) /\ Slot(SS, f).mode = "WRITING"
  BY DEF Inv, Writer
<1>6. FileSize[f] \in Nat
  BY <1>5, ReceiverAssumption DEF Inv, InPlace
<1> QED BY <1>1, <1>3, <1>4, <1>5, <1>6 DEF Left

\* write() takes some bytes.
LEMMA TaskWriteKind ==
  ASSUME Inv, TaskWrite
  PROVE  Unmoved \/ \E f, len : Left(f, len)
<1> DEFINE f == SS.min_file_nbr
           seg == Slot(SS, f)
<1>1. /\ SS \in SegmentSets /\ f \in Nat /\ seg \in Segments
      /\ out_fd # NoFd /\ UNCHANGED recv_file_nbr
  BY FirstSlot DEF Inv, TaskWrite, AtWrite
<1>2. PICK n \in 1..(CbSize(seg) - seg.offs) :
        LET more == segstate_write_more(seg, n)
        IN  IF Written(more)
            THEN FinishSegment(more, CbSize(seg))
            ELSE SS' = PutSlot(SS, f, more) /\ UNCHANGED <<out_fd, pc, output>>
  BY DEF TaskWrite
<1> DEFINE more == segstate_write_more(seg, n)
<1>3. /\ more \in Segments /\ Later(seg, more)
      /\ more.esis = seg.esis /\ more.buf = seg.buf
  BY <1>1, WriteMoreType, LaterWrite
<1>4. f \in OpenFiles(SS) /\ CbSize(seg) = FileSize[f] /\ CbSize(seg) \in Nat
  BY <1>1, CbSizeIsFileLen DEF Inv, Writer, InPlace, Segments
<1> HIDE DEF more
<1>5. CASE Written(more)
  <2>1. FinishSegment(more, CbSize(seg))
    BY <1>2, <1>5 DEF more
  <2> QED BY <1>1, <1>3, <1>4, <2>1, FinishSegmentKind
<1>6. CASE ~Written(more)
  <2>1. SS' = PutSlot(SS, f, more) /\ UNCHANGED output
    BY <1>2, <1>6 DEF more
  <2>2. /\ SS'.min_file_nbr = f
        /\ OpenFiles(SS') = OpenFiles(SS) /\ Slot(SS', f) = more
        /\ \A g \in OpenFiles(SS) : g # f => Slot(SS', g) = Slot(SS, g)
    BY <1>1, <1>3, <2>1, PutFirstMap
  <2>3. \A g \in OpenFiles(SS) : Slot(SS, g) \in Segments
    BY <1>1, OpenSlots
  <2> QED BY <1>1, <1>3, <2>1, <2>2, <2>3, LaterRefl DEF Unmoved, SameSymbols
<1> QED BY <1>5, <1>6

\* write() fails: less than the file has left.
LEMMA TaskWriteFailsKind ==
  ASSUME Inv, TaskWriteFails
  PROVE  \E f, len : Left(f, len)
<1> DEFINE seg == Slot(SS, SS.min_file_nbr)
<1>1. /\ seg \in Segments /\ out_fd # NoFd /\ IOErrors
      /\ UNCHANGED recv_file_nbr /\ FinishSegment(seg, seg.offs)
  BY FirstSlot DEF Inv, TaskWriteFails, AtWrite
<1>2. seg.offs \in Nat /\ seg.offs <= FileSize[SS.min_file_nbr]
  BY <1>1, ReceiverAssumption DEF Inv, Writer, InPlace, Segments
<1> QED BY <1>1, <1>2, FinishSegmentKind

\* Every step is of one of the three kinds.
LEMMA StepIsOfAKind ==
  ASSUME Inv, [Next]_vars
  PROVE  StepKind
<1> USE DEF StepKind
<1>1. CASE TaskSignalReady
  BY <1>1, QuietKind DEF TaskSignalReady
<1>2. CASE RecvUninitialized
  BY <1>2, RecvUninitializedKind
<1>3. CASE RecvOk
  BY <1>3, RecvOkKind
<1>4. CASE RecvRejected
  BY <1>4, QuietKind DEF RecvRejected
<1>5. CASE TaskStartWrite
  BY <1>5, QuietKind DEF TaskStartWrite, task_start_write
<1>6. CASE OpenReturns
  BY <1>6, OpenReturnsKind
<1>7. CASE OpenFails
  BY <1>7, OpenFailsKind
<1>8. CASE TaskWrite
  BY <1>8, TaskWriteKind
<1>9. CASE TaskWriteFails
  BY <1>9, TaskWriteFailsKind
<1>10. CASE Finish
  BY <1>10, QuietKind DEF Finish, Stop
<1>11. CASE LoopFails
  BY <1>11, QuietKind DEF LoopFails, Stop
<1>12. CASE \E p \in Packets : Arrive(p)
  BY <1>12, QuietKind DEF Arrive
<1>13. CASE UNCHANGED vars
  BY <1>13, QuietKind DEF vars
<1> QED
  BY <1>1, <1>2, <1>3, <1>4, <1>5, <1>6, <1>7, <1>8, <1>9, <1>10, <1>11,
     <1>12, <1>13 DEF Next, ReceiverStep

-----------------------------------------------------------------------------
(* The invariant of the refinement and the lifecycle.                      *)

\* At the start nothing is open and nothing has left.
LEMMA NothingOpenAtStart == Init => OpenFiles(SS) = {}
<1> SUFFICES ASSUME Init PROVE OpenFiles(SS) = {}
  OBVIOUS
<1>1. SS \in SegmentSets /\ \A i \in Slots : ~SS.states_initialized[i]
  BY TypeInit DEF TypeOK, Init, segstateset_init
<1>2. \A f \in Window(SS) : f \notin OpenFiles(SS)
  <2>1. \A f \in Window(SS) : InternalIndex(SS, f) \in Slots
    BY <1>1, IndexInSlots DEF Window
  <2> QED BY <1>1, <2>1, OpenFilesByIndex
<1> QED BY <1>2 DEF OpenFiles, Window

\* The invariant holds at the start.
LEMMA OutInvInit == Init => OutInv
<1> SUFFICES ASSUME Init PROVE OutInv
  OBVIOUS
<1>1. Inv /\ OpenFiles(SS) = {}
  BY InvInit, NothingOpenAtStart
<1>2. SS.min_file_nbr = 0 /\ output = <<>>
  BY DEF Init, segstateset_init
<1> QED BY <1>1, <1>2 DEF OutInv, Loaded

\* A buffer stays what it was loaded from over a step.
LEMMA LaterKeepsBuffer ==
  ASSUME NEW s, NEW t, Later(s, t),
         s.mode = "WRITING" => s.buf \in load_cb_buf(s),
         t.mode = "WRITING"
  PROVE  t.buf \in load_cb_buf(t)
  BY DEF Later, load_cb_buf

\* The invariant is inductive, by the kinds of steps.
LEMMA OutInvStep ==
  ASSUME OutInv, [Next]_vars
  PROVE  OutInv'
<1>1. Inv' /\ StepKind
  BY InvStep, StepIsOfAKind DEF OutInv
<1>2. /\ SS \in SegmentSets /\ SS.min_file_nbr \in Nat
      /\ output \in Seq([file_nbr : Nat, len : Nat, syms : SUBSET Nat])
  BY DEF OutInv, Inv, TypeOK, SegmentSets
<1>3. CASE Unmoved
  BY <1>1, <1>3, LaterKeepsBuffer DEF Unmoved, OutInv, Loaded
<1>4. ASSUME NEW f, Admitted(f)
      PROVE  OutInv'
  <2>1. Loaded(SS')
    BY <1>4, LaterKeepsBuffer DEF Admitted, OutInv, Loaded
  <2> QED BY <1>1, <1>4, <2>1 DEF Admitted, OutInv
<1>5. ASSUME NEW f, NEW len, Left(f, len)
      PROVE  OutInv'
  <2>1. Loaded(SS')
    BY <1>5 DEF Left, OutInv, Loaded
  <2>2. Len(output') = SS'.min_file_nbr
    BY <1>2, <1>5 DEF Left, OutInv
  <2> QED BY <1>1, <2>1, <2>2 DEF OutInv
<1> QED BY <1>1, <1>3, <1>4, <1>5 DEF StepKind

\* What is written comes from the buffer, the buffer from the symbols, and
\* segments leave without a gap (task_write()).
THEOREM OutputInvariance == Spec => []OutInv
  BY OutInvInit, OutInvStep, PTL DEF Spec

\* A segment only goes forward through its modes, takes no symbol once it is
\* closed, and is forgotten only when it has been written
\* (segstate_add_packet(), segstateset_inc_min_file_nbr()).
THEOREM SegmentsGoForward == Spec => SegmentLifecycle
<1>1. ASSUME Inv, [Next]_vars
      PROVE  [\A f \in OpenFiles(SS) :
                IF f \in OpenFiles(SS')
                THEN /\ ModeRank(Slot(SS, f).mode) <= ModeRank(Slot(SS', f).mode)
                     /\ Slot(SS, f).mode # "RECEIVING"
                          => Slot(SS', f).esis = Slot(SS, f).esis
                ELSE Slot(SS, f).mode = "WRITING" /\ out_fd = f]_vars
  <2>0. StepKind /\ \A f \in OpenFiles(SS) : Slot(SS, f) \in Segments
    BY <1>1, StepIsOfAKind, OpenSlots DEF Inv, TypeOK
  <2>1. CASE Unmoved
    BY <2>1 DEF Unmoved, Later
  <2>2. ASSUME NEW g, Admitted(g)
        PROVE  \A f \in OpenFiles(SS) :
                  /\ f \in OpenFiles(SS')
                  /\ ModeRank(Slot(SS, f).mode) <= ModeRank(Slot(SS', f).mode)
                  /\ Slot(SS, f).mode # "RECEIVING"
                       => Slot(SS', f).esis = Slot(SS, f).esis
    BY <2>2 DEF Admitted, Later
  <2>3. ASSUME NEW g, NEW len, Left(g, len)
        PROVE  \A f \in OpenFiles(SS) :
                 IF f \in OpenFiles(SS')
                 THEN Slot(SS', f) = Slot(SS, f)
                 ELSE Slot(SS, f).mode = "WRITING" /\ out_fd = f
    BY <2>3 DEF Left
  <2>4. \A f \in OpenFiles(SS) :
           ModeRank(Slot(SS, f).mode) <= ModeRank(Slot(SS, f).mode)
    BY <2>0 DEF ModeRank, Segments, Modes
  <2> QED BY <2>0, <2>1, <2>2, <2>3, <2>4 DEF StepKind
<1> QED BY <1>1, Invariance, PTL DEF Spec, SegmentLifecycle

-----------------------------------------------------------------------------
(* The refinement.                                                         *)

\* The initial state is the one of Reassembly.
LEMMA StartsEmpty == Init => R!Init
<1> SUFFICES ASSUME Init PROVE R!Init
  OBVIOUS
<1>1. OpenFiles(SS) = {}
  BY NothingOpenAtStart
<1>2. [f \in {} |-> Slot(SS, f).esis] = <<>>
  OBVIOUS
<1> QED BY <1>1, <1>2 DEF Init, R!Init

\* A step without a segment that comes or leaves accepts a symbol or stutters.
LEMMA UnmovedAccepts ==
  ASSUME OutInv, Unmoved
  PROVE  [R!Next]_(R!vars)
<1>1. CASE SameSymbols
  <2>1. [f \in OpenFiles(SS') |-> Slot(SS', f).esis]
          = [f \in OpenFiles(SS) |-> Slot(SS, f).esis]
    BY <1>1 DEF Unmoved, SameSymbols
  <2> QED BY <2>1 DEF Unmoved, R!vars
<1>2. CASE OneSymbol
  <2>0. PICK p \in Packets :
          /\ p.toi \in OpenFiles(SS)
          /\ \A f \in OpenFiles(SS) :
               Slot(SS', f).esis = IF f = p.toi
                                   THEN Slot(SS, f).esis \cup {SymbolId(p)}
                                   ELSE Slot(SS, f).esis
    BY <1>2 DEF OneSymbol, Handled
  <2> DEFINE q == p.toi
             id == SymbolId(p)
  <2>1. q \in OpenFiles(SS) /\ id \in Symbols
    BY <2>0 DEF Symbols
  <2>2. [f \in OpenFiles(SS') |-> Slot(SS', f).esis]
          = [[f \in OpenFiles(SS) |-> Slot(SS, f).esis]
               EXCEPT ![q] = @ \cup {id}]
    BY <2>0 DEF Unmoved
  <2>3. q \in R!Files
    BY <2>1 DEF OutInv, Inv, InPlace, Files, R!Files
  <2>4. R!Accept(q)
    BY <2>1, <2>2 DEF R!Accept, Unmoved
  <2> QED BY <2>3, <2>4 DEF R!Next
<1> QED BY <1>1, <1>2 DEF Unmoved

\* A segment that comes is admitted.
LEMMA AdmittedAdmits ==
  ASSUME OutInv, NEW f, Admitted(f)
  PROVE  R!Next
<1>1. PICK ids \in {{}} \cup {{id} : id \in Symbols} : Slot(SS', f).esis = ids
  <2>1. Head(sock) \in Packets
    BY DEF Admitted, OutInv, Inv, TypeOK
  <2>2. SymbolId(Head(sock)) \in Symbols
    BY <2>1 DEF Symbols
  <2>3. \/ Slot(SS', f).esis = {}
        \/ Slot(SS', f).esis = {SymbolId(Head(sock))}
    BY DEF Admitted
  <2> QED BY <2>2, <2>3
<1>2. [g \in OpenFiles(SS') |-> Slot(SS', g).esis]
        = [g \in OpenFiles(SS) \cup {f} |->
             IF g = f THEN ids
                      ELSE [h \in OpenFiles(SS) |-> Slot(SS, h).esis][g]]
  BY <1>1 DEF Admitted, SameSymbols
<1>3. f \in R!Base..(R!Base + SEGSTATE_SET_N - 1) /\ f \in R!Files
  BY DEF Admitted, Window, OutInv, R!Base, Files, R!Files
<1>4. f \notin DOMAIN [g \in OpenFiles(SS) |-> Slot(SS, g).esis]
  BY DEF Admitted
<1>5. R!Admit(f)
  BY <1>1, <1>2, <1>3, <1>4 DEF R!Admit, Admitted
<1> QED BY <1>3, <1>5 DEF R!Next

\* A segment that leaves is emitted.
LEMMA LeftEmits ==
  ASSUME OutInv, NEW f, NEW len, Left(f, len)
  PROVE  R!Emit
<1>1. /\ R!Base = f /\ f \in OpenFiles(SS) /\ f \in Int
      /\ Slot(SS, f).mode = "WRITING"
  BY OpenSlots DEF Left, OutInv, R!Base, Inv, TypeOK, SegmentSets
<1>2. recv_file_nbr > f
  BY <1>1 DEF OutInv, Inv, Closed, TypeOK, Files
<1> DEFINE m == [g \in OpenFiles(SS) |-> Slot(SS, g).esis]
           n == [g \in OpenFiles(SS') |-> Slot(SS', g).esis]
<1>3. Slot(SS, f).buf \in Reconstructions(m[f], KLarge(FileSize[f]))
  BY <1>1 DEF OutInv, Loaded, load_cb_buf, Inv, InPlace
<1>4. n = [g \in DOMAIN m \ {f} |-> m[g]]
  BY DEF Left
<1>5. f \in DOMAIN m
  BY <1>1
<1>6. R!Reconstructions(m[f], R!KLarge(FileSize[f]))
        = Reconstructions(m[f], KLarge(FileSize[f]))
  BY DEF R!Reconstructions, R!SourceIds, R!KLarge, R!CeilDiv,
         R!Cardinality, Reconstructions, SourceIds, KLarge, CeilDiv,
         Cardinality
<1> SUFFICES /\ f \in DOMAIN m /\ recv_file_nbr > f
             /\ \E syms \in R!Reconstructions(m[f], R!KLarge(FileSize[f])),
                   l \in 0..FileSize[f] :
                  /\ l < FileSize[f] => IOErrors
                  /\ output' = Append(output, [file_nbr |-> f, len |-> l,
                                               syms |-> syms])
             /\ n = [g \in DOMAIN m \ {f} |-> m[g]]
             /\ UNCHANGED recv_file_nbr
  BY <1>1 DEF R!Emit
<1> HIDE DEF m, n
<1> QED BY <1>2, <1>3, <1>4, <1>5, <1>6 DEF Left

\* The receiver keeps the promise of Reassembly: segments leave in playlist
\* order, none skipped and none twice, each only after a later one was seen and
\* as a reconstruction of all the symbols accepted for it (receive_write()).
THEOREM ReceiverReassembles == Spec => Reassembles
<1>1. OutInv /\ [Next]_vars => [R!Next]_(R!vars)
  BY StepIsOfAKind, UnmovedAccepts, AdmittedAdmits, LeftEmits
  DEF StepKind, OutInv, R!Next
<1> QED
  BY <1>1, StartsEmpty, OutputInvariance, PTL DEF Spec, Reassembles, R!Spec
=============================================================================
