-------------------------- MODULE RouteDemoProofs ---------------------------
(***************************************************************************)
(* The whole demo: it is a case of Receiver, so that every theorem about   *)
(* the receiver holds of it, and over a network that keeps the order the   *)
(* assertion of segstate_add_packet() never fails.                         *)
(***************************************************************************)
EXTENDS RouteDemo, ReassemblyProofs, FiniteSetTheorems

-----------------------------------------------------------------------------
(* The sender.                                                             *)

\* The sender's variables have their types, and a file being sent is one of
\* the playlist, with no more repair packets than the receiver is made for.
SenderOK ==
  /\ s_file \in Nat /\ s_next \in Nat /\ n_extra \in Nat
  /\ overhead \in Overheads
  /\ s_pc \in {"xmit", "wait", "exit"}
  /\ s_pc # "exit" => s_file \in Files
  /\ n_extra <= MAX_REPAIR
  /\ net \in Seq(Packets)

\* The sender's names for the coding parameters stand for the receiver's.
LEMMA SameCoding ==
  /\ Snd!Files = Files
  /\ \A f : Snd!K(f) = KLarge(FileSize[f])
  /\ \A f, len, j : Snd!SourcePacket(f, len, j) = SourcePacket(f, len, j)
  /\ \A f, len, j : Snd!RepairPacket(f, len, j) = RepairPacket(f, len, j)
  BY DEF Snd!Files, Files, Snd!K, Snd!KLarge, Snd!CeilDiv, KLarge, CeilDiv,
         Snd!SourcePacket, Snd!RepairPacket, SourcePacket, RepairPacket,
         Snd!SOURCE, Snd!REPAIR, SOURCE, REPAIR

\* A file has a natural number of source symbols and of repair packets, and no
\* more of these than the receiver is made for (fec_estimate of xmit_file()).
LEMMA SenderNumbers ==
  ASSUME NEW f \in Files
  PROVE  /\ f \in Nat /\ f % TOI_MOD = f
         /\ Snd!K(f) \in Nat
         /\ \A o \in Overheads : Snd!NExtra(f, o) \in Nat
                                 /\ Snd!NExtra(f, o) <= MAX_REPAIR
<1>1. f \in 0..(TOI_MOD - 1) /\ TOI_MOD \in Nat \ {0} /\ f \in Nat
  BY RouteAssumption, ReceiverAssumption DEF Files, Snd!SenderAssumption
<1>2. f % TOI_MOD = f
  BY <1>1, ModSmall
<1>3. Snd!K(f) \in Nat
  BY SameCoding, KLargeNat, ReceiverAssumption
<1>4. ASSUME NEW o \in Overheads
      PROVE  Snd!NExtra(f, o) \in Nat /\ Snd!NExtra(f, o) <= MAX_REPAIR
  <2>1. o \in Nat
    BY RouteAssumption DEF Snd!SenderAssumption
  <2>2. Snd!K(f) * o + 100 - 1 \in Nat
    BY <1>3, <2>1, ProductNat
  <2>3. Snd!NExtra(f, o) \in Nat
    BY <2>2, QuotientNat DEF Snd!NExtra, Snd!CeilDiv
  <2> QED BY <2>3, RouteAssumption, SameCoding
<1> QED BY <1>1, <1>2, <1>3, <1>4

\* What the sender puts on the network is a packet of its file that the
\* receiver is made for (xmit_file()).
LEMMA FilePacketIsPacket ==
  ASSUME NEW f \in Files, NEW n \in Nat, n <= MAX_REPAIR,
         NEW i \in 0..(Snd!K(f) + n - 1)
  PROVE  Snd!FilePacket(f, i) \in Packets /\ Snd!FilePacket(f, i).toi = f
<1>1. f % TOI_MOD = f /\ Snd!K(f) \in Nat /\ Snd!K(f) = KLarge(FileSize[f])
      /\ MAX_REPAIR \in Nat
  BY SenderNumbers, SameCoding, ReceiverAssumption
<1>2. CASE i < Snd!K(f)
  <2>1. Snd!FilePacket(f, i) = SourcePacket(f, FileSize[f], i)
    BY <1>1, <1>2, SameCoding DEF Snd!FilePacket
  <2>2. i \in 0..(KLarge(FileSize[f]) - 1)
    BY <1>1, <1>2
  <2>3. SourcePacket(f, FileSize[f], i) \in SourcePackets(f)
    BY <2>2 DEF SourcePackets
  <2>4. SourcePacket(f, FileSize[f], i).toi = f
    BY DEF SourcePacket
  <2> QED BY <2>1, <2>3, <2>4 DEF Packets
<1>3. CASE ~(i < Snd!K(f))
  <2>1. Snd!FilePacket(f, i) = RepairPacket(f, FileSize[f], i - Snd!K(f))
    BY <1>1, <1>3, SameCoding DEF Snd!FilePacket
  <2>2. i - Snd!K(f) \in 0..(MAX_REPAIR - 1)
    BY <1>1, <1>3
  <2>3. RepairPacket(f, FileSize[f], i - Snd!K(f)) \in RepairPackets(f)
    BY <2>2 DEF RepairPackets
  <2>4. RepairPacket(f, FileSize[f], i - Snd!K(f)).toi = f
    BY DEF RepairPacket
  <2> QED BY <2>1, <2>3, <2>4 DEF Packets
<1> QED BY <1>2, <1>3

\* Taking an element out of a sequence leaves a sequence of the same elements.
LEMMA WithoutType ==
  ASSUME NEW X, NEW s \in Seq(X), NEW i \in DOMAIN s
  PROVE  Without(s, i) \in Seq(X)
<1>1. SubSeq(s, 1, i - 1) \in Seq(X)
  OBVIOUS
<1>2. SubSeq(s, i + 1, Len(s)) \in Seq(X)
  OBVIOUS
<1> QED BY <1>1, <1>2 DEF Without

\* The sender's invariant holds at the start.
LEMMA SenderInit == Snd!Init => SenderOK
<1> SUFFICES ASSUME Snd!Init PROVE SenderOK
  OBVIOUS
<1>1. 0 \in Files
  BY ReceiverAssumption DEF Files
<1> QED BY <1>1, SenderNumbers DEF Snd!Init, SenderOK

\* A step of the sender keeps its invariant, and puts at most one packet of the
\* file it is sending on the network.
LEMMA SenderStepOK ==
  ASSUME SenderOK, Snd!Next
  PROVE  /\ SenderOK'
         /\ s_file <= s_file'
         /\ \/ net' = net
            \/ \E p \in Packets : /\ s_file \in Files /\ p.toi = s_file
                                  /\ net' = Append(net, p)
<1> USE DEF SenderOK
<1>1. CASE Snd!SendPacket
  <2>1. /\ s_file \in Files /\ s_next \in 0..(Snd!K(s_file) + n_extra - 1)
        /\ s_next' = s_next + 1
        /\ UNCHANGED <<s_pc, s_file, n_extra, overhead>>
    BY <1>1, SenderNumbers DEF Snd!SendPacket
  <2>2. /\ Snd!FilePacket(s_file, s_next) \in Packets
        /\ Snd!FilePacket(s_file, s_next).toi = s_file
    BY <2>1, FilePacketIsPacket
  <2>3. net' = net \/ net' = Append(net, Snd!FilePacket(s_file, s_next))
    BY <1>1 DEF Snd!SendPacket
  <2> QED BY <2>1, <2>2, <2>3
<1>2. CASE Snd!FileSent
  BY <1>2 DEF Snd!FileSent
<1>3. CASE Snd!XmitFails
  BY <1>3 DEF Snd!XmitFails
<1>4. CASE Snd!CliCommand
  BY <1>4 DEF Snd!CliCommand
<1>5. CASE Snd!CliExit
  BY <1>5 DEF Snd!CliExit
<1>6. CASE Snd!NextFile
  <2>1. /\ s_file' = s_file + 1 /\ s_next' = 0 /\ s_file \in Files
        /\ UNCHANGED <<overhead, net>>
    BY <1>6 DEF Snd!NextFile
  <2>2. CASE s_file' = NFiles
    <3>1. s_pc' = "exit" /\ n_extra' = n_extra
      BY <1>6, <2>2 DEF Snd!NextFile
    <3> QED BY <2>1, <3>1
  <2>3. CASE s_file' # NFiles
    <3>1. s_pc' = "xmit" /\ n_extra' = Snd!NExtra(s_file', overhead)
      BY <1>6, <2>3 DEF Snd!NextFile
    <3>2. s_file' \in Files
      BY <2>1, <2>3, ReceiverAssumption DEF Files
    <3>3. n_extra' \in Nat /\ n_extra' <= MAX_REPAIR
      BY <3>1, <3>2, SenderNumbers
    <3> QED BY <2>1, <3>1, <3>2, <3>3
  <2> QED BY <2>2, <2>3
<1> QED BY <1>1, <1>2, <1>3, <1>4, <1>5, <1>6 DEF Snd!Next

-----------------------------------------------------------------------------
(* The demo is a case of Receiver.                                         *)

\* The network delivers or loses: packets stay packets.
LEMMA NetworkStepOK ==
  ASSUME SenderOK, NetworkStep
  PROVE  SenderOK'
<1>1. PICK i \in 1..NET_CAP : Deliver(i) \/ Lose(i)
  BY DEF NetworkStep
<1>2. i \in DOMAIN net /\ UNCHANGED snd_vars
      /\ (net' = net \/ net' = Without(net, i))
  BY <1>1 DEF Deliver, Lose, Deliverable
<1>3. net' \in Seq(Packets)
  BY <1>2, WithoutType DEF SenderOK
<1> QED BY <1>2, <1>3 DEF SenderOK, snd_vars

\* The invariant of the sender is inductive in the demo.
LEMMA SenderInvStep ==
  ASSUME SenderOK, [DemoNext]_demo_vars
  PROVE  SenderOK'
<1>1. CASE SenderStep
  BY <1>1, SenderStepOK DEF SenderStep
<1>2. CASE NetworkStep
  BY <1>2, NetworkStepOK
<1>3. CASE ReceiverTurn
  BY <1>3 DEF ReceiverTurn, snd_vars, SenderOK
<1>4. CASE UNCHANGED demo_vars
  BY <1>4 DEF demo_vars, snd_vars, SenderOK
<1> QED BY <1>1, <1>2, <1>3, <1>4 DEF DemoNext

\* The sender never leaves its playlist, and what is in flight are packets of
\* the files of the playlist (send_segments(), xmit_file()).
THEOREM SenderInvariance == DemoSpec => []SenderOK
<1>1. DemoInit => SenderOK
  BY SenderInit DEF DemoInit
<1> QED BY <1>1, SenderInvStep, PTL DEF DemoSpec

\* A step of the demo is one of the receiver or leaves the receiver alone.
LEMMA DemoStepIsReceiverStep ==
  ASSUME SenderOK, [DemoNext]_demo_vars
  PROVE  [Next]_vars
<1>1. CASE SenderStep
  BY <1>1 DEF SenderStep
<1>2. CASE NetworkStep
  <2>1. PICK i \in 1..NET_CAP : Deliver(i) \/ Lose(i)
    BY <1>2 DEF NetworkStep
  <2>2. CASE Deliver(i)
    <3>1. net[i] \in Packets /\ Arrive(net[i])
      BY <2>2 DEF Deliver, Deliverable, SenderOK
    <3> QED BY <3>1 DEF Next
  <2>3. CASE Lose(i)
    BY <2>3 DEF Lose
  <2> QED BY <2>1, <2>2, <2>3
<1>3. CASE ReceiverTurn
  BY <1>3 DEF ReceiverTurn, Next
<1>4. CASE UNCHANGED demo_vars
  BY <1>4 DEF demo_vars
<1> QED BY <1>1, <1>2, <1>3, <1>4 DEF DemoNext

\* The demo is a case of Receiver: what the sender puts on the network are
\* packets the receiver is made for, whatever the network does with them.
THEOREM DemoImplementsReceiver == DemoSpec => ImplementsReceiver
<1>1. DemoInit => Init
  BY DEF DemoInit
<1>2. SenderOK /\ [DemoNext]_demo_vars => [Next]_vars
  BY DemoStepIsReceiverStep
<1> QED BY <1>1, <1>2, SenderInvariance, PTL DEF DemoSpec, Spec, ImplementsReceiver

\* Segments leave the whole demo as Reassembly promises, too.
THEOREM DemoReassembles == DemoSpec => Reassembles
  BY DemoImplementsReceiver, ReceiverReassembles, PTL DEF ImplementsReceiver

-----------------------------------------------------------------------------
(* Order on a network that keeps it.                                       *)

\* File numbers do not go down along a sequence of packets.
Sorted(s) == \A i, j \in DOMAIN s : i <= j => s[i].toi <= s[j].toi

\* No file number in the sequence is outside of from..to.
Between(s, from, to) == \A i \in DOMAIN s : from <= s[i].toi /\ s[i].toi <= to

\* What is on its way is in the order in which it was sent, and not older than
\* the newest file the receiver has seen.
InOrder ==
  /\ Sorted(sock) /\ Sorted(net)
  /\ Between(sock, recv_file_nbr, s_file)
  /\ Between(net, recv_file_nbr, s_file)
  /\ \A i \in DOMAIN sock, j \in DOMAIN net : sock[i].toi <= net[j].toi
  /\ recv_file_nbr <= s_file

\* The packet that waits while a file is opened is the first of the newest file.
PendingIsNewest ==
  pending # <<>> => /\ pc = "open"
                    /\ Head(pending).toi = recv_file_nbr
                    /\ recv_file_nbr \in OpenFiles(SS)

OrderInv ==
  OutInv /\ SenderOK /\ InOrder /\ PendingIsNewest /\ OlderAreClosed /\ NoAbort

\* On the loopback the datagram that is delivered or lost is the first.
LEMMA WithoutFirst ==
  ASSUME NEW X, NEW s \in Seq(X), s # <<>>
  PROVE  Without(s, 1) = Tail(s)
<1>1. SubSeq(s, 1, 0) = <<>>
  OBVIOUS
<1>2. SubSeq(s, 2, Len(s)) = Tail(s)
  OBVIOUS
<1>3. Tail(s) \in Seq(X)
  OBVIOUS
<1> QED BY <1>1, <1>2, <1>3 DEF Without

\* No packet of the sender carries more than a symbol.
LEMMA PayloadFits ==
  ASSUME NEW p \in Packets
  PROVE  p.payload_size <= PD_T
<1>1. PICK f \in Files : p \in SourcePackets(f) \/ p \in RepairPackets(f)
  BY DEF Packets
<1>2. FileSize[f] \in Nat /\ PD_T \in Nat
  BY ReceiverAssumption, CodingAssumption
<1>3. CASE p \in SourcePackets(f)
  <2>1. PICK j \in 0..(KLarge(FileSize[f]) - 1) :
          p = SourcePacket(f, FileSize[f], j)
    BY <1>3 DEF SourcePackets
  <2>2. p.payload_size = IF FileSize[f] - PD_T * j < PD_T
                         THEN FileSize[f] - PD_T * j ELSE PD_T
    BY <2>1 DEF SourcePacket
  <2>3. PD_T * j \in Int
    BY <1>2
  <2> QED BY <1>2, <2>2, <2>3
<1>4. CASE p \in RepairPackets(f)
  BY <1>2, <1>4 DEF RepairPackets, RepairPacket
<1> QED BY <1>1, <1>3, <1>4

\* A packet of a segment that is receiving passes the assertions of
\* segstate_add_packet().
LEMMA ReceivingTakesPacket ==
  ASSUME NEW S \in SegmentSets, NEW p \in Packets, InPlace(S),
         p.toi \in OpenFiles(S), Slot(S, p.toi).mode = "RECEIVING",
         AddOrAbort(S, p)
  PROVE  pc' = "select"
<1>1. AddPacketAsserts(Slot(S, p.toi), p)
  BY PacketFields, PayloadFits DEF AddPacketAsserts, InPlace
<1> QED BY <1>1 DEF AddOrAbort

\* The sender sends in order.
LEMMA SenderKeepsOrder ==
  ASSUME OrderInv, SenderStep
  PROVE  InOrder'
<1>1. /\ UNCHANGED vars /\ s_file <= s_file'
      /\ \/ net' = net
         \/ \E p \in Packets : /\ s_file \in Files /\ p.toi = s_file
                               /\ net' = Append(net, p)
  BY SenderStepOK DEF SenderStep, OrderInv
<1>2. /\ sock' = sock /\ recv_file_nbr' = recv_file_nbr
      /\ sock \in Seq(Packets) /\ net \in Seq(Packets)
      /\ s_file \in Int /\ s_file' \in Int /\ recv_file_nbr \in Int
  BY <1>1, SenderStepOK
  DEF vars, OrderInv, OutInv, Inv, TypeOK, SenderOK, SenderStep, Files
<1>3. \A p \in Packets : p.toi \in Int
  BY PacketFields
<1> USE DEF InOrder, Sorted, Between
<1>4. \A i \in DOMAIN sock : sock[i] \in Packets
  BY <1>2
<1>5. \A i \in DOMAIN net : net[i] \in Packets
  BY <1>2
<1>6. CASE net' = net
  BY <1>1, <1>2, <1>3, <1>4, <1>5, <1>6 DEF OrderInv
<1>7. ASSUME NEW p \in Packets, p.toi = s_file, net' = Append(net, p)
      PROVE  InOrder'
  <2>1. /\ DOMAIN net' = 1..(Len(net) + 1) /\ DOMAIN net = 1..Len(net)
        /\ Len(net) \in Nat
        /\ \A i \in DOMAIN net : net'[i] = net[i]
        /\ net'[Len(net) + 1] = p
    BY <1>2, <1>7
  <2>2. Between(net', recv_file_nbr, s_file)
    BY <1>2, <1>7, <2>1 DEF OrderInv
  <2>3. Sorted(net')
    BY <1>2, <1>3, <1>5, <1>7, <2>1 DEF OrderInv
  <2>4. \A i \in DOMAIN sock, j \in DOMAIN net' : sock[i].toi <= net'[j].toi
    BY <1>2, <1>7, <2>1 DEF OrderInv
  <2>5. Between(sock, recv_file_nbr, s_file') /\ recv_file_nbr <= s_file'
    BY <1>1, <1>2, <1>3, <1>4 DEF OrderInv
  <2>6. Between(net', recv_file_nbr, s_file')
    <3>1. \A i \in DOMAIN net' : net'[i] \in Packets
      BY <1>5, <1>7, <2>1
    <3> QED BY <1>1, <1>2, <1>3, <2>2, <3>1
  <2> QED BY <1>2, <2>3, <2>4, <2>5, <2>6 DEF OrderInv
<1> QED BY <1>1, <1>6, <1>7

\* The loopback keeps the order.
LEMMA NetworkKeepsOrder ==
  ASSUME OrderInv, NetworkStep, Fifo
  PROVE  InOrder'
<1>1. PICK i \in 1..NET_CAP : Deliver(i) \/ Lose(i)
  BY DEF NetworkStep
<1>2. /\ i = 1 /\ net # <<>> /\ UNCHANGED <<recv_file_nbr, s_file>>
      /\ net' = Without(net, 1)
      /\ sock' = sock \/ sock' = Append(sock, net[1])
  BY <1>1 DEF Deliver, Lose, Deliverable, Arrive, snd_vars, vars
<1>3. /\ sock \in Seq(Packets) /\ net \in Seq(Packets)
      /\ s_file \in Int /\ recv_file_nbr \in Int
  BY DEF OrderInv, OutInv, Inv, TypeOK, SenderOK, Files
<1>4. net' = Tail(net)
  BY <1>2, <1>3, WithoutFirst
<1>5. /\ Len(net) \in Nat \ {0} /\ DOMAIN net = 1..Len(net)
      /\ DOMAIN net' = 1..(Len(net) - 1)
      /\ \A j \in DOMAIN net' : net'[j] = net[j + 1]
  BY <1>2, <1>3, <1>4
<1>6. \A p \in Packets : p.toi \in Int
  BY PacketFields
<1>7. \A j \in DOMAIN net : net[j] \in Packets
  BY <1>3
<1> USE DEF InOrder, Sorted, Between
<1>8. Sorted(net') /\ Between(net', recv_file_nbr, s_file)
  <2>1. \A j \in DOMAIN net' : j + 1 \in DOMAIN net /\ j \in Int
    BY <1>5
  <2>2. \A k, j \in DOMAIN net' : k <= j => k + 1 <= j + 1
    BY <2>1
  <2>3. Sorted(net) /\ Between(net, recv_file_nbr, s_file)
    BY DEF OrderInv
  <2>4. \A k, j \in DOMAIN net' : k <= j => net[k + 1].toi <= net[j + 1].toi
    BY <2>1, <2>2, <2>3
  <2>5. Sorted(net')
    BY <1>5, <2>4
  <2>6. Between(net', recv_file_nbr, s_file)
    BY <1>5, <2>1, <2>3
  <2> QED BY <2>5, <2>6
<1>9. CASE sock' = sock
  <2>1. \A k \in DOMAIN sock, j \in DOMAIN net' : sock[k].toi <= net'[j].toi
    BY <1>5 DEF OrderInv
  <2> QED BY <1>2, <1>8, <1>9, <2>1 DEF OrderInv
<1>10. CASE sock' = Append(sock, net[1])
  <2>1. /\ DOMAIN sock' = 1..(Len(sock) + 1) /\ DOMAIN sock = 1..Len(sock)
        /\ Len(sock) \in Nat
        /\ \A k \in DOMAIN sock : sock'[k] = sock[k]
        /\ sock'[Len(sock) + 1] = net[1]
    BY <1>3, <1>10
  <2>2. 1 \in DOMAIN net /\ net[1].toi <= net[1].toi
    BY <1>5, <1>6, <1>7
  <2>3. Between(sock', recv_file_nbr, s_file)
    BY <2>1, <2>2 DEF OrderInv
  <2>4. Sorted(sock')
    BY <2>1, <2>2 DEF OrderInv
  <2>5. \A k \in DOMAIN sock', j \in DOMAIN net' : sock'[k].toi <= net'[j].toi
    BY <1>5, <2>1, <2>2 DEF OrderInv
  <2> QED BY <1>2, <1>8, <2>3, <2>4, <2>5 DEF OrderInv
<1> QED BY <1>2, <1>9, <1>10

\* The receiver reads in order.
LEMMA ReceiverKeepsOrder ==
  ASSUME OrderInv, ReceiverTurn
  PROVE  InOrder'
<1>1. /\ sock \in Seq(Packets) /\ recv_file_nbr \in Int
      /\ UNCHANGED <<s_file, net>>
  BY DEF OrderInv, OutInv, Inv, TypeOK, SenderOK, Files, ReceiverTurn, snd_vars
<1>2. \/ UNCHANGED <<sock, recv_file_nbr>>
      \/ /\ sock # <<>> /\ sock' = Tail(sock)
         /\ recv_file_nbr' \in {recv_file_nbr, Head(sock).toi}
  BY DEF ReceiverTurn, ReceiverStep, TaskSignalReady, RecvUninitialized,
         RecvOk, RecvRejected, AtRecv, TaskStartWrite, OpenReturns, OpenFails,
         TaskWrite, TaskWriteFails, Finish, LoopFails, Stop
<1> USE DEF InOrder, Sorted, Between
<1>3. CASE UNCHANGED <<sock, recv_file_nbr>>
  BY <1>1, <1>3 DEF OrderInv
<1>4. CASE /\ sock # <<>> /\ sock' = Tail(sock)
           /\ recv_file_nbr' \in {recv_file_nbr, Head(sock).toi}
  <2>1. /\ Len(sock) \in Nat \ {0} /\ DOMAIN sock = 1..Len(sock)
        /\ DOMAIN sock' = 1..(Len(sock) - 1)
        /\ \A k \in DOMAIN sock' : sock'[k] = sock[k + 1]
        /\ 1 \in DOMAIN sock /\ Head(sock) = sock[1]
    BY <1>1, <1>4
  <2>2. \A k \in DOMAIN sock' : k + 1 \in DOMAIN sock /\ 1 <= k + 1
    BY <2>1
  <2>3. Sorted(sock')
    BY <2>1, <2>2 DEF OrderInv
  <2>4. Between(sock', recv_file_nbr', s_file)
    BY <1>4, <2>1, <2>2 DEF OrderInv
  <2>5. Between(net, recv_file_nbr', s_file) /\ recv_file_nbr' <= s_file
    BY <1>4, <2>1 DEF OrderInv
  <2>6. \A k \in DOMAIN sock', j \in DOMAIN net : sock'[k].toi <= net[j].toi
    BY <2>1, <2>2 DEF OrderInv
  <2> QED BY <1>1, <2>3, <2>4, <2>5, <2>6 DEF OrderInv
<1> QED BY <1>2, <1>3, <1>4

\* Every older segment is closed when a newer one comes, and none comes that is
\* older than the newest.
LEMMA OlderStayClosed ==
  ASSUME OrderInv, [Next]_vars
  PROVE  OlderAreClosed'
<1>1. StepKind /\ recv_file_nbr \in Int
  BY StepIsOfAKind DEF OrderInv, OutInv, Inv, TypeOK, Files
<1>2. \A f \in OpenFiles(SS) : f \in Nat /\ Slot(SS, f) \in Segments
  BY OpenSlots DEF OrderInv, OutInv, Inv, TypeOK
<1>3. \A s, t : Later(s, t) /\ s \in Segments /\ s.mode # "RECEIVING"
                  => t.mode # "RECEIVING"
  BY DEF Later, ModeRank, Segments, Modes
<1>4. CASE Unmoved
  BY <1>2, <1>3, <1>4 DEF Unmoved, OrderInv, OlderAreClosed
<1>5. ASSUME NEW f, Admitted(f)
      PROVE  OlderAreClosed'
  <2>1. f >= recv_file_nbr /\ f \in Nat
    <3>1. sock # <<>> /\ f = Head(sock).toi /\ sock \in Seq(Packets)
          /\ f \in Files
      BY <1>5 DEF Admitted, OrderInv, OutInv, Inv, TypeOK
    <3>2. 1 \in DOMAIN sock /\ Head(sock) = sock[1]
      BY <3>1
    <3> QED BY <1>1, <3>1, <3>2 DEF OrderInv, InOrder, Between, Files
  <2>2. recv_file_nbr' = f /\ OpenFiles(SS') = OpenFiles(SS) \cup {f}
    BY <1>1, <1>5, <2>1 DEF Admitted
  <2>3. ASSUME NEW g \in OpenFiles(SS), g < f
        PROVE  Slot(SS', g).mode # "RECEIVING"
    <3>1. CASE f > recv_file_nbr
      BY <1>5, <2>3, <3>1 DEF Admitted
    <3>2. CASE f = recv_file_nbr
      BY <1>2, <1>3, <1>5, <2>3, <3>2 DEF Admitted, OrderInv, OlderAreClosed
    <3> QED BY <1>1, <2>1, <3>1, <3>2
  <2> QED BY <2>1, <2>2, <2>3 DEF OlderAreClosed
<1>6. ASSUME NEW f, NEW len, Left(f, len)
      PROVE  OlderAreClosed'
  BY <1>6 DEF Left, OrderInv, OlderAreClosed
<1> QED BY <1>1, <1>4, <1>5, <1>6 DEF StepKind

\* The packet that waited for open() belongs to a segment that is receiving,
\* not to the one that is opened.
LEMMA PendingIsReceiving ==
  ASSUME OrderInv, pc = "open", pending # <<>>
  PROVE  LET p == Head(pending)
         IN  /\ p \in Packets /\ p.toi \in OpenFiles(SS)
             /\ p.toi # SS.min_file_nbr
             /\ Slot(SS, p.toi).mode = "RECEIVING"
<1> USE DEF OrderInv, OutInv, Inv
<1>1. /\ Head(pending) \in Packets /\ SS \in SegmentSets
      /\ recv_file_nbr \in Int
  BY DEF TypeOK, Files
<1>2. Head(pending).toi = recv_file_nbr /\ recv_file_nbr \in OpenFiles(SS)
  BY DEF PendingIsNewest
<1>3. Slot(SS, recv_file_nbr).mode = "RECEIVING"
  BY <1>1, <1>2 DEF Closed
<1>4. Slot(SS, SS.min_file_nbr).mode = "READY_TO_WRITE"
  BY DEF Writer, MinReady
<1> QED BY <1>1, <1>2, <1>3, <1>4

\* A packet from the socket buffer of an open segment finds it receiving.
LEMMA HeadIsReceiving ==
  ASSUME OrderInv, sock # <<>>, Head(sock).toi \in OpenFiles(SS)
  PROVE  Slot(SS, Head(sock).toi).mode = "RECEIVING"
<1>1. /\ sock \in Seq(Packets) /\ recv_file_nbr \in Int
      /\ Closed(SS, recv_file_nbr)
  BY DEF OrderInv, OutInv, Inv, TypeOK, Files
<1>2. 1 \in DOMAIN sock /\ Head(sock) = sock[1] /\ sock[1] \in Packets
  BY <1>1
<1>3. recv_file_nbr <= Head(sock).toi /\ Head(sock).toi \in Int
  BY <1>2, PacketFields DEF OrderInv, InOrder, Between
<1> QED BY <1>1, <1>3 DEF Closed

\* open() has returned: the packet that waited is added.
LEMMA OpenReturnsTakes ==
  ASSUME OrderInv, OpenReturns
  PROVE  NoAbort' /\ pending' = <<>>
<1> DEFINE f == SS.min_file_nbr
           seg == Slot(SS, f)
           p == Head(pending)
<1>1. pc = "open" /\ pending' = <<>> /\ Inv
  BY DEF OpenReturns, OrderInv, OutInv
<1>2. PICK buf \in load_cb_buf(seg) :
        LET S == PutSlot(SS, f, segstate_prepare_output(seg, f, buf))
        IN  IF pending = <<>> THEN SS' = S /\ pc' = "select"
                              ELSE AddOrAbort(S, p)
  BY DEF OpenReturns
<1>3. CASE pending = <<>>
  BY <1>1, <1>2, <1>3 DEF NoAbort
<1>4. CASE pending # <<>>
  <2> DEFINE T == segstate_prepare_output(seg, f, buf)
             S == PutSlot(SS, f, T)
  <2>1. SS \in SegmentSets /\ f \in Nat /\ seg \in Segments
    BY <1>1, FirstSlot DEF Inv, TypeOK
  <2>2. T \in Segments /\ T.file_nbr = seg.file_nbr
        /\ T.file_len = seg.file_len
    BY <2>1, PrepareType DEF segstate_prepare_output, Segments
  <2> HIDE DEF T
  <2>3. /\ S \in SegmentSets /\ OpenFiles(S) = OpenFiles(SS)
        /\ Slot(S, f) = T
        /\ \A g \in OpenFiles(SS) : g # f => Slot(S, g) = Slot(SS, g)
    BY <2>1, <2>2, PutFirstMap
  <2>4. AddOrAbort(S, p)
    BY <1>2, <1>4 DEF T
  <2> HIDE DEF S
  <2>5. InPlace(S)
    BY <1>1, <2>2, <2>3 DEF Inv, InPlace
  <2>6. /\ p \in Packets /\ p.toi \in OpenFiles(SS) /\ p.toi # f
        /\ Slot(SS, p.toi).mode = "RECEIVING"
    BY <1>1, <1>4, PendingIsReceiving
  <2>7. pc' = "select"
    BY <2>3, <2>4, <2>5, <2>6, ReceivingTakesPacket
  <2> QED BY <1>1, <2>7 DEF NoAbort
<1> QED BY <1>3, <1>4

\* The first packet of a file is added, or waits while a file is opened.
LEMMA FirstPacketTakes ==
  ASSUME OrderInv, RecvUninitialized
  PROVE  NoAbort' /\ PendingIsNewest'
<1> DEFINE p == Head(sock)
           newer == p.toi > recv_file_nbr
<1>1. pc = "select" /\ Inv /\ pending = <<>>
  BY DEF RecvUninitialized, AtRecv, AtSelect, OrderInv, OutInv, PendingIsNewest
<1>2. /\ p \in Packets /\ p.toi \in Files
      /\ recv_file_nbr' = IF newer THEN p.toi ELSE recv_file_nbr
  BY <1>1, RecvUninitializedSet
<1>3. PICK M \in SegmentSets :
        /\ \/ /\ newer /\ SS' = M /\ pc' = "open" /\ pending' = <<p>>
           \/ AddOrAbort(M, p) /\ UNCHANGED pending
        /\ OpenFiles(M) = OpenFiles(SS) \cup {p.toi}
        /\ Slot(M, p.toi) = segstate_init(p.toi, p.tos)
        /\ InPlace(M)
  BY <1>1, RecvUninitializedSet
<1>4. CASE newer /\ SS' = M /\ pc' = "open" /\ pending' = <<p>>
  <2>1. Head(pending') = p
    BY <1>4
  <2> QED BY <1>2, <1>3, <1>4, <2>1 DEF NoAbort, PendingIsNewest
<1>5. CASE AddOrAbort(M, p) /\ UNCHANGED pending
  <2>1. Slot(M, p.toi).mode = "RECEIVING"
    BY <1>3 DEF segstate_init
  <2>2. pc' = "select"
    BY <1>2, <1>3, <1>5, <2>1, ReceivingTakesPacket
  <2> QED BY <1>1, <1>5, <2>2 DEF NoAbort, PendingIsNewest
<1> QED BY <1>3, <1>4, <1>5

\* No step of the receiver aborts.
LEMMA ReceiverTakes ==
  ASSUME OrderInv, ReceiverStep
  PROVE  NoAbort' /\ PendingIsNewest'
<1>0. /\ SS \in SegmentSets /\ sock \in Seq(Packets) /\ InPlace(SS)
      /\ pc \in {"select", "open", "done", "abort", "error"} /\ pc # "abort"
  BY DEF OrderInv, OutInv, Inv, TypeOK, NoAbort
<1>1. CASE RecvUninitialized
  BY <1>1, FirstPacketTakes
<1>2. CASE OpenReturns
  BY <1>2, OpenReturnsTakes DEF PendingIsNewest
<1>3. CASE OpenFails
  <2>1. /\ pc = "open" /\ pending' = <<>>
        /\ pc' = "select" \/ (pending # <<>> /\ AddOrAbort(SS, Head(pending)))
    BY <1>3 DEF OpenFails
  <2>2. CASE pending # <<>> /\ AddOrAbort(SS, Head(pending))
    <3>1. pc' = "select"
      BY <1>0, <2>1, <2>2, PendingIsReceiving, ReceivingTakesPacket
    <3> QED BY <2>1, <3>1 DEF NoAbort, PendingIsNewest
  <2> QED BY <2>1, <2>2 DEF NoAbort, PendingIsNewest
<1>4. CASE RecvOk
  <2>1. /\ sock # <<>> /\ AddOrAbort(SS, Head(sock)) /\ UNCHANGED pending
        /\ pc = "select" /\ segstateset_get(SS, Head(sock).toi) = "SS_OK"
    BY <1>4 DEF RecvOk, AtRecv, AtSelect
  <2>2. Head(sock) \in Packets
    BY <1>0, <2>1
  <2>3. Head(sock).toi \in OpenFiles(SS)
    <3>1. Head(sock).toi \in Nat
      BY <2>2, PacketFields
    <3> QED BY <1>0, <2>1, <3>1, GetStatus
  <2>4. pc' = "select"
    BY <1>0, <2>1, <2>2, <2>3, HeadIsReceiving, ReceivingTakesPacket
  <2> QED BY <2>1, <2>4 DEF NoAbort, OrderInv, PendingIsNewest
<1>5. ASSUME pc = "select", UNCHANGED pending, pc' # "abort"
      PROVE  NoAbort' /\ PendingIsNewest'
  BY <1>5 DEF NoAbort, OrderInv, PendingIsNewest
<1>6. CASE TaskSignalReady \/ RecvRejected \/ LoopFails \/ Finish
  BY <1>5, <1>6 DEF TaskSignalReady, RecvRejected, LoopFails, Finish, AtRecv,
                    AtSelect, Stop
<1>7. CASE TaskStartWrite
  BY <1>5, <1>7 DEF TaskStartWrite, task_start_write, AtSelect
<1>8. CASE TaskWrite \/ TaskWriteFails
  BY <1>5, <1>8 DEF TaskWrite, TaskWriteFails, FinishSegment, task_start_write,
                    AtWrite, AtSelect
<1> QED BY <1>1, <1>2, <1>3, <1>4, <1>6, <1>7, <1>8 DEF ReceiverStep

\* Over a network that keeps the order the invariant is inductive.
LEMMA OrderInvStep ==
  ASSUME Fifo, OrderInv, [DemoNext]_demo_vars
  PROVE  OrderInv'
<1>1. [Next]_vars /\ SenderOK'
  BY DemoStepIsReceiverStep, SenderInvStep DEF OrderInv
<1>2. OutInv' /\ OlderAreClosed'
  BY <1>1, OutInvStep, OlderStayClosed DEF OrderInv
<1>3. CASE SenderStep
  BY <1>1, <1>2, <1>3, SenderKeepsOrder
  DEF SenderStep, vars, OrderInv, PendingIsNewest, NoAbort
<1>4. CASE NetworkStep
  <2>1. UNCHANGED <<SS, pc, pending, recv_file_nbr>>
    BY <1>4 DEF NetworkStep, Deliver, Lose, Arrive, vars
  <2> QED BY <1>1, <1>2, <1>4, <2>1, NetworkKeepsOrder
          DEF OrderInv, PendingIsNewest, NoAbort
<1>5. CASE ReceiverTurn
  BY <1>1, <1>2, <1>5, ReceiverKeepsOrder, ReceiverTakes
  DEF ReceiverTurn, OrderInv
<1>6. CASE UNCHANGED demo_vars
  BY <1>1, <1>2, <1>6
  DEF demo_vars, snd_vars, vars, OrderInv, InOrder, Sorted, Between,
      PendingIsNewest, NoAbort
<1> QED BY <1>3, <1>4, <1>5, <1>6 DEF DemoNext

\* The invariant holds at the start.
LEMMA OrderInvInit == DemoInit => OrderInv
<1> SUFFICES ASSUME DemoInit PROVE OrderInv
  OBVIOUS
<1>1. OutInv /\ SenderOK /\ OpenFiles(SS) = {}
  BY OutInvInit, SenderInit, NothingOpenAtStart DEF DemoInit
<1>2. /\ sock = <<>> /\ net = <<>> /\ pending = <<>> /\ pc = "select"
      /\ recv_file_nbr = -1 /\ s_file = 0
  BY DEF DemoInit, Init, Snd!Init
<1> QED BY <1>1, <1>2
        DEF OrderInv, InOrder, Sorted, Between, PendingIsNewest, OlderAreClosed,
            NoAbort

\* Over a network that keeps the order: what is on its way is in the order of
\* the playlist, older segments are closed, no packet fails the assertions.
THEOREM OrderInvariance == ASSUME Fifo PROVE DemoSpec => []OrderInv
<1>1. Fifo
  OBVIOUS
<1>2. OrderInv /\ [DemoNext]_demo_vars => OrderInv'
  BY <1>1, OrderInvStep
<1> QED BY <1>2, OrderInvInit, PTL DEF DemoSpec

\* Over a network that keeps the order the receiver never aborts, whatever is
\* lost and however long open() blocks: no packet comes for a segment that a
\* later one has closed (assert(S->mode == RECEIVING) of segstate_add_packet()).
THEOREM ReceiverNeverAborts == ASSUME Fifo PROVE DemoSpec => []NoAbort
<1>1. OrderInv => NoAbort
  BY DEF OrderInv
<1>2. DemoSpec => []OrderInv
  BY OrderInvariance
<1> QED BY <1>1, <1>2, PTL

\* Over a network that keeps the order every segment older than the newest is
\* closed (segstateset_mark_readytowrite()).
THEOREM OlderStayReady == ASSUME Fifo PROVE DemoSpec => []OlderAreClosed
<1>1. OrderInv => OlderAreClosed
  BY DEF OrderInv
<1>2. DemoSpec => []OrderInv
  BY OrderInvariance
<1> QED BY <1>1, <1>2, PTL

-----------------------------------------------------------------------------
(* What is played comes from the network.                                  *)

\* What taken keeps of a packet, and the symbol it stands for in file f.
Entry(p) == <<p.ens_id, p.payload_id>>
IdOf(f, q) ==
  IF q[1] = SOURCE THEN q[2] \div PD_T
                   ELSE KLarge(FileSize[f]) + q[2] \div PD_T

\* The symbols held are those of packets taken, the packet that waits for
\* open() included.
TakenInv ==
  /\ \A f \in Files : /\ IsFiniteSet(taken[f])
                      /\ \A q \in taken[f] : q[1] \in {SOURCE, REPAIR} /\ q[2] \in Nat
  /\ DOMAIN taken = Files
  /\ \A f \in OpenFiles(SS) :
        Slot(SS, f).esis \subseteq {IdOf(f, q) : q \in taken[f]}
  /\ pending # <<>> => Entry(Head(pending)) \in taken[Head(pending).toi]
  /\ \A i \in DOMAIN output : output[i].file_nbr \in Files
  /\ NothingInvented

\* A packet's entry stands for its symbol.
LEMMA EntryNamesSymbol ==
  ASSUME NEW p \in Packets
  PROVE  /\ IdOf(p.toi, Entry(p)) = SymbolId(p)
         /\ Entry(p)[1] \in {SOURCE, REPAIR} /\ Entry(p)[2] \in Nat
<1>1. p.ens_id \in {SOURCE, REPAIR}
  BY DEF Packets, SourcePackets, RepairPackets, SourcePacket, RepairPacket
<1> QED BY <1>1, PacketFields DEF Entry, IdOf, SymbolId

\* The step of the receiver that reads a packet records it.
LEMMA TurnTakes ==
  ASSUME OutInv, TakenInv, ReceiverTurn
  PROVE  /\ DOMAIN taken' = Files
         /\ \A f \in Files :
              /\ taken[f] \subseteq taken'[f] /\ IsFiniteSet(taken'[f])
              /\ \A q \in taken'[f] : q[1] \in {SOURCE, REPAIR} /\ q[2] \in Nat
         /\ \A p \in Handled : Entry(p) \in taken'[p.toi]
<1>1. sock \in Seq(Packets) /\ pending \in Seq(Packets)
  BY DEF OutInv, Inv, TypeOK
<1>2. CASE sock' = sock
  <2>1. taken' = taken
    BY <1>2 DEF ReceiverTurn
  <2>2. sock # <<>> => sock' # Tail(sock)
    BY <1>1, <1>2
  <2> QED BY <2>1, <2>2 DEF TakenInv, Handled
<1>3. CASE sock' # sock
  <2> DEFINE h == Head(sock)
  <2>1. taken' = [taken EXCEPT ![h.toi] = @ \cup {Entry(h)}]
    BY <1>3 DEF ReceiverTurn, Entry
  <2>2. sock # <<>> /\ h \in Packets
    <3>1. sock # <<>>
      BY <1>3 DEF ReceiverTurn, ReceiverStep, TaskSignalReady,
         RecvUninitialized, RecvOk, RecvRejected, AtRecv, TaskStartWrite,
         OpenReturns, OpenFails, TaskWrite, TaskWriteFails, Finish, LoopFails,
         Stop
    <3> QED BY <1>1, <3>1
  <2>3. h.toi \in Files
    BY <2>2, PacketFields
  <2>4. \A f \in Files : taken'[f] = IF f = h.toi THEN taken[f] \cup {Entry(h)}
                                                  ELSE taken[f]
    BY <2>1 DEF TakenInv
  <2>5. ASSUME NEW f \in Files
        PROVE  /\ taken[f] \subseteq taken'[f] /\ IsFiniteSet(taken'[f])
               /\ \A q \in taken'[f] : q[1] \in {SOURCE, REPAIR} /\ q[2] \in Nat
    <3> DEFINE e == Entry(h)
    <3>1. /\ IsFiniteSet(taken[f])
          /\ \A q \in taken[f] : q[1] \in {SOURCE, REPAIR} /\ q[2] \in Nat
      BY DEF TakenInv
    <3>2. e[1] \in {SOURCE, REPAIR} /\ e[2] \in Nat
      BY <2>2, EntryNamesSymbol
    <3>3. taken'[f] = taken[f] \cup {e} \/ taken'[f] = taken[f]
      BY <2>4
    <3> HIDE DEF e
    <3>4. IsFiniteSet(taken[f] \cup {e})
      BY <3>1, FS_AddElement
    <3> QED BY <3>1, <3>2, <3>3, <3>4
  <2>6. \A p \in Handled : Entry(p) \in taken'[p.toi]
    <3>1. ASSUME NEW p \in Packets, pending # <<>>, p = Head(pending)
          PROVE  Entry(p) \in taken'[p.toi]
      BY <2>5, <3>1, PacketFields DEF TakenInv
    <3>2. Entry(h) \in taken'[h.toi]
      BY <2>3, <2>4
    <3> QED BY <3>1, <3>2 DEF Handled
  <2>7. DOMAIN taken' = Files
    BY <2>1 DEF TakenInv
  <2> QED BY <2>5, <2>6, <2>7
<1> QED BY <1>2, <1>3

\* A buffer loaded from the symbols of packets holds source symbols that came
\* as such, or at least K packets were there to decode (load_cb_buf()).
LEMMA LoadInventsNothing ==
  ASSUME NEW f \in Files, NEW T, IsFiniteSet(T),
         \A q \in T : q[1] \in {SOURCE, REPAIR} /\ q[2] \in Nat,
         NEW esis \in SUBSET {IdOf(f, q) : q \in T},
         NEW buf \in Reconstructions(esis, KLarge(FileSize[f]))
  PROVE  \/ buf \subseteq {q[2] \div PD_T : q \in {r \in T : r[1] = SOURCE}}
         \/ Cardinality(T) >= KLarge(FileSize[f])
<1> DEFINE K == KLarge(FileSize[f])
           D == {q[2] \div PD_T : q \in {r \in T : r[1] = SOURCE}}
           I == {IdOf(f, q) : q \in T}
<1>1. K \in Nat /\ PD_T \in Nat \ {0}
  BY KLargeNat, ReceiverAssumption, CodingAssumption
<1>2. IsFiniteSet(esis) /\ Cardinality(esis) <= Cardinality(T)
      /\ Cardinality(esis) \in Nat /\ Cardinality(T) \in Nat
  <2> DEFINE g == [q \in T |-> IdOf(f, q)]
  <2>1. g \in Surjection(T, I)
    BY DEF Surjection
  <2> HIDE DEF g
  <2>2. IsFiniteSet(I) /\ Cardinality(I) <= Cardinality(T)
    BY <2>1, FS_Surjection
  <2> HIDE DEF I
  <2>3. IsFiniteSet(esis) /\ Cardinality(esis) <= Cardinality(I)
    BY <2>2, FS_Subset DEF I
  <2> QED BY <2>2, <2>3, FS_CardinalityType
<1>3. esis \cap SourceIds(K) \subseteq D
  <2> SUFFICES ASSUME NEW id \in esis, id \in SourceIds(K)
               PROVE  id \in D
    OBVIOUS
  <2>1. PICK q \in T : id = IdOf(f, q)
    OBVIOUS
  <2>2. q[2] \div PD_T \in Nat
    BY <1>1, QuotientNat
  <2>3. id < K
    BY <1>1 DEF SourceIds
  <2>4. q[1] = SOURCE /\ id = q[2] \div PD_T
    BY <1>1, <2>1, <2>2, <2>3 DEF IdOf
  <2> QED BY <2>4
<1>4. CASE SourceIds(K) \subseteq esis \/ Cardinality(esis) < K
  BY <1>3, <1>4 DEF Reconstructions
<1>5. CASE ~(SourceIds(K) \subseteq esis \/ Cardinality(esis) < K)
  BY <1>1, <1>2, <1>5
<1> QED BY <1>4, <1>5

\* More packets taken never make something invented.
LEMMA MoreTaken ==
  ASSUME NEW f \in Files, NEW T, NEW U, IsFiniteSet(U), T \subseteq U,
         NEW buf,
         \/ buf \subseteq {q[2] \div PD_T : q \in {r \in T : r[1] = SOURCE}}
         \/ Cardinality(T) >= KLarge(FileSize[f])
  PROVE  \/ buf \subseteq {q[2] \div PD_T : q \in {r \in U : r[1] = SOURCE}}
         \/ Cardinality(U) >= KLarge(FileSize[f])
<1>1. Cardinality(T) <= Cardinality(U) /\ Cardinality(U) \in Nat
      /\ IsFiniteSet(T)
  BY FS_Subset, FS_CardinalityType
<1>2. Cardinality(T) \in Nat
  BY <1>1, FS_CardinalityType
<1>3. KLarge(FileSize[f]) \in Nat
  BY KLargeNat, ReceiverAssumption
<1> QED BY <1>1, <1>2, <1>3

\* The symbols held stay those of packets taken.
LEMMA SymbolsStayTaken ==
  ASSUME OutInv, TakenInv, ReceiverTurn
  PROVE  \A f \in OpenFiles(SS') :
            Slot(SS', f).esis \subseteq {IdOf(f, q) : q \in taken'[f]}
<1>1. /\ \A f \in Files : taken[f] \subseteq taken'[f]
      /\ \A p \in Handled : Entry(p) \in taken'[p.toi]
  BY TurnTakes
<1>2. StepKind /\ OpenFiles(SS) \subseteq Files
  BY StepIsOfAKind DEF ReceiverTurn, Next, OutInv, Inv, InPlace
<1>3. ASSUME NEW f \in OpenFiles(SS)
      PROVE  Slot(SS, f).esis \subseteq {IdOf(f, q) : q \in taken'[f]}
  BY <1>1, <1>2 DEF TakenInv
<1>4. \A p \in Handled : SymbolId(p) \in {IdOf(p.toi, q) : q \in taken'[p.toi]}
  BY <1>1, EntryNamesSymbol DEF Handled
<1>5. CASE Unmoved
  <2>1. CASE SameSymbols
    BY <1>3, <1>5, <2>1 DEF Unmoved, SameSymbols
  <2>2. CASE OneSymbol
    <3>1. PICK p \in Handled :
            /\ p.toi \in OpenFiles(SS)
            /\ \A f \in OpenFiles(SS) :
                 Slot(SS', f).esis =
                   IF f = p.toi THEN Slot(SS, f).esis \cup {SymbolId(p)}
                                ELSE Slot(SS, f).esis
      BY <2>2 DEF OneSymbol
    <3>2. ASSUME NEW f \in OpenFiles(SS)
          PROVE  Slot(SS', f).esis \subseteq {IdOf(f, q) : q \in taken'[f]}
      <4>1. CASE f = p.toi
        <5>1. SymbolId(p) \in {IdOf(f, q) : q \in taken'[f]}
          BY <1>4, <4>1
        <5>2. Slot(SS', f).esis = Slot(SS, f).esis \cup {SymbolId(p)}
          BY <3>1, <4>1
        <5> QED BY <1>3, <5>1, <5>2
      <4>2. CASE f # p.toi
        BY <1>3, <3>1, <4>2
      <4> QED BY <4>1, <4>2
    <3> QED BY <1>5, <3>2 DEF Unmoved
  <2> QED BY <1>5, <2>1, <2>2 DEF Unmoved
<1>6. ASSUME NEW f, Admitted(f)
      PROVE  \A g \in OpenFiles(SS') :
                Slot(SS', g).esis \subseteq {IdOf(g, q) : q \in taken'[g]}
  <2>1. Head(sock) \in Handled
    BY <1>6 DEF Admitted, Handled, OutInv, Inv, TypeOK
  <2>2. SymbolId(Head(sock)) \in {IdOf(f, q) : q \in taken'[f]}
    <3>1. f = Head(sock).toi
      BY <1>6 DEF Admitted
    <3> QED BY <1>4, <2>1, <3>1
  <2>3. Slot(SS', f).esis \subseteq {IdOf(f, q) : q \in taken'[f]}
    BY <1>6, <2>2 DEF Admitted
  <2> QED BY <1>3, <1>6, <2>3 DEF Admitted, SameSymbols
<1>7. ASSUME NEW f, NEW len, Left(f, len)
      PROVE  \A g \in OpenFiles(SS') :
                Slot(SS', g).esis \subseteq {IdOf(g, q) : q \in taken'[g]}
  BY <1>3, <1>7 DEF Left
<1> QED BY <1>2, <1>5, <1>6, <1>7 DEF StepKind

\* The invariant holds at the start.
LEMMA TakenInit == DemoInit => TakenInv
<1> SUFFICES ASSUME DemoInit PROVE TakenInv
  OBVIOUS
<1>1. OpenFiles(SS) = {} /\ pending = <<>> /\ output = <<>>
      /\ taken = [f \in Files |-> {}]
  BY NothingOpenAtStart DEF DemoInit, Init
<1>2. IsFiniteSet({})
  BY FS_EmptySet
<1> QED BY <1>1, <1>2 DEF TakenInv, NothingInvented

\* What has left stays explained, and what leaves is.
LEMMA OutputStaysTaken ==
  ASSUME OutInv, TakenInv, ReceiverTurn
  PROVE  NothingInvented' /\ \A i \in DOMAIN output' : output'[i].file_nbr \in Files
<1> DEFINE Told(f, syms, t) ==
             \/ syms \subseteq {q[2] \div PD_T : q \in {r \in t : r[1] = SOURCE}}
             \/ Cardinality(t) >= KLarge(FileSize[f])
<1>1. \A f \in Files : taken[f] \subseteq taken'[f] /\ IsFiniteSet(taken'[f])
  BY TurnTakes
<1>2. StepKind /\ output \in Seq([file_nbr : Nat, len : Nat, syms : SUBSET Nat])
  BY StepIsOfAKind DEF ReceiverTurn, Next, OutInv, Inv, TypeOK
<1>3. \A i \in DOMAIN output :
         /\ output[i].file_nbr \in Files
         /\ Told(output[i].file_nbr, output[i].syms, taken'[output[i].file_nbr])
  <2> SUFFICES ASSUME NEW i \in DOMAIN output
               PROVE  /\ output[i].file_nbr \in Files
                      /\ Told(output[i].file_nbr, output[i].syms,
                              taken'[output[i].file_nbr])
    OBVIOUS
  <2> DEFINE f == output[i].file_nbr
  <2>1. f \in Files /\ Told(f, output[i].syms, taken[f])
    BY DEF TakenInv, NothingInvented, SourceTaken
  <2> QED BY <1>1, <2>1, MoreTaken
<1>4. CASE UNCHANGED output
  BY <1>3, <1>4 DEF NothingInvented, SourceTaken
<1>5. ASSUME NEW f, NEW len, Left(f, len)
      PROVE  NothingInvented'
             /\ \A i \in DOMAIN output' : output'[i].file_nbr \in Files
  <2> DEFINE buf == Slot(SS, f).buf
  <2>1. f \in OpenFiles(SS) /\ f \in Files /\ buf \in load_cb_buf(Slot(SS, f))
        /\ Slot(SS, f).file_len = FileSize[f]
    BY <1>5 DEF Left, OutInv, Loaded, Inv, InPlace
  <2>2. Told(f, buf, taken[f])
    <3>1. /\ IsFiniteSet(taken[f])
          /\ \A q \in taken[f] : q[1] \in {SOURCE, REPAIR} /\ q[2] \in Nat
          /\ Slot(SS, f).esis \in SUBSET {IdOf(f, q) : q \in taken[f]}
      BY <2>1 DEF TakenInv
    <3>2. buf \in Reconstructions(Slot(SS, f).esis, KLarge(FileSize[f]))
      BY <2>1 DEF load_cb_buf
    <3> QED BY <2>1, <3>1, <3>2, LoadInventsNothing
  <2>3. Told(f, buf, taken'[f])
    BY <1>1, <2>1, <2>2, MoreTaken
  <2> HIDE DEF Told
  <2> DEFINE o == [file_nbr |-> f, len |-> len, syms |-> buf]
  <2>4. output' = Append(output, o)
    BY <1>5 DEF Left
  <2>5. o.file_nbr = f /\ o.syms = buf
    OBVIOUS
  <2> HIDE DEF o, buf
  <2>6. \A i \in DOMAIN output' :
           output'[i] = o \/ (i \in DOMAIN output /\ output'[i] = output[i])
    <3>1. /\ DOMAIN output = 1..Len(output) /\ Len(output) \in Nat
          /\ DOMAIN output' = 1..(Len(output) + 1)
          /\ \A i \in DOMAIN output : output'[i] = output[i]
          /\ output'[Len(output) + 1] = o
      BY <1>2, <2>4
    <3> QED BY <3>1
  <2>7. \A i \in DOMAIN output' :
           /\ output'[i].file_nbr \in Files
           /\ Told(output'[i].file_nbr, output'[i].syms,
                   taken'[output'[i].file_nbr])
    BY <1>3, <2>1, <2>3, <2>5, <2>6
  <2> QED BY <2>7 DEF NothingInvented, SourceTaken, Told
<1> QED BY <1>2, <1>4, <1>5 DEF StepKind, Unmoved, Admitted

\* The invariant is inductive, whatever the network does.
LEMMA TakenStep ==
  ASSUME OutInv, TakenInv, [DemoNext]_demo_vars
  PROVE  TakenInv'
<1>1. CASE UNCHANGED <<SS, pending, output, taken>>
  BY <1>1 DEF TakenInv, NothingInvented, SourceTaken
<1>2. CASE ReceiverTurn
  <2>1. pending' # <<>> => Entry(Head(pending')) \in taken'[Head(pending').toi]
    <3>1. ASSUME pending' # <<>>
          PROVE  \E p \in Handled : p = Head(pending')
      <4>1. CASE pending' = <<Head(sock)>> /\ sock # <<>> /\ sock' = Tail(sock)
        <5>1. Head(sock) \in Packets
          BY <4>1 DEF OutInv, Inv, TypeOK
        <5> QED BY <4>1, <5>1 DEF Handled
      <4>2. CASE pending' = pending
        <5>1. Head(pending) \in Packets
          BY <3>1, <4>2 DEF OutInv, Inv, TypeOK
        <5> QED BY <3>1, <4>2, <5>1 DEF Handled
      <4> QED BY <1>2, <3>1, <4>1, <4>2
              DEF ReceiverTurn, ReceiverStep, TaskSignalReady,
                  RecvUninitialized, RecvOk, RecvRejected, AtRecv,
                  TaskStartWrite, OpenReturns, OpenFails, TaskWrite,
                  TaskWriteFails, Finish, LoopFails, Stop
    <3> QED BY <1>2, <3>1, TurnTakes
  <2> QED BY <1>2, <2>1, TurnTakes, SymbolsStayTaken, OutputStaysTaken
          DEF TakenInv
<1>3. CASE SenderStep
  BY <1>1, <1>3 DEF SenderStep, vars
<1>4. CASE NetworkStep
  BY <1>1, <1>4 DEF NetworkStep, Deliver, Lose, Arrive, vars
<1>5. CASE UNCHANGED demo_vars
  BY <1>1, <1>5 DEF demo_vars, vars
<1> QED BY <1>2, <1>3, <1>4, <1>5 DEF DemoNext

\* What is played comes from the network, in every order and with every loss
\* and duplicate: a source symbol of the output was received as such, or decoded
\* from at least K packets of its file (load_cb_buf(), codeblockstate_get_data()).
THEOREM NothingIsInvented == DemoSpec => []NothingInvented
<1>1. OutInv /\ TakenInv /\ [DemoNext]_demo_vars => TakenInv'
  BY TakenStep
<1>2. TakenInv => NothingInvented
  BY DEF TakenInv
<1>3. DemoSpec => []OutInv
  BY DemoImplementsReceiver, OutputInvariance, PTL DEF ImplementsReceiver
<1> QED BY <1>1, <1>2, <1>3, TakenInit, PTL DEF DemoSpec
=============================================================================
