----------------------------- MODULE RouteDemo ------------------------------
(***************************************************************************)
(* Sender, network and receiver together.                                  *)
(*                                                                         *)
(* With Fifo the network is the loopback interface of the demo (README.txt,*)
(* step 5): datagrams may be lost, in the sender, or at a full socket      *)
(* buffer, and those that arrive do so in order and once.  Without it the  *)
(* two programs run on two machines (step 6), and UDP may also reorder and *)
(* duplicate datagrams.                                                    *)
(***************************************************************************)
EXTENDS Receiver

CONSTANTS
  TOI_MOD,     \* file numbers are sent modulo 2^16
  Overheads,   \* overheads, in percent, that can be asked for
  NET_CAP,     \* bound: datagrams in flight
  Fifo         \* whether the network keeps the order

VARIABLES
  s_pc, s_file, s_next, n_extra, overhead, drop_prob,   \* the sender
  net,                                                  \* datagrams in flight
  taken        \* the packets the receiver has read, by file (history)

Snd == INSTANCE Sender

snd_vars == <<s_pc, s_file, s_next, n_extra, overhead, drop_prob>>

demo_vars == <<vars, snd_vars, net, taken>>

ASSUME RouteAssumption ==
  /\ Snd!SenderAssumption
  /\ NFiles <= TOI_MOD
  /\ \A f \in Snd!Files, o \in Overheads : Snd!NExtra(f, o) <= MAX_REPAIR
  /\ Fifo \in BOOLEAN

DemoInit ==
  /\ Init
  /\ Snd!Init
  /\ taken = [f \in Files |-> {}]

-----------------------------------------------------------------------------

SenderStep == Snd!Next /\ UNCHANGED <<vars, taken>>

\* The packet is read with the step that shortens the socket buffer.
ReceiverTurn ==
  /\ ReceiverStep
  /\ taken' = IF sock' = sock THEN taken
              ELSE [taken EXCEPT ![Head(sock).toi] = @ \cup
                      {<<Head(sock).ens_id, Head(sock).payload_id>>}]
  /\ UNCHANGED <<snd_vars, net>>

\* A datagram that may be delivered now.
Deliverable(i) == i \in DOMAIN net /\ (Fifo => i = 1)

Without(s, i) == SubSeq(s, 1, i - 1) \o SubSeq(s, i + 1, Len(s))

\* A datagram reaches the socket buffer; it may stay in flight for a second
\* time only if the network is not the loopback.
Deliver(i) ==
  /\ Deliverable(i)
  /\ Arrive(net[i])
  /\ \/ net' = Without(net, i)
     \/ ~Fifo /\ UNCHANGED net
  /\ UNCHANGED <<snd_vars, taken>>

\* A datagram is lost: the socket buffer is full, the receiver has gone, or
\* the network is not the loopback.
Lose(i) ==
  /\ Deliverable(i)
  /\ Len(sock) = SOCK_CAP \/ pc \notin {"select", "open"} \/ ~Fifo
  /\ net' = Without(net, i)
  /\ UNCHANGED <<vars, snd_vars, taken>>

NetworkStep == \E i \in 1..NET_CAP : Deliver(i) \/ Lose(i)

DemoNext == SenderStep \/ NetworkStep \/ ReceiverTurn

DemoSpec == DemoInit /\ [][DemoNext]_demo_vars

\* The operating system runs both processes and the network delivers or loses
\* what it holds.  The player goes on reading, so that open() and write()
\* return.
DemoFairSpec ==
  /\ DemoSpec
  /\ WF_demo_vars(SenderStep)
  /\ WF_demo_vars(NetworkStep)
  /\ WF_demo_vars(ReceiverTurn)

-----------------------------------------------------------------------------
(* Properties.                                                             *)

\* The system is a case of Receiver: what the sender puts on the network are
\* packets the receiver is made for, so all that is shown of Receiver under
\* arbitrary packets holds here.
ImplementsReceiver == Spec

\* Over a network that keeps the order every segment older than the newest is
\* closed, so that nothing but the output before it holds it back.
OlderAreClosed ==
  \A f \in OpenFiles(SS) :
     f < recv_file_nbr => Slot(SS, f).mode # "RECEIVING"

\* What is played comes from the network: a source symbol of the output was
\* received as such, or decoded from at least K packets of its file.
SourceTaken(f) ==
  {p[2] \div PD_T : p \in {q \in taken[f] : q[1] = SOURCE}}
NothingInvented ==
  \A i \in DOMAIN output :
     LET f == output[i].file_nbr
     IN  \/ output[i].syms \subseteq SourceTaken(f)
         \/ Cardinality(taken[f]) >= KLarge(FileSize[f])

\* A packet of file f has been accepted.
Seen(f) == f < SS.min_file_nbr \/ f \in OpenFiles(SS)

\* A segment is played once it, every one before it and the one after it have
\* been seen.
SegmentPlayed ==
  \A f \in 0..(NSegments - 2) :
     (\A g \in 0..(f + 1) : Seen(g)) ~> SS.min_file_nbr > f

\* Stated by the end of the loop of receive_write() ("Get seg nbr, check if
\* done"): the receiver is done once it has had every segment.
PlayoutEnds == (\A f \in 0..(NSegments - 1) : Seen(f)) ~> pc = "done"

\* Stated by task_start_write() ("In this case, we received no packets
\* whatsoever for the segment"): a segment of which nothing was received is
\* passed over once its turn has come and later ones are there.
EmptySegmentPassed ==
  \A f \in 0..(NSegments - 1) :
     (f < recv_file_nbr /\ ~Seen(f) /\ write_ok) ~> SS.min_file_nbr > f
=============================================================================
