------------------------------- MODULE Sender -------------------------------
(***************************************************************************)
(* sender/sender.c with udp_sendmsg() of udp.c and the commands of cli.c:  *)
(* the files of the playlist are transmitted one after the other, each as  *)
(* its source packets and then its repair packets; between two files the   *)
(* sender waits for the playout time and serves its command line.          *)
(*                                                                         *)
(* A send is one action.  Throttling and the pacing clock only delay: they *)
(* leave the next action to come later.  The overhead is in percent.       *)
(***************************************************************************)
EXTENDS Coding, Sequences

CONSTANTS
  NFiles,      \* files of the sender's playlist
  FileSize,    \* their sizes in bytes
  TOI_MOD,     \* file numbers are sent modulo 2^16
  Overheads,   \* overheads, in percent of K, that can be asked for
  NET_CAP,     \* bound: datagrams in flight
  IOErrors     \* whether reading or encoding a file may fail

Files == 0..(NFiles - 1)

SenderAssumption ==
  /\ NFiles \in Nat \ {0}
  /\ FileSize \in [Files -> Nat \ {0}]
  /\ TOI_MOD \in Nat \ {0}
  /\ Overheads \subseteq Nat /\ 0 \in Overheads
  /\ NET_CAP \in Nat \ {0}
  /\ IOErrors \in BOOLEAN

VARIABLES
  s_pc,        \* "xmit" (in xmit_file()), "wait" (between files), "exit"
  s_file,      \* file_nbr
  s_next,      \* packets of the file already passed to udp_sendmsg()
  n_extra,     \* nExtra, fixed when xmit_file() starts
  overhead,    \* as last set on the command line
  drop_prob,   \* whether udp_sendmsg() drops packets at random
  net          \* datagrams in flight

vars == <<s_pc, s_file, s_next, n_extra, overhead, drop_prob, net>>

K(f) == KLarge(FileSize[f])
NExtra(f, ovh) == CeilDiv(K(f) * ovh, 100)

Init ==
  /\ overhead \in Overheads
  /\ drop_prob \in BOOLEAN
  /\ s_pc = "xmit" /\ s_file = 0 /\ s_next = 0
  /\ n_extra = NExtra(0, overhead)
  /\ net = <<>>

\* Variant: the offset of a repair packet counts on from the source packets.
FilePacketRunningOffset(f, i) ==
  IF i < K(f) THEN SourcePacket(f % TOI_MOD, FileSize[f], i)
              ELSE RepairPacket(f % TOI_MOD, FileSize[f], i)

\* Variant: the repair packets go out with the identifier of the source packets.
FilePacketAllSource(f, i) ==
  SourcePacket(f % TOI_MOD, FileSize[f], IF i < K(f) THEN i ELSE i - K(f))

\* Packet i of file f: K source packets, then the repair packets.
FilePacket(f, i) ==
  IF i < K(f) THEN SourcePacket(f % TOI_MOD, FileSize[f], i)
              ELSE RepairPacket(f % TOI_MOD, FileSize[f], i - K(f))

\* udp_sendmsg() of the next packet of the file: sent, or dropped on purpose.
SendPacket ==
  /\ s_pc = "xmit" /\ s_next < K(s_file) + n_extra
  /\ \/ Len(net) < NET_CAP /\ net' = Append(net, FilePacket(s_file, s_next))
     \/ drop_prob /\ UNCHANGED net
  /\ s_next' = s_next + 1
  /\ UNCHANGED <<s_pc, s_file, n_extra, overhead, drop_prob>>

\* xmit_file() returns.
FileSent ==
  /\ s_pc = "xmit" /\ s_next = K(s_file) + n_extra
  /\ s_pc' = "wait"
  /\ UNCHANGED <<s_file, s_next, n_extra, overhead, drop_prob, net>>

\* The file cannot be opened, or the encoder not be set up.
SetUpFails == s_next = 0
\* The repair symbols cannot be computed.
RepairFails == s_next = K(s_file) /\ n_extra > 0

\* xmit_file() fails before the source or before the repair packets, and the
\* program leaves: nothing more is sent.
XmitFails ==
  /\ IOErrors
  /\ s_pc = "xmit" /\ (SetUpFails \/ RepairFails)
  /\ s_pc' = "exit"
  /\ UNCHANGED <<s_file, s_next, n_extra, overhead, drop_prob, net>>

\* A command line: new parameters for the files to come.
CliCommand ==
  /\ s_pc = "wait"
  /\ \/ overhead' \in Overheads /\ UNCHANGED drop_prob
     \/ drop_prob' \in BOOLEAN /\ UNCHANGED overhead
  /\ UNCHANGED <<s_pc, s_file, s_next, n_extra, net>>

\* "exit", or the end of the command input.
CliExit ==
  /\ s_pc = "wait"
  /\ s_pc' = "exit"
  /\ UNCHANGED <<s_file, s_next, n_extra, overhead, drop_prob, net>>

\* Variant: the packet count goes on from the file before.
NextFileKeepsCount ==
  /\ s_pc = "wait"
  /\ s_file' = s_file + 1
  /\ IF s_file' = NFiles
     THEN s_pc' = "exit" /\ UNCHANGED n_extra
     ELSE s_pc' = "xmit" /\ n_extra' = NExtra(s_file', overhead)
  /\ UNCHANGED <<s_next, overhead, drop_prob, net>>

\* The playout time of the file is over: the next file, or the end.
NextFile ==
  /\ s_pc = "wait"
  /\ s_file' = s_file + 1
  /\ s_next' = 0
  /\ IF s_file' = NFiles
     THEN s_pc' = "exit" /\ UNCHANGED n_extra
     ELSE s_pc' = "xmit" /\ n_extra' = NExtra(s_file', overhead)
  /\ UNCHANGED <<overhead, drop_prob, net>>

Next ==
  SendPacket \/ FileSent \/ XmitFails \/ CliCommand \/ CliExit \/ NextFile

Spec == Init /\ [][Next]_vars

\* The process runs, and the playout time of a file passes: the clock is read
\* again after each round of commands.
FairSpec ==
  /\ Spec
  /\ WF_vars(SendPacket \/ FileSent)
  /\ WF_vars(NextFile)

-----------------------------------------------------------------------------
(* Properties.                                                             *)

\* The order the receiver depends on: no packet of a file follows one of a
\* later file, and no symbol of a file is sent twice, whatever is dropped and
\* however the overhead changes between files.
StreamOrder ==
  \A j \in 2..Len(net) :
     LET p == net[j - 1]
         q == net[j]
     IN  p.toi < q.toi \/ (p.toi = q.toi /\ SymbolId(p) < SymbolId(q))

\* The playlist is transmitted to its end, or the program is told to leave:
\* neither parameters changed while a file is played out nor packets dropped
\* hold it up.
TransmissionEnds == <>(s_pc = "exit")
=============================================================================
