------------------------------ MODULE Receiver ------------------------------
(***************************************************************************)
(* receiver/receiver.c: the event loop of receive_write() with the handlers*)
(* it calls, over the ring of segments of SegStateSet.                     *)
(*                                                                         *)
(* The process is single threaded.  One turn of the loop is a pselect()    *)
(* and one handler; it is one action here, except that open() of a segment *)
(* file blocks (the files are FIFOs and open() waits for the player), so   *)
(* that a handler which opens a file is cut in two: packets arrive in the  *)
(* socket buffer meanwhile.                                                *)
(*                                                                         *)
(* Time is abstracted: the deadline of the first write may pass at any     *)
(* moment after the first packet.                                          *)
(***************************************************************************)
EXTENDS SegStateSet, Sequences

CONSTANTS
  NSegments,   \* segments in the receiver's playlist, L->n_segments
  NFiles,      \* files the sender transmits, numbered from 0
  FileSize,    \* their sizes in bytes, a function on Files
  MAX_REPAIR,  \* bound: repair packets the sender adds to a file
  SOCK_CAP,    \* datagrams the socket buffer holds
  READY_FD,    \* whether the receiver was started with -r
  IOErrors     \* whether system calls may fail

Files == 0..(NFiles - 1)

\* A file beyond the playlist has no name to write to: the sender's playlist
\* is at most one longer than the receiver's.
ASSUME ReceiverAssumption ==
  /\ NSegments \in Nat \ {0}
  /\ NFiles \in 1..(NSegments + 1)
  /\ FileSize \in [Files -> Nat \ {0}]
  /\ MAX_REPAIR \in Nat
  /\ SOCK_CAP \in Nat \ {0}
  /\ READY_FD \in BOOLEAN
  /\ IOErrors \in BOOLEAN

SourcePackets(f) ==
  {SourcePacket(f, FileSize[f], j) : j \in 0..(KLarge(FileSize[f]) - 1)}
RepairPackets(f) ==
  {RepairPacket(f, FileSize[f], j) : j \in 0..(MAX_REPAIR - 1)}
Packets == UNION {SourcePackets(f) \cup RepairPackets(f) : f \in Files}

NoFile == -1

VARIABLES
  SS,             \* the segments in progress
  out_fd,         \* open segment file (named by its file number) or NoFd
  started,        \* the first packet has come and start_time is set
  write_ok,       \* the deadline of the first write has passed
  recv_file_nbr,  \* highest file number a segment was opened for
  ready_fd,       \* the ready descriptor is still to be signalled
  pc,             \* "select", "open" (in open()), "done", "abort", "error"
  pending,        \* the packet whose handler waits in open(), if any
  sock,           \* datagrams in the socket buffer
  output,         \* segment files written and closed, as the player got them
  open_failed     \* file whose open() failed last, and the newest file at
                  \* that time (for the properties)

vars == <<SS, out_fd, started, write_ok, recv_file_nbr, ready_fd, pc, pending,
          sock, output, open_failed>>

Init ==
  /\ SS = segstateset_init(0)
  /\ out_fd = NoFd
  /\ started = FALSE
  /\ write_ok = FALSE
  /\ recv_file_nbr = -1
  /\ ready_fd = READY_FD
  /\ pc = "select"
  /\ pending = <<>>
  /\ sock = <<>>
  /\ output = <<>>
  /\ open_failed = <<NoFile, NoFile>>

-----------------------------------------------------------------------------
(* task_start_write(), from any of its callers: S is the set the caller    *)
(* has made.  The segment that leaves next is opened if it is ready.       *)

MinReady(S) ==
  LET f == S.min_file_nbr
  IN  /\ segstateset_get(S, f) = "SS_OK"
      /\ Slot(S, f).mode = "READY_TO_WRITE"

task_start_write(S) ==
  /\ SS' = S
  /\ out_fd' = NoFd
  /\ pc' = IF MinReady(S) THEN "open" ELSE "select"

\* The end of the packet handler.
AddPacket(S, p) == PutSlot(S, p.toi, segstate_add_packet(Slot(S, p.toi), p))

-----------------------------------------------------------------------------
(* Where the loop waits.  There is a next segment, and the socket is always*)
(* watched and served before the output.                                   *)

AtSelect == pc = "select" /\ SS.min_file_nbr # NSegments

\* Variant: the socket is served before the ready descriptor.
SignallingServedLast == out_fd = NoFd /\ ~started /\ ready_fd /\ sock = <<>>

\* The ready descriptor is watched until the first packet, and served before
\* the socket: the pipe is empty and so always writable.
Signalling == out_fd = NoFd /\ ~started /\ ready_fd

TaskSignalReady ==
  /\ AtSelect
  /\ Signalling
  /\ ready_fd' = FALSE
  /\ UNCHANGED <<SS, out_fd, started, write_ok, recv_file_nbr, pc, pending,
                 sock, output, open_failed>>

-----------------------------------------------------------------------------
(* TASK_RECV, by the status of the packet's file.                          *)

AtRecv(status) ==
  /\ AtSelect
  /\ ~Signalling
  /\ sock # <<>>
  /\ segstateset_get(SS, Head(sock).toi) = status

\* segstate_add_packet() into the set S, an abort if its assertions fail.
AddOrAbort(S, p) ==
  IF AddPacketAsserts(Slot(S, p.toi), p)
  THEN SS' = AddPacket(S, p) /\ pc' = "select"
  ELSE SS' = S /\ pc' = "abort"

\* The set with a new segment for the file of packet p.
Opened(S, p) ==
  segstateset_mark_initialized(
    PutSlot(S, p.toi, segstate_init(p.toi, p.tos)), p.toi)

\* The first packet of a file.  If the file is the newest so far, the older
\* ones are marked ready, and writing starts unless it is under way.
RecvUninitialized ==
  LET p == Head(sock)
      newer == p.toi > recv_file_nbr
      marked == IF newer
                THEN segstateset_mark_readytowrite(Opened(SS, p), p.toi)
                ELSE Opened(SS, p)
  IN  /\ AtRecv("SS_UNINITIALIZED")
      /\ sock' = Tail(sock)
      /\ started' = TRUE
      /\ recv_file_nbr' = IF newer THEN p.toi ELSE recv_file_nbr
      /\ IF newer /\ write_ok /\ out_fd = NoFd /\ MinReady(marked)
         THEN SS' = marked /\ pc' = "open" /\ pending' = <<p>>
         ELSE AddOrAbort(marked, p) /\ UNCHANGED pending
      /\ UNCHANGED <<out_fd, write_ok, ready_fd, output, open_failed>>

RecvOk ==
  /\ AtRecv("SS_OK")
  /\ sock' = Tail(sock)
  /\ AddOrAbort(SS, Head(sock))
  /\ UNCHANGED <<out_fd, started, write_ok, recv_file_nbr, ready_fd, pending,
                 output, open_failed>>

\* A packet outside the window is reported and dropped.
RecvRejected ==
  /\ AtRecv("SS_BELOW_MIN") \/ AtRecv("SS_ABOVE_MAX")
  /\ sock' = Tail(sock)
  /\ UNCHANGED <<SS, out_fd, started, write_ok, recv_file_nbr, ready_fd, pc,
                 pending, output, open_failed>>

-----------------------------------------------------------------------------
(* Writing.                                                                *)

\* TASK_START_WRITE: pselect() times out, no packet is there.
TaskStartWrite ==
  /\ AtSelect
  /\ out_fd = NoFd /\ started /\ ~write_ok
  /\ sock = <<>>
  /\ write_ok' = TRUE
  /\ task_start_write(SS)
  /\ UNCHANGED <<started, recv_file_nbr, ready_fd, pending, sock, output,
                 open_failed>>

\* open() has returned a descriptor, to the handler of a packet or another.
OpenReturns ==
  LET f == SS.min_file_nbr
  IN  /\ pc = "open"
      /\ out_fd' = f
      /\ \E buf \in load_cb_buf(Slot(SS, f)) :
           LET S == PutSlot(SS, f, segstate_prepare_output(Slot(SS, f), f, buf))
           IN  IF pending = <<>> THEN SS' = S /\ pc' = "select"
                                 ELSE AddOrAbort(S, Head(pending))
      /\ pending' = <<>>
      /\ UNCHANGED <<started, write_ok, recv_file_nbr, ready_fd, sock, output,
                     open_failed>>

OpenFails ==
  /\ pc = "open" /\ IOErrors
  /\ IF pending = <<>> THEN pc' = "select" /\ UNCHANGED SS
                       ELSE AddOrAbort(SS, Head(pending))
  /\ pending' = <<>>
  /\ open_failed' = <<SS.min_file_nbr, recv_file_nbr>>
  /\ UNCHANGED <<out_fd, started, write_ok, recv_file_nbr, ready_fd, sock,
                 output>>

\* Variant: the next segment is not started.
FinishWithoutStart(seg, len) ==
  /\ output' = Append(output, [file_nbr |-> out_fd, len |-> len,
                               syms |-> seg.buf])
  /\ SS' = segstateset_inc_min_file_nbr(
              PutSlot(SS, SS.min_file_nbr, segstate_free(seg)))
  /\ out_fd' = NoFd
  /\ pc' = "select"

\* The end of a segment, len bytes of which were written: its file is closed,
\* the window moves on and the next segment is started.
FinishSegment(seg, len) ==
  /\ output' = Append(output, [file_nbr |-> out_fd, len |-> len,
                               syms |-> seg.buf])
  /\ task_start_write(segstateset_inc_min_file_nbr(
                        PutSlot(SS, SS.min_file_nbr, segstate_free(seg))))

AtWrite == AtSelect /\ out_fd # NoFd /\ sock = <<>>

\* TASK_WRITE: write() takes some of the bytes left.
TaskWrite ==
  LET seg == Slot(SS, SS.min_file_nbr)
  IN  /\ AtWrite
      /\ \E n \in 1..(CbSize(seg) - seg.offs) :
           LET more == segstate_write_more(seg, n)
           IN  IF Written(more)
               THEN FinishSegment(more, CbSize(seg))
               ELSE /\ SS' = PutSlot(SS, SS.min_file_nbr, more)
                    /\ UNCHANGED <<out_fd, pc, output>>
      /\ UNCHANGED <<started, write_ok, recv_file_nbr, ready_fd, pending, sock,
                     open_failed>>

\* TASK_WRITE when write() fails: the rest of the segment is given up, and
\* the caller takes it for finished.
TaskWriteFails ==
  LET seg == Slot(SS, SS.min_file_nbr)
  IN  /\ AtWrite /\ IOErrors
      /\ FinishSegment(seg, seg.offs)
      /\ UNCHANGED <<started, write_ok, recv_file_nbr, ready_fd, pending, sock,
                     open_failed>>

-----------------------------------------------------------------------------
(* The end of the loop.                                                    *)

Stop(result) ==
  /\ pc' = result
  /\ UNCHANGED <<SS, out_fd, started, write_ok, recv_file_nbr, ready_fd,
                 pending, sock, output, open_failed>>

Finish == pc = "select" /\ SS.min_file_nbr = NSegments /\ Stop("done")

\* pselect(), recv() or clock_gettime() fails: receive_write() returns.
LoopFails == AtSelect /\ IOErrors /\ Stop("error")

-----------------------------------------------------------------------------
(* The socket buffer, filled by the network while the process runs.  Any   *)
(* packet of the sender may come, in any order and any number of times.    *)

Arrive(p) ==
  /\ pc \in {"select", "open"}
  /\ Len(sock) < SOCK_CAP
  /\ sock' = Append(sock, p)
  /\ UNCHANGED <<SS, out_fd, started, write_ok, recv_file_nbr, ready_fd, pc,
                 pending, output, open_failed>>

ReceiverStep ==
  \/ TaskSignalReady
  \/ RecvUninitialized
  \/ RecvOk
  \/ RecvRejected
  \/ TaskStartWrite
  \/ OpenReturns
  \/ OpenFails
  \/ TaskWrite
  \/ TaskWriteFails
  \/ Finish
  \/ LoopFails

Next == ReceiverStep \/ \E p \in Packets : Arrive(p)

Spec == Init /\ [][Next]_vars

-----------------------------------------------------------------------------
(* Properties.                                                             *)

Symbols == {SymbolId(p) : p \in Packets}

\* Every variable has its type.
TypeOK ==
  /\ SS \in SegmentSets
  /\ out_fd \in Nat \cup {NoFd}
  /\ started \in BOOLEAN
  /\ write_ok \in BOOLEAN
  /\ recv_file_nbr \in Files \cup {-1}
  /\ ready_fd \in BOOLEAN
  /\ pc \in {"select", "open", "done", "abort", "error"}
  /\ pending \in Seq(Packets)
  /\ sock \in Seq(Packets)
  /\ output \in Seq([file_nbr : Nat, len : Nat, syms : SUBSET Nat])
  /\ open_failed \in (Nat \cup {NoFile}) \X (Files \cup {NoFile})

\* A slot in use holds the segment of the file its place in the ring stands
\* for, so that a packet never reaches the segment of another file, however
\* often the ring has turned (get_internal_index(), segstateset_inc_*()).
RingConsistent ==
  \A i \in Slots : SS.states_initialized[i] =>
     LET f == SS.states[i].file_nbr
     IN  /\ f \in SS.min_file_nbr..(SS.min_file_nbr + SEGSTATE_SET_N - 1)
         /\ InternalIndex(SS, f) = i
         /\ f \in Files /\ SS.states[i].file_len = FileSize[f]

\* The segment being written is the one that leaves next, the descriptor is
\* its own, and no other segment is being written.  With it hold the
\* assertions of task_write(), segstate_write_more() and
\* segstate_prepare_output().
OneWriter ==
  /\ out_fd # NoFd =>
       LET seg == Slot(SS, SS.min_file_nbr)
       IN  /\ out_fd = SS.min_file_nbr
           /\ segstateset_get(SS, out_fd) = "SS_OK"
           /\ seg.mode = "WRITING" /\ seg.out_fd = out_fd
           /\ seg.out_cb = 0 /\ seg.offs < CbSize(seg)
  /\ \A f \in OpenFiles(SS) :
       Slot(SS, f).mode = "WRITING" => out_fd = f
  /\ pc = "open" =>
       out_fd = NoFd /\ MinReady(SS) /\ Slot(SS, SS.min_file_nbr).out_fd = NoFd

\* No lost wake-up: once the first deadline has passed and no file is open,
\* the loop does not wait for packets while the next segment is ready, unless
\* its open() has failed and no newer file has come since: it is tried again
\* with each newer file.  Writing is started by a timeout, by the end of the
\* segment before or by the first packet of a newer file, and by nothing else.
NoMissedStart ==
  pc = "select" /\ write_ok /\ out_fd = NoFd /\ MinReady(SS)
    => open_failed = <<SS.min_file_nbr, recv_file_nbr>>

\* A segment is closed to packets only when a later file has been seen.
ClosedBelowNewest ==
  \A f \in OpenFiles(SS) :
     Slot(SS, f).mode # "RECEIVING" => f < recv_file_nbr

\* Nothing is opened or written before the first deadline has passed, and the
\* deadline is not started before the sender was told to start.
WriteAfterDeadline ==
  /\ pc = "open" \/ out_fd # NoFd \/ output # <<>> => write_ok
  /\ write_ok => started
  /\ started => ~ready_fd

ModeRank(mode) ==
  CASE mode = "RECEIVING" -> 0 [] mode = "READY_TO_WRITE" -> 1
    [] mode = "WRITING" -> 2

\* A segment only goes forward, from receiving to ready to writing, takes no
\* symbol once it has left receiving, and is forgotten only from writing.
SegmentLifecycle ==
  [][\A f \in OpenFiles(SS) :
        IF f \in OpenFiles(SS')
        THEN /\ ModeRank(Slot(SS, f).mode) <= ModeRank(Slot(SS', f).mode)
             /\ Slot(SS, f).mode # "RECEIVING"
                  => Slot(SS', f).esis = Slot(SS, f).esis
        ELSE Slot(SS, f).mode = "WRITING" /\ out_fd = f]_vars

\* The receiver keeps the promise of Reassembly: segments leave in playlist
\* order and whole, as reconstructions of all the symbols accepted for them.
R == INSTANCE Reassembly WITH
       segs <- [f \in OpenFiles(SS) |-> Slot(SS, f).esis],
       newest <- recv_file_nbr,
       Window <- SEGSTATE_SET_N
Reassembles == R!Spec

\* The receiver never aborts: no packet comes for a segment that a later one
\* has closed (assert(S->mode == RECEIVING) of segstate_add_packet()).
NoAbort == pc # "abort"
=============================================================================
