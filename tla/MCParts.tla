------------------------------ MODULE MCParts -------------------------------
(***************************************************************************)
(* Small instances of the parts.  They share no state, so that their       *)
(* interleavings would show nothing: a behaviour is one of a single part,  *)
(* and the others stay as they began.                                      *)
(***************************************************************************)
EXTENDS Parts

VARIABLE part   \* the part that runs

sender_vars == <<s_pc, s_file, s_next, n_extra, overhead, drop_prob, net>>
timed_vars == <<clock, busy, t_pc, file, next, dur_accum, speed,
                throttle_nbytes, throttle_start, wake, cmd, cmds, cmd_file,
                begun, sent, watch, bytes>>
cli_vars == <<lens, gui_open, pipe, ready, buf, cli_pc, executed, gone,
              discarded>>
block_vars == <<esi, n_src_esi, hash_esi, syms_buf, cb_pc, sym_id, hent,
                data_out>>
mem_vars == <<limits, size, ptr, heap, calls, included, mem_pc>>
playlist_vars == <<list, s_pos, s_ents, s_durs, s_dur, s_eof, r_pos, r_ents,
                   r_eof, arrsz>>
params_vars == <<pd_pc, len, fsiz, file_len, s_params, r_params>>
time_vars == <<ts, exact, adds, now, timeout>>
load_vars == <<data, used, lm_clock, removed>>

vars == <<part, sender_vars, timed_vars, cli_vars, block_vars, mem_vars,
          playlist_vars, params_vars, time_vars, load_vars>>

-----------------------------------------------------------------------------
(* Values of the constants.                                                *)

\* Sender: files of two symbols, the second cut short, of two full ones and of
\* one.  Nothing takes datagrams off the network, which is large enough for all
\* of them and so is their history.
MCSndSize == [f \in 0..2 |-> <<3, 4, 1>>[f + 1]]

\* TimedSender: files of four packets, the last one cut short, with one of two
\* between.
MCFileSize == [f \in 0..2 |-> <<7, 4, 7>>[f + 1]]
MCDuration == [f \in 0..2 |-> 4 - f]

\* CodeBlock: two source symbols and two more places.  The table has ten
\* entries, made eleven by the multiplier; there are identifiers that share a
\* home (0, 11), whose homes follow each other, and whose probes run over the
\* end of the table.

\* MemBlocks: blocks of K symbols of which all may be missing.  The working
\* memory grows with the received symbols, the program with K, so that neither
\* of two cases need be the larger one.
MCCases ==
  {[nMaxK |-> k, nMaxExtraIn |-> x, nMaxOut |-> k, nMaxT |-> 2] :
     k \in {1, 2, 4}, x \in 0..3}
InterWork(k, extra) == k + extra
InterProg(k, extra) == 2 * k
InterSym(k, extra) == k + 1
OutWork(n) == n
OutProg(n) == IF n > 1 THEN n * n ELSE 0

\* Playlist: lines around the size of the buffer.  Lines with a duration are
\* short: those of the real lists have some twenty characters.
MCLines ==
  [kind : {"name"}, len : {1, 3, 4, 8}]
    \cup [kind : {"comment"}, len : {2, 4}]
    \cup [kind : {"extinf", "badinf"}, len : {3}]

\* TimeUtil: seconds of five nanoseconds of three parts; delays of less than
\* minus a second to more than two, in all fractions.
MCStarts == 0..14
MCDelays == (-18)..31

-----------------------------------------------------------------------------
\* Of a part that does not run one initial state is enough.
Init ==
  /\ part \in {"sender", "timed", "cli", "block", "mem", "playlist", "params",
               "time", "load"}
  /\ part = "sender" \/ (part # "sender" /\ overhead = 0 /\ drop_prob = FALSE)
  /\ part = "timed" \/ (part # "timed" /\ speed = 0)
  /\ part = "playlist" \/ (part # "playlist" /\ list = <<>>)
  /\ part = "params" \/ (part # "params" /\ len = 0)
  /\ part = "time" \/ (part # "time" /\ exact = 0)
  /\ Snd!Init
  /\ Timed!Init
  /\ Line!Init
  /\ Block!Init
  /\ Mem!Init
  /\ Lists!Init
  /\ Params!Init
  /\ Time!Init
  /\ Load!Init

SenderRuns ==
  /\ part = "sender"
  /\ UNCHANGED <<part, timed_vars, cli_vars, block_vars, mem_vars,
                 playlist_vars, params_vars, time_vars, load_vars>>
Sender == Snd!Next /\ SenderRuns

TimedSender ==
  /\ part = "timed" /\ Timed!Next
  /\ UNCHANGED <<part, sender_vars, cli_vars, block_vars, mem_vars,
                 playlist_vars, params_vars, time_vars, load_vars>>

CommandLine ==
  /\ part = "cli" /\ Line!Next
  /\ UNCHANGED <<part, sender_vars, timed_vars, block_vars, mem_vars,
                 playlist_vars, params_vars, time_vars, load_vars>>

CodeBlockRuns ==
  /\ part = "block"
  /\ UNCHANGED <<part, sender_vars, timed_vars, cli_vars, mem_vars,
                 playlist_vars, params_vars, time_vars, load_vars>>
CodeBlock == Block!Next /\ CodeBlockRuns

MemBlocks ==
  /\ part = "mem" /\ Mem!Next
  /\ UNCHANGED <<part, sender_vars, timed_vars, cli_vars, block_vars,
                 playlist_vars, params_vars, time_vars, load_vars>>

Playlists ==
  /\ part = "playlist" /\ Lists!Next
  /\ UNCHANGED <<part, sender_vars, timed_vars, cli_vars, block_vars, mem_vars,
                 params_vars, time_vars, load_vars>>

ParamDeriv ==
  /\ part = "params" /\ Params!Next
  /\ UNCHANGED <<part, sender_vars, timed_vars, cli_vars, block_vars, mem_vars,
                 playlist_vars, time_vars, load_vars>>

TimeUtil ==
  /\ part = "time" /\ Time!Next
  /\ UNCHANGED <<part, sender_vars, timed_vars, cli_vars, block_vars, mem_vars,
                 playlist_vars, params_vars, load_vars>>

LoadMonitor ==
  /\ part = "load" /\ Load!Next
  /\ UNCHANGED <<part, sender_vars, timed_vars, cli_vars, block_vars, mem_vars,
                 playlist_vars, params_vars, time_vars>>

Next ==
  \/ Sender
  \/ TimedSender
  \/ CommandLine
  \/ CodeBlock
  \/ MemBlocks
  \/ Playlists
  \/ ParamDeriv
  \/ TimeUtil
  \/ LoadMonitor

Spec == Init /\ [][Next]_vars

\* The fairness of Sender and of CodeBlock.
FairSpec ==
  /\ Spec
  /\ WF_vars((Snd!SendPacket \/ Snd!FileSent) /\ SenderRuns)
  /\ WF_vars(Snd!NextFile /\ SenderRuns)
  /\ WF_vars(Block!Probe /\ CodeBlockRuns)

-----------------------------------------------------------------------------
\* Sender: nothing holds the transmission up for ever.
TransmissionEnds == part = "sender" => Snd!TransmissionEnds
=============================================================================
