------------------------------- MODULE Parts --------------------------------
(***************************************************************************)
(* The parts of the system that can be looked at one at a time, each an    *)
(* instance of its module with constants and variables of its own, and     *)
(* their properties.  Where a part meets another one is a matter of        *)
(* RouteDemo.                                                              *)
(***************************************************************************)
EXTENDS Coding, Sequences

CONSTANTS
  SndFiles, SndSize, TOI_MOD, Overheads, NET_CAP, IOErrors,         \* Sender
  NFiles, FileSize, Duration, HEADER, BURST, Speeds, MAX_BUSY,
  MAX_CMDS,                                                    \* TimedSender
  BUF_SZ, CMD_SZ, Lengths, MAX_LINES,                                  \* Cli
  BLOCK_K, H_MULT, Ids,                                          \* CodeBlock
  Cases, InterWorkSize(_, _), InterProgSize(_, _), InterSymNum(_, _),
  OutWorkSize(_), OutProgSize(_), AllocErrors, MAX_CALLS,        \* MemBlocks
  BUF, ARR, Lines, LIST_LINES,                                    \* Playlist
  PD_MAX_K, INT_MAX, MAX_LEN,                                   \* ParamDeriv
  NS, SUB, START_TIMES, Delays, MAX_ADDS,                         \* TimeUtil
  win_sz, Steps, MAX_TIME                                      \* LoadMonitor

VARIABLES
  s_pc, s_file, s_next, n_extra, overhead, drop_prob, net,           \* Sender
  clock, busy, t_pc, file, next, dur_accum, speed, throttle_nbytes,
  throttle_start, wake, cmd, cmds, cmd_file, begun, sent, watch, bytes,
                                                                \* TimedSender
  lens, gui_open, pipe, ready, buf, cli_pc, executed, gone, discarded,  \* Cli
  esi, n_src_esi, hash_esi, syms_buf, cb_pc, sym_id, hent, data_out,
                                                                  \* CodeBlock
  limits, size, ptr, heap, calls, included, mem_pc,               \* MemBlocks
  list, s_pos, s_ents, s_durs, s_dur, s_eof, r_pos, r_ents, r_eof, arrsz,
                                                                   \* Playlist
  pd_pc, len, fsiz, file_len, s_params, r_params,                \* ParamDeriv
  ts, exact, adds, now, timeout,                                   \* TimeUtil
  data, used, lm_clock, removed                                 \* LoadMonitor

Snd == INSTANCE Sender WITH NFiles <- SndFiles, FileSize <- SndSize
Timed == INSTANCE TimedSender WITH pc <- t_pc
Line == INSTANCE Cli WITH pc <- cli_pc
Block == INSTANCE CodeBlock WITH K <- BLOCK_K, pc <- cb_pc
Mem == INSTANCE MemBlocks WITH pc <- mem_pc
Lists == INSTANCE Playlist WITH MAX_LINES <- LIST_LINES
Params == INSTANCE ParamDeriv WITH pc <- pd_pc
Time == INSTANCE TimeUtil WITH Starts <- START_TIMES
Load == INSTANCE LoadMonitor WITH clock <- lm_clock

\* The number of a file is unique, as in RouteDemo.
ASSUME PartsAssumption ==
  /\ Snd!SenderAssumption /\ SndFiles <= TOI_MOD
  /\ Timed!TimedAssumption
  /\ Line!CliAssumption
  /\ Block!CodeBlockAssumption
  /\ Mem!MemAssumption
  /\ Lists!PlaylistAssumption
  /\ Params!ParamAssumption
  /\ Time!TimeAssumption
  /\ Load!LoadAssumption

-----------------------------------------------------------------------------
(* The properties of the parts.                                            *)

\* Sender: files and symbols leave in order, whatever is dropped or changed.
StreamOrder == Snd!StreamOrder
\* TimedSender: the throttle keeps to the rate over any interval.
RateBounded == Timed!RateBounded
\* TimedSender: files begin when those before are played out.
Paced == Timed!Paced
\* TimedSender: pacing and throttling only delay what Sender does.
OnlyDelays == Timed!OnlyDelays

\* Cli: no character is lost, repeated or swapped.
EveryCharacterOnce == Line!EveryCharacterOnce
\* Cli: commands are executed in order and once.
CommandsInOrder == Line!CommandsInOrder
\* Cli: the program leaves only at the end of its input.
ExitsAtEnd == Line!ExitsAtEnd

\* CodeBlock: a symbol in the table is found before an empty entry is.
ProbeFinds == Block!ProbeFinds
\* CodeBlock: table, array and counter agree.
TableMatchesArray == Block!TableMatchesArray
\* CodeBlock: the probe loop ends.
ProbeEnds == Block!ProbeEnds
\* CodeBlock: the block is a set of symbols.
ImplementsSymbolSet == Block!ImplementsSymbolSet

\* MemBlocks: the memory is enough for every case so far.
EveryCaseFits == Mem!EveryCaseFits
\* MemBlocks: blocks and heap correspond.
HeapExact == Mem!HeapExact

\* Playlist: sender and receiver give a segment the same number.
SameNumbering == Lists!SameNumbering
\* Playlist: a segment is paced by its own duration.
OwnDuration == Lists!OwnDuration

\* ParamDeriv: what is sent is one block, cut by whole 2^32 only.
SentWhole == Params!SentWhole
\* ParamDeriv: both ends come to the same parameters.
SameParams == Params!SameParams

\* TimeUtil: a timespec stays normalised.
Normalised == Time!Normalised
\* TimeUtil: and exact to a nanosecond per addition.
Accurate == Time!Accurate

\* LoadMonitor: the average is over a full window.
WindowIsFull == Load!WindowIsFull
\* LoadMonitor: the load is that of one process, and defined.
LoadIsSound == Load!LoadIsSound
=============================================================================
