------------------------------ MODULE Playlist ------------------------------
(***************************************************************************)
(* The two playlists: utils/m3u8.c, as send_segments() reads list.m3u8 and *)
(* segment_list_load() reads dummy_playlist.m3u8.  A file number is the    *)
(* place of an entry in either, so they must have the same entries.        *)
(*                                                                         *)
(* A line is its kind and its length with the newline.  A file is the      *)
(* sequence of the numbers its lines have in list.m3u8; an entry is the    *)
(* line and the offset it was read at.                                     *)
(***************************************************************************)
EXTENDS Integers, Sequences, SequencesExt

CONSTANTS
  BUF,       \* size of the line buffers (40 for both)
  ARR,       \* entries there is room for at first (16)
  Lines,     \* lines there may be
  MAX_LINES  \* bound: lines of the list

\* "name" (which may be empty), "comment", "extinf" and "badinf" (an #EXTINF
\* without a number).
LineKinds == {"name", "comment", "extinf", "badinf"}

PlaylistAssumption ==
  /\ BUF \in Nat /\ BUF >= 2
  /\ ARR \in Nat \ {0}
  /\ Lines \subseteq [kind : LineKinds, len : Nat \ {0}]
  /\ MAX_LINES \in Nat

VARIABLES
  list,              \* lines of list.m3u8
  s_pos, s_ents,     \* the sender: place in the file, entries returned
  s_durs,            \*   and the line each one's duration comes from
  s_dur, s_eof,      \*   line of the duration last parsed (0 for none: the
                     \*   variable has no value), whether it stopped
  r_pos, r_ents,     \* the receiver
  r_eof, arrsz

sender == <<s_pos, s_ents, s_durs, s_dur, s_eof>>
receiver == <<r_pos, r_ents, r_eof, arrsz>>
vars == <<list, sender, receiver>>

Init ==
  /\ list \in BoundedSeq(Lines, MAX_LINES)
  /\ s_pos = <<1, 0>> /\ s_ents = <<>> /\ s_durs = <<>> /\ s_dur = 0 /\ s_eof = FALSE
  /\ r_pos = <<1, 0>> /\ r_ents = <<>> /\ r_eof = FALSE /\ arrsz = ARR

-----------------------------------------------------------------------------
(* The files, and fgets().                                                 *)

Inf(n) == list[n].kind \in {"extinf", "badinf"}
List == [n \in DOMAIN list |-> n]
\* segment.sh: awk '!/#EXTINF/', line by line.
Kept[n \in 0..Len(list)] ==
  IF n = 0 THEN <<>>
  ELSE IF Inf(n) THEN Kept[n - 1] ELSE Append(Kept[n - 1], n)
Dummy == Kept[Len(list)]

\* What fgets() leaves in the buffer: the line, or the part that fits.
Chunk(file, pos) == [line |-> file[pos[1]], offs |-> pos[2]]
After(file, pos) ==
  LET end == pos[2] + BUF - 1
  IN  IF end >= list[file[pos[1]]].len THEN <<pos[1] + 1, 0>> ELSE <<pos[1], end>>
AtEof(file, pos) == pos[1] > Len(file)

\* The rest of a long line does not begin with '#'.
IsComment(c) == c.offs = 0 /\ list[c.line].kind # "name"

-----------------------------------------------------------------------------
(* m3u8_get_next_ent(), one line per step.                                 *)

Starts(c, kind) == c.offs = 0 /\ list[c.line].kind = kind

\* Variant: a duration is kept until it is used.
ParsedOnce(c) == IF s_dur = 0 /\ Starts(c, "extinf") THEN c.line ELSE s_dur
Parsed(c) == IF Starts(c, "extinf") THEN c.line ELSE s_dur

SenderReads ==
  LET c == Chunk(List, s_pos) IN
  /\ ~s_eof /\ ~AtEof(List, s_pos)
  /\ s_pos' = After(List, s_pos)
  /\ s_dur' = Parsed(c)
  /\ s_eof' = Starts(c, "badinf")
  /\ IF IsComment(c)
     THEN UNCHANGED <<s_ents, s_durs>>
     ELSE s_ents' = Append(s_ents, c) /\ s_durs' = Append(s_durs, s_dur)
  /\ UNCHANGED <<list, receiver>>

SenderAtEof ==
  /\ ~s_eof /\ AtEof(List, s_pos)
  /\ s_eof' = TRUE
  /\ UNCHANGED <<list, s_pos, s_ents, s_durs, s_dur, receiver>>

-----------------------------------------------------------------------------
(* dummy_m3u8_get_next_ent() and segment_list_load().                      *)

\* Variant: only #EXTINF is skipped.
SkipExtinf(c) == c.offs = 0 /\ Inf(c.line)
DummyIsComment(c) == c.offs = 0 /\ list[c.line].kind # "name"

Grown(n) == IF n = arrsz THEN 2 * arrsz ELSE arrsz

ReceiverReads ==
  LET c == Chunk(Dummy, r_pos) IN
  /\ ~r_eof /\ ~AtEof(Dummy, r_pos)
  /\ r_pos' = After(Dummy, r_pos)
  /\ IF DummyIsComment(c)
     THEN UNCHANGED <<r_ents, arrsz>>
     ELSE r_ents' = Append(r_ents, c) /\ arrsz' = Grown(Len(r_ents) + 1)
  /\ UNCHANGED <<list, r_eof, sender>>

ReceiverAtEof ==
  /\ ~r_eof /\ AtEof(Dummy, r_pos)
  /\ r_eof' = TRUE
  /\ UNCHANGED <<list, r_pos, r_ents, arrsz, sender>>

Next ==
  \/ SenderReads
  \/ SenderAtEof
  \/ ReceiverReads
  \/ ReceiverAtEof

Spec == Init /\ [][Next]_vars

-----------------------------------------------------------------------------
(* Properties.                                                             *)

\* Sender and receiver give the same number to the same segment, though they
\* read different files in different places and by different functions; the
\* receiver knows all that the sender has, unless a duration cannot be read.
SameNumbering ==
  /\ \A i \in DOMAIN s_ents \cap DOMAIN r_ents : s_ents[i] = r_ents[i]
  /\ r_eof => Len(s_ents) <= Len(r_ents)
  /\ s_eof /\ r_eof /\ (\A n \in DOMAIN list : list[n].kind # "badinf") =>
       s_ents = r_ents

\* A segment is paced by its own duration, the last one given before its name,
\* whatever comments lie between and whatever the segment before it had.
OwnDuration ==
  \A i \in DOMAIN s_ents :
     LET given == {n \in 1..(s_ents[i].line - 1) : list[n].kind = "extinf"}
     IN  s_durs[i] = IF given = {} THEN 0 ELSE Max(given)
=============================================================================
