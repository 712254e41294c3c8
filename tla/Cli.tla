-------------------------------- MODULE Cli ---------------------------------
(***************************************************************************)
(* sender/cli.c: how get_next_line() cuts the commands of the GUI out of   *)
(* the pipe on standard input.                                             *)
(*                                                                         *)
(* The GUI writes lines whenever it likes, and they arrive in pieces, cut  *)
(* anywhere.  The sender looks at the pipe between two files only          *)
(* (send_segments()), and then takes every line it can get; what it has of *)
(* a line stays in the buffer until it looks again.  One read() is one     *)
(* action.  A character is a record of its line, its place in it, and      *)
(* whether it is the newline; what the commands do is in Sender.           *)
(***************************************************************************)
EXTENDS Integers, Sequences, SequencesExt

CONSTANTS
  BUF_SZ,     \* size of the line buffer (256)
  CMD_SZ,     \* size of the caller's buffer (80)
  Lengths,    \* lengths of lines, without the newline
  MAX_LINES   \* bound: lines that are written

CliAssumption ==
  /\ BUF_SZ \in Nat /\ BUF_SZ > 1
  /\ CMD_SZ \in Nat \ {0}
  /\ Lengths \subseteq Nat
  /\ MAX_LINES \in Nat

VARIABLES
  lens,       \* lengths of the lines written so far (history)
  gui_open,   \* the GUI holds its end of the pipe
  pipe,       \* characters written and not read
  ready,      \* how many of them have arrived
  buf,        \* buf[0 .. n_bytes_in_buf - 1]
  pc,         \* "wait" (between files), "search" (in get_next_line()), "exit"
  executed,   \* the commands passed to exec_cli_command(), in order
  gone,       \* what has left the buffer, as a line or discarded (history)
  discarded   \* whether the buffer was ever thrown away (history)

vars == <<lens, gui_open, pipe, ready, buf, pc, executed, gone, discarded>>

Char(n, i, eol) == [line |-> n, place |-> i, eol |-> eol]

\* Line n of the input, with its newline.
Text(n, len) == [i \in 1..(len + 1) |-> Char(n, i, i = len + 1)]

Init ==
  /\ lens = <<>> /\ gui_open = TRUE /\ pipe = <<>> /\ ready = 0
  /\ buf = <<>> /\ pc = "wait" /\ executed = <<>>
  /\ gone = <<>> /\ discarded = FALSE

-----------------------------------------------------------------------------
(* The GUI: the sliders write a line and flush it at once, but only what   *)
(* PIPE_BUF bounds goes into a pipe in one piece, and on a terminal or     *)
(* behind another program a line is typed or passed on as it comes.        *)

GuiWrite(len) ==
  /\ gui_open /\ Len(lens) < MAX_LINES
  /\ lens' = Append(lens, len)
  /\ pipe' = pipe \o Text(Len(lens) + 1, len)
  /\ UNCHANGED <<gui_open, ready, buf, pc, executed, gone, discarded>>

Arrive ==
  /\ ready' \in (ready + 1)..Len(pipe)
  /\ UNCHANGED <<lens, gui_open, pipe, buf, pc, executed, gone, discarded>>

GuiClose ==
  /\ gui_open /\ ready = Len(pipe)
  /\ gui_open' = FALSE
  /\ UNCHANGED <<lens, pipe, ready, buf, pc, executed, gone, discarded>>

-----------------------------------------------------------------------------
(* The sender.                                                             *)

\* pselect() reports input, or its end.
PollInput ==
  /\ pc = "wait"
  /\ ready > 0 \/ ~gui_open
  /\ pc' = "search"
  /\ UNCHANGED <<lens, gui_open, pipe, ready, buf, executed, gone, discarded>>

HasLine(s) == \E i \in DOMAIN s : s[i].eol
\* Variant: the search begins at the end.
LastLineEnd(s) == CHOOSE i \in DOMAIN s : s[i].eol /\ \A j \in (i + 1)..Len(s) : ~s[j].eol
\* Place of the newline that strchr() finds.
LineEnd(s) == CHOOSE i \in DOMAIN s : s[i].eol /\ \A j \in 1..(i - 1) : ~s[j].eol

\* What is kept of the buffer after its first line.
Rest(s) == SubSeq(s, LineEnd(s) + 1, Len(s))

\* What fits into the caller's buffer of a line.
CutLine(line) == IF CMD_SZ > Len(line) THEN line ELSE SubSeq(line, 1, CMD_SZ - 1)

\* A newline is in the buffer: the line is cut to the caller's buffer and
\* executed, the rest is moved to the front.
TakeLine ==
  LET e == LineEnd(buf)
  IN  /\ pc = "search" /\ HasLine(buf)
      /\ executed' = Append(executed, [line |-> buf[e].line,
                                      text |-> CutLine(SubSeq(buf, 1, e - 1))])
      /\ buf' = Rest(buf)
      /\ gone' = gone \o SubSeq(buf, 1, e)
      /\ UNCHANGED <<lens, gui_open, pipe, ready, pc, discarded>>

Room == BUF_SZ - Len(buf) - 1

\* Variants: the buffer may be filled and is kept; what read() adds takes the
\* place of what the buffer held.
NeverOverflows(s) == FALSE
Overwritten(s, t) == t
Overflows(s) == Len(s) = BUF_SZ - 1
Filled(s, t) == s \o t

\* read() gives some of what is there and has room; a buffer that is full
\* afterwards is thrown away.
Read(n) ==
  LET filled == Filled(buf, SubSeq(pipe, 1, n))
  IN  /\ pc = "search" /\ ~HasLine(buf) /\ n <= Room
      /\ pipe' = SubSeq(pipe, n + 1, Len(pipe))
      /\ ready' = ready - n
      /\ IF Overflows(filled)
         THEN buf' = <<>> /\ gone' = gone \o filled /\ discarded' = TRUE
         ELSE buf' = filled /\ UNCHANGED <<gone, discarded>>
      /\ UNCHANGED <<lens, gui_open, pc, executed>>

\* read() has nothing for now: what there is of a line waits in the buffer.
ReadNothing ==
  /\ pc = "search" /\ ~HasLine(buf) /\ Room > 0
  /\ ready = 0 /\ gui_open
  /\ pc' = "wait"
  /\ UNCHANGED <<lens, gui_open, pipe, ready, buf, executed, gone, discarded>>

\* read() returns 0, at the end of the input or for a buffer without room:
\* the program exits.
ReadEof ==
  /\ pc = "search" /\ ~HasLine(buf)
  /\ Room = 0 \/ (ready = 0 /\ ~gui_open)
  /\ pc' = "exit"
  /\ UNCHANGED <<lens, gui_open, pipe, ready, buf, executed, gone, discarded>>

Next ==
  \/ \E len \in Lengths : GuiWrite(len)
  \/ Arrive
  \/ GuiClose
  \/ PollInput
  \/ TakeLine
  \/ \E n \in 1..ready : Read(n)
  \/ ReadNothing
  \/ ReadEof

Spec == Init /\ [][Next]_vars

-----------------------------------------------------------------------------
(* Properties.                                                             *)

\* The characters of the lines from line n on.
TextFrom(n) ==
  FlattenSeq([k \in 1..(Len(lens) - n + 1) |->
                Text(n + k - 1, lens[n + k - 1])])

\* The characters that left the buffer, those in it and those in the pipe are
\* those written, each once and in order: joining, cutting, moving and
\* discarding neither lose, repeat nor swap one.
EveryCharacterOnce == gone \o buf \o pipe = TextFrom(1)

\* A command is (what fits of) the end of one line, also after a discard in its
\* middle: no command is made of two lines, and none is taken twice.
CommandIsLineEnd(n) ==
  LET line == executed[n].line
  IN  /\ line \in DOMAIN lens
      /\ n > 1 => executed[n - 1].line < line
      /\ \E k \in 1..(lens[line] + 1) :
           executed[n].text = CutLine(SubSeq(Text(line, lens[line]), k, lens[line]))

\* Unless the buffer was thrown away, the commands executed are the first lines
\* written, whole but for what does not fit, and the others are still to come.
CommandIsLine(n) ==
  /\ n <= Len(lens)
  /\ executed[n].text = CutLine(SubSeq(Text(n, lens[n]), 1, lens[n]))

CommandsInOrder ==
  /\ \A n \in DOMAIN executed : CommandIsLineEnd(n)
  /\ ~discarded =>
       /\ \A n \in DOMAIN executed : CommandIsLine(n)
       /\ buf \o pipe = TextFrom(Len(executed) + 1)

\* The program leaves only at the end of its input (get_next_line() takes a
\* read() of 0 bytes for that), and has executed the lines it has read.
ExitsAtEnd == pc = "exit" => ~gui_open /\ pipe = <<>> /\ ~HasLine(buf)

\* Stated by the message of get_next_line(), "Line longer than supported,
\* discarding": the buffer is thrown away only for a line that it cannot hold.
DiscardsLongLinesOnly ==
  discarded => \E n \in DOMAIN lens : lens[n] + 1 > BUF_SZ - 1
=============================================================================
