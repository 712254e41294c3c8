# RqRouteDemo in TLA+

RqRouteDemo streams a video over UDP. The *sender* cuts nothing itself: a script
has cut the film into segment files listed in a playlist, and the sender
transmits them one by one, each as a RaptorQ block of source and repair symbols,
in real time. The *receiver* collects symbols into segments and writes each
segment, decoded where symbols were lost, to a FIFO from which a video player
reads. A GUI starts the three processes and changes loss and redundancy while
they run. This directory models the transmission and reception path, the GUI's
control of the processes and the helpers both ends rest on, and states what
makes them correct. All paths below are relative to the repository, whose
root is `src/`.

Contents: [inventory](#inventory) · [modules](#modules-and-the-code) ·
[hard behaviours](#what-is-hard-in-this-code) · [runs](#the-runs) ·
[bounds](#bounds) · [fairness](#fairness) · [findings](#where-code-and-text-disagree) ·
[proofs](#what-is-proved) · [limits](#what-is-not-modelled) · [plan](#plan)

## Inventory

| component | state | operations | correct means |
|---|---|---|---|
| **receiver event loop** `receiver/receiver.c` | `out_fd`, `started`, `start_time`, `write_ok`, `recv_file_nbr`, `ready_fd`, the loop's position | one of four tasks per turn of `receive_write()`: receive a packet, write some, start writing at the deadline, signal readiness | segments leave in order, whole, after the deadline; writing that can go on does go on; no assertion fails |
| **segment window** `receiver/segstateset.c` | ring of 4 slots, index of the first, lowest file number | get, mark initialised, mark ready to write, advance | a slot in use holds the file its place stands for |
| **segment** `receiver/segstate.c` | mode, code block, output buffer and offset | init, add packet, ready, prepare output, write more, free | modes only go forward; exactly `file_len` bytes are written |
| **code block** `receiver/codeblockstate.c` | symbols, array and hash table of ESIs | add a symbol, get the data | no symbol twice, none past capacity, data from the symbols |
| **coding parameters** `utils/param_deriv.c` | none | size -> number of blocks and symbols | both ends compute the same |
| **packet header** `utils/packet_header.h` | none | layout | a symbol is identified by its header |
| **sender** `sender/sender.c` | file number, accumulated duration, overhead | transmit a file, wait for its playout, next file | all symbols of a file, before those of the next |
| **UDP sender** `sender/udp.c` | drop probability, speed, burst counter and start | send with loss on purpose and throttling | speed is limited whatever the sequence of calls |
| **command line** `sender/cli.c` | line buffer | read a line, run it | complete lines are executed, once, in order |
| **GUI** `gui/demo_gui.py` | three child processes, ready pipe, sliders and their button | start, restart, terminate, move, switch | sender starts after its receiver; starts do not mix; the sender knows the sliders; nothing waits for ever |
| **load monitor** `gui/load_monitor.py` | window of CPU samples | sample, average | average of the window |
| **codec memory** `utils/rq_memblocks.c` | five blocks and their sizes, recorded limits | include a case, free | memory is enough for every case included |
| **time** `utils/timeutil.c` | none | difference, addition, conversion | the result is a normalised `timespec` |
| **playlists** `utils/m3u8.c`, `receiver/segment_list.c` | file position; growing list | next entry; read all | one entry per segment, in order |
| **descriptors** `utils/fd_ops.c` | none | set `O_NONBLOCK` | - |
| **scripts** `segmenter/*.sh`, `receiver/mk_seg_recv.sh` | none | prepare segments and FIFOs | - |
| **dummy receiver** `test/dummy_recv` | none | print a dot per datagram | - |

Interactions:

    GUI --command lines--> sender (cli) --udp_sendmsg()--> network
     ^  \                                                     |
     |   `-- starts / kills --> receiver <-- socket buffer ---'
     |                            |   |
     `------- ready pipe ---------'   `--open()/write() on FIFOs--> player

The receiver is one process and one thread; inside it `receive_write()` calls
`task_start_write()` and `task_write()`, these call `segstateset_*`, which holds
`segstate`s, each of which holds a `codeblockstate`. The concurrency is between
processes: packets arrive while the receiver is anywhere, most of all while it
waits inside `open()` of a FIFO for the player to open the other end.

## Modules and the code

| module | models | state and actions |
|---|---|---|
| `Coding` | `packet_header.h`, `param_deriv.c`, the symbol set of `codeblockstate.c` | operators only: packets, `SymbolId`, `AddSymbol`, `Reconstructions` |
| `SegState` | `segstate.c` | a segment is a record; each C function is a function on it |
| `SegStateSet` | `segstateset.c` | the ring is a record with the fields of the C structure; each C function is a function on it |
| `Receiver` | `receiver.c` | variables are the locals of `receive_write()`, the socket buffer, and history; one action per task and outcome |
| `Reassembly` | abstract specification of the receiver | open segments as a map, `newest`, `output`; actions `Admit`, `Accept`, `Emit` |
| `Sender` | `sender.c`, `udp_sendmsg()`, effects of `cli.c` | position in the playlist and in the file, parameters; a send is an action |
| `RouteDemo` | sender, network and receiver | the composition; `Fifo` chooses loopback or a network between machines |
| `TimedSender` | pacing of `send_segments()`, throttle of `udp_sendmsg()` | the clock, `dur_accum`, the burst counter and its start; sends, sleeps, each turn of the wait (`PlayedOut` or `Select`, `ServeCommand` or `SelectReturns`), commands and ticks |
| `CodeBlock` | `codeblockstate.c` | array, counter and hash table; one action per turn of the probe loop, one for reading the block |
| `SymbolSet` | abstract specification of `CodeBlock` | the set of symbols, as `SegState` uses it |
| `Cli` | line buffer of `cli.c` | the pipe and how much of it has arrived, the buffer; one action per `read()` and per line |
| `MemBlocks` | `rq_memblocks.c` | sizes, pointers and limits as in the structure, and the heap; one action per function |
| `Playlist` | `m3u8.c`, `segment_list.c`, the list made by `segment.sh` | two readers of the two files; one action per `fgets()` |
| `ParamDeriv` | `param_deriv.c`, `get_file_size()`, the size in the header | the size on its way, in machine integers; one action per derivation |
| `TimeUtil` | `timeutil.c` | the deadline and the timeout; one action per call |
| `Gui` | `demo_gui.py` | the line `start_subprocesses()` or `terminate_subprocesses()` is at, the sliders, the children of each start and the port |
| `LoadMonitor` | `load_monitor.py` | the window of samples; one action per method |
| `Parts` | the nine parts that are looked at one at a time | an instance of each module, with constants and variables of its own, and its properties under their names |
| `MCReceiver`, `MCRouteDemo`, `MCTimedSender` | instances for TLC | file sizes and durations |
| `MCParts` | `Parts` for TLC | values of its constants; the part that runs |
| `SegStateSetProofs` | lemmas about the ring | - |
| `ReceiverProofs`, `ReassemblyProofs` | theorems about `Receiver`: its invariants; life of a segment and refinement | - |
| `RouteDemoProofs` | theorems about `RouteDemo` | - |
| `SenderProofs` | theorems about `Sender`, `Cli` and `TimedSender` | - |
| `CodeBlockProofs` | theorems about `CodeBlock` | - |
| `PartsProofs` | theorems about the other five parts of `Parts`, and induction over naturals | - |
| `GuiProofs` | theorems about `Gui` | - |

`RouteDemo` extends `Receiver` and instantiates `Sender`; `Receiver` extends `SegStateSet`,
`SegState` and `Coding`, and instantiates `Reassembly` with a refinement mapping.
`CodeBlock` instantiates `SymbolSet`, whose operators `AddSymbol` and
`Reconstructions` are those of `Coding`: the receiver is checked with a set of symbols
for a code block, and the code block is checked to be that set. `Cli` stands beside
`Sender`: it says which lines are executed, `Sender` what a command does.
`TimedSender` instantiates `Sender`: with its clock hidden it is one of the
behaviours `Sender` has (`OnlyDelays`), so that `RouteDemo` need not know the time.
`ParamDeriv` instantiates `Coding`, whose operators have unbounded integers and one
block, and is checked to come to the same numbers for the size that was taken, or to
refuse it (`SentWhole`).

`MCParts` is one run for `Sender`, `TimedSender`, `Cli`, `CodeBlock`, `MemBlocks`,
`Playlist`, `ParamDeriv`, `TimeUtil` and `LoadMonitor`. They share no state, and
where they meet another part of the system that is a matter of `RouteDemo`: a
behaviour of `MCParts` is one of a single part, chosen at the beginning, and the
others stay as they are. The instances and the names of their properties are in
`Parts`, which the proofs extend: what they prove is of each part by itself
(`Line!Spec`, `Mem!Spec`), of which `MCParts` runs a small instance.

How the code becomes actions:

* **Structures are values.** `segstateset` and `segstate` are records and their
  functions are pure. A handler that makes several calls (initialise a segment,
  mark it, mark the older ones, start writing, add the packet) chains them in one
  action, so no call of it can be left out.
* **A turn of the loop is one action**, because only the socket buffer changes
  while a handler runs, and the handlers do not look at it. The exception is
  `open()`, which blocks on a FIFO. A handler that opens a file stops at
  `pc = "open"`, with the packet it was handling in `pending` (`receiver.c:299`
  is inside the packet handler), and `OpenReturns` or `OpenFails` finish it.
* **Priorities** are those of the code: the ready descriptor before the socket,
  the socket before the output (`receiver.c:219`, `253`), and the timeout only
  with an empty socket.
* **`assert` is a state.** The build defines no `NDEBUG`, so the assertions of
  `segstate_add_packet()` are checked and their failure is `pc = "abort"`. The
  other assertions of the write path are part of the invariant `OneWriter`.
* **Uninitialised memory**: `FD_ISSET(ready_fd, &wfds)` reads a zeroed set where
  the descriptor is not watched, and the slot behind `segstateset_get()` is only
  read after its status is tested; neither leaves a choice.
* **Bytes are symbols.** A segment is the set of the ESIs received for it. What
  leaves is a set of source symbols that are right in the buffer (the others are
  zero) and a number of bytes.
* **Time** is not in `Receiver` and `Sender`: the deadline may pass at any moment
  after the first packet, and pacing and throttling only delay the next action of
  the sender. `TimedSender` has a clock that advances by ticks while the sender
  sleeps or waits, and for a bounded number of ticks while it computes; a sleep ends
  at its time or later. `pselect()` may return before its time, with or without input,
  and the loop around it reads the clock again.
* **The pipe of the command line** gives what it has in pieces: any part of what was
  written may have arrived (`Arrive`), and a `read()` returns any number of characters
  that have arrived and for which there is room. A piece of a line so stays in the
  buffer from one poll to the next. A character is known by its line and its place.
* **The window's program is its main thread**: a callback runs from beginning to
  end, except where it waits, for the ready byte (`os.read()`) or for a child
  (`wait()`). A start is a generation; children of old ones may still live. An
  exception ends the callback it is in (Tk reports it) with the effects so far, and
  the first start, which is not in a callback, ends the program.
* **A child** runs, has a signal pending, or is dead. `terminate()` of a dead child
  does nothing, a child in `Slow` may ignore SIGTERM for longer than the 0.1 s
  waited for, and a killed one dies later. The receiver binds its port and signals,
  or leaves if the port is taken.
* **Machine integers** wrap: `ParamDeriv` has a parameter for `INT_MAX`.
* **Floating point** is a choice: where a number next to a whole nanosecond may come
  out on either side, `TimeUtil` takes both.

`output`, `open_failed` (in `Receiver`), `taken` (in `RouteDemo`) and the variables
marked so in the other modules are history; no guard reads them, except for bounds.

## What is hard in this code

PROJECT.json lists every hazard at its line. The ones the core is built around:

1. *Order between files.* The first packet of a later file closes all older ones
   for good (`receiver.c:297`), and a packet for a closed segment is an assertion
   failure (`segstate.c:67`). Whether it can come depends on the network and on the sender's order
   (`StreamOrder`, `NoAbort`, `OlderAreClosed`, each network apart).
2. *Lost wake-ups.* Writing is started from three places only. Each combination
   of "became ready" and "became allowed" must end in one of them (`NoMissedStart`,
   `SegmentPlayed`).
3. *Slots used again.* The ring index is computed from two fields that move
   together (`RingConsistent`, `Reassembles`).
4. *A blocking call inside a handler* that holds a pointer into the ring.
5. *Failures that look like success*: a failing `write()` finishes the segment, a
   failing `open()` leaves it ready, to be tried again with the next newer file
   (`NoMissedStart`).
6. *What never happens*: no later file closes the last segment, and nothing passes
   an empty one (`PlayoutEnds`, `EmptySegmentPassed`).
7. *Counters that outlive what they count*: the throttle's burst goes on over files,
   pauses and changes of the speed, and its start is read at its first message only
   (`RateBounded`); the playout clock adds up over files (`Paced`).
8. *Children of several starts*, one dying while the next is started, with a pipe
   whose other end may never be written (`SenderAfterReady`, `OneStream`,
   `ReadyOrDead`, `OldOnesDie`).
9. *State that two programs must agree on without talking about it*: file numbers
   (`SameNumbering`), coding parameters (`SameParams`), slider positions (`InStep`).
10. *Lines that come in pieces*, over several calls and polls, into one static buffer
    that is thrown away when it is full (`EveryCharacterOnce`, `CommandsInOrder`,
    `ExitsAtEnd`).
11. *Sizes at the limits* of integers and buffers (`SentWhole`, `SameNumbering`,
    `EveryCaseFits`, `Normalised`).

## The runs

| run | cfg | shows |
|---|---|---|
| `receiver` | `MCReceiver.cfg` | `Receiver` alone, packets in any order, any number of times; partial and failing writes, failing opens, the loop failing. Type and ring invariants, one writer, no missed start, deadline, the life of a segment (`SegmentLifecycle`), and that it implements `Reassembly` (`Reassembles`) |
| `demo` | `MCRouteDemo.cfg` | sender, loopback and receiver with all failures: it is a case of `Receiver` (`ImplementsReceiver`), no assertion fails (`NoAbort`), and older segments are closed (`OlderAreClosed`) |
| `demo_live` | `MCRouteDemoLive.cfg` | under fairness a segment is played once it, all before it and its successor have been seen |
| `demo_udp` | `MCRouteDemoUdp.cfg` | over a network that reorders and duplicates, what is played was received or decoded from enough packets (`NothingInvented`) |
| `parts` | `MCParts.cfg` | nine parts, each alone; see below |
| `gui` | `Gui.cfg` | starts, restarts, failing starts, dying children, sliders: a sender is started after its own receiver has bound its port (`SenderAfterReady`), a bound receiver never hears an older sender (`OneStream`), a sender knows the sliders (`InStep`), children of older starts die (`OldOnesDie`), and only a dead receiver keeps the window waiting (`ReadyOrDead`) |
| `cli_short` | `CliShort.cfg` | **violated**: short lines are thrown away |
| `timed_late` | `MCTimedSenderLate.cfg` | **violated**: a late sender does not read its commands |
| `gui_hang` | `GuiHang.cfg` | **violated**: the window waits for ever for a receiver that found its port taken |
| `demo_end` | `MCRouteDemoEnd.cfg` | **violated**: the receiver does not finish |
| `demo_empty` | `MCRouteDemoEmpty.cfg` | **violated**: an empty segment is not passed over |
| `demo_reorder` | `MCRouteDemoReorder.cfg` | **violated** without `Fifo`: the receiver aborts |

The run `parts` shows, part by part:

* `Sender`: files and symbols are sent in order and once through drops and changes of
  parameters (`StreamOrder`, what `NoAbort` rests on), and it comes to its end
  (`TransmissionEnds`).
* `TimedSender`: over any interval in which the speed is not changed, no more is sent
  than the rate and two bursts allow, however long the sender was idle before
  (`RateBounded`; one burst is not enough, since the one under way at the beginning of
  the interval may have a start that lies far back); files begin when those before
  are played out, never earlier though `pselect()` ends early or a command comes, and a
  delay is made up (`Paced`); and all of this only delays (`OnlyDelays`).
* `Cli`: wherever `read()` cuts the lines, what left the buffer, what is in it and what
  is in the pipe is the input, each character once and in order (`EveryCharacterOnce`);
  a command is the end of one line and never parts of two, in order and once, also after
  a discard in the middle of a line, and a whole line when nothing was discarded
  (`CommandsInOrder`); the program leaves only at the end of its input (`ExitsAtEnd`).
* `CodeBlock`: hash table, array and counter implement `SymbolSet`
  (`ImplementsSymbolSet`, `TableMatchesArray`); duplicates are found because no probe
  path has a hole (`ProbeFinds`); the probe loop ends (`ProbeEnds`).
* `MemBlocks`: after cases in any order the memory is enough for all of them
  (`EveryCaseFits`), and blocks and heap correspond (`HeapExact`).
* `Playlist`: sender and receiver number the same segments alike, though they read
  different files by different functions (`SameNumbering`), a segment is paced by its
  own duration (`OwnDuration`).
* `ParamDeriv`: what is sent is one block with as many bytes as the length of the file
  modulo 2^32, so the whole of any file below 2^32, and nothing that came of a sum that
  overflowed (`SentWhole`); the receiver derives what the sender did (`SameParams`).
* `TimeUtil`: a timespec stays normalised for delays of any sign and fraction
  (`Normalised`), and exact to a nanosecond per addition (`Accurate`).
* `LoadMonitor`: the average is over a full window however irregular the samples,
  which do not pile up (`WindowIsFull`), and of one process (`LoadIsSound`).

`Reassembles` is the strongest property. `Reassembly` knows no slots, modes,
descriptors or deadlines; it says that packets fill open segments, and that
segments leave in playlist order, none skipped or repeated, only after a later one
was seen, and as a reconstruction of *all* symbols accepted for them. A symbol
accepted after the output was decided, a slot given to two files, a segment cut
short without a failure, a padded tail or a wrong order all violate it. The `demo`
runs show that the real sender produces only packets `Receiver` was checked
against, so that everything shown of `Receiver` holds in the composition.

Deadlock checking is off in all runs because the system stops by design: the
receiver returns or aborts, the sender exits at the end of the list, the window
is closed, and the helpers come to the end of their input or of their bounds.

### Bounds

| constant | code | runs | why enough |
|---|---|---|---|
| `PD_T` | 1024 | 2 | a symbol with an inside; sizes 3, 2, 1 end within a symbol, at its end, below one. It is shared by all parts of `Parts` |
| `SEGSTATE_SET_N` | 4 | 3 (`receiver`, `demo_live`), 2 (others) | a third file may be ready while the first is written; with 4 files a ring of 3 turns past its end; a file too far ahead is rejected |
| `ESI_SLACK` | 30 | 0, 1 | full blocks happen, with and without room for a repair symbol |
| `NFiles`, `NSegments` | any | 4 and 3 (`receiver`); 3; 2 (`demo_udp`) | the playlist may end before or with the transmission |
| `MAX_REPAIR` | any | 1 | decoding with and without enough symbols; a repair symbol whose offset equals a source symbol's |
| `SOCK_CAP`, `NET_CAP` | system | 1 or 2 (10 for `Sender` alone: all packets) | full and empty buffer; overtaking needs two datagrams in flight |
| `TOI_MOD` | 65536 | 4 | `NFiles <= TOI_MOD` is assumed; the wrap itself is excluded (see below) |
| `BLOCK_K`, `H_MULT`, `Ids` | any, 29, any | 2, 5, six | a table of ten entries that the multiplier makes eleven; identifiers with the same home, with homes in a row, and a path over the end of the table; the block fills up |
| `BUF_SZ`, `CMD_SZ`, `Lengths` | 256, 80, any | 7, 4, {0, 2, 4, 7} | lines that are empty, fit, are cut for the caller, and do not fit the buffer; with `MAX_LINES = 3` one line is in pieces in the buffer while others lie in the pipe, and lines follow one that was discarded |
| `Overheads` | any | {0, 50} % (and 100 for `Sender` alone) | with and without repair symbols, changed between files |
| `HEADER`, `BURST`, `Speeds` | 12, 32768, any | 1, 4, {0, 1, 3} | a burst is complete after one message or after several, and past its limit by some bytes; no throttle, one slower and one faster than the playout |
| `MAX_BUSY`, `MAX_CMDS` | - | 1 and 1 (0 and 2 in `timed_late`) | a tick may pass between any two steps; the speed is changed once at any moment |
| `MAX_CALLS`, `Cases` | any | 4, twelve | cases that are larger in one need and smaller in another, in every order |
| `BUF`, `ARR`, `LIST_LINES` of `Playlist` | 40, 16, any | 4, 1, 3 | lines shorter than the buffer, that fill it, that leave the newline for the next call, and that take three calls; the array grows twice |
| `PD_MAX_K`, `INT_MAX`, `MAX_LEN` of `ParamDeriv` | 50000, 2^31 - 1, any | 6, 127, 300 | every length: within the block, with several blocks, where the sum overflows, where the size is negative, and beyond the length at which it comes back to 1 and passes again |
| `NS`, `SUB`, `START_TIMES`, `Delays` | 10^9, -, any, any | 5, 3, 0..14, -18..31 | every nanosecond of three seconds, with fractions below, between and next to whole ones; two delays from below -1 s to above 2 s |
| `win_sz`, `Steps`, `MAX_TIME` of `LoadMonitor` | 5, any, any | 3, {1, 2, 5}, 10 | samples on time, late, and later than the window |
| `MAX_GEN`, `FD_MAX` | any, about 1000 | 3, 3 (2, 3 in `gui_hang`) | a third start with two old ones alive; a pipe takes two descriptors and leaves one, so that none are left for the third |
| `Slow` | any | {"mpv"} (all in `gui_hang`) | receiver and sender die of SIGTERM at once, as they have no handler; a busy machine may delay that too |
| `Positions`, `SAVED` | -, 0.25 | {0, 1}, 1 | off, and moved |

The proofs hold for all values, so the small ring and the few files are no
restriction for the properties they cover, which are all of the passing runs but
for the five about liveness.

### Fairness

`FairSpec` has weak fairness on the step of each process and of the network: the
operating system runs both programs, and a datagram in flight is delivered or lost
sooner or later. It includes that `open()` and `write()` return, which the code
takes from the player, which reads the playlist from beginning to end. Nothing
asks that the deadline passes before more packets come: `TaskStartWrite` waits for
an empty socket, and that the socket is empty at times follows from the sender,
which sends finitely many packets.  For `Sender` alone
`FairSpec` asks that it goes on sending and that the playout time of a file passes
although commands come: `send_segments()` reads the clock again after each round of
commands (`sender.c:265-287`). `CodeBlock` asks that its loop runs once entered. `Cli`
has no liveness property: commands are read only while the sender waits between files,
and one that is always late never waits (`timed_late`). In `Gui` the program goes on
where it does not wait, a receiver that lives binds its port or leaves, and a child
that was killed dies, as does a receiver or sender that got SIGTERM, for which they
have no handler; a player may ignore SIGTERM for ever. Nothing is asked of the user.
`demo_live` and the two liveness findings run
with `IOErrors = FALSE`: a failing `open()` is retried only when a newer file
comes, and the loop may give up altogether, so that no liveness holds with failures.

### Where code and text disagree

* **The loop does not end** (`demo_end`). `receive_write()` prints "Done." when the
  window has passed the last segment (`receiver.c:134-139`). A segment is only made
  ready by the first packet of a *later* file, and no file follows the last one:
  both playlists come from one list (`segmenter/segment.sh:17`). The last segment is
  received, never written, and the receiver waits for ever.
* **An empty segment blocks the output** (`demo_empty`). `task_start_write()` has a
  branch for a segment of which no packet came, with the comment that says so
  (`receiver.c:50-59`), which moves the window on. The early return at line 33 leaves
  for that very status. After it the window stands still and later files are rejected
  as "too far in future".
* **A late datagram aborts the receiver** (`demo_reorder`). Over the loopback this
  cannot happen (`NoAbort` in `demo`); between two machines (`README.txt`, step 6)
  UDP may let the first packet of a file overtake the last one of the file before.

* **Short commands are discarded as long ones** (`cli_short`). A buffer that is full
  after a `read()` is thrown away as a "Line longer than supported" (`cli.c:53-60`)
  without a look for newlines: a few slider movements while a file is in transmission
  fill 255 bytes, complete commands are lost, and the tail of a cut one is executed.
* **A late sender is deaf** (`timed_late`). The loop that waits between files leaves
  before it looks at its input when the playout time is over already
  (`sender.c:267-270`). A sender throttled below the rate of the film is late after
  every file, and never reads the command that would raise the speed, nor `exit`.
* **The window may wait for ever** (`gui_hang`). A killed child is not waited for
  (`demo_gui.py:22-23`); if the old receiver still holds its port, the new one leaves
  without a signal, and `os.read()` sees no end of file because this process has the
  write end open itself (`demo_gui.py:246-267`). A receiver that finds no playlist
  has the same effect.

Seen while modelling, without a run of their own:

* With `AllocErrors = TRUE`, `EveryCaseFits` fails: `malloc()` is not tested, and a
  size is recorded without memory (`rq_memblocks.c:55-56`). The "limits" recorded
  are those of the last case (line 70), while the memory is that of all.
* Each start leaves the write end of its ready pipe open (`demo_gui.py:246`), and one
  that fails before line 268 the read end too; when a start fails for that or another reason, the processes are `None`, and every callback
  that signals them raises, `on_close()` too.
* After the sender has ended, the on/off button raises `BrokenPipeError` before it
  writes its label (`demo_gui.py:211-213`), and a restart does not write it either.
* The length of a file is cut to 32 bits (`sender.c:35`). A cut size that is positive and
  fits into a block passes the assertions: of a file of 2^32 + 1 bytes one byte is sent,
  without a word. `SentWhole` has these files.
* A failing `write()` looks like the end of a segment (`segstate.c:145-148`), and a decoder
  that fails leaves a cleared buffer to be written (`codeblockstate.c:156`). `Reassembly`
  allows both.
* The rest of a line longer than 39 characters is taken for a line of its own
  (`m3u8.c:15`), also of a comment; and the path buffer (`sender.c:226`) has no room
  for both the slash and 40 characters.
* One sample is removed per call (`load_monitor.py:32`), so that after a gap the
  average goes on over it; two samples at the same time would divide by zero.
* Pacing is by `CLOCK_REALTIME`: a clock that is set back holds the sender up.
* `udp.c:19` speaks of packets where bytes are counted; `sender.c:188` says "modulo
  65535" of a mask with 65535.

## What is proved

Every invariant, action property and refinement that a passing run checks is also a
theorem: of `Receiver!Spec`, of `DemoSpec`, of the `Spec` of `Gui`, and of the `Spec` of
each part in `Parts`. The theorems hold for **every** value of the constants that
satisfies the named assumptions of the modules, for packets, commands, failures and
inputs in any order and number; TLC evaluates the assumptions in the runs. What is
left to TLC is liveness (below).

| module | theorem | property | needs, beside the assumptions |
|---|---|---|---|
| `ReceiverProofs` | `TypeCorrect` | `TypeOK` | |
| | `Invariance` | `Inv`, inductive | |
| | `RingStaysConsistent` | `RingConsistent` | |
| | `WriterIsUnique` | `OneWriter` | |
| | `NoStartIsMissed` | `NoMissedStart` | |
| | `ClosedStaysBelowNewest` | `ClosedBelowNewest` | |
| | `DeadlineIsKept` | `WriteAfterDeadline` | |
| `ReassemblyProofs` | `OutputInvariance` | `OutInv`, inductive | |
| | `SegmentsGoForward` | `SegmentLifecycle` (action property) | |
| | `ReceiverReassembles` | `Reassembles` (refinement) | |
| `RouteDemoProofs` | `DemoImplementsReceiver` | `ImplementsReceiver` (refinement) | |
| | `DemoReassembles` | `Reassembles` of the whole demo | |
| | `OrderInvariance` | `OrderInv`, inductive | `Fifo` |
| | `ReceiverNeverAborts` | `NoAbort` | `Fifo` |
| | `OlderStayReady` | `OlderAreClosed` | `Fifo` |
| | `NothingIsInvented` | `NothingInvented` | |
| `SenderProofs` | `StreamIsOrdered` | `StreamOrder` | |
| | `CliInvariance` | `CliInv`, inductive | |
| | `NothingIsLost` | `EveryCharacterOnce` | |
| | `CommandsStayInOrder` | `CommandsInOrder` | |
| | `SenderExitsAtEnd` | `ExitsAtEnd` | |
| | `TimedInvariance` | `TimedInv`, inductive | |
| | `RateIsBounded` | `RateBounded` | |
| | `FilesArePaced` | `Paced` | |
| | `ClockOnlyDelays` | `OnlyDelays` (refinement) | |
| `CodeBlockProofs` | `CodeInvariance` | `CodeInv`, inductive | |
| | `ProbesFind` | `ProbeFinds` | |
| | `TableAndArrayAgree` | `TableMatchesArray` | |
| | `BlockIsSymbolSet` | `ImplementsSymbolSet` (refinement) | |
| `GuiProofs` | `GuiInvariance` | `GuiInv`, inductive | |
| | `ReceiverIsReadyFirst` | `SenderAfterReady` | |
| | `SlidersInStep` | `InStep` | |
| | `OneStreamAtATime` | `OneStream` | `"sender" \notin Slow` |
| `PartsProofs` | `LoadOverWindow`, `LoadOfOneProcess` | `WindowIsFull`, `LoadIsSound` | |
| | `TimespecsAreNormalised`, `TimesAreAccurate` | `Normalised`, `Accurate` | |
| | `SentIsWhole`, `ParametersAgree` | `SentWhole`, `SameParams` | |
| | `HeapIsExact` | `HeapExact` | |
| | `MemoryIsEnough` | `EveryCaseFits` | `~AllocErrors` |
| | `ListInvariance` | `ListInv`, inductive | `InfFits` |
| | `NumbersAreTheSame` | `SameNumbering` | `InfFits` |
| | `DurationsAreOwn` | `OwnDuration` | `InfFits` |

### Assumptions and hypotheses

The named assumptions say that sizes are positive, sets are sets of numbers, and
switches are Boolean. Those that say more:

* `ReceiverAssumption`: a non-empty playlist, at most one file more than the playlist
  has names for, no file of size 0 (the sender refuses one at `sender.c:56`).
* `RouteAssumption` and `PartsAssumption`: `NFiles <= TOI_MOD` (see
  [limits](#what-is-not-modelled)), and `MAX_REPAIR` is at least what the sender sends.
* `ParamAssumption`: the largest block and the sums over it are integers
  (`PD_T * PD_MAX_K + PD_T - 1 <= INT_MAX`: 51 millions for the code's 1024 and 50000).
* `CliAssumption`, `PlaylistAssumption`: buffers of two bytes or more.

The hypotheses in the table are cases that are looked at apart. `Fifo` is the
loopback; without it `NoAbort` is false (`demo_reorder`). `"sender" \notin Slow` says
that a sender, which handles no signal, dies within the time waited for it.
`~AllocErrors`: `malloc()` does not fail; otherwise `EveryCaseFits` is false.
`InfFits`: a line with a duration fits the buffer, as those of `segment.sh` do; the
rest of a longer one is taken for the name of a segment. The runs satisfy each of
them: `demo` the first, `gui` the second, `parts` the others.

### Arguments

Hardly any of the properties is inductive by itself; what each needs is this.

*Receiver.* That no slot is shared depends on modes and on the descriptor, and the
descriptor on the slot. `SegStateSetProofs` removes the ring: `InternalIndex` maps the
window one-to-one onto the slots (`IndexInWindow`, `IndexInjective`, `IndexOnto`), and
each operation of `segstateset.c` is stated as what it does to the *map* from file
numbers to segments. A write through the pointer changes one file (`PutSlotMap`),
advancing the window drops its first file and leaves every other with the same segment
though indices wrap (`IncMap`), marking is per file (`MarkReadyMap`,
`MarkInitializedMap`). `Inv` is about that map: a segment is in its place with its own
size; the descriptor, the mode `WRITING` and the position of the window agree; a segment
not being written has no descriptor (what the assertion of `segstate_prepare_output()`
needs); a closed one is below `recv_file_nbr`; and writing that may start has started,
unless its `open()` failed and no newer file has come since.

*Refinement.* `OutInv` adds that a buffer that is being written is a reconstruction of the
symbols the segment was closed with, and that as many segments have left as the window
has moved. Every step of `Receiver` is then of one of three kinds (lemma `StepIsOfAKind`):
no segment comes or goes, one is admitted, or one leaves; and a step of each kind is a
step of `Reassembly` or changes nothing of it.

*Demo.* The packets on the network are packets of files of the playlist, which makes the
demo a case of `Receiver`. `OrderInv`: network, socket buffer and the packet that waits
while `open()` blocks are, in this order from the newest, sorted by file; nothing in them
is older than the newest file seen. A packet for a closed segment would be.
`TakenInv`, for `NothingInvented`: the symbols of a segment are among those of the
packets the handler has taken, and the datagram that waits in the handler is one.

*Sender.* The stream's order follows when the last packet sent is known to be below
the next one. `CliInv` speaks of sequences of characters that know their line and place:
what left the buffer, the buffer and the pipe are the input (`EveryCharacterOnce`); what is
unread goes on from character to character of one line, and from the newline to the next
line (`Lined`); and every command came from a line before it. The first newline of the
buffer then ends the line that the buffer begins in, wherever in it, and the characters
before it are an end of that line. A text is a concatenation (`FlattenSeq`, a recursive
function that is first proved to be one).

*Throttle.* `TimedInv` bounds the bytes sent since the observation began by where they
belong (`Counted`): to the burst that was under way then; or to that burst, others that
have had their time, and the burst under way now; or to bursts that all have had their
time. Each of the first two cases becomes the third with the sleep at its end. For the
pacing, `dur_accum` is the playout time of the files before; a wait is not counted as
computing, and a turn of it that is served early leads back to the clock.

*Hash table.* `CodeInv`: the entries in use are the symbols of the array, one each; no
probe path from the home of a symbol to its place passes an empty entry; the entries
the loop has left are other symbols. A new symbol fills an entry that was empty, so that
it breaks no path.

*GUI.* `GuiInv` relates the line a callback is at to the children of the generation being
started, to the handles and to what was signalled; `StreamInv` says that senders of older
generations are dead and that a port signalled by a receiver is its own or free.

*Playlists.* A *reading* of the list is the places and the entries of a reader after each
call of `fgets()`, from the beginning; it is the same for both programs. `ListInv`: the sender
has made one over `list.m3u8`; what the receiver has made over the list without `#EXTINF` lines
becomes one over `list.m3u8` when its places are translated, because the lines left out
return no entry. Two readings of one list agree as far as both go (`SameNumbering`).
`DurationInv`: the duration in the variable is that of the last such line passed.

*The others.* `LoadInv`: any two samples are at least as many seconds apart as there are
steps between them, and the process was on the processor for no more than that; so the
window neither outgrows its size nor is cut short. `TimeInv` bounds the error of the sum
after each addition; a carry is proved for every sign. `ParamInv` follows the size
through the sender, the header and the receiver: what is positive after it was cut is the
rest of the length modulo 2^32 (`IntFacts`), and what passes the assertions fits into a
block (`PassFacts`). `MemInv`: pointers are distinct, the heap is what they point to, and each size
is at least what any case so far needs.

### How induction is done

The library's induction rules take an operator and are beyond the provers installed, and
recursive operators as well. What had to be shown of recursive functions
(`PlayoutBefore`, `Kept`, `FlattenSeq`) or along a list is shown by a least counterexample:
`LeastNatural` follows from the library's well-foundedness of `<`, and `UpTo` says that a
*set* closed under successors has all the numbers up to a bound. A function is shown to
exist up to a number, that any two agree, and hence that `CHOOSE` takes it.

### Only model-checked

Liveness, which is beyond this prover, as is `ENABLED`: `SegmentPlayed`, `TransmissionEnds`,
`ProbeEnds`, `ReadyOrDead`, `OldOnesDie`. The six findings are counterexamples, and TLC
shows them.

## What is not modelled

* **Contents of symbols**: a symbol stands for its bytes, and the zeros that pad a short
  one are those of the sender's block. `sym_id * H_MULT` does not overflow: an offset
  of 32 bits leaves identifiers below 2^22 plus 50000.
* **The RaptorQ library** is external: it reconstructs a block, finds the symbols
  insufficient, or fails.
* **The player** is the reason why `open()` blocks and `write()` is partial. A player
  that closes its end (`SIGPIPE`) ends the process; that is `LoopFails` at most.
* **Several code blocks**: `param_deriv.c:34` makes one, `segstate.c:65` asserts it.
* **Bytes of the header**: order and widths, except the 16 bits of `toi`.
* **Overhead** is a percentage, where the code takes the ceiling of a floating-point
  product.
* **File numbers past 65536**: the receiver takes the 16 bits for the number itself,
  so that every packet after the wrap is below its window. `RouteDemo` assumes
  `NFiles <= TOI_MOD`; a wrap within the few files of an instance would collide with
  a window that the code has left behind long before.
* **Addresses and layout**: buffers are modelled by what fits, not by where it lies.
  The widgets of the window are its sliders, its button and its label.
* **Options, sockets and descriptors**: `main()` of both programs, `udp_new()` and
  `fd_ops.c` set up what the models begin with. `RqMemBlocksInit()` is not called.
* The scripts (but for the line that makes one list of the other) and the test tool
  have no behaviour over time.

## Plan

Done, in this order: `Coding`, `SegState`, `SegStateSet`, `Reassembly`, `Receiver`,
`Sender`, `RouteDemo`, the proofs of the receiver's invariants, `CodeBlock` with
`SymbolSet`, `Cli`, `TimedSender`, `Gui`, `MemBlocks`, `Playlist`, `ParamDeriv`,
`TimeUtil`, `LoadMonitor`; then the proofs, in the order `SegStateSetProofs`,
`ReceiverProofs`, `ReassemblyProofs`, `RouteDemoProofs`, `GuiProofs`, `CodeBlockProofs`,
`PartsProofs`, `SenderProofs`.

Proofs next:

1. What the liveness properties rest on and is safety: that each turn of the probe loop
   leaves an entry in use behind and none twice, so that `Probe` is taken at most as often
   as there are symbols (`ProbeEnds`); that a sender never goes back in its playlist
   (`TransmissionEnds`).
2. What the parts say together: a segment of which every source symbol was taken before a
   later file is played as it is (from `OutInv` and `TakenInv`).
3. Shorter proofs where two components need the same lemma about sequences.
