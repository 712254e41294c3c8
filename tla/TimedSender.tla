---------------------------- MODULE TimedSender -----------------------------
(***************************************************************************)
(* The sender against the clock: the pacing of send_segments() in          *)
(* sender/sender.c and the throttle of udp_sendmsg() in sender/udp.c.      *)
(*                                                                         *)
(* Speeds are in bytes per tick of the clock.  Sleeping is rounded up to a *)
(* tick.  A command sets the speed; repair packets, which are sent like    *)
(* the others, and drops, which are throttled like sends, are left out.    *)
(* Sender is the same program without a clock (see OnlyDelays).            *)
(***************************************************************************)
EXTENDS Coding, Sequences

CONSTANTS
  NFiles,      \* files of the playlist
  FileSize,    \* their sizes in bytes
  Duration,    \* their playout times in ticks
  HEADER,      \* sizeof(route_header)
  BURST,       \* bytes after which the throttle looks at the clock (32768)
  Speeds,      \* throttle speeds, 0 for none
  MAX_BUSY,    \* bound: ticks that computing takes
  MAX_CMDS     \* bound: commands given

Files == 0..(NFiles - 1)

TimedAssumption ==
  /\ NFiles \in Nat \ {0}
  /\ FileSize \in [Files -> Nat \ {0}] /\ Duration \in [Files -> Nat]
  /\ HEADER \in Nat \ {0} /\ BURST \in Nat \ {0}
  /\ Speeds \subseteq Nat
  /\ MAX_BUSY \in Nat /\ MAX_CMDS \in Nat

NoCmd == -1

VARIABLES
  clock,           \* time since t0
  busy,            \* ticks of it that passed while the program computed
  pc,              \* "xmit", "sleep" (in udp_sendmsg()), "wait" (about to read
                   \* the clock), "select" (in pselect()), "exit"
  file, next,      \* file_nbr and the packets of it already sent
  dur_accum,       \* playout time of the files sent
  speed,           \* throttle_speed
  throttle_nbytes, \* bytes of this burst
  throttle_start,  \* its start
  wake,            \* when the throttle's sleep ends
  cmd,             \* speed asked for on the command line and not yet read
  cmds,            \* commands given so far
  cmd_file,        \* file at which the last one was given (history)
  begun, sent,     \* times at which each file was begun and sent (history)
  watch, bytes     \* start of an observation, bytes sent since (history)

time == <<clock, busy>>
throttle == <<speed, throttle_nbytes, throttle_start, wake>>
commands == <<cmd, cmds, cmd_file>>
observed == <<watch, bytes>>
vars == <<time, pc, file, next, dur_accum, throttle, commands, begun, sent,
          observed>>

K(f) == KLarge(FileSize[f])

Init ==
  /\ clock = 0 /\ busy = 0 /\ pc = "xmit" /\ file = 0 /\ next = 0 /\ dur_accum = 0
  /\ speed \in Speeds
  /\ throttle_nbytes = 0 /\ throttle_start = 0 /\ wake = 0
  /\ cmd = NoCmd /\ cmds = 0 /\ cmd_file = 0
  /\ begun = <<0>> /\ sent = <<>>
  /\ watch = 0 /\ bytes = 0

-----------------------------------------------------------------------------
(* The throttle.                                                           *)

MsgSize(f, i) == HEADER + SourcePacket(f, FileSize[f], i).payload_size

\* Variant: the start of the first burst is kept.
StartKept == IF throttle_start = 0 THEN clock ELSE throttle_start
\* The start of the burst the next message belongs to.
BurstStart == IF throttle_nbytes = 0 THEN clock ELSE throttle_start

\* udp_sendmsg(): a burst that is complete sleeps for what it was too fast.
SendPacket ==
  LET size == MsgSize(file, next)
      burst == throttle_nbytes + size
  IN  /\ pc = "xmit" /\ next < K(file)
      /\ next' = next + 1
      /\ bytes' = bytes + size
      /\ IF speed = 0
         THEN UNCHANGED <<pc, throttle_nbytes, throttle_start, wake>>
         ELSE /\ throttle_start' = BurstStart
              /\ IF burst < BURST
                 THEN throttle_nbytes' = burst /\ UNCHANGED <<pc, wake>>
                 ELSE IF burst > speed * (clock - BurstStart)
                 THEN /\ throttle_nbytes' = burst
                      /\ wake' = BurstStart + CeilDiv(burst, speed)
                      /\ pc' = "sleep"
                 ELSE throttle_nbytes' = 0 /\ UNCHANGED <<pc, wake>>
      /\ UNCHANGED <<time, file, dur_accum, speed, commands, begun, sent,
                     watch>>

\* Variant: the message that completed the burst is sent after the sleep.
WakeSends ==
  /\ pc = "sleep" /\ clock >= wake
  /\ throttle_nbytes' = 0
  /\ pc' = "xmit"
  /\ next' = next - 1
  /\ UNCHANGED <<time, file, dur_accum, speed, throttle_start, wake,
                 commands, begun, sent, observed>>

Wake ==
  /\ pc = "sleep" /\ clock >= wake
  /\ throttle_nbytes' = 0
  /\ pc' = "xmit"
  /\ UNCHANGED <<time, file, next, dur_accum, speed, throttle_start, wake,
                 commands, begun, sent, observed>>

-----------------------------------------------------------------------------
(* Pacing.                                                                 *)

\* Variant: the playout time counts from the end of the transmission.
AccumFromNow == clock + Duration[file]
Accum == dur_accum + Duration[file]

FileSent ==
  /\ pc = "xmit" /\ next = K(file)
  /\ sent' = Append(sent, clock)
  /\ dur_accum' = Accum
  /\ pc' = "wait"
  /\ UNCHANGED <<time, file, next, throttle, commands, begun, observed>>

\* Variant: what pselect() waited for needs no second look.
PlayedOutOrWaited == pc = "select" \/ (pc = "wait" /\ clock >= dur_accum)
\* The clock says that the playout time of the files sent so far is over.
PlayedOut == pc = "wait" /\ clock >= dur_accum

\* The command line is not looked at.
NextFile ==
  /\ PlayedOut
  /\ file' = file + 1
  /\ next' = 0
  /\ IF file' = NFiles THEN pc' = "exit" /\ UNCHANGED begun
                       ELSE pc' = "xmit" /\ begun' = Append(begun, clock)
  /\ UNCHANGED <<time, dur_accum, throttle, commands, sent, observed>>

\* There is time left to wait.
Select ==
  /\ pc = "wait" /\ ~PlayedOut
  /\ pc' = "select"
  /\ UNCHANGED <<time, file, next, dur_accum, throttle, commands, begun, sent,
                 observed>>

\* pselect() reports input, which may have come while the clock was read, and
\* before or after the time it was to wait for.
ServeCommand ==
  /\ pc = "select" /\ cmd # NoCmd
  /\ pc' = "wait"
  /\ speed' = cmd
  /\ cmd' = NoCmd
  /\ watch' = clock /\ bytes' = 0
  /\ UNCHANGED <<time, file, next, dur_accum, throttle_nbytes, throttle_start,
                 wake, cmds, cmd_file, begun, sent>>

\* pselect() returns without input: at its timeout, or before (the timeout is
\* cut to nanoseconds, a signal ends the call).
SelectReturns ==
  /\ pc = "select" /\ cmd = NoCmd
  /\ pc' = "wait"
  /\ UNCHANGED <<time, file, next, dur_accum, throttle, commands, begun, sent,
                 observed>>

-----------------------------------------------------------------------------
(* User, observer and clock.                                               *)

GiveCommand ==
  /\ pc # "exit" /\ cmd = NoCmd /\ cmds < MAX_CMDS
  /\ cmd' \in Speeds
  /\ cmds' = cmds + 1
  /\ cmd_file' = file
  /\ UNCHANGED <<time, pc, file, next, dur_accum, throttle, begun, sent,
                 observed>>

\* Somebody begins to count bytes, at any moment.
StartWatching ==
  /\ watch < clock
  /\ watch' = clock /\ bytes' = 0
  /\ UNCHANGED <<time, pc, file, next, dur_accum, throttle, commands, begun,
                 sent>>

\* The sender is in nanosleep() or in pselect().
Blocked ==
  \/ pc = "sleep" /\ clock < wake
  \/ pc = "select" /\ clock < dur_accum /\ cmd = NoCmd

Tick ==
  /\ pc # "exit"
  /\ IF Blocked THEN UNCHANGED busy ELSE busy < MAX_BUSY /\ busy' = busy + 1
  /\ clock' = clock + 1
  /\ UNCHANGED <<pc, file, next, dur_accum, throttle, commands, begun, sent,
                 observed>>

Next ==
  \/ SendPacket
  \/ Wake
  \/ FileSent
  \/ NextFile
  \/ Select
  \/ ServeCommand
  \/ SelectReturns
  \/ GiveCommand
  \/ StartWatching
  \/ Tick

Spec == Init /\ [][Next]_vars

-----------------------------------------------------------------------------
(* Properties.                                                             *)

\* The largest burst: its last message may go past the limit.
MaxBurst == BURST - 1 + HEADER + PD_T

\* "Maximum output rate" (usage of -t): over any interval in which the speed
\* is not changed, however long the sender was idle or unthrottled before, no
\* more is sent than the rate allows and two bursts: the one under way at the
\* beginning, whose start may lie far back, and the one under way now.
RateBounded ==
  speed > 0 => bytes <= speed * (clock - watch) + 2 * MaxBurst - 1

PlayoutBefore[f \in 0..NFiles] ==
  IF f = 0 THEN 0 ELSE PlayoutBefore[f - 1] + Duration[f - 1]

\* A file begins when the playout time of all files before it is over, or as
\* soon as they are sent if that is later, give or take the time computing
\* takes: never early, and a delay is made up by the files after it.
Paced ==
  \A n \in DOMAIN begun \ {1} :
     LET due == PlayoutBefore[n - 1]
     IN  /\ due <= begun[n]
         /\ begun[n] <= busy + IF sent[n - 1] > due THEN sent[n - 1] ELSE due

\* Pacing and throttling only delay: the sender without a clock, to which the
\* network may be attached, allows all that this one does.
Untimed == INSTANCE Sender WITH
             s_pc <- CASE pc = "sleep" -> "xmit"
                       [] pc = "select" -> "wait"
                       [] OTHER -> pc,
             s_file <- file, s_next <- next, n_extra <- 0, overhead <- 0,
             drop_prob <- TRUE, net <- <<>>,
             TOI_MOD <- 65536, Overheads <- {0}, NET_CAP <- 1, IOErrors <- FALSE
OnlyDelays == Untimed!Spec

\* Stated by the help of the command line ("throttle-speed [#] get/set
\* transfer speed"): a speed asked for while a file is sent is set before the
\* file after the next one is begun.
CommandsServed == cmd # NoCmd => file <= cmd_file + 1
=============================================================================
