-------------------------------- MODULE Gui ---------------------------------
(***************************************************************************)
(* gui/demo_gui.py: the main thread, which runs the callbacks of the       *)
(* window, and its children, a player, a receiver and a sender for each    *)
(* start.  A start is a generation, counted from 1.                        *)
(*                                                                         *)
(* An exception in a callback is reported and ends the callback only; one  *)
(* in the first start ends the program and leaves the children behind.     *)
(***************************************************************************)
EXTENDS Integers

CONSTANTS
  Slow,         \* children that may outlive SIGTERM by more than 0.1 s
  EarlyDeath,   \* whether a receiver may end before it signals
  SpawnErrors,  \* whether Popen() may fail
  FD_MAX,       \* descriptors there are for pipes
  Positions,    \* of a slider, 0 for the left end
  SAVED,        \* position the redundancy has when it is first enabled
  MAX_GEN       \* bound: generations

Kinds == {"mpv", "recv", "sender"}
\* terminate_subprocesses() signals and waits in this order.
Order == <<"mpv", "recv", "sender">>
Gens == 1..MAX_GEN

ASSUME GuiAssumption ==
  /\ Slow \subseteq Kinds
  /\ EarlyDeath \in BOOLEAN /\ SpawnErrors \in BOOLEAN
  /\ FD_MAX \in Nat
  /\ 0 \in Positions /\ SAVED \in Positions
  /\ MAX_GEN \in Nat \ {0}

VARIABLES
  pc,        \* "pipe", "recv", "mpv", "read", "sender": the lines of
             \* start_subprocesses(); "reap" (in wait()), "idle", "exit"
  gen,       \* generation that is running or being started
  handle,    \* generation of self.mpv_proc etc., 0 for None
  reaping,   \* place in Order of the child that is waited for
  after,     \* "pipe" or "exit": what follows the termination
  fds,       \* ends of ready pipes that are open in this process
  loss, redundancy, \* positions of the sliders
  onoff, saved,     \* "Enable RaptorQ" and redundancy_scale_val_if_on
  label,     \* whether the window says "[ RaptorQ protection ]"
  told,      \* what was written to the current sender last
  asked,     \* whether the window was asked to close (history)
  proc,      \* state of each child of each generation
  port,      \* generation of the receiver bound to port 6910, 0 for none
  signalled  \* generations with the ready byte written

start == <<pc, gen, handle, reaping, after, fds, asked>>
sliders == <<loss, redundancy, onoff, saved, label, told>>
children == <<proc, port, signalled>>
vars == <<start, sliders, children>>

\* A child with a signal pending still runs, until it dies.
States == {"none", "up", "term", "kill", "dead"}
Alive(k, g) == proc[k][g] \in {"up", "term", "kill"}

SlidersAtStart ==
  /\ loss = 0 /\ redundancy = 0 /\ onoff = FALSE /\ saved = SAVED
  /\ label = FALSE /\ told = <<0, 0>>

Init ==
  /\ pc = "pipe" /\ gen = 1 /\ handle = [k \in Kinds |-> 0]
  /\ reaping = 1 /\ after = "pipe" /\ fds = 0 /\ asked = FALSE
  /\ SlidersAtStart
  /\ proc = [k \in Kinds |-> [g \in Gens |-> "none"]]
  /\ port = 0 /\ signalled = {}

-----------------------------------------------------------------------------
(* start_subprocesses().                                                   *)

\* An exception: the first start is not in a callback.
StartFails ==
  /\ pc' = IF gen = 1 THEN "exit" ELSE "idle"
  /\ UNCHANGED <<gen, handle, reaping, after, fds, asked, sliders, children>>

\* A pipe has two ends.
OpenPipe ==
  /\ pc = "pipe" /\ fds + 2 <= FD_MAX
  /\ fds' = fds + 2
  /\ pc' = "recv"
  /\ UNCHANGED <<gen, handle, reaping, after, asked, sliders, children>>

OpenPipeFails == pc = "pipe" /\ fds + 2 > FD_MAX /\ StartFails

Spawn(k) ==
  /\ proc' = [proc EXCEPT ![k][gen] = "up"]
  /\ handle' = [handle EXCEPT ![k] = gen]

SpawnReceiver ==
  /\ pc = "recv" /\ Spawn("recv")
  /\ pc' = "mpv"
  /\ UNCHANGED <<gen, reaping, after, fds, asked, sliders, port, signalled>>

SpawnPlayer ==
  /\ pc = "mpv" /\ Spawn("mpv")
  /\ pc' = "read"
  /\ UNCHANGED <<gen, reaping, after, fds, asked, sliders, port, signalled>>

\* Variant: the parent closes its write end, and read() returns at the end of
\* the pipe too.
ReadOrEnd ==
  /\ pc = "read" /\ (gen \in signalled \/ proc["recv"][gen] = "dead")
  /\ pc' = "sender" /\ fds' = fds - 1
  /\ UNCHANGED <<gen, handle, reaping, after, asked, sliders, children>>

\* Variant: the pipe is read to its end.
ReadToEnd ==
  /\ pc = "read" /\ gen \in signalled /\ proc["recv"][gen] = "dead"
  /\ pc' = "sender" /\ fds' = fds - 1
  /\ UNCHANGED <<gen, handle, reaping, after, asked, sliders, children>>

\* os.read() waits for the byte, and the read end is closed.  This process holds
\* a write end itself, which nothing closes, so that the pipe has no end.
ReadReady ==
  /\ pc = "read" /\ gen \in signalled
  /\ pc' = "sender" /\ fds' = fds - 1
  /\ UNCHANGED <<gen, handle, reaping, after, asked, sliders, children>>

\* Variant: only the loss is sent again.
ToldLossOnly == <<loss, 0>>
\* on_restart() sends both sliders; the first start sends nothing.
ToldAtStart == IF gen = 1 THEN <<0, 0>> ELSE <<loss, redundancy>>

SpawnSender ==
  /\ pc = "sender" /\ Spawn("sender")
  /\ told' = ToldAtStart
  /\ pc' = "idle"
  /\ UNCHANGED <<gen, reaping, after, fds, asked, loss, redundancy, onoff,
                 saved, label, port, signalled>>

SpawnFails == SpawnErrors /\ pc \in {"recv", "mpv", "sender"} /\ StartFails

-----------------------------------------------------------------------------
(* terminate_subprocesses().                                               *)

Missing == {i \in 1..3 : handle[Order[i]] = 0}
\* terminate() of a child that is dead does nothing.
SignalBefore(i) ==
  [k \in Kinds |-> [g \in Gens |->
     IF /\ proc[k][g] = "up" /\ handle[k] = g
        /\ \E j \in 1..(i - 1) : Order[j] = k
     THEN "term" ELSE proc[k][g]]]

\* Variant: SIGTERM is sent and nothing is waited for.
TerminateOnly(what) ==
  /\ Missing = {} /\ proc' = SignalBefore(4)
  /\ reaping' = 1 /\ after' = what /\ pc' = what
  /\ handle' = [k \in Kinds |-> 0]
  /\ gen' = IF what = "pipe" THEN gen + 1 ELSE gen

\* None.terminate() raises and ends the callback.
Terminate(what) ==
  /\ handle' = handle /\ gen' = gen
  /\ IF Missing = {}
     THEN /\ proc' = SignalBefore(4)
          /\ reaping' = 1 /\ after' = what /\ pc' = "reap"
     ELSE /\ proc' = SignalBefore(CHOOSE i \in Missing : \A j \in Missing : i <= j)
          /\ UNCHANGED <<reaping, after, pc>>

Restart ==
  /\ pc = "idle" /\ gen < MAX_GEN
  /\ Terminate("pipe")
  /\ UNCHANGED <<fds, asked, sliders, port, signalled>>

Close ==
  /\ pc = "idle" /\ asked' = TRUE
  /\ Terminate("exit")
  /\ UNCHANGED <<fds, sliders, port, signalled>>

\* The loop over the children goes on, or it was the last one.
Reaped ==
  IF reaping < 3
  THEN reaping' = reaping + 1 /\ UNCHANGED <<pc, gen, handle>>
  ELSE /\ UNCHANGED reaping
       /\ handle' = [k \in Kinds |-> 0]
       /\ pc' = after
       /\ gen' = IF after = "pipe" THEN gen + 1 ELSE gen

WaitReturns ==
  /\ pc = "reap"
  /\ LET k == Order[reaping] IN proc[k][handle[k]] = "dead"
  /\ Reaped
  /\ UNCHANGED <<after, fds, asked, sliders, children>>

\* Variant: a child that does not end is left alone.
TimeoutIgnored ==
  /\ pc = "reap"
  /\ LET k == Order[reaping] IN k \in Slow /\ proc[k][handle[k]] = "term"
  /\ Reaped
  /\ UNCHANGED <<after, fds, asked, sliders, children>>

\* kill() is not followed by another wait.
WaitTimesOut ==
  /\ pc = "reap"
  /\ LET k == Order[reaping]
     IN  /\ k \in Slow /\ proc[k][handle[k]] = "term"
         /\ proc' = [proc EXCEPT ![k][handle[k]] = "kill"]
  /\ Reaped
  /\ UNCHANGED <<after, fds, asked, sliders, port, signalled>>

-----------------------------------------------------------------------------
(* Sliders.                                                                *)

\* Writing to a sender that is dead or None raises.
CanTell == handle["sender"] # 0 /\ proc["sender"][handle["sender"]] # "dead"
Tell(l, r) == told' = IF CanTell THEN <<l, r>> ELSE told

MoveLoss ==
  /\ pc = "idle" /\ loss' \in Positions /\ Tell(loss', told[2])
  /\ UNCHANGED <<start, redundancy, onoff, saved, label, children>>

\* The slider of the redundancy is disabled while the button is off.
MoveRedundancy ==
  /\ pc = "idle" /\ onoff
  /\ redundancy' \in Positions /\ Tell(told[1], redundancy')
  /\ UNCHANGED <<start, loss, onoff, saved, label, children>>

\* Variant: off keeps the position of the slider.
ToggledKeeps == IF onoff THEN redundancy ELSE saved
\* Off moves the slider to 0, on back to where it was.
Toggled == IF onoff THEN 0 ELSE saved

\* The label is written last.
Toggle ==
  /\ pc = "idle"
  /\ onoff' = ~onoff
  /\ saved' = IF onoff THEN redundancy ELSE saved
  /\ redundancy' = Toggled
  /\ Tell(told[1], redundancy')
  /\ label' = IF CanTell THEN ~onoff ELSE label
  /\ UNCHANGED <<start, loss, children>>

-----------------------------------------------------------------------------
(* The children.                                                           *)

\* The receiver binds its port and signals, or leaves because it cannot.
Bind(g) ==
  /\ proc["recv"][g] = "up" /\ g \notin signalled
  /\ IF port = 0
     THEN port' = g /\ signalled' = signalled \cup {g} /\ UNCHANGED proc
     ELSE /\ proc' = [proc EXCEPT !["recv"][g] = "dead"]
          /\ UNCHANGED <<port, signalled>>
  /\ UNCHANGED <<start, sliders>>

Dies(k, g) ==
  /\ Alive(k, g)
  /\ proc' = [proc EXCEPT ![k][g] = "dead"]
  /\ port' = IF k = "recv" /\ port = g THEN 0 ELSE port
  /\ UNCHANGED <<start, sliders, signalled>>

\* The sender comes to its end, the player is closed, the receiver aborts.
DiesByItself(k, g) ==
  /\ proc[k][g] = "up"
  /\ k = "recv" => g \in signalled \/ EarlyDeath
  /\ Dies(k, g)

DiesOfSignal(k, g) == proc[k][g] \in {"term", "kill"} /\ Dies(k, g)

-----------------------------------------------------------------------------
Main ==
  \/ OpenPipe
  \/ OpenPipeFails
  \/ SpawnReceiver
  \/ SpawnPlayer
  \/ ReadReady
  \/ SpawnSender
  \/ SpawnFails
  \/ WaitReturns
  \/ WaitTimesOut

User ==
  \/ Restart
  \/ Close
  \/ MoveLoss
  \/ MoveRedundancy
  \/ Toggle

Child ==
  \/ \E g \in Gens : Bind(g)
  \/ \E k \in Kinds, g \in Gens : DiesByItself(k, g)
  \/ \E k \in Kinds, g \in Gens : DiesOfSignal(k, g)

Next == Main \/ User \/ Child

Spec == Init /\ [][Next]_vars

\* The program and the receivers run; SIGKILL ends a process, and SIGTERM one
\* that has no handler for it, as receiver and sender.
FairSpec ==
  /\ Spec
  /\ WF_vars(Main)
  /\ \A g \in Gens : WF_vars(Bind(g))
  /\ \A k \in Kinds, g \in Gens :
       WF_vars((proc[k][g] = "kill" \/ k # "mpv") /\ DiesOfSignal(k, g))

-----------------------------------------------------------------------------
(* Properties.                                                             *)

\* "Wait for the receiver process to be ready before starting the sender": a
\* sender is started only after the receiver of its own generation has bound
\* its port, whatever receivers died and whatever earlier ones signalled.
SenderAfterReady ==
  \A g \in Gens : proc["sender"][g] # "none" => g \in signalled

\* A receiver that is bound never hears the sender of another generation, whose
\* files have the same numbers.
OneStream ==
  \A g \in Gens : port # 0 /\ Alive("sender", g) => g = port

\* In the idle loop a living sender has been told what the sliders show, through
\* restarts and with the redundancy switched off and on again; off means 0.
InStep ==
  /\ pc = "idle" /\ CanTell => told = <<loss, redundancy>>
  /\ ~onoff => redundancy = 0

\* "Wait for the receiver process to be ready before starting the sender
\* process": the wait for the receiver ends.
WaitEnds == pc = "read" ~> pc # "read"

\* Nothing but the death of the receiver that is waited for keeps it from
\* ending: a port that is taken, an older receiver or the player do not.
ReadyOrDead == pc = "read" ~> pc # "read" \/ proc["recv"][gen] = "dead"

\* Children of earlier generations, and all when the window was asked to close
\* and the program has ended, die, a player that ignores SIGTERM too.
OldOnesDie ==
  \A k \in Kinds, g \in Gens :
     (g < gen \/ (pc = "exit" /\ asked)) ~> ~Alive(k, g)
=============================================================================
