----------------------------- MODULE GuiProofs ------------------------------
(***************************************************************************)
(* The safety invariants of the window's process control, for any number   *)
(* of starts, slider positions and failures.                               *)
(***************************************************************************)
EXTENDS Gui, TLAPS

-----------------------------------------------------------------------------
(* The inductive invariants.                                               *)

\* A start is under way.
Starting == {"pipe", "recv", "mpv", "read", "sender"}

Types ==
  /\ pc \in Starting \cup {"reap", "idle", "exit"}
  /\ gen \in Gens
  /\ handle \in [Kinds -> Int]
  /\ reaping \in 1..3
  /\ after \in {"pipe", "exit"}
  /\ proc \in [Kinds -> [Gens -> States]]

\* The handles are those of the current generation, and none is missing while
\* the children are waited for.
Handles ==
  /\ \A k \in Kinds : handle[k] \in {0, gen}
  /\ pc \in Starting => handle["sender"] = 0
  /\ pc = "reap" =>
       /\ \A k \in Kinds : handle[k] = gen /\ proc[k][gen] # "up"
       /\ after = "pipe" => gen < MAX_GEN

\* Children of generations to come do not exist, those of earlier ones were all
\* signalled.
Generations ==
  \A k \in Kinds, g \in Gens :
     /\ g > gen => proc[k][g] = "none"
     /\ g < gen => proc[k][g] # "up"

\* Only a receiver that was started signals, and the sender is started last.
Signals ==
  /\ \A g \in signalled : g \in Gens /\ proc["recv"][g] # "none"
  /\ pc = "sender" => gen \in signalled

\* The first start finds the sliders where a sender expects them.
FirstStart == gen = 1 /\ pc \in Starting => loss = 0 /\ redundancy = 0

GuiInv ==
  /\ Types /\ Handles /\ Generations /\ Signals /\ FirstStart
  /\ SenderAfterReady
  /\ InStep

\* If the sender does not outlive SIGTERM, those of earlier generations are dead,
\* and once a receiver has signalled the port is its own or free.
StreamInv ==
  /\ \A g \in Gens : g < gen => ~Alive("sender", g)
  /\ gen \in signalled => port \in {0, gen}

\* The invariants hold at the start.
LEMMA GuiInit == Init => GuiInv /\ StreamInv
<1> SUFFICES ASSUME Init PROVE GuiInv /\ StreamInv
  OBVIOUS
<1>1. 1 \in Gens /\ Gens \subseteq Nat
  BY GuiAssumption DEF Gens
<1> USE <1>1 DEF Init, SlidersAtStart
<1>2. Types
  BY DEF Types, Starting, States
<1>3. Handles /\ Generations /\ Signals /\ FirstStart
  <2>1. "sender" \in Kinds
    BY DEF Kinds
  <2>2. Handles /\ Signals /\ FirstStart
    BY <2>1 DEF Handles, Signals, FirstStart
  <2>3. Generations
    BY DEF Generations, Gens
  <2> QED BY <2>2, <2>3
<1>4. SenderAfterReady
  <2>1. "sender" \in Kinds
    BY DEF Kinds
  <2> QED BY <2>1 DEF SenderAfterReady
<1>5. InStep
  BY DEF InStep
<1>6. StreamInv
  BY DEF StreamInv, Alive, Kinds
<1> QED BY <1>2, <1>3, <1>4, <1>5, <1>6 DEF GuiInv

-----------------------------------------------------------------------------
(* Steps that start nothing: children only go down.                        *)

\* No child comes up, none that is dead comes back.
Fading ==
  /\ proc' \in [Kinds -> [Gens -> States]]
  /\ \A k \in Kinds, g \in Gens :
        \/ proc'[k][g] = proc[k][g]
        \/ /\ proc[k][g] \in {"up", "term", "kill"}
           /\ proc'[k][g] \in {"term", "kill", "dead"}

\* What the invariant says of children and receivers survives such a step.
LEMMA FadingKeeps ==
  ASSUME GuiInv, Fading, gen' = gen, handle' = handle,
         signalled' = signalled \/ \E g \in Gens : /\ proc["recv"][g] = "up"
                                                  /\ signalled' = signalled \cup {g}
  PROVE  /\ Generations'
         /\ \A g \in signalled' : g \in Gens /\ proc'["recv"][g] # "none"
         /\ SenderAfterReady'
         /\ CanTell' => CanTell
<1> USE DEF GuiInv, Types, Handles, Fading, Kinds, States
<1>1. Generations'
  BY DEF Generations
<1>2. \A g \in signalled' : g \in Gens /\ proc'["recv"][g] # "none"
  BY DEF Signals
<1>3. SenderAfterReady'
  BY DEF SenderAfterReady
<1>4. CanTell' => CanTell
  BY DEF CanTell, Gens
<1> QED BY <1>1, <1>2, <1>3, <1>4

\* Children of their own: a receiver binds its port or finds it taken, a child
\* dies.
LEMMA ChildFades ==
  ASSUME GuiInv, Child
  PROVE  /\ Fading /\ UNCHANGED <<start, sliders>>
         /\ \/ signalled' = signalled
            \/ \E g \in Gens : /\ proc["recv"][g] = "up" /\ proc' = proc
                               /\ signalled' = signalled \cup {g}
                               /\ port = 0 /\ port' = g
<1> USE DEF GuiInv, Types, Fading, Kinds, States
<1>1. ASSUME NEW g \in Gens, Bind(g)
      PROVE  /\ Fading /\ UNCHANGED <<start, sliders>>
             /\ \/ signalled' = signalled
                \/ /\ proc["recv"][g] = "up" /\ proc' = proc
                   /\ signalled' = signalled \cup {g}
                   /\ port = 0 /\ port' = g
  BY <1>1 DEF Bind
<1>2. ASSUME NEW k \in Kinds, NEW g \in Gens, Dies(k, g)
      PROVE  Fading /\ UNCHANGED <<start, sliders, signalled>>
  BY <1>2 DEF Dies, Alive
<1> QED BY <1>1, <1>2 DEF Child, DiesByItself, DiesOfSignal

\* A step of the children keeps the invariant.
LEMMA ChildKeeps ==
  ASSUME GuiInv, Child
  PROVE  GuiInv'
<1>1. /\ Fading /\ UNCHANGED <<start, sliders>>
      /\ signalled' = signalled \/ \E g \in Gens : /\ proc["recv"][g] = "up"
                                                  /\ signalled' = signalled \cup {g}
  BY ChildFades
<1>2. UNCHANGED <<pc, gen, handle, reaping, after, loss, redundancy, onoff, told>>
  BY <1>1 DEF start, sliders
<1>3. /\ Generations'
      /\ \A g \in signalled' : g \in Gens /\ proc'["recv"][g] # "none"
      /\ SenderAfterReady'
      /\ CanTell' => CanTell
  BY <1>1, <1>2, FadingKeeps
<1>4. Types' /\ Handles'
  BY <1>1, <1>2 DEF GuiInv, Types, Handles, Fading, States
<1>5. Signals' /\ FirstStart'
  BY <1>1, <1>2, <1>3 DEF GuiInv, Signals, FirstStart
<1>6. InStep'
  BY <1>2, <1>3 DEF GuiInv, InStep
<1> QED BY <1>3, <1>4, <1>5, <1>6 DEF GuiInv

-----------------------------------------------------------------------------
(* The user.                                                               *)

\* terminate_subprocesses() signals children of the current generation only.
LEMMA TerminateFades ==
  ASSUME GuiInv, pc = "idle", NEW what \in {"pipe", "exit"}, Terminate(what)
  PROVE  /\ Fading /\ handle' = handle /\ gen' = gen
         /\ \/ /\ pc' = "reap" /\ reaping' = 1 /\ after' = what
               /\ \A k \in Kinds : handle[k] = gen /\ proc'[k][gen] # "up"
            \/ UNCHANGED <<pc, reaping, after>>
<1> USE DEF GuiInv, Types, Handles
<1>1. ASSUME NEW i \in 1..4
      PROVE  LET q == SignalBefore(i)
             IN  /\ q \in [Kinds -> [Gens -> States]]
                 /\ \A k \in Kinds, g \in Gens :
                      \/ q[k][g] = proc[k][g]
                      \/ proc[k][g] = "up" /\ q[k][g] = "term"
  BY DEF SignalBefore, States
<1>2. CASE Missing = {}
  <2>1. proc' = SignalBefore(4) /\ pc' = "reap" /\ reaping' = 1 /\ after' = what
        /\ handle' = handle /\ gen' = gen
    BY <1>2 DEF Terminate
  <2>2. \A k \in Kinds : \E j \in 1..3 : Order[j] = k
    BY DEF Kinds, Order
  <2>3. \A k \in Kinds : handle[k] = gen
    BY <1>2, <2>2 DEF Missing
  <2>4. \A k \in Kinds : SignalBefore(4)[k][gen] # "up"
    BY <2>2, <2>3 DEF SignalBefore
  <2> QED BY <1>1, <2>1, <2>3, <2>4 DEF Fading
<1>3. CASE Missing # {}
  <2> DEFINE i == CHOOSE i \in Missing : \A j \in Missing : i <= j
  <2>1. i \in 1..3
    <3>1. Missing \subseteq 1..3
      BY DEF Missing
    <3>2. \E m \in Missing : \A j \in Missing : m <= j
      <4>1. CASE 1 \in Missing
        BY <3>1, <4>1
      <4>2. CASE 1 \notin Missing /\ 2 \in Missing
        BY <3>1, <4>2
      <4>3. CASE 1 \notin Missing /\ 2 \notin Missing
        <5>1. \A j \in Missing : j = 3
          BY <3>1, <4>3
        <5>2. PICK m \in Missing : TRUE
          BY <1>3
        <5> QED BY <5>1, <5>2
      <4> QED BY <4>1, <4>2, <4>3
    <3>3. i \in Missing
      BY <3>2
    <3> QED BY <3>1, <3>3
  <2>2. proc' = SignalBefore(i) /\ handle' = handle /\ gen' = gen
        /\ UNCHANGED <<pc, reaping, after>>
    BY <1>3 DEF Terminate
  <2> HIDE DEF i
  <2> QED BY <1>1, <2>1, <2>2 DEF Fading
<1> QED BY <1>2, <1>3

\* The restart button and the closing of the window.
LEMMA TerminateKeeps ==
  ASSUME GuiInv, Restart \/ Close
  PROVE  GuiInv'
<1>1. pc = "idle" /\ UNCHANGED <<sliders, signalled>>
      /\ \E what \in {"pipe", "exit"} :
            Terminate(what) /\ (what = "pipe" => gen < MAX_GEN)
  BY DEF Restart, Close
<1>2. /\ Fading /\ handle' = handle /\ gen' = gen
      /\ \/ /\ pc' = "reap" /\ reaping' = 1 /\ after' \in {"pipe", "exit"}
            /\ after' = "pipe" => gen < MAX_GEN
            /\ \A k \in Kinds : handle[k] = gen /\ proc'[k][gen] # "up"
         \/ UNCHANGED <<pc, reaping, after>>
  BY <1>1, TerminateFades
<1>3. UNCHANGED <<loss, redundancy, onoff, told>>
  BY <1>1 DEF sliders
<1>4. /\ Generations'
      /\ \A g \in signalled' : g \in Gens /\ proc'["recv"][g] # "none"
      /\ SenderAfterReady'
      /\ CanTell' => CanTell
  BY <1>1, <1>2, FadingKeeps
<1>5. Types' /\ Handles'
  BY <1>1, <1>2 DEF GuiInv, Types, Handles, Fading, Starting
<1>6. Signals' /\ FirstStart'
  BY <1>1, <1>2, <1>4 DEF GuiInv, Signals, FirstStart, Starting
<1>7. InStep'
  BY <1>1, <1>2, <1>3, <1>4 DEF GuiInv, InStep
<1> QED BY <1>4, <1>5, <1>6, <1>7 DEF GuiInv

\* The sliders and the button: a living sender is told.
LEMMA SlidersKeep ==
  ASSUME GuiInv, MoveLoss \/ MoveRedundancy \/ Toggle
  PROVE  GuiInv'
<1>1. pc = "idle" /\ UNCHANGED <<start, children>>
  BY DEF MoveLoss, MoveRedundancy, Toggle
<1>2. UNCHANGED <<pc, gen, handle, reaping, after, proc, port, signalled>>
  BY <1>1 DEF start, children
<1>3. Types' /\ Handles' /\ Generations' /\ Signals' /\ SenderAfterReady'
  BY <1>2 DEF GuiInv, Types, Handles, Generations, Signals, SenderAfterReady
<1>4. FirstStart'
  BY <1>1, <1>2 DEF FirstStart, Starting
<1>5. CanTell' <=> CanTell
  BY <1>2 DEF CanTell
<1>6. CanTell => told = <<loss, redundancy>>
  BY <1>1 DEF GuiInv, InStep
<1>7. CanTell => told' = <<loss', redundancy'>>
  BY <1>6 DEF MoveLoss, MoveRedundancy, Toggle, Tell
<1>8. ~onoff' => redundancy' = 0
  <2>1. CASE MoveLoss
    BY <2>1 DEF MoveLoss, GuiInv, InStep
  <2>2. CASE MoveRedundancy
    BY <2>2 DEF MoveRedundancy
  <2>3. CASE Toggle
    BY <2>3 DEF Toggle, Toggled
  <2> QED BY <2>1, <2>2, <2>3
<1>9. InStep'
  BY <1>5, <1>7, <1>8 DEF InStep
<1> QED BY <1>3, <1>4, <1>9 DEF GuiInv

-----------------------------------------------------------------------------
(* The main thread.                                                        *)

\* A start that fails ends the first start's program or a callback: there is no
\* sender to tell.
LEMMA StartFailsKeeps ==
  ASSUME GuiInv, OpenPipeFails \/ SpawnFails
  PROVE  GuiInv'
<1>1. pc \in Starting /\ StartFails
  BY DEF OpenPipeFails, SpawnFails, Starting
<1>2. /\ pc' = IF gen = 1 THEN "exit" ELSE "idle"
      /\ UNCHANGED <<gen, handle, reaping, after, loss, redundancy, onoff, told,
                     proc, port, signalled>>
  BY <1>1 DEF StartFails, sliders, children
<1>3. Types' /\ Handles' /\ Generations' /\ Signals' /\ SenderAfterReady'
  BY <1>2 DEF GuiInv, Types, Handles, Generations, Signals, SenderAfterReady,
              Starting
<1>4. FirstStart'
  BY <1>2 DEF FirstStart, Starting
<1>5. InStep'
  <2>1. handle'["sender"] = 0
    BY <1>1, <1>2 DEF GuiInv, Handles
  <2> QED BY <1>2, <2>1 DEF GuiInv, InStep, CanTell
<1> QED BY <1>3, <1>4, <1>5 DEF GuiInv

\* A child is started.
LEMMA SpawnMap ==
  ASSUME GuiInv, NEW k \in Kinds, Spawn(k)
  PROVE  /\ proc' \in [Kinds -> [Gens -> States]]
         /\ handle' \in [Kinds -> Int] /\ handle'[k] = gen
         /\ \A j \in Kinds : j # k => handle'[j] = handle[j]
         /\ \A j \in Kinds, g \in Gens :
              proc'[j][g] = IF j = k /\ g = gen THEN "up" ELSE proc[j][g]
<1>1. gen \in Gens /\ gen \in Int /\ proc \in [Kinds -> [Gens -> States]]
      /\ handle \in [Kinds -> Int] /\ "up" \in States
  BY DEF GuiInv, Types, Gens, States
<1>2. proc' = [proc EXCEPT ![k][gen] = "up"] /\ handle' = [handle EXCEPT ![k] = gen]
  BY DEF Spawn
<1>3. /\ proc' \in [Kinds -> [Gens -> States]]
      /\ \A j \in Kinds, g \in Gens :
           proc'[j][g] = IF j = k /\ g = gen THEN "up" ELSE proc[j][g]
  BY <1>1, <1>2
<1>4. /\ handle' \in [Kinds -> Int] /\ handle'[k] = gen
      /\ \A j \in Kinds : j # k => handle'[j] = handle[j]
  BY <1>1, <1>2
<1> QED BY <1>3, <1>4

\* The receiver and the player are started, and the pipe is made and read.
LEMMA StartKeeps ==
  ASSUME GuiInv, OpenPipe \/ SpawnReceiver \/ SpawnPlayer \/ ReadReady
  PROVE  GuiInv'
<1>1. /\ pc \in Starting /\ pc' \in Starting
      /\ UNCHANGED <<gen, reaping, after, loss, redundancy, onoff, told,
                     signalled>>
      /\ pc' = "sender" => gen \in signalled
  BY DEF OpenPipe, SpawnReceiver, SpawnPlayer, ReadReady, Starting, sliders,
         children
<1>2. CASE UNCHANGED <<handle, proc>>
  BY <1>1, <1>2 DEF GuiInv, Types, Handles, Generations, Signals, FirstStart,
                    SenderAfterReady, InStep, Starting
<1>3. ASSUME NEW k \in {"recv", "mpv"}, Spawn(k)
      PROVE  GuiInv'
  <2>1. k \in Kinds /\ k # "sender" /\ gen \in Gens /\ gen \in Int
    BY DEF Kinds, GuiInv, Types, Gens
  <2>2. /\ proc' \in [Kinds -> [Gens -> States]]
        /\ handle' \in [Kinds -> Int] /\ handle'[k] = gen
        /\ \A j \in Kinds : j # k => handle'[j] = handle[j]
        /\ \A j \in Kinds, g \in Gens :
             proc'[j][g] = IF j = k /\ g = gen THEN "up" ELSE proc[j][g]
    BY <1>3, <2>1, SpawnMap
  <2>3. Types'
    BY <1>1, <2>2 DEF GuiInv, Types
  <2>4. Handles'
    BY <1>1, <2>1, <2>2 DEF GuiInv, Handles, Kinds, Starting
  <2>5. Generations'
    <3>1. Generations /\ gen' = gen /\ gen \in Int
      BY <1>1, <2>1 DEF GuiInv
    <3>2. \A j \in Kinds, g \in Gens : g # gen => proc'[j][g] = proc[j][g]
      BY <2>2
    <3> QED BY <3>1, <3>2 DEF Generations
  <2>6. Signals' /\ FirstStart'
    <3>1. \A g \in signalled : g \in Gens /\ proc'["recv"][g] # "none"
      BY <2>2 DEF GuiInv, Signals, Kinds
    <3> QED BY <1>1, <3>1 DEF GuiInv, Signals, FirstStart
  <2>7. SenderAfterReady'
    <3>1. \A g \in Gens : proc'["sender"][g] = proc["sender"][g]
      BY <2>1, <2>2 DEF Kinds
    <3> QED BY <1>1, <3>1 DEF GuiInv, SenderAfterReady
  <2>8. InStep'
    BY <1>1 DEF GuiInv, InStep, Starting
  <2> QED BY <2>3, <2>4, <2>5, <2>6, <2>7, <2>8 DEF GuiInv
<1>4. UNCHANGED <<handle, proc>> \/ \E k \in {"recv", "mpv"} : Spawn(k)
  BY DEF OpenPipe, SpawnReceiver, SpawnPlayer, ReadReady, children
<1> QED BY <1>2, <1>3, <1>4

\* The sender is started, after the receiver has signalled, and told what the
\* sliders show.
LEMMA SpawnSenderKeeps ==
  ASSUME GuiInv, SpawnSender
  PROVE  GuiInv'
<1>1. /\ pc = "sender" /\ pc' = "idle" /\ Spawn("sender")
      /\ told' = IF gen = 1 THEN <<0, 0>> ELSE <<loss, redundancy>>
      /\ UNCHANGED <<gen, reaping, after, loss, redundancy, onoff, signalled>>
  BY DEF SpawnSender, ToldAtStart
<1>2. "sender" \in Kinds /\ "recv" \in Kinds /\ gen \in Gens /\ gen \in Int
  BY DEF Kinds, GuiInv, Types, Gens
<1>3. /\ proc' \in [Kinds -> [Gens -> States]]
      /\ handle' \in [Kinds -> Int] /\ handle'["sender"] = gen
      /\ \A j \in Kinds : j # "sender" => handle'[j] = handle[j]
      /\ \A j \in Kinds, g \in Gens :
           proc'[j][g] = IF j = "sender" /\ g = gen THEN "up" ELSE proc[j][g]
  BY <1>1, <1>2, SpawnMap
<1>4. Types'
  BY <1>1, <1>3 DEF GuiInv, Types
<1>5. Handles'
  BY <1>1, <1>2, <1>3 DEF GuiInv, Handles, Starting
<1>6. Generations'
  BY <1>1, <1>2, <1>3 DEF GuiInv, Generations
<1>7. Signals' /\ FirstStart'
  <2>1. \A g \in signalled : g \in Gens /\ proc'["recv"][g] # "none"
    BY <1>2, <1>3 DEF GuiInv, Signals
  <2> QED BY <1>1, <2>1 DEF Signals, FirstStart, Starting
<1>8. SenderAfterReady'
  BY <1>1, <1>2, <1>3 DEF GuiInv, SenderAfterReady, Signals
<1>9. InStep'
  <2>1. gen = 1 => loss = 0 /\ redundancy = 0
    BY <1>1 DEF GuiInv, FirstStart, Starting
  <2> QED BY <1>1, <2>1 DEF GuiInv, InStep
<1> QED BY <1>4, <1>5, <1>6, <1>7, <1>8, <1>9 DEF GuiInv

\* A wait is over: the next child, or the next generation.
LEMMA ReapKeeps ==
  ASSUME GuiInv, WaitReturns \/ WaitTimesOut
  PROVE  GuiInv'
<1>1. /\ pc = "reap" /\ Reaped
      /\ UNCHANGED <<after, loss, redundancy, onoff, told, port, signalled>>
  BY DEF WaitReturns, WaitTimesOut, sliders, children
<1> DEFINE k == Order[reaping]
<1>2. /\ gen \in Gens /\ Gens = 1..MAX_GEN /\ MAX_GEN \in Nat \ {0}
      /\ reaping \in 1..3 /\ k \in Kinds /\ handle[k] = gen
      /\ after = "pipe" => gen < MAX_GEN
  <2>1. \A i \in 1..3 : Order[i] \in Kinds
    BY DEF Order, Kinds
  <2> QED BY <1>1, <2>1, GuiAssumption DEF GuiInv, Types, Handles, Gens
<1> HIDE DEF k
<1>3. /\ proc' \in [Kinds -> [Gens -> States]]
      /\ \A j \in Kinds, g \in Gens :
            \/ proc'[j][g] = proc[j][g]
            \/ g = gen /\ proc[j][g] = "term" /\ proc'[j][g] = "kill"
  <2>1. CASE UNCHANGED proc
    BY <2>1 DEF GuiInv, Types
  <2>2. CASE /\ proc[k][gen] = "term"
             /\ proc' = [proc EXCEPT ![k][gen] = "kill"]
    BY <1>2, <2>2 DEF GuiInv, Types, States
  <2> QED BY <1>2, <2>1, <2>2 DEF WaitReturns, WaitTimesOut, children, k
<1>4. SenderAfterReady' /\ \A g \in signalled' : g \in Gens /\ proc'["recv"][g] # "none"
  BY <1>1, <1>3 DEF GuiInv, SenderAfterReady, Signals, Kinds
<1>5. CASE reaping < 3
  <2>1. reaping' = reaping + 1 /\ UNCHANGED <<pc, gen, handle>>
    BY <1>1, <1>5 DEF Reaped
  <2>2. Types'
    BY <1>1, <1>2, <1>3, <1>5, <2>1 DEF GuiInv, Types
  <2>3. Handles'
    <3>1. \A j \in Kinds : proc'[j][gen] # "up"
      BY <1>1, <1>2, <1>3 DEF GuiInv, Handles
    <3> QED BY <1>1, <2>1, <3>1 DEF GuiInv, Handles, Starting
  <2>5. Generations'
    <3>1. Generations /\ gen' = gen /\ gen \in Int
      BY <1>2, <2>1 DEF GuiInv
    <3>2. \A j \in Kinds, g \in Gens :
             g # gen => proc'[j][g] = proc[j][g]
      BY <1>3
    <3> QED BY <3>1, <3>2 DEF Generations
  <2>4. Signals' /\ FirstStart' /\ InStep'
    BY <1>1, <1>4, <2>1 DEF GuiInv, Signals, FirstStart, InStep, Starting
  <2> QED BY <1>4, <2>2, <2>3, <2>4, <2>5 DEF GuiInv
<1>6. CASE ~(reaping < 3)
  <2>1. /\ reaping' = reaping /\ handle' = [j \in Kinds |-> 0]
        /\ pc' = after /\ gen' = IF after = "pipe" THEN gen + 1 ELSE gen
    BY <1>1, <1>6 DEF Reaped
  <2>2. gen' \in Gens /\ after \in {"pipe", "exit"}
    BY <1>2, <2>1 DEF GuiInv, Types, Gens
  <2>3. Types'
    BY <1>1, <1>3, <2>1, <2>2 DEF GuiInv, Types, Starting
  <2>4. Handles'
    BY <2>1, <2>2 DEF Handles, Kinds
  <2>5. Generations'
    <3>1. \A j \in Kinds : proc[j][gen] # "up"
      BY <1>1 DEF GuiInv, Handles
    <3>2. ASSUME NEW j \in Kinds, NEW g \in Gens
          PROVE  /\ g > gen' => proc'[j][g] = "none"
                 /\ g < gen' => proc'[j][g] # "up"
      <4>1. /\ g > gen => proc[j][g] = "none"
            /\ g < gen => proc[j][g] # "up"
        BY DEF GuiInv, Generations
      <4>2. g > gen' => g > gen
        BY <1>2, <2>1
      <4>3. g < gen' => g < gen \/ g = gen
        BY <1>2, <2>1
      <4>4. g > gen => proc'[j][g] = proc[j][g]
        BY <1>2, <1>3
      <4> QED BY <1>3, <3>1, <4>1, <4>2, <4>3, <4>4
    <3> QED BY <3>2 DEF Generations
  <2>6. Signals' /\ FirstStart' /\ InStep'
    <3>1. gen' = 1 => pc' = "exit"
      BY <1>2, <2>1, <2>2
    <3> QED BY <1>1, <1>4, <2>1, <2>2, <3>1
            DEF GuiInv, Signals, FirstStart, InStep, Starting
  <2> QED BY <1>4, <2>3, <2>4, <2>5, <2>6 DEF GuiInv
<1> QED BY <1>5, <1>6

\* Every step keeps the invariant.
LEMMA GuiStep ==
  ASSUME GuiInv, [Next]_vars
  PROVE  GuiInv'
<1>1. CASE Main
  BY <1>1, StartKeeps, StartFailsKeeps, SpawnSenderKeeps, ReapKeeps DEF Main
<1>2. CASE User
  BY <1>2, TerminateKeeps, SlidersKeep DEF User
<1>3. CASE Child
  BY <1>3, ChildKeeps
<1>4. CASE UNCHANGED vars
  BY <1>4 DEF vars, start, sliders, children, GuiInv, Types, Handles, Generations,
              Signals, FirstStart, SenderAfterReady, InStep, CanTell
<1> QED BY <1>1, <1>2, <1>3, <1>4 DEF Next

\* demo_gui.py keeps its handles, its children and its sliders together: the
\* strengthening from which the properties below follow.
THEOREM GuiInvariance == Spec => []GuiInv
<1>1. Init => GuiInv
  BY GuiInit
<1>2. GuiInv /\ [Next]_vars => GuiInv'
  BY GuiStep
<1> QED BY <1>1, <1>2, PTL DEF Spec

\* start_subprocesses() starts a sender only after the receiver of the same
\* start has bound its port and signalled.
THEOREM ReceiverIsReadyFirst == Spec => []SenderAfterReady
<1>1. GuiInv => SenderAfterReady
  BY DEF GuiInv
<1> QED BY <1>1, GuiInvariance, PTL

\* A living sender has been told what the sliders show whenever the window
\* waits for its user, and switched off means 0.
THEOREM SlidersInStep == Spec => []InStep
<1>1. GuiInv => InStep
  BY DEF GuiInv
<1> QED BY <1>1, GuiInvariance, PTL

-----------------------------------------------------------------------------
(* One stream: needs that the sender dies of SIGTERM before the wait for it *)
(* is given up.                                                            *)

\* Steps that leave the generation alone, bring up no sender of an earlier one
\* and bind no port but the one of the current receiver keep it.
LEMMA StreamKept ==
  ASSUME StreamInv, gen' = gen,
         \A g \in Gens : g < gen => \/ proc'["sender"][g] = proc["sender"][g]
                                  \/ proc'["sender"][g] = "dead"
                                  \/ Alive("sender", g),
         \/ signalled' = signalled /\ port' \in {0, port}
         \/ port' = gen
  PROVE  StreamInv'
<1>1. \A g \in Gens : g < gen => ~Alive("sender", g)'
  BY DEF StreamInv, Alive
<1>2. gen \in signalled' => port' \in {0, gen}
  BY DEF StreamInv
<1> QED BY <1>1, <1>2 DEF StreamInv

\* The last wait is for the sender, and it ends with the sender dead.
LEMMA LastReap ==
  ASSUME "sender" \notin Slow, GuiInv, WaitReturns \/ WaitTimesOut, reaping = 3
  PROVE  proc["sender"][gen] = "dead" /\ proc' = proc
<1>1. Order[reaping] = "sender" /\ "sender" \in Kinds
  BY DEF Order, Kinds
<1>2. WaitReturns
  BY <1>1 DEF WaitTimesOut
<1>3. handle["sender"] = gen
  BY <1>1, <1>2 DEF WaitReturns, GuiInv, Handles
<1> QED BY <1>1, <1>2, <1>3 DEF WaitReturns, children

\* Every step keeps the invariant of the stream.
LEMMA StreamStep ==
  ASSUME "sender" \notin Slow, GuiInv, StreamInv, [Next]_vars
  PROVE  StreamInv'
<1>1. "sender" \in Kinds /\ "recv" \in Kinds /\ gen \in Gens /\ gen \in Int
  BY DEF Kinds, GuiInv, Types, Gens
<1>2. CASE OpenPipe \/ OpenPipeFails \/ ReadReady \/ SpawnFails \/ MoveLoss
           \/ MoveRedundancy \/ Toggle \/ UNCHANGED vars
  <2>1. UNCHANGED <<gen, proc, port, signalled>>
    BY <1>2 DEF OpenPipe, OpenPipeFails, ReadReady, SpawnFails, StartFails,
                MoveLoss, MoveRedundancy, Toggle, vars, start, children
  <2> QED BY <2>1, StreamKept
<1>3. CASE SpawnReceiver \/ SpawnPlayer \/ SpawnSender
  <2>1. UNCHANGED <<gen, port, signalled>>
    BY <1>3 DEF SpawnReceiver, SpawnPlayer, SpawnSender
  <2>2. PICK k \in Kinds : Spawn(k)
    BY <1>3 DEF SpawnReceiver, SpawnPlayer, SpawnSender, Kinds
  <2>3. \A g \in Gens : g < gen => proc'["sender"][g] = proc["sender"][g]
    <3>1. \A j \in Kinds, g \in Gens :
             proc'[j][g] = IF j = k /\ g = gen THEN "up" ELSE proc[j][g]
      BY <2>2, SpawnMap
    <3>2. \A g \in Gens : g \in Int /\ (g < gen => g # gen)
      BY <1>1 DEF Gens
    <3> QED BY <1>1, <3>1, <3>2
  <2> QED BY <2>1, <2>3, StreamKept
<1>4. CASE Restart \/ Close
  <2>1. pc = "idle" /\ UNCHANGED <<port, signalled>>
        /\ \E what \in {"pipe", "exit"} : Terminate(what)
    BY <1>4 DEF Restart, Close
  <2>2. Fading /\ gen' = gen
    BY <2>1, TerminateFades
  <2>3. \A g \in Gens : \/ proc'["sender"][g] = proc["sender"][g]
                        \/ Alive("sender", g)
    BY <1>1, <2>2 DEF Fading, Alive
  <2> QED BY <2>1, <2>2, <2>3, StreamKept
<1>5. CASE Child
  <2>1. Fading /\ gen' = gen
    BY <1>5, ChildFades DEF start
  <2>2. \A g \in Gens : \/ proc'["sender"][g] = proc["sender"][g]
                        \/ Alive("sender", g)
    BY <1>1, <2>1 DEF Fading, Alive
  <2>3. \/ signalled' = signalled /\ port' \in {0, port}
        \/ port' = gen
    <3>1. ASSUME NEW g \in Gens, Bind(g)
          PROVE  \/ signalled' = signalled /\ port' = port
                 \/ port' = gen
      <4>1. g = gen
        <5>1. proc["recv"][g] = "up"
          BY <3>1 DEF Bind
        <5>2. ~(g > gen) /\ ~(g < gen)
          BY <1>1, <5>1 DEF GuiInv, Generations
        <5> QED BY <1>1, <5>2 DEF Gens
      <4> QED BY <3>1, <4>1 DEF Bind
    <3>2. ASSUME NEW k \in Kinds, NEW g \in Gens, Dies(k, g)
          PROVE  signalled' = signalled /\ port' \in {0, port}
      BY <3>2 DEF Dies
    <3> QED BY <1>5, <3>1, <3>2 DEF Child, DiesByItself, DiesOfSignal
  <2> QED BY <2>1, <2>2, <2>3, StreamKept
<1>6. CASE WaitReturns \/ WaitTimesOut
  <2>1. /\ pc = "reap" /\ Reaped /\ UNCHANGED <<port, signalled>>
        /\ \A j \in Kinds : handle[j] = gen
    BY <1>6 DEF WaitReturns, WaitTimesOut, children, GuiInv, Handles
  <2>2. \A g \in Gens : g < gen => proc'["sender"][g] = proc["sender"][g]
    <3>1. Order[reaping] \in Kinds
      BY DEF GuiInv, Types, Order, Kinds
    <3>2. \/ proc' = proc
          \/ proc' = [proc EXCEPT ![Order[reaping]][gen] = "kill"]
      BY <1>6, <2>1, <3>1 DEF WaitReturns, WaitTimesOut, children
    <3> QED BY <1>1, <3>1, <3>2 DEF GuiInv, Types
  <2>3. CASE gen' = gen
    BY <2>1, <2>2, <2>3, StreamKept
  <2>4. CASE gen' # gen
    <3>1. reaping = 3 /\ gen' = gen + 1
      <4>1. reaping \in 1..3
        BY DEF GuiInv, Types
      <4> QED BY <2>1, <2>4, <4>1 DEF Reaped
    <3>2. proc["sender"][gen] = "dead" /\ proc' = proc
      BY <1>6, <3>1, LastReap
    <3>3. ASSUME NEW g \in Gens, g < gen + 1
          PROVE  ~Alive("sender", g)
      <4>1. g < gen \/ g = gen
        BY <1>1, <3>3 DEF Gens
      <4> QED BY <3>2, <4>1 DEF StreamInv, Alive
    <3>4. gen + 1 \notin signalled
      <4>1. SUFFICES ASSUME gen + 1 \in signalled PROVE FALSE
        OBVIOUS
      <4>2. gen + 1 \in Gens /\ proc["recv"][gen + 1] # "none"
        BY <4>1 DEF GuiInv, Signals
      <4>3. gen + 1 > gen
        BY <1>1
      <4> QED BY <1>1, <4>2, <4>3 DEF GuiInv, Generations
    <3> QED BY <2>1, <3>1, <3>2, <3>3, <3>4 DEF StreamInv, Alive
  <2> QED BY <2>3, <2>4
<1> QED BY <1>2, <1>3, <1>4, <1>5, <1>6 DEF Next, Main, User

\* A receiver that is bound never hears the sender of another start: its own
\* sender waits for it, and the sender before it is reaped before its port can
\* be taken.  The hypothesis is that the sender, which handles no signal, dies
\* of SIGTERM within the 0.1 seconds of terminate_subprocesses().
THEOREM OneStreamAtATime ==
  ASSUME "sender" \notin Slow
  PROVE  Spec => []OneStream
<1>1. Init => GuiInv /\ StreamInv
  BY GuiInit
<1>2. GuiInv /\ StreamInv /\ [Next]_vars => GuiInv' /\ StreamInv'
  BY GuiStep, StreamStep
<1>3. GuiInv /\ StreamInv => OneStream
  <2> SUFFICES ASSUME GuiInv, StreamInv, NEW g \in Gens, port # 0, Alive("sender", g)
               PROVE  g = port
    BY DEF OneStream
  <2>1. "sender" \in Kinds /\ gen \in Int /\ g \in Int
    BY DEF Kinds, GuiInv, Types, Gens
  <2>2. ~(g < gen)
    BY DEF StreamInv
  <2>3. ~(g > gen)
    BY <2>1 DEF GuiInv, Generations, Alive
  <2>4. g = gen
    BY <2>1, <2>2, <2>3
  <2>5. gen \in signalled
    BY <2>4 DEF GuiInv, SenderAfterReady, Alive
  <2> QED BY <2>4, <2>5 DEF StreamInv
<1> QED BY <1>1, <1>2, <1>3, PTL DEF Spec
=============================================================================
