---------------------------- MODULE SenderProofs ----------------------------
(***************************************************************************)
(* The sender, for any files, speeds and commands: its stream (Sender),    *)
(* how commands come out of its input (Cli), and its clock (TimedSender):  *)
(* what the throttle lets through in any interval, when files begin, and   *)
(* that both only delay.                                                   *)
(***************************************************************************)
EXTENDS PartsProofs

-----------------------------------------------------------------------------
(* Sender: the stream.                                                     *)

\* What the sender may put on the network.
SentPackets == {Snd!FilePacket(f, i) : f \in Snd!Files, i \in Nat}

\* The number of a file is sent as it is, and a file has naturally many symbols.
LEMMA FileNumbers ==
  ASSUME NEW f \in Snd!Files
  PROVE  /\ f \in Nat /\ f % TOI_MOD = f
         /\ Snd!K(f) \in Nat
         /\ \A o \in Overheads : o \in Nat /\ Snd!NExtra(f, o) \in Nat
<1>1. /\ f \in 0..(TOI_MOD - 1) /\ TOI_MOD \in Nat \ {0} /\ f \in Nat
      /\ SndSize[f] \in Nat \ {0} /\ PD_T \in Nat \ {0} /\ Overheads \subseteq Nat
  BY PartsAssumption, CodingAssumption DEF Snd!Files, Snd!SenderAssumption
<1>2. \A a \in Nat, b \in Nat \ {0} : a \div b \in Nat
  OBVIOUS
<1>3. \A n \in Nat \ {0} : \A x \in 0..(n - 1) : x % n = x
  OBVIOUS
<1>4. Snd!K(f) \in Nat
  <2>1. SndSize[f] + PD_T - 1 \in Nat
    BY <1>1
  <2> QED BY <1>1, <1>2, <2>1 DEF Snd!K, Snd!KLarge, Snd!CeilDiv
<1>5. ASSUME NEW o \in Overheads
      PROVE  o \in Nat /\ Snd!NExtra(f, o) \in Nat
  <2>1. o \in Nat
    BY <1>1
  <2>2. Snd!K(f) * o \in Nat
    BY <1>4, <2>1
  <2>3. Snd!K(f) * o + 100 - 1 \in Nat
    BY <2>2
  <2> QED BY <1>2, <2>1, <2>3 DEF Snd!NExtra, Snd!CeilDiv
<1> QED BY <1>1, <1>3, <1>4, <1>5

\* SymbolId() finds the place of a packet in its file from header fields only:
\* the symbols of a file are numbered by the packets that carry them.
LEMMA PacketNumbers ==
  ASSUME NEW f \in Snd!Files, NEW i \in Nat
  PROVE  /\ Snd!FilePacket(f, i).toi = f
         /\ Snd!SymbolId(Snd!FilePacket(f, i)) = i
<1> DEFINE k == Snd!K(f)
<1>1. k \in Nat /\ k = Snd!KLarge(SndSize[f]) /\ PD_T \in Nat \ {0} /\ f % TOI_MOD = f
  BY FileNumbers, CodingAssumption DEF Snd!K
<1>2. \A j \in Nat : (j * PD_T) \div PD_T = j
  BY <1>1
<1> HIDE DEF k
<1>3. CASE i < k
  <2>1. /\ Snd!FilePacket(f, i).toi = f
        /\ Snd!SymbolId(Snd!FilePacket(f, i)) = (i * PD_T) \div PD_T
    BY <1>1, <1>3 DEF Snd!FilePacket, Snd!SourcePacket, Snd!SymbolId, Snd!SOURCE, k
  <2> QED BY <1>2, <2>1
<1>4. CASE ~(i < k)
  <2>1. /\ Snd!FilePacket(f, i).toi = f
        /\ Snd!SymbolId(Snd!FilePacket(f, i)) = k + ((i - k) * PD_T) \div PD_T
    BY <1>1, <1>4
    DEF Snd!FilePacket, Snd!RepairPacket, Snd!SymbolId, Snd!SOURCE, Snd!REPAIR, k
  <2>2. i - k \in Nat
    BY <1>1, <1>4
  <2> QED BY <1>1, <1>2, <2>1, <2>2
<1> QED BY <1>3, <1>4

\* What is sent has numbers.
LEMMA SentNumbers ==
  ASSUME NEW p \in SentPackets
  PROVE  p.toi \in Nat /\ Snd!SymbolId(p) \in Nat
<1>1. PICK f \in Snd!Files, i \in Nat : p = Snd!FilePacket(f, i)
  BY DEF SentPackets
<1> QED BY <1>1, PacketNumbers, FileNumbers

\* All that was sent comes before what is sent next.
StreamInv ==
  /\ s_file \in Nat /\ s_next \in Nat /\ n_extra \in Nat /\ overhead \in Overheads
  /\ s_pc # "exit" => s_file \in Snd!Files
  /\ net \in Seq(SentPackets)
  /\ Snd!StreamOrder
  /\ \A j \in DOMAIN net :
        \/ net[j].toi < s_file
        \/ net[j].toi = s_file /\ Snd!SymbolId(net[j]) < s_next

\* A packet goes to the end of the stream.
LEMMA StreamGrows ==
  ASSUME StreamInv, Snd!SendPacket, net' # net
  PROVE  StreamInv'
<1> DEFINE p == Snd!FilePacket(s_file, s_next)
<1>0. net \in Seq(SentPackets) /\ net' = Append(net, p)
  BY DEF StreamInv, Snd!SendPacket
<1>1. /\ s_file \in Snd!Files /\ s_file \in Nat /\ s_next \in Nat
      /\ s_next' = s_next + 1
      /\ UNCHANGED <<s_pc, s_file, n_extra, overhead>>
  BY DEF StreamInv, Snd!SendPacket
<1>2. p \in SentPackets /\ p.toi = s_file /\ Snd!SymbolId(p) = s_next
  BY <1>1, PacketNumbers DEF SentPackets
<1> HIDE DEF p
<1>3. /\ DOMAIN net = 1..Len(net) /\ Len(net) \in Nat /\ net' \in Seq(SentPackets)
      /\ DOMAIN net' = 1..(Len(net) + 1) /\ Len(net') = Len(net) + 1
      /\ \A j \in 1..Len(net) : net'[j] = net[j]
      /\ net'[Len(net) + 1] = p
  BY <1>0, <1>2
<1>4. Snd!StreamOrder'
  <2>1. ASSUME NEW j \in 2..Len(net')
        PROVE  \/ net'[j - 1].toi < net'[j].toi
               \/ /\ net'[j - 1].toi = net'[j].toi
                  /\ Snd!SymbolId(net'[j - 1]) < Snd!SymbolId(net'[j])
    <3>1. CASE j = Len(net) + 1
      <4>1. net'[j] = p /\ net'[j - 1] = net[j - 1] /\ j - 1 \in DOMAIN net
        BY <1>3, <3>1
      <4> QED BY <1>2, <4>1 DEF StreamInv
    <3>2. CASE j # Len(net) + 1
      <4>1. net'[j] = net[j] /\ net'[j - 1] = net[j - 1] /\ j \in 2..Len(net)
        BY <1>3, <3>2
      <4> QED BY <4>1 DEF StreamInv, Snd!StreamOrder
    <3> QED BY <3>1, <3>2
  <2> QED BY <2>1 DEF Snd!StreamOrder
<1>5. \A j \in DOMAIN net' : \/ net'[j].toi < s_file
                             \/ net'[j].toi = s_file /\ Snd!SymbolId(net'[j]) < s_next + 1
  <2>1. ASSUME NEW j \in DOMAIN net'
        PROVE  \/ net'[j].toi < s_file
               \/ net'[j].toi = s_file /\ Snd!SymbolId(net'[j]) < s_next + 1
    <3>1. CASE j = Len(net) + 1
      <4>1. net'[j] = p /\ s_next < s_next + 1
        BY <1>1, <1>3, <3>1
      <4> QED BY <1>2, <4>1
    <3>2. CASE j # Len(net) + 1
      <4>1. j \in DOMAIN net /\ net'[j] = net[j]
        BY <1>3, <2>1, <3>2
      <4>2. net[j] \in SentPackets
        BY <1>0, <4>1
      <4>3. Snd!SymbolId(net[j]) \in Nat
        BY <4>2, SentNumbers
      <4>4. Snd!SymbolId(net[j]) < s_next => Snd!SymbolId(net[j]) < s_next + 1
        BY <1>1, <4>3
      <4> QED BY <4>1, <4>4 DEF StreamInv
    <3> QED BY <3>1, <3>2
  <2> QED BY <2>1
<1>6. net' \in Seq(SentPackets) /\ n_extra \in Nat /\ overhead \in Overheads
  BY <1>3 DEF StreamInv
<1>7. \A j \in DOMAIN net' : \/ net'[j].toi < s_file'
                             \/ net'[j].toi = s_file' /\ Snd!SymbolId(net'[j]) < s_next'
  BY <1>1, <1>5
<1> QED BY <1>1, <1>4, <1>6, <1>7 DEF StreamInv

\* The next file comes after all that was sent.
LEMMA StreamGoesOn ==
  ASSUME StreamInv, Snd!NextFile
  PROVE  StreamInv'
<1>1. /\ s_file \in Snd!Files /\ s_file' = s_file + 1 /\ s_next' = 0 /\ s_file \in Nat
      /\ UNCHANGED <<overhead, net>> /\ overhead \in Overheads /\ SndFiles \in Nat
      /\ \/ s_pc' = "exit" /\ n_extra' = n_extra
         \/ s_file + 1 # SndFiles /\ n_extra' = Snd!NExtra(s_file', overhead)
  BY PartsAssumption DEF StreamInv, Snd!NextFile, Snd!SenderAssumption
<1>2. s_file + 1 # SndFiles => s_file + 1 \in Snd!Files
  BY <1>1 DEF Snd!Files
<1>3. n_extra' \in Nat
  BY <1>1, <1>2, FileNumbers DEF StreamInv
<1>4. \A j \in DOMAIN net : net[j].toi < s_file + 1
  <2>1. \A j \in DOMAIN net : net[j].toi \in Nat
    BY SentNumbers DEF StreamInv
  <2> QED BY <1>1, <2>1 DEF StreamInv
<1>5. Snd!StreamOrder'
  BY <1>1 DEF StreamInv, Snd!StreamOrder
<1> QED BY <1>1, <1>2, <1>3, <1>4, <1>5 DEF StreamInv

\* Steps that put nothing on the network and do not leave the file.
LEMMA StreamQuiet ==
  ASSUME StreamInv, UNCHANGED <<s_file, n_extra, net>>, overhead' \in Overheads,
         s_next' \in {s_next, s_next + 1}, s_pc' \in {s_pc, "exit"} \/ s_pc # "exit"
  PROVE  StreamInv'
<1>1. \A j \in DOMAIN net : Snd!SymbolId(net[j]) \in Nat
  BY SentNumbers DEF StreamInv
<1>2. s_next \in Nat
  BY DEF StreamInv
<1>3. \A j \in DOMAIN net : \/ net[j].toi < s_file
                            \/ net[j].toi = s_file /\ Snd!SymbolId(net[j]) < s_next'
  BY <1>1, <1>2 DEF StreamInv
<1>4. Snd!StreamOrder'
  BY DEF StreamInv, Snd!StreamOrder
<1> QED BY <1>2, <1>3, <1>4 DEF StreamInv

\* send_segments(), xmit_file() and udp_sendmsg(): no packet of a file follows one
\* of a later file, and no symbol of a file is sent twice, whatever is dropped and
\* however the overhead changes between files.
THEOREM StreamIsOrdered == Snd!Spec => []StreamOrder
<1>1. Snd!Init => StreamInv
  <2> SUFFICES ASSUME Snd!Init PROVE StreamInv
    OBVIOUS
  <2>1. 0 \in Snd!Files
    BY PartsAssumption DEF Snd!Files, Snd!SenderAssumption
  <2>2. n_extra \in Nat /\ overhead \in Overheads
    BY <2>1, FileNumbers DEF Snd!Init
  <2> QED BY <2>1, <2>2 DEF Snd!Init, StreamInv, Snd!StreamOrder
<1>2. StreamInv /\ [Snd!Next]_(Snd!vars) => StreamInv'
  <2> SUFFICES ASSUME StreamInv, [Snd!Next]_(Snd!vars) PROVE StreamInv'
    OBVIOUS
  <2>1. CASE Snd!SendPacket /\ net' # net
    BY <2>1, StreamGrows
  <2>2. CASE Snd!NextFile
    BY <2>2, StreamGoesOn
  <2>3. CASE \/ Snd!SendPacket /\ net' = net
             \/ Snd!FileSent \/ Snd!XmitFails \/ Snd!CliCommand \/ Snd!CliExit
             \/ UNCHANGED Snd!vars
    <3>1. /\ UNCHANGED <<s_file, n_extra, net>> /\ overhead' \in Overheads
          /\ s_next' \in {s_next, s_next + 1}
          /\ s_pc' \in {s_pc, "exit"} \/ s_pc # "exit"
      BY <2>3 DEF StreamInv, Snd!SendPacket, Snd!FileSent, Snd!XmitFails,
                  Snd!CliCommand, Snd!CliExit, Snd!vars
    <3> QED BY <3>1, StreamQuiet
  <2> QED BY <2>1, <2>2, <2>3 DEF Snd!Next
<1>3. StreamInv => StreamOrder
  BY DEF StreamInv, StreamOrder
<1> QED BY <1>1, <1>2, <1>3, PTL DEF Snd!Spec

-----------------------------------------------------------------------------
(* Cli: the texts one after another.                                       *)

Chars == [line : Nat, place : Nat, eol : BOOLEAN]

\* Sequences of characters put together.
LEMMA JoinAssociative ==
  \A s, t, u \in Seq(Chars) : (s \o t) \o u = s \o (t \o u)
<1> HIDE DEF Chars
<1> QED BY ConcatAssociative

LEMMA JoinCancels ==
  \A s, t, u \in Seq(Chars) : s \o t = s \o u => t = u
<1> HIDE DEF Chars
<1> SUFFICES ASSUME NEW s \in Seq(Chars), NEW t \in Seq(Chars), NEW u \in Seq(Chars),
                    s \o t = s \o u
             PROVE  t = u
  OBVIOUS
<1>1. /\ Len(s \o t) = Len(s) + Len(t) /\ Len(s \o u) = Len(s) + Len(u)
      /\ Len(s) \in Nat /\ Len(t) \in Nat /\ Len(u) \in Nat
  BY ConcatProperties
<1>2. Len(t) = Len(u)
  BY <1>1
<1>3. ASSUME NEW i \in 1..Len(t)
      PROVE  t[i] = u[i]
  <2>1. /\ Len(s) + i \in 1..(Len(s) + Len(t)) /\ Len(s) + i \in 1..(Len(s) + Len(u))
        /\ ~(Len(s) + i <= Len(s)) /\ (Len(s) + i) - Len(s) = i
    BY <1>1, <1>2
  <2>2. (s \o t)[Len(s) + i] = t[i]
    BY <2>1, ConcatProperties
  <2>3. (s \o u)[Len(s) + i] = u[i]
    BY <2>1, ConcatProperties
  <2> QED BY <2>2, <2>3
<1> QED BY <1>2, <1>3, SeqEqual

\* The text of the first i sequences of ss.
Joined(g, ss) ==
  /\ g \in [0..Len(ss) -> Seq(Chars)]
  /\ g[0] = <<>>
  /\ \A i \in 1..Len(ss) : g[i] = g[i - 1] \o ss[i]

\* The same, as FlattenSeq has it, for the first n.
Flat(g, ss, n) ==
  g = [i \in 1..n |-> IF i = 1 THEN ss[i] ELSE g[i - 1] \o ss[i]]

\* The recursion defines a function.
LEMMA FlatExists ==
  ASSUME NEW ss, NEW N \in Nat
  PROVE  \E g : Flat(g, ss, N)
<1> DEFINE T == {n \in Nat : \E g : Flat(g, ss, n)}
<1>1. 0 \in T
  <2>1. Flat([i \in 1..0 |-> <<>>], ss, 0)
    BY DEF Flat
  <2> QED BY <2>1
<1>2. ASSUME NEW n \in 0..(N - 1), n \in T
      PROVE  n + 1 \in T
  <2>1. PICK g : Flat(g, ss, n)
    BY <1>2
  <2> DEFINE h == [i \in 1..(n + 1) |-> IF i = n + 1
                     THEN IF i = 1 THEN ss[i] ELSE g[n] \o ss[i]
                     ELSE g[i]]
             e == [i \in 1..(n + 1) |-> IF i = 1 THEN ss[i] ELSE h[i - 1] \o ss[i]]
  <2>2. \A i \in 1..n : g[i] = IF i = 1 THEN ss[i] ELSE g[i - 1] \o ss[i]
    <3>1. g = [i \in 1..n |-> IF i = 1 THEN ss[i] ELSE g[i - 1] \o ss[i]]
      BY <2>1 DEF Flat
    <3> HIDE DEF h, e
    <3> QED BY <3>1
  <2>3. ASSUME NEW i \in 1..(n + 1)
        PROVE  h[i] = IF i = 1 THEN ss[i] ELSE h[i - 1] \o ss[i]
    <3>1. i # 1 => i - 1 \in 1..(n + 1) /\ i - 1 # n + 1 /\ h[i - 1] = g[i - 1]
      OBVIOUS
    <3>2. CASE i = n + 1
      BY <3>1, <3>2
    <3>3. CASE i # n + 1
      <4>1. i \in 1..n /\ h[i] = g[i]
        BY <3>3
      <4> QED BY <2>2, <3>1, <4>1
    <3> QED BY <3>2, <3>3
  <2>4. h = e
    BY <2>3
  <2>5. Flat(h, ss, n + 1)
    BY <2>4 DEF Flat
  <2> QED BY <2>5
<1> HIDE DEF T
<1>3. N \in T
  BY <1>1, <1>2, UpTo
<1> QED BY <1>3 DEF T

\* FlattenSeq() joins.
LEMMA FlattenJoins ==
  ASSUME NEW ss \in Seq(Seq(Chars))
  PROVE  \E g : Joined(g, ss) /\ Line!FlattenSeq(ss) = g[Len(ss)]
<1> HIDE DEF Chars
<1>1. CASE ss = <<>>
  <2> DEFINE g == [i \in 0..0 |-> <<>>]
  <2>1. Len(ss) = 0 /\ <<>> \in Seq(Chars)
    BY <1>1
  <2>2. Joined(g, ss)
    BY <2>1 DEF Joined
  <2>3. Line!FlattenSeq(ss) = g[Len(ss)]
    BY <1>1, <2>1 DEF Line!FlattenSeq
  <2> QED BY <2>2, <2>3
<1>2. CASE ss # <<>>
  <2> DEFINE f == CHOOSE f : f = [i \in 1..Len(ss) |-> IF i = 1 THEN ss[i] ELSE f[i - 1] \o ss[i]]
  <2>1. Len(ss) \in Nat \ {0} /\ DOMAIN ss = 1..Len(ss)
    BY <1>2
  <2>2. Flat(f, ss, Len(ss))
    <3>1. \E g : Flat(g, ss, Len(ss))
      BY <2>1, FlatExists
    <3> QED BY <3>1 DEF Flat
  <2>3. Line!FlattenSeq(ss) = f[Len(ss)]
    BY <2>1 DEF Line!FlattenSeq
  <2>4. \A i \in 1..Len(ss) : f[i] = IF i = 1 THEN ss[i] ELSE f[i - 1] \o ss[i]
    <3>1. f = [i \in 1..Len(ss) |-> IF i = 1 THEN ss[i] ELSE f[i - 1] \o ss[i]]
      BY <2>2 DEF Flat
    <3> HIDE DEF f
    <3> QED BY <3>1
  <2> HIDE DEF f
  <2> DEFINE T == {n \in Nat : n = 0 \/ f[n] \in Seq(Chars)}
  <2>5. \A i \in 1..Len(ss) : ss[i] \in Seq(Chars)
    BY <2>1
  <2>6. ASSUME NEW n \in 0..(Len(ss) - 1), n \in T
        PROVE  n + 1 \in T
    <3>1. n + 1 \in 1..Len(ss) /\ n + 1 \in Nat /\ (n + 1) - 1 = n
      BY <2>1
    <3>2. CASE n = 0
      BY <2>4, <2>5, <3>1, <3>2
    <3>3. CASE n # 0
      <4>1. f[n] \in Seq(Chars) /\ ss[n + 1] \in Seq(Chars) /\ n + 1 # 1
        BY <2>5, <2>6, <3>1, <3>3
      <4>2. f[n + 1] = f[n] \o ss[n + 1]
        BY <2>4, <3>1, <4>1
      <4> QED BY <3>1, <4>1, <4>2, ConcatProperties
    <3> QED BY <3>2, <3>3
  <2>7. 0 \in T
    OBVIOUS
  <2>8. \A n \in 0..Len(ss) : n \in T
    <3> HIDE DEF T
    <3> QED BY <2>1, <2>6, <2>7, UpTo
  <2>9. \A i \in 1..Len(ss) : f[i] \in Seq(Chars)
    BY <2>1, <2>8
  <2> DEFINE g == [i \in 0..Len(ss) |-> IF i = 0 THEN <<>> ELSE f[i]]
  <2>10. g \in [0..Len(ss) -> Seq(Chars)] /\ g[0] = <<>>
    BY <2>1, <2>9
  <2>11. ASSUME NEW i \in 1..Len(ss)
         PROVE  g[i] = g[i - 1] \o ss[i]
    <3>1. i \in 0..Len(ss) /\ i - 1 \in 0..Len(ss) /\ g[i] = f[i]
      BY <2>1
    <3>2. CASE i = 1
      <4>1. g[i - 1] = <<>> /\ ss[i] \in Seq(Chars) /\ f[i] = ss[i]
        BY <2>4, <2>5, <2>10, <3>2
      <4> QED BY <3>1, <4>1, ConcatEmptySeq
    <3>3. CASE i # 1
      <4>1. g[i - 1] = f[i - 1]
        BY <3>1, <3>3
      <4> QED BY <2>4, <3>1, <3>3, <4>1
    <3> QED BY <3>2, <3>3
  <2>12. Joined(g, ss)
    <3> HIDE DEF g
    <3> QED BY <2>10, <2>11 DEF Joined
  <2>13. g[Len(ss)] = f[Len(ss)]
    BY <2>1
  <2> QED BY <2>3, <2>12, <2>13
<1> QED BY <1>1, <1>2

\* One more sequence at the end.
LEMMA FlattenLast ==
  ASSUME NEW ss \in Seq(Seq(Chars)), NEW tt \in Seq(Seq(Chars)),
         Len(tt) = Len(ss) + 1, \A i \in 1..Len(ss) : tt[i] = ss[i]
  PROVE  /\ Line!FlattenSeq(tt) = Line!FlattenSeq(ss) \o tt[Len(tt)]
         /\ Line!FlattenSeq(ss) \in Seq(Chars)
<1> HIDE DEF Chars
<1>1. PICK g : Joined(g, ss) /\ Line!FlattenSeq(ss) = g[Len(ss)]
  BY FlattenJoins
<1>2. PICK h : Joined(h, tt) /\ Line!FlattenSeq(tt) = h[Len(tt)]
  BY FlattenJoins
<1> DEFINE T == {n \in Nat : h[n] = g[n]}
<1>3. Len(ss) \in Nat
  OBVIOUS
<1>4. 0 \in T
  BY <1>1, <1>2 DEF Joined
<1>5. ASSUME NEW n \in 0..(Len(ss) - 1), n \in T
      PROVE  n + 1 \in T
  <2>1. n + 1 \in 1..Len(ss) /\ n + 1 \in 1..Len(tt) /\ n + 1 \in Nat /\ (n + 1) - 1 = n
    BY <1>3
  <2>2. h[n + 1] = h[n] \o tt[n + 1] /\ g[n + 1] = g[n] \o ss[n + 1]
    BY <1>1, <1>2, <2>1 DEF Joined
  <2> QED BY <1>5, <2>1, <2>2
<1>6. Len(ss) \in T
  <2> HIDE DEF T
  <2>1. \A n \in 0..Len(ss) : n \in T
    BY <1>3, <1>4, <1>5, UpTo
  <2> QED BY <1>3, <2>1
<1>7. Len(tt) \in 1..Len(tt) /\ Len(tt) - 1 = Len(ss)
  BY <1>3
<1>8. h[Len(tt)] = h[Len(ss)] \o tt[Len(tt)]
  BY <1>2, <1>7 DEF Joined
<1>9. g[Len(ss)] \in Seq(Chars)
  <2>1. Len(ss) \in 0..Len(ss) /\ g \in [0..Len(ss) -> Seq(Chars)]
    BY <1>1, <1>3 DEF Joined
  <2> QED BY <2>1
<1> QED BY <1>1, <1>2, <1>6, <1>8, <1>9

\* One more sequence at the front.
LEMMA FlattenFirst ==
  ASSUME NEW ss \in Seq(Seq(Chars)), NEW tt \in Seq(Seq(Chars)),
         Len(tt) = Len(ss) + 1, \A i \in 1..Len(ss) : tt[i + 1] = ss[i]
  PROVE  Line!FlattenSeq(tt) = tt[1] \o Line!FlattenSeq(ss)
<1> HIDE DEF Chars
<1>1. PICK g : Joined(g, ss) /\ Line!FlattenSeq(ss) = g[Len(ss)]
  BY FlattenJoins
<1>2. PICK h : Joined(h, tt) /\ Line!FlattenSeq(tt) = h[Len(tt)]
  BY FlattenJoins
<1> DEFINE T == {n \in Nat : h[n + 1] = tt[1] \o g[n]}
<1>3. /\ Len(ss) \in Nat /\ Len(tt) \in Nat /\ tt[1] \in Seq(Chars)
      /\ \A i \in 1..Len(ss) : ss[i] \in Seq(Chars)
  OBVIOUS
<1>4. 0 \in T
  <2>1. 1 \in 1..Len(tt) /\ h[0] = <<>> /\ g[0] = <<>> /\ 1 - 1 = 0 /\ 0 + 1 = 1
    BY <1>1, <1>2, <1>3 DEF Joined
  <2>2. h[1] = h[0] \o tt[1]
    BY <1>2, <2>1 DEF Joined
  <2>3. <<>> \o tt[1] = tt[1] /\ tt[1] \o <<>> = tt[1]
    BY <1>3, ConcatEmptySeq
  <2> QED BY <2>1, <2>2, <2>3
<1>5. ASSUME NEW n \in 0..(Len(ss) - 1), n \in T
      PROVE  n + 1 \in T
  <2>1. /\ n + 1 \in 1..Len(ss) /\ (n + 1) + 1 \in 1..Len(tt) /\ n + 1 \in Nat
        /\ (n + 1) - 1 = n /\ ((n + 1) + 1) - 1 = n + 1 /\ n \in 0..Len(ss)
    BY <1>3
  <2>2. h[(n + 1) + 1] = h[n + 1] \o tt[(n + 1) + 1] /\ g[n + 1] = g[n] \o ss[n + 1]
    BY <1>1, <1>2, <2>1 DEF Joined
  <2>3. h[n + 1] = tt[1] \o g[n] /\ tt[(n + 1) + 1] = ss[n + 1]
    BY <1>5, <2>1
  <2>4. g[n] \in Seq(Chars) /\ ss[n + 1] \in Seq(Chars)
    BY <1>1, <1>3, <2>1 DEF Joined
  <2>5. (tt[1] \o g[n]) \o ss[n + 1] = tt[1] \o (g[n] \o ss[n + 1])
    BY <1>3, <2>4, JoinAssociative
  <2>6. h[(n + 1) + 1] = tt[1] \o g[n + 1]
    BY <2>2, <2>3, <2>5
  <2> QED BY <2>1, <2>6
<1>6. Len(ss) \in T
  <2> HIDE DEF T
  <2>1. \A n \in 0..Len(ss) : n \in T
    BY <1>3, <1>4, <1>5, UpTo
  <2>2. Len(ss) \in 0..Len(ss)
    BY <1>3
  <2> QED BY <2>1, <2>2
<1> QED BY <1>1, <1>2, <1>6

\* The lines from line n on, one by one.
TextsFrom(ls, n) ==
  [k \in 1..(Len(ls) - n + 1) |-> Line!Text(n + k - 1, ls[n + k - 1])]

\* The character at place i of a line of length l.
LEMMA CharFields ==
  ASSUME NEW n, NEW i \in Nat, NEW l \in Nat, NEW c,
         c = Line!Char(n, i, i = l + 1)
  PROVE  c.line = n /\ c.place = i /\ (c.eol <=> i = l + 1)
<1>1. \A b \in BOOLEAN : /\ Line!Char(n, i, b).line = n /\ Line!Char(n, i, b).place = i
                         /\ Line!Char(n, i, b).eol = b
  BY DEF Line!Char
<1>2. (i = l + 1) \in BOOLEAN
  OBVIOUS
<1> QED BY <1>1, <1>2

\* A text ends with its only newline.
LEMMA TextFacts ==
  ASSUME NEW n \in Nat, NEW l \in Nat
  PROVE  /\ Line!Text(n, l) \in Seq(Chars)
         /\ Len(Line!Text(n, l)) = l + 1
         /\ \A i \in 1..(l + 1) : Line!Text(n, l)[i].eol <=> i = l + 1
         /\ \A i \in 1..(l + 1) : Line!Text(n, l)[i].line = n
<1> DEFINE t == [i \in 1..(l + 1) |-> Line!Char(n, i, i = l + 1)]
<1>1. t = Line!Text(n, l)
  BY DEF Line!Text
<1>2. ASSUME NEW i \in 1..(l + 1)
      PROVE  t[i] \in Chars /\ (t[i].eol <=> i = l + 1) /\ t[i].line = n
  <2>1. t[i] = Line!Char(n, i, i = l + 1) /\ i \in Nat
    OBVIOUS
  <2>2. \A b \in BOOLEAN : /\ Line!Char(n, i, b) \in Chars /\ Line!Char(n, i, b).eol = b
                           /\ Line!Char(n, i, b).line = n
    BY DEF Line!Char, Chars
  <2> HIDE DEF t
  <2>3. (i = l + 1) \in BOOLEAN
    OBVIOUS
  <2> QED BY <2>1, <2>2, <2>3
<1>3. t \in [1..(l + 1) -> Chars]
  BY <1>2
<1>4. t \in Seq(Chars) /\ Len(t) = l + 1
  <2> HIDE DEF Chars, t
  <2>1. l + 1 \in Nat
    OBVIOUS
  <2>2. t \in Seq(Chars)
    BY <1>3, <2>1, SeqDef
  <2>3. DOMAIN t = 1..(l + 1) /\ DOMAIN t = 1..Len(t) /\ Len(t) \in Nat
    BY <1>3, <2>2, LenProperties
  <2> QED BY <2>1, <2>2, <2>3
<1> QED BY <1>1, <1>2, <1>4

\* There is a text for each of the lines.
LEMMA TextsFacts ==
  ASSUME NEW ls \in Seq(Nat), NEW n \in 1..(Len(ls) + 1)
  PROVE  /\ TextsFrom(ls, n) \in Seq(Seq(Chars))
         /\ Len(TextsFrom(ls, n)) = Len(ls) - n + 1
         /\ \A k \in 1..(Len(ls) - n + 1) :
              TextsFrom(ls, n)[k] = Line!Text(n + k - 1, ls[n + k - 1])
<1> HIDE DEF Chars
<1> DEFINE m == Len(ls) - n + 1
<1>1. m \in Nat /\ Len(ls) \in Nat
  OBVIOUS
<1>2. ASSUME NEW k \in 1..m
      PROVE  Line!Text(n + k - 1, ls[n + k - 1]) \in Seq(Chars)
  <2> DEFINE j == n + k - 1
  <2>1. j \in 1..Len(ls) /\ j \in Nat
    BY <1>1
  <2> HIDE DEF j
  <2>2. ls[j] \in Nat
    BY <1>1, <2>1
  <2>3. Line!Text(j, ls[j]) \in Seq(Chars)
    BY <2>1, <2>2, TextFacts
  <2> QED BY <2>3 DEF j
<1>3. TextsFrom(ls, n) \in [1..m -> Seq(Chars)]
  BY <1>2 DEF TextsFrom
<1>4. TextsFrom(ls, n) \in Seq(Seq(Chars))
  <2> DEFINE S == Seq(Chars)
             texts == TextsFrom(ls, n)
  <2>1. texts \in [1..m -> S]
    BY <1>3
  <2> HIDE DEF m, S, texts
  <2>2. texts \in Seq(S)
    BY <1>1, <2>1, SeqDef
  <2> QED BY <2>2 DEF S, texts
<1>5. Len(TextsFrom(ls, n)) = m
  <2>1. /\ DOMAIN TextsFrom(ls, n) = 1..m
        /\ DOMAIN TextsFrom(ls, n) = 1..Len(TextsFrom(ls, n))
        /\ Len(TextsFrom(ls, n)) \in Nat
    BY <1>3, <1>4, LenProperties
  <2> QED BY <1>1, <2>1
<1> QED BY <1>4, <1>5 DEF TextsFrom

From(ls, n) == Line!FlattenSeq(TextsFrom(ls, n))

\* What is written from line n on: characters, and none after the last line.
LEMMA FromFacts ==
  ASSUME NEW ls \in Seq(Nat), NEW n \in 1..(Len(ls) + 1)
  PROVE  /\ From(ls, n) \in Seq(Chars)
         /\ n = Len(ls) + 1 => From(ls, n) = <<>>
<1> HIDE DEF Chars
<1>1. TextsFrom(ls, n) \in Seq(Seq(Chars)) /\ Len(TextsFrom(ls, n)) = Len(ls) - n + 1
  BY TextsFacts
<1>2. PICK g : Joined(g, TextsFrom(ls, n)) /\ From(ls, n) = g[Len(TextsFrom(ls, n))]
  BY <1>1, FlattenJoins DEF From
<1>3. /\ Len(TextsFrom(ls, n)) \in 0..Len(TextsFrom(ls, n))
      /\ n = Len(ls) + 1 => Len(TextsFrom(ls, n)) = 0
  BY <1>1
<1> QED BY <1>2, <1>3 DEF Joined

\* It begins with line n.
LEMMA FromFirst ==
  ASSUME NEW ls \in Seq(Nat), NEW n \in 1..Len(ls)
  PROVE  From(ls, n) = Line!Text(n, ls[n]) \o From(ls, n + 1)
<1> HIDE DEF Chars
<1>1. Len(ls) \in Nat /\ n \in 1..(Len(ls) + 1) /\ n + 1 \in 1..(Len(ls) + 1)
  OBVIOUS
<1> DEFINE ss == TextsFrom(ls, n + 1)
           tt == TextsFrom(ls, n)
<1>2. /\ ss \in Seq(Seq(Chars)) /\ Len(ss) = Len(ls) - n
      /\ \A k \in 1..(Len(ls) - n) : ss[k] = Line!Text(n + k, ls[n + k])
  <2>1. /\ ss \in Seq(Seq(Chars)) /\ Len(ss) = Len(ls) - (n + 1) + 1
        /\ \A k \in 1..(Len(ls) - (n + 1) + 1) :
             ss[k] = Line!Text((n + 1) + k - 1, ls[(n + 1) + k - 1])
    BY <1>1, TextsFacts
  <2>2. \A k \in Nat : (n + 1) + k - 1 = n + k
    OBVIOUS
  <2>3. Len(ls) - (n + 1) + 1 = Len(ls) - n
    OBVIOUS
  <2> HIDE DEF ss
  <2>4. ASSUME NEW k \in 1..(Len(ls) - n)
        PROVE  ss[k] = Line!Text(n + k, ls[n + k])
    <3>1. k \in 1..(Len(ls) - (n + 1) + 1) /\ k \in Nat
      BY <1>1, <2>3
    <3>2. (n + 1) + k - 1 = n + k
      BY <2>2, <3>1
    <3>3. ss[k] = Line!Text((n + 1) + k - 1, ls[(n + 1) + k - 1])
      BY <2>1, <3>1
    <3> QED BY <3>2, <3>3
  <2> QED BY <2>1, <2>3, <2>4
<1>3. /\ tt \in Seq(Seq(Chars)) /\ Len(tt) = Len(ls) - n + 1
      /\ \A k \in 1..(Len(ls) - n + 1) : tt[k] = Line!Text(n + k - 1, ls[n + k - 1])
  BY <1>1, TextsFacts
<1> HIDE DEF ss, tt
<1>4. Len(tt) = Len(ss) + 1
  BY <1>1, <1>2, <1>3
<1>5. ASSUME NEW k \in 1..Len(ss)
      PROVE  tt[k + 1] = ss[k]
  <2>1. k \in 1..(Len(ls) - n) /\ k + 1 \in 1..(Len(ls) - n + 1) /\ n + (k + 1) - 1 = n + k
    BY <1>1, <1>2
  <2> QED BY <1>2, <1>3, <2>1
<1>6. tt[1] = Line!Text(n, ls[n])
  <2>1. 1 \in 1..(Len(ls) - n + 1) /\ n + 1 - 1 = n
    BY <1>1
  <2> QED BY <1>3, <2>1
<1>7. Line!FlattenSeq(tt) = tt[1] \o Line!FlattenSeq(ss)
  BY <1>2, <1>3, <1>4, <1>5, FlattenFirst
<1> QED BY <1>6, <1>7 DEF From, ss, tt

\* A line that is written comes last.
LEMMA FromLast ==
  ASSUME NEW ls \in Seq(Nat), NEW l \in Nat, NEW n \in 1..(Len(ls) + 1)
  PROVE  From(Append(ls, l), n) = From(ls, n) \o Line!Text(Len(ls) + 1, l)
<1> HIDE DEF Chars
<1> DEFINE ms == Append(ls, l)
<1>1. /\ ms \in Seq(Nat) /\ Len(ms) = Len(ls) + 1 /\ ms[Len(ls) + 1] = l
      /\ \A k \in 1..Len(ls) : ms[k] = ls[k]
      /\ Len(ls) \in Nat /\ n \in 1..(Len(ms) + 1)
  OBVIOUS
<1> DEFINE ss == TextsFrom(ls, n)
           tt == TextsFrom(ms, n)
<1> HIDE DEF ms
<1>2. /\ ss \in Seq(Seq(Chars)) /\ Len(ss) = Len(ls) - n + 1
      /\ \A k \in 1..(Len(ls) - n + 1) : ss[k] = Line!Text(n + k - 1, ls[n + k - 1])
  BY TextsFacts
<1>3. /\ tt \in Seq(Seq(Chars)) /\ Len(tt) = Len(ls) - n + 2
      /\ \A k \in 1..(Len(ls) - n + 2) : tt[k] = Line!Text(n + k - 1, ms[n + k - 1])
  <2>1. /\ tt \in Seq(Seq(Chars)) /\ Len(tt) = Len(ms) - n + 1
        /\ \A k \in 1..(Len(ms) - n + 1) : tt[k] = Line!Text(n + k - 1, ms[n + k - 1])
    BY <1>1, TextsFacts
  <2>2. Len(ms) - n + 1 = Len(ls) - n + 2
    BY <1>1
  <2> QED BY <2>1, <2>2
<1> HIDE DEF ss, tt
<1>4. Len(tt) = Len(ss) + 1
  BY <1>1, <1>2, <1>3
<1>5. ASSUME NEW k \in 1..Len(ss)
      PROVE  tt[k] = ss[k]
  <2>1. /\ k \in 1..(Len(ls) - n + 1) /\ k \in 1..(Len(ls) - n + 2)
        /\ n + k - 1 \in 1..Len(ls)
    BY <1>1, <1>2
  <2> QED BY <1>1, <1>2, <1>3, <2>1
<1>6. tt[Len(tt)] = Line!Text(Len(ls) + 1, l)
  <2>1. Len(tt) \in 1..(Len(ls) - n + 2) /\ n + Len(tt) - 1 = Len(ls) + 1
    BY <1>1, <1>3
  <2>2. tt[Len(tt)] = Line!Text(n + Len(tt) - 1, ms[n + Len(tt) - 1])
    BY <1>3, <2>1
  <2> QED BY <1>1, <2>1, <2>2
<1>7. Line!FlattenSeq(tt) = Line!FlattenSeq(ss) \o tt[Len(tt)]
  BY <1>2, <1>3, <1>4, <1>5, FlattenLast
<1> QED BY <1>6, <1>7 DEF From, ss, tt, ms

\* This is TextFrom of Cli.
LEMMA TextFromIsFrom ==
  \A n : Line!TextFrom(n) = From(lens, n)
BY DEF Line!TextFrom, From, TextsFrom

-----------------------------------------------------------------------------
(* Cli: characters of the lines one after another.                         *)

\* The character c is the one at its place of its line.
InLine(c, ls) ==
  /\ c.line \in 1..Len(ls) /\ c.place \in 1..(ls[c.line] + 1)
  /\ c = Line!Char(c.line, c.place, c.place = ls[c.line] + 1)

\* The character d comes after c.
ComesNext(c, d) ==
  IF c.eol THEN d.line = c.line + 1 ELSE d.line = c.line /\ d.place = c.place + 1

\* The characters w are the end of the lines ls, which may begin anywhere.
Lined(w, ls) ==
  /\ \A i \in 1..Len(w) : InLine(w[i], ls)
  /\ \A i \in 1..(Len(w) - 1) : ComesNext(w[i], w[i + 1])
  /\ Len(w) > 0 => w[Len(w)].eol /\ w[Len(w)].line = Len(ls)

\* What is left when the front is taken away.
LEMMA LinedRest ==
  ASSUME NEW ls, NEW a \in Seq(Chars), NEW w \in Seq(Chars), Lined(a \o w, ls)
  PROVE  Lined(w, ls)
<1> HIDE DEF Chars
<1> DEFINE s == a \o w
<1>1. /\ Len(s) = Len(a) + Len(w) /\ Len(a) \in Nat /\ Len(w) \in Nat
      /\ \A i \in 1..(Len(a) + Len(w)) : s[i] = IF i <= Len(a) THEN a[i] ELSE w[i - Len(a)]
  BY ConcatProperties
<1>2. Lined(s, ls)
  OBVIOUS
<1> HIDE DEF s
<1>3. ASSUME NEW i \in 1..Len(w)
      PROVE  Len(a) + i \in 1..Len(s) /\ s[Len(a) + i] = w[i]
  <2>1. /\ Len(a) + i \in 1..(Len(a) + Len(w)) /\ ~(Len(a) + i <= Len(a))
        /\ (Len(a) + i) - Len(a) = i
    BY <1>1
  <2> QED BY <1>1, <2>1
<1>4. ASSUME NEW i \in 1..Len(w)
      PROVE  InLine(w[i], ls)
  BY <1>2, <1>3 DEF Lined
<1>5. ASSUME NEW i \in 1..(Len(w) - 1)
      PROVE  ComesNext(w[i], w[i + 1])
  <2>1. /\ i \in 1..Len(w) /\ i + 1 \in 1..Len(w)
        /\ Len(a) + i \in 1..(Len(s) - 1) /\ Len(a) + (i + 1) = (Len(a) + i) + 1
    BY <1>1
  <2>2. s[Len(a) + i] = w[i] /\ s[(Len(a) + i) + 1] = w[i + 1]
    BY <1>3, <2>1
  <2> QED BY <1>2, <2>1, <2>2 DEF Lined
<1>6. ASSUME Len(w) > 0
      PROVE  w[Len(w)].eol /\ w[Len(w)].line = Len(ls)
  <2>1. Len(w) \in 1..Len(w) /\ Len(s) > 0 /\ Len(a) + Len(w) = Len(s)
    BY <1>1, <1>6
  <2>2. s[Len(s)] = w[Len(w)]
    BY <1>3, <2>1
  <2> QED BY <1>2, <2>1, <2>2 DEF Lined
<1> QED BY <1>4, <1>5, <1>6 DEF Lined

\* One more line.
LEMMA LinedWrite ==
  ASSUME NEW ls \in Seq(Nat), NEW l \in Nat, NEW w \in Seq(Chars), Lined(w, ls)
  PROVE  Lined(w \o Line!Text(Len(ls) + 1, l), Append(ls, l))
<1> HIDE DEF Chars
<1> DEFINE n == Len(ls) + 1
           x == Line!Text(n, l)
           s == w \o x
           ms == Append(ls, l)
<1>1. n \in Nat /\ Len(ls) \in Nat
  OBVIOUS
<1>2. /\ Len(ms) = n /\ ms[n] = l /\ \A k \in 1..Len(ls) : ms[k] = ls[k]
      /\ \A k \in 1..Len(ls) : ls[k] \in Nat
  OBVIOUS
<1>3. x \in Seq(Chars) /\ Len(x) = l + 1
  <2>1. n \in Nat /\ l \in Nat
    BY <1>1
  <2> HIDE DEF n
  <2> QED BY ONLY <2>1, TextFacts DEF x
<1>4. \A i \in 1..(l + 1) : x[i] = Line!Char(n, i, i = l + 1)
  BY DEF Line!Text
<1>5. /\ Len(s) = Len(w) + (l + 1) /\ Len(w) \in Nat
      /\ \A i \in 1..(Len(w) + (l + 1)) : s[i] = IF i <= Len(w) THEN w[i] ELSE x[i - Len(w)]
  <2> HIDE DEF x
  <2>1. /\ Len(w \o x) = Len(w) + Len(x)
        /\ \A i \in 1..(Len(w) + Len(x)) : (w \o x)[i] = IF i <= Len(w) THEN w[i] ELSE x[i - Len(w)]
    BY <1>3, ConcatProperties
  <2> QED BY <1>3, <2>1
<1> HIDE DEF n, x, s, ms
<1>6. ASSUME NEW i \in 1..(l + 1)
      PROVE  /\ x[i].line = n /\ x[i].place = i /\ (x[i].eol <=> i = l + 1)
             /\ InLine(x[i], ms)
  <2>1. x[i] = Line!Char(n, i, i = l + 1)
    BY <1>4
  <2>2. x[i].line = n /\ x[i].place = i /\ (x[i].eol <=> i = l + 1)
    <3>1. i \in Nat /\ l \in Nat
      OBVIOUS
    <3> QED BY ONLY <2>1, <3>1, CharFields
  <2>3. n \in 1..Len(ms) /\ ms[n] + 1 = l + 1
    BY <1>1, <1>2 DEF n
  <2> QED BY <2>1, <2>2, <2>3 DEF InLine
<1>7. ASSUME NEW i \in 1..Len(w)
      PROVE  s[i] = w[i] /\ InLine(w[i], ms)
  <2>1. s[i] = w[i]
    BY <1>5
  <2>2. InLine(w[i], ls)
    BY DEF Lined
  <2>3. w[i].line \in 1..Len(ms) /\ ms[w[i].line] = ls[w[i].line]
    BY <1>1, <1>2, <2>2 DEF InLine, n
  <2> QED BY <2>1, <2>2, <2>3 DEF InLine
<1>8. ASSUME NEW i \in 1..(l + 1)
      PROVE  s[Len(w) + i] = x[i]
  <2>1. /\ Len(w) + i \in 1..(Len(w) + (l + 1)) /\ ~(Len(w) + i <= Len(w))
        /\ (Len(w) + i) - Len(w) = i
    BY <1>5
  <2> QED BY <1>5, <2>1
<1>9. ASSUME NEW i \in 1..Len(s)
      PROVE  InLine(s[i], ms)
  <2>1. CASE i <= Len(w)
    <3>1. i \in 1..Len(w)
      BY <1>5, <2>1
    <3> QED BY <1>7, <3>1
  <2>2. CASE ~(i <= Len(w))
    <3>1. i - Len(w) \in 1..(l + 1) /\ Len(w) + (i - Len(w)) = i
      BY <1>5, <2>2
    <3>2. s[i] = x[i - Len(w)]
      BY <1>8, <3>1
    <3> QED BY <1>6, <3>1, <3>2
  <2> QED BY <2>1, <2>2
<1>10. ASSUME NEW i \in 1..(Len(s) - 1)
       PROVE  ComesNext(s[i], s[i + 1])
  <2>1. CASE i < Len(w)
    <3>1. i \in 1..(Len(w) - 1) /\ i \in 1..Len(w) /\ i + 1 \in 1..Len(w)
      BY <1>5, <2>1
    <3>2. s[i] = w[i] /\ s[i + 1] = w[i + 1]
      BY <1>7, <3>1
    <3> QED BY <3>1, <3>2 DEF Lined
  <2>2. CASE i = Len(w)
    <3>1. i \in 1..Len(w) /\ Len(w) > 0 /\ 1 \in 1..(l + 1) /\ Len(w) + 1 = i + 1
      BY <1>5, <2>2
    <3>2. s[i] = w[Len(w)] /\ s[i + 1] = x[1]
      BY <1>7, <1>8, <2>2, <3>1
    <3>3. s[i].eol /\ s[i].line = Len(ls)
      BY <3>1, <3>2 DEF Lined
    <3> QED BY <1>6, <3>1, <3>2, <3>3 DEF ComesNext, n
  <2>3. CASE i > Len(w)
    <3> DEFINE j == i - Len(w)
    <3>1. /\ j \in 1..l /\ j \in 1..(l + 1) /\ j + 1 \in 1..(l + 1) /\ j # l + 1
          /\ Len(w) + j = i /\ Len(w) + (j + 1) = i + 1
      BY <1>5, <2>3
    <3> HIDE DEF j
    <3>2. s[i] = x[j] /\ s[i + 1] = x[j + 1]
      BY <1>8, <3>1
    <3> QED BY <1>6, <3>1, <3>2 DEF ComesNext
  <2> QED BY <1>5, <2>1, <2>2, <2>3
<1>11. s[Len(s)].eol /\ s[Len(s)].line = Len(ms)
  <2>1. l + 1 \in 1..(l + 1)
    OBVIOUS
  <2>2. s[Len(s)] = x[l + 1]
    BY <1>5, <1>8, <2>1
  <2> QED BY <1>2, <1>6, <2>1, <2>2
<1>12. Lined(s, ms)
  BY <1>9, <1>10, <1>11 DEF Lined
<1> QED BY <1>12 DEF s, x, n, ms

\* Up to the first newline there is the end of one line; later ones follow.
LEMMA LinedHead ==
  ASSUME NEW ls \in Seq(Nat), NEW w \in Seq(Chars), Lined(w, ls),
         NEW e \in 1..Len(w), w[e].eol, \A j \in 1..(e - 1) : ~w[j].eol
  PROVE  /\ w[e].line \in 1..Len(ls)
         /\ \E k \in 1..(ls[w[e].line] + 1) :
              SubSeq(w, 1, e - 1) = SubSeq(Line!Text(w[e].line, ls[w[e].line]), k, ls[w[e].line])
         /\ \A j \in (e + 1)..Len(w) : w[e].line < w[j].line
<1> HIDE DEF Chars
<1> DEFINE n == w[1].line
           k == w[1].place
           l == ls[n]
<1>1. Len(w) \in Nat /\ e \in Nat /\ 1 \in 1..Len(w)
  OBVIOUS
<1>2. \A i \in 1..Len(w) : InLine(w[i], ls)
  BY DEF Lined
<1>3. n \in 1..Len(ls) /\ l \in Nat /\ k \in 1..(l + 1) /\ n \in Nat
  BY <1>1, <1>2 DEF InLine
<1>4. \A i \in 1..e : w[i].line = n /\ w[i].place = k + i - 1
  <2> DEFINE T == {i \in Nat : w[i + 1].line = n /\ w[i + 1].place = k + i}
  <2>1. 0 \in T
    BY <1>3
  <2>2. ASSUME NEW i \in 0..((e - 1) - 1), i \in T
        PROVE  i + 1 \in T
    <3>1. /\ i + 1 \in 1..(e - 1) /\ i + 1 \in 1..(Len(w) - 1) /\ i + 1 \in Nat
          /\ (i + 1) + 1 = i + 2
      BY <1>1
    <3>2. ~w[i + 1].eol /\ ComesNext(w[i + 1], w[(i + 1) + 1])
      BY <3>1 DEF Lined
    <3>3. w[i + 1].line = n /\ w[i + 1].place = k + i
      BY <2>2
    <3>4. w[(i + 1) + 1].line = n /\ w[(i + 1) + 1].place = (k + i) + 1
      <4> DEFINE c == w[i + 1]
                 d == w[(i + 1) + 1]
      <4>1. ~c.eol /\ ComesNext(c, d) /\ c.line = n /\ c.place = k + i
        BY <3>2, <3>3
      <4> HIDE DEF c, d, n, k
      <4>2. d.line = n /\ d.place = (k + i) + 1
        BY <4>1 DEF ComesNext
      <4> QED BY <4>2 DEF d
    <3>5. (k + i) + 1 = k + (i + 1)
      <4>1. k \in Int /\ i \in Int
        BY <1>3
      <4> HIDE DEF k
      <4> QED BY ONLY <4>1
    <3> QED BY <3>1, <3>4, <3>5
  <2> HIDE DEF T
  <2>3. \A i \in 0..(e - 1) : i \in T
    <3>1. e - 1 \in Nat
      BY <1>1
    <3> QED BY <2>1, <2>2, <3>1, UpTo
  <2>4. ASSUME NEW i \in 1..e
        PROVE  w[i].line = n /\ w[i].place = k + i - 1
    <3>1. i - 1 \in 0..(e - 1) /\ (i - 1) + 1 = i /\ k + (i - 1) = k + i - 1
      BY <1>1, <1>3, SMTT(30)
    <3>2. i - 1 \in T
      BY <2>3, <3>1
    <3> QED BY <3>1, <3>2 DEF T
  <2> QED BY <2>4
<1>5. ASSUME NEW i \in 1..e
      PROVE  w[i] = Line!Char(n, k + i - 1, k + i - 1 = l + 1)
  <2>1. i \in 1..Len(w)
    BY <1>1
  <2>2. w[i].line = n /\ w[i].place = k + i - 1
    BY <1>4
  <2>3. w[i] = Line!Char(w[i].line, w[i].place, w[i].place = ls[w[i].line] + 1)
    BY <1>2, <2>1 DEF InLine
  <2> QED BY <2>2, <2>3
<1>6. e \in 1..e
  BY <1>1
<1>7. w[e].line = n
  BY <1>4, <1>6
<1>8. k + e - 1 = l + 1
  <2>1. w[e] = Line!Char(n, k + e - 1, k + e - 1 = l + 1)
    BY <1>5, <1>6
  <2>2. k + e - 1 \in Nat
    BY <1>1, <1>3
  <2>3. w[e].eol <=> k + e - 1 = l + 1
    <3> DEFINE i == k + e - 1
    <3> HIDE DEF i, n, l
    <3>1. w[e] = Line!Char(n, i, i = l + 1) /\ i \in Nat /\ l \in Nat
      BY <1>3, <2>1, <2>2 DEF i, l, n
    <3>2. w[e].eol <=> i = l + 1
      BY ONLY <3>1, CharFields
    <3> QED BY <3>2 DEF i
  <2> QED BY <2>3
<1> HIDE DEF n, k, l
<1>9. SubSeq(w, 1, e - 1) = SubSeq(Line!Text(n, l), k, l)
  <2> DEFINE x == Line!Text(n, l)
  <2>1. x \in Seq(Chars) /\ Len(x) = l + 1
    BY <1>3, TextFacts
  <2>2. \A i \in 1..(l + 1) : x[i] = Line!Char(n, i, i = l + 1)
    BY DEF Line!Text
  <2> HIDE DEF x
  <2>3. /\ SubSeq(w, 1, e - 1) \in Seq(Chars) /\ Len(SubSeq(w, 1, e - 1)) = e - 1
        /\ \A i \in 1..(e - 1) : SubSeq(w, 1, e - 1)[i] = w[i]
    BY <1>1
  <2>4. l - k + 1 = e - 1 /\ k \in Int /\ l \in Int
    BY <1>1, <1>3, <1>8
  <2>5. /\ SubSeq(x, k, l) \in Seq(Chars) /\ Len(SubSeq(x, k, l)) = e - 1
        /\ \A i \in 1..(e - 1) : SubSeq(x, k, l)[i] = x[k + i - 1]
    <3>1. \A i \in k..l : x[i] \in Chars
      <4>1. \A i \in k..l : i \in 1..Len(x)
        BY <1>3, <2>1
      <4> QED BY <2>1, <4>1
    <3>2. /\ SubSeq(x, k, l) \in Seq(Chars)
          /\ Len(SubSeq(x, k, l)) = IF k <= l THEN l - k + 1 ELSE 0
          /\ \A i \in 1..(l - k + 1) : SubSeq(x, k, l)[i] = x[k + i - 1]
      BY <2>4, <3>1, SubSeqProperties
    <3>3. (IF k <= l THEN l - k + 1 ELSE 0) = e - 1
      BY <1>1, <1>3, <2>4
    <3> QED BY <2>4, <3>2, <3>3
  <2>6. ASSUME NEW i \in 1..(e - 1)
        PROVE  w[i] = x[k + i - 1]
    <3>1. i \in 1..e /\ k + i - 1 \in 1..(l + 1)
      BY <1>1, <1>3, <1>8
    <3> QED BY <1>5, <2>2, <3>1
  <2>7. SubSeq(w, 1, e - 1) = SubSeq(x, k, l)
    <3> DEFINE s == SubSeq(w, 1, e - 1)
               t == SubSeq(x, k, l)
    <3>1. /\ s \in Seq(Chars) /\ t \in Seq(Chars) /\ Len(s) = e - 1 /\ Len(t) = e - 1
      BY <2>3, <2>5
    <3>2. ASSUME NEW i \in 1..(e - 1)
          PROVE  s[i] = t[i]
      BY <2>3, <2>5, <2>6
    <3> HIDE DEF s, t
    <3>3. s = t
      BY ONLY <3>1, <3>2, SeqEqual
    <3> QED BY <3>3 DEF s, t
  <2> QED BY <2>7 DEF x
<1>10. \A j \in (e + 1)..Len(w) : n < w[j].line
  <2> DEFINE T == {i \in Nat : w[e + i].line \in Nat /\ (i > 0 => n < w[e + i].line)
                                 /\ (i = 0 => w[e + i].line = n)}
  <2>1. 0 \in T
    BY <1>1, <1>3, <1>7
  <2>2. ASSUME NEW i \in 0..((Len(w) - e) - 1), i \in T
        PROVE  i + 1 \in T
    <3>1. e + i \in 1..(Len(w) - 1) /\ (e + i) + 1 = e + (i + 1) /\ i + 1 \in Nat
      BY <1>1
    <3>2. ComesNext(w[e + i], w[e + (i + 1)])
      BY <3>1 DEF Lined
    <3>3. w[e + i].line \in Nat
      BY <2>2
    <3>4. CASE i = 0
      <4>1. e + i = e /\ w[e + i].eol /\ w[e + i].line = n
        BY <1>1, <1>7, <3>4
      <4> QED BY <1>3, <3>1, <3>2, <4>1 DEF ComesNext
    <3>5. CASE i > 0
      <4>1. n < w[e + i].line
        BY <2>2, <3>5
      <4>2. w[e + (i + 1)].line \in {w[e + i].line, w[e + i].line + 1}
        BY <3>2 DEF ComesNext
      <4> QED BY <1>3, <3>1, <3>3, <4>1, <4>2, SMTT(30)
    <3> QED BY <3>1, <3>4, <3>5
  <2> HIDE DEF T
  <2>3. Len(w) - e \in Nat
    BY <1>1
  <2>4. \A i \in 0..(Len(w) - e) : i \in T
    BY <2>1, <2>2, <2>3, UpTo
  <2>5. ASSUME NEW j \in (e + 1)..Len(w)
        PROVE  n < w[j].line
    <3>1. j - e \in 0..(Len(w) - e) /\ j - e > 0 /\ e + (j - e) = j
      BY <1>1
    <3>2. j - e \in T
      BY <2>4, <3>1
    <3> QED BY <3>1, <3>2 DEF T
  <2> QED BY <2>5
<1> QED BY <1>3, <1>7, <1>9, <1>10 DEF l

-----------------------------------------------------------------------------
(* Cli: the command line.                                                  *)

Commands == [line : Nat, text : Seq(Chars)]

\* Every command came from a line before the unread ones.
CommandsBeforeUnread ==
  \A n \in DOMAIN executed : \A i \in 1..Len(buf \o pipe) :
    executed[n].line < (buf \o pipe)[i].line

\* The buffer has room whenever there is a read() to come.
CliInv ==
  /\ lens \in Seq(Nat) /\ gui_open \in BOOLEAN
  /\ pipe \in Seq(Chars)
  /\ ready \in 0..Len(pipe) /\ (~gui_open => ready = Len(pipe))
  /\ buf \in Seq(Chars) /\ Len(buf) <= BUF_SZ - 2
  /\ gone \in Seq(Chars)
  /\ executed \in Seq(Commands) /\ discarded \in BOOLEAN
  /\ Line!EveryCharacterOnce
  /\ Lined(buf \o pipe, lens)
  /\ CommandsBeforeUnread
  /\ Line!CommandsInOrder
  /\ Line!ExitsAtEnd

\* A buffer is cut at its first newline.
LEMMA LineEndFacts ==
  ASSUME NEW s \in Seq(Chars), Line!HasLine(s)
  PROVE  /\ Line!LineEnd(s) \in 1..Len(s)
         /\ s[Line!LineEnd(s)].eol
         /\ \A j \in 1..(Line!LineEnd(s) - 1) : ~s[j].eol
<1> DEFINE T == {i \in DOMAIN s : s[i].eol}
<1> HIDE DEF Chars
<1>1. DOMAIN s = 1..Len(s) /\ Len(s) \in Nat
  OBVIOUS
<1>2. T \in SUBSET Nat /\ T # {}
  BY <1>1 DEF Line!HasLine
<1>3. PICK m \in T : \A n \in T : m <= n
  <2> HIDE DEF T
  <2> QED BY <1>2, LeastNatural
<1>4. m \in DOMAIN s /\ s[m].eol /\ \A j \in 1..(m - 1) : ~s[j].eol
  BY <1>1, <1>3
<1> QED BY <1>1, <1>4 DEF Line!LineEnd

\* The first line of a text with a line at its front, cut at the newline.
LEMMA CutFirst ==
  ASSUME NEW n \in Nat, NEW l \in Nat,
         buf \in Seq(Chars), pipe \in Seq(Chars), NEW u \in Seq(Chars),
         Line!HasLine(buf), buf \o pipe = Line!Text(n, l) \o u
  PROVE  /\ Line!LineEnd(buf) = l + 1
         /\ SubSeq(buf, 1, l + 1) = Line!Text(n, l)
         /\ Line!Rest(buf) \o pipe = u
<1> DEFINE x == Line!Text(n, l)
           e == Line!LineEnd(buf)
<1>1. /\ x \in Seq(Chars) /\ Len(x) = l + 1
      /\ \A i \in 1..(l + 1) : x[i].eol <=> i = l + 1
  <2>1. n \in Nat /\ l \in Nat
    OBVIOUS
  <2>2. \A i \in 1..(l + 1) : Line!Text(n, l)[i].eol <=> i = l + 1
    BY ONLY <2>1, TextFacts
  <2>3. Line!Text(n, l) \in Seq(Chars) /\ Len(Line!Text(n, l)) = l + 1
    BY ONLY <2>1, TextFacts
  <2> QED BY ONLY <2>2, <2>3
<1>2. e \in 1..Len(buf) /\ buf[e].eol /\ \A j \in 1..(e - 1) : ~buf[j].eol
  BY LineEndFacts
<1> HIDE DEF Chars, x, e
<1>3. Len(buf) \in Nat /\ Len(pipe) \in Nat /\ Len(u) \in Nat
  OBVIOUS
<1>4. /\ buf \o pipe = x \o u
      /\ Len(buf) + Len(pipe) = (l + 1) + Len(u)
      /\ \A i \in 1..(Len(buf) + Len(pipe)) : (buf \o pipe)[i] = IF i <= Len(buf) THEN buf[i] ELSE pipe[i - Len(buf)]
      /\ \A i \in 1..((l + 1) + Len(u)) : (x \o u)[i] = IF i <= l + 1 THEN x[i] ELSE u[i - (l + 1)]
  <2>1. buf \o pipe = x \o u
    BY DEF x
  <2>2. /\ Len(buf \o pipe) = Len(buf) + Len(pipe)
        /\ \A i \in 1..(Len(buf) + Len(pipe)) : (buf \o pipe)[i] = IF i <= Len(buf) THEN buf[i] ELSE pipe[i - Len(buf)]
    BY ConcatProperties
  <2>3. /\ Len(x \o u) = Len(x) + Len(u)
        /\ \A i \in 1..(Len(x) + Len(u)) : (x \o u)[i] = IF i <= Len(x) THEN x[i] ELSE u[i - Len(x)]
    <3>1. x \in Seq(Chars)
      BY <1>1
    <3> QED BY <3>1, ConcatProperties
  <2> QED BY <1>1, <2>1, <2>2, <2>3
<1>5. ASSUME NEW i \in 1..Len(buf), i <= l + 1
      PROVE  buf[i] = x[i]
  <2>1. i \in 1..(Len(buf) + Len(pipe)) /\ i \in 1..((l + 1) + Len(u)) /\ i <= Len(buf)
    BY <1>3, <1>5
  <2> QED BY <1>4, <1>5, <2>1
<1>6. e = l + 1
  <2>1. e <= l + 1
    <3>1. ASSUME l + 1 < e PROVE FALSE
      <4>1. l + 1 \in 1..Len(buf) /\ l + 1 \in 1..(e - 1) /\ l + 1 \in 1..(l + 1)
        BY <1>2, <1>3, <3>1
      <4>2. buf[l + 1] = x[l + 1]
        BY <1>5, <4>1
      <4> QED BY <1>1, <1>2, <4>1, <4>2
    <3> QED BY <1>2, <3>1
  <2>2. buf[e] = x[e] /\ e \in 1..(l + 1)
    BY <1>2, <1>5, <2>1
  <2> QED BY <1>1, <1>2, <2>2
<1>7. SubSeq(buf, 1, l + 1) = x
  <2>1. /\ SubSeq(buf, 1, l + 1) \in Seq(Chars) /\ Len(SubSeq(buf, 1, l + 1)) = l + 1
        /\ \A i \in 1..(l + 1) : SubSeq(buf, 1, l + 1)[i] = buf[i]
    BY <1>2, <1>3, <1>6
  <2>2. \A i \in 1..(l + 1) : SubSeq(buf, 1, l + 1)[i] = x[i]
    BY <1>2, <1>3, <1>5, <1>6, <2>1
  <2> QED BY <1>1, <2>1, <2>2, SeqEqual
<1>8. Line!Rest(buf) = SubSeq(buf, (l + 1) + 1, Len(buf))
  BY <1>6 DEF Line!Rest, e
<1>9. SubSeq(buf, (l + 1) + 1, Len(buf)) \in Seq(Chars)
  BY <1>2, <1>3, <1>6
<1>10. x \o SubSeq(buf, (l + 1) + 1, Len(buf)) = buf
  <2>1. /\ 1 \in 1..(Len(buf) + 1) /\ l + 1 \in (1 - 1)..Len(buf) /\ Len(buf) \in (l + 1)..Len(buf)
    BY <1>2, <1>3, <1>6
  <2>2. SubSeq(buf, 1, l + 1) \o SubSeq(buf, (l + 1) + 1, Len(buf)) = SubSeq(buf, 1, Len(buf))
    BY <2>1, ConcatAdjacentSubSeq
  <2> QED BY <1>7, <2>2, SubSeqFull
<1>11. x \o (SubSeq(buf, (l + 1) + 1, Len(buf)) \o pipe) = x \o u
  <2> DEFINE r == SubSeq(buf, (l + 1) + 1, Len(buf))
  <2> HIDE DEF r
  <2>1. (x \o r) \o pipe = x \o (r \o pipe)
    <3>1. x \in Seq(Chars) /\ r \in Seq(Chars) /\ pipe \in Seq(Chars)
      BY <1>1, <1>9 DEF r
    <3> QED BY ONLY <3>1, JoinAssociative
  <2>2. x \o r = buf
    BY <1>10 DEF r
  <2>3. buf \o pipe = x \o u
    BY <1>4
  <2> QED BY <2>1, <2>2, <2>3 DEF r
<1>12. SubSeq(buf, (l + 1) + 1, Len(buf)) \o pipe \in Seq(Chars)
  BY <1>9, ConcatProperties
<1>13. SubSeq(buf, (l + 1) + 1, Len(buf)) \o pipe = u
  BY <1>1, <1>11, <1>12, JoinCancels
<1> QED BY <1>6, <1>7, <1>8, <1>13 DEF x, e

\* At first nothing is written.
LEMMA CliInit ==
  ASSUME Line!Init
  PROVE  CliInv
<1>1. /\ lens = <<>> /\ gui_open = TRUE /\ pipe = <<>> /\ ready = 0 /\ buf = <<>>
      /\ cli_pc = "wait" /\ executed = <<>> /\ gone = <<>> /\ discarded = FALSE
  BY DEF Line!Init
<1>2. BUF_SZ \in Nat /\ BUF_SZ > 1
  BY PartsAssumption DEF Line!CliAssumption
<1> HIDE DEF Chars, Commands
<1>3. lens \in Seq(Nat) /\ Len(lens) = 0
  BY <1>1
<1>4. From(lens, 1) = <<>>
  <2>1. 1 \in 1..(Len(lens) + 1) /\ 1 = Len(lens) + 1
    BY <1>3
  <2> QED BY <1>3, <2>1, FromFacts
<1>5. <<>> \in Seq(Chars) /\ <<>> \o <<>> = <<>> /\ Len(<<>>) = 0
  <2>1. <<>> \in Seq(Chars)
    OBVIOUS
  <2> QED BY <2>1, ConcatEmptySeq
<1>6. buf \o pipe = <<>> /\ (gone \o buf) \o pipe = <<>>
  BY <1>1, <1>5
<1>7. Line!TextFrom(1) = <<>>
  BY <1>4, TextFromIsFrom
<1>8. Line!EveryCharacterOnce
  BY <1>6, <1>7 DEF Line!EveryCharacterOnce
<1>9. DOMAIN executed = {} /\ Len(executed) + 1 = 1
  BY <1>1
<1>10. Line!CommandsInOrder
  BY <1>6, <1>7, <1>9 DEF Line!CommandsInOrder
<1>11. Lined(buf \o pipe, lens) /\ CommandsBeforeUnread
  BY <1>5, <1>6, <1>9 DEF Lined, CommandsBeforeUnread
<1>12. Line!ExitsAtEnd
  BY <1>1 DEF Line!ExitsAtEnd
<1>13. /\ pipe \in Seq(Chars) /\ buf \in Seq(Chars) /\ gone \in Seq(Chars)
       /\ executed \in Seq(Commands) /\ Len(buf) <= BUF_SZ - 2
       /\ ready \in 0..Len(pipe) /\ gui_open \in BOOLEAN /\ discarded \in BOOLEAN
       /\ (~gui_open => ready = Len(pipe))
  <2>1. <<>> \in Seq(Chars) /\ <<>> \in Seq(Commands) /\ Len(<<>>) = 0
    OBVIOUS
  <2>2. 0 <= BUF_SZ - 2 /\ 0 \in 0..0
    BY <1>2
  <2>3. Len(buf) = 0 /\ Len(pipe) = 0
    BY <1>1, <2>1
  <2> QED BY <1>1, <2>1, <2>2, <2>3
<1> QED BY <1>3, <1>8, <1>10, <1>11, <1>12, <1>13 DEF CliInv

\* A line that is written is the last to be read.
LEMMA WriteKeeps ==
  ASSUME CliInv, NEW l \in Lengths, Line!GuiWrite(l)
  PROVE  CliInv'
<1> DEFINE x == Line!Text(Len(lens) + 1, l)
           w == buf \o pipe
<1>1. /\ gui_open /\ lens' = Append(lens, l) /\ pipe' = pipe \o x
      /\ gui_open' = gui_open /\ ready' = ready /\ buf' = buf /\ cli_pc' = cli_pc
      /\ executed' = executed /\ gone' = gone /\ discarded' = discarded
  BY DEF Line!GuiWrite
<1>2. l \in Nat
  BY PartsAssumption DEF Line!CliAssumption
<1>3. /\ lens \in Seq(Nat) /\ pipe \in Seq(Chars) /\ buf \in Seq(Chars) /\ gone \in Seq(Chars)
      /\ Len(lens) \in Nat /\ executed \in Seq(Commands) /\ Len(executed) \in Nat
      /\ Len(pipe) \in Nat /\ ready \in 0..Len(pipe)
  BY DEF CliInv
<1>4. x \in Seq(Chars) /\ Len(x) = l + 1
  BY <1>2, <1>3, TextFacts, SMTT(30)
<1>5. \A n \in 1..(Len(lens) + 1) : From(lens', n) = From(lens, n) \o x
  BY <1>1, <1>2, <1>3, FromLast
<1>6. lens' \in Seq(Nat) /\ Len(lens') = Len(lens) + 1 /\ \A n \in 1..Len(lens) : lens'[n] = lens[n]
  BY <1>1, <1>2, <1>3
<1>7. \A i \in 1..(l + 1) : x[i].line = Len(lens) + 1
  <2> DEFINE n == Len(lens) + 1
  <2>1. n \in Nat
    BY <1>3
  <2> HIDE DEF n
  <2>2. \A i \in 1..(l + 1) : Line!Text(n, l)[i].line = n
    BY <1>2, <2>1, TextFacts
  <2> QED BY <2>2 DEF n
<1> HIDE DEF Chars, Commands, x, w
<1>8. w \in Seq(Chars) /\ gone \o buf \in Seq(Chars)
  BY <1>3, ConcatProperties DEF w
<1>9. /\ pipe' \in Seq(Chars) /\ buf' \o pipe' = w \o x
      /\ Len(pipe') = Len(pipe) + (l + 1)
  <2>1. pipe \o x \in Seq(Chars) /\ Len(pipe \o x) = Len(pipe) + Len(x)
    BY <1>3, <1>4, ConcatProperties
  <2>2. (buf \o pipe) \o x = buf \o (pipe \o x)
    BY <1>3, <1>4, JoinAssociative
  <2> QED BY <1>1, <1>4, <2>1, <2>2 DEF w
<1>10. Line!EveryCharacterOnce'
  <2>1. (gone \o buf) \o pipe = From(lens, 1)
    BY TextFromIsFrom DEF CliInv, Line!EveryCharacterOnce
  <2>2. From(lens', 1) = ((gone \o buf) \o pipe) \o x
    <3>1. 1 \in 1..(Len(lens) + 1)
      BY <1>3
    <3> QED BY <1>5, <2>1, <3>1
  <2>3. ((gone \o buf) \o pipe) \o x = (gone \o buf) \o (pipe \o x)
    <3>1. gone \o buf \in Seq(Chars) /\ pipe \in Seq(Chars) /\ x \in Seq(Chars)
      BY <1>3, <1>4, <1>8
    <3> QED BY ONLY <3>1, JoinAssociative
  <2>4. (gone' \o buf') \o pipe' = From(lens', 1)
    BY <1>1, <2>2, <2>3
  <2>5. Line!TextFrom(1)' = From(lens', 1)
    BY DEF Line!TextFrom, From, TextsFrom
  <2> QED BY <2>4, <2>5 DEF Line!EveryCharacterOnce
<1>11. Lined(buf' \o pipe', lens')
  <2>1. Lined(w, lens)
    BY DEF CliInv, w
  <2>2. Lined(w \o x, Append(lens, l))
    BY <1>2, <1>3, <1>8, <2>1, LinedWrite DEF x
  <2> QED BY <1>1, <1>9, <2>2
<1>12. \A n \in DOMAIN executed : /\ executed[n].line \in DOMAIN lens
                                  /\ executed[n].line \in 1..Len(lens)
  BY <1>3 DEF CliInv, Line!CommandsInOrder, Line!CommandIsLineEnd
<1>13. CommandsBeforeUnread'
  <2> SUFFICES ASSUME NEW n \in DOMAIN executed, NEW i \in 1..Len(w \o x)
               PROVE  executed[n].line < (w \o x)[i].line
    BY <1>1, <1>9 DEF CommandsBeforeUnread
  <2>1. /\ Len(w) \in Nat /\ Len(w \o x) = Len(w) + (l + 1)
        /\ (w \o x)[i] = IF i <= Len(w) THEN w[i] ELSE x[i - Len(w)]
    <3>1. x \in Seq(Chars) /\ w \in Seq(Chars)
      BY <1>4, <1>8
    <3>2. /\ Len(w \o x) = Len(w) + Len(x)
          /\ \A j \in 1..(Len(w) + Len(x)) : (w \o x)[j] = IF j <= Len(w) THEN w[j] ELSE x[j - Len(w)]
      BY ONLY <3>1, ConcatProperties
    <3>3. Len(w) \in Nat
      BY ONLY <3>1
    <3> QED BY <1>4, <3>2, <3>3
  <2>2. CASE i <= Len(w)
    <3>1. i \in 1..Len(w)
      BY <2>1, <2>2
    <3> QED BY <2>1, <2>2, <3>1 DEF CliInv, CommandsBeforeUnread, w
  <2>3. CASE ~(i <= Len(w))
    <3>1. i - Len(w) \in 1..(l + 1)
      BY <1>2, <2>1, <2>3
    <3>2. (w \o x)[i].line = Len(lens) + 1
      BY <1>7, <2>1, <2>3, <3>1
    <3> QED BY <1>3, <1>12, <3>2
  <2> QED BY <2>2, <2>3
<1>14. Line!CommandsInOrder'
  <2>1. ASSUME NEW n \in DOMAIN executed
        PROVE  Line!CommandIsLineEnd(n)'
    <3>1. Line!CommandIsLineEnd(n)
      BY DEF CliInv, Line!CommandsInOrder
    <3>2. executed[n].line \in DOMAIN lens' /\ lens'[executed[n].line] = lens[executed[n].line]
      BY <1>3, <1>6, <1>12
    <3> QED BY <1>1, <3>1, <3>2 DEF Line!CommandIsLineEnd
  <2>2. ASSUME ~discarded
        PROVE  /\ \A n \in DOMAIN executed : Line!CommandIsLine(n)'
               /\ buf' \o pipe' = From(lens', Len(executed) + 1)
    <3>1. /\ \A n \in DOMAIN executed : Line!CommandIsLine(n)
          /\ w = From(lens, Len(executed) + 1)
      BY <2>2, TextFromIsFrom DEF CliInv, Line!CommandsInOrder, w
    <3>2. DOMAIN executed = 1..Len(executed)
      BY <1>3
    <3>3. \A n \in DOMAIN executed : n \in 1..Len(lens)
      BY <1>3, <3>1, <3>2 DEF Line!CommandIsLine
    <3>4. Len(executed) + 1 \in 1..(Len(lens) + 1)
      <4>1. Len(executed) = 0 \/ Len(executed) \in DOMAIN executed
        BY <1>3, <3>2
      <4> QED BY <1>3, <3>3, <4>1
    <3>5. buf' \o pipe' = From(lens', Len(executed) + 1)
      BY <1>5, <1>9, <3>1, <3>4
    <3>6. ASSUME NEW n \in DOMAIN executed
          PROVE  Line!CommandIsLine(n)'
      <4>1. n <= Len(lens') /\ lens'[n] = lens[n]
        BY <1>3, <1>6, <3>3
      <4>2. Line!CommandIsLine(n)
        BY <3>1
      <4> QED BY <1>1, <4>1, <4>2 DEF Line!CommandIsLine
    <3> QED BY <3>5, <3>6
  <2>3. Line!TextFrom(Len(executed) + 1)' = From(lens', Len(executed') + 1)
    BY DEF Line!TextFrom, From, TextsFrom
  <2> QED BY <1>1, <2>1, <2>2, <2>3 DEF Line!CommandsInOrder
<1>15. Line!ExitsAtEnd'
  BY <1>1 DEF CliInv, Line!ExitsAtEnd
<1>16. ready' \in 0..Len(pipe')
  BY <1>1, <1>2, <1>3, <1>9
<1> QED BY <1>1, <1>6, <1>9, <1>10, <1>11, <1>13, <1>14, <1>15, <1>16 DEF CliInv

\* What comes of the unread characters when the front a of them is taken away.
LEMMA FrontTaken ==
  ASSUME CliInv, NEW a \in Seq(Chars), NEW r \in Seq(Chars),
         buf \o pipe = a \o r, lens' = lens, buf' \o pipe' = r
  PROVE  Lined(buf' \o pipe', lens')
         /\ \A n \in DOMAIN executed : \A i \in 1..Len(r) : executed[n].line < r[i].line
<1> HIDE DEF Chars, Commands
<1>1. Lined(r, lens)
  <2>1. Lined(a \o r, lens)
    BY DEF CliInv
  <2> QED BY <2>1, LinedRest
<1>2. ASSUME NEW n \in DOMAIN executed, NEW i \in 1..Len(r)
      PROVE  executed[n].line < r[i].line
  <2>1. /\ Len(a) \in Nat /\ Len(r) \in Nat /\ Len(a \o r) = Len(a) + Len(r)
        /\ \A j \in 1..(Len(a) + Len(r)) : (a \o r)[j] = IF j <= Len(a) THEN a[j] ELSE r[j - Len(a)]
    BY ConcatProperties
  <2>2. /\ Len(a) + i \in 1..(Len(a) + Len(r)) /\ ~(Len(a) + i <= Len(a))
        /\ (Len(a) + i) - Len(a) = i
    BY <2>1
  <2>3. (a \o r)[Len(a) + i] = r[i]
    BY <2>1, <2>2
  <2>4. executed[n].line < (a \o r)[Len(a) + i].line
    BY <2>1, <2>2 DEF CliInv, CommandsBeforeUnread
  <2> QED BY <2>3, <2>4
<1> QED BY <1>1, <1>2

\* read() moves characters from the pipe to the end of the buffer.
LEMMA ReadKeeps ==
  ASSUME CliInv, NEW n \in 1..ready, Line!Read(n)
  PROVE  CliInv'
<1> DEFINE t == SubSeq(pipe, 1, n)
           filled == buf \o t
<1>1. /\ cli_pc = "search" /\ n <= Line!Room
      /\ pipe' = SubSeq(pipe, n + 1, Len(pipe)) /\ ready' = ready - n
      /\ IF Line!Overflows(filled)
         THEN buf' = <<>> /\ gone' = gone \o filled /\ discarded' = TRUE
         ELSE buf' = filled /\ gone' = gone /\ discarded' = discarded
      /\ lens' = lens /\ gui_open' = gui_open /\ cli_pc' = cli_pc /\ executed' = executed
  BY DEF Line!Read, Line!Filled
<1>2. /\ lens \in Seq(Nat) /\ pipe \in Seq(Chars) /\ buf \in Seq(Chars) /\ gone \in Seq(Chars)
      /\ executed \in Seq(Commands)
      /\ Len(buf) \in Nat /\ Len(pipe) \in Nat /\ Len(buf) <= BUF_SZ - 2
      /\ BUF_SZ \in Nat /\ BUF_SZ > 1 /\ ready \in 0..Len(pipe)
      /\ (~gui_open => ready = Len(pipe))
  BY PartsAssumption DEF CliInv, Line!CliAssumption
<1>3. n \in 1..Len(pipe) /\ Len(buf) + n <= BUF_SZ - 1
  <2>1. Line!Room = BUF_SZ - Len(buf) - 1
    BY DEF Line!Room
  <2> QED BY <1>1, <1>2, <2>1
<1> HIDE DEF Chars, Commands, t, filled
<1>4. /\ t \in Seq(Chars) /\ Len(t) = n
      /\ pipe' \in Seq(Chars) /\ Len(pipe') = Len(pipe) - n
  BY <1>1, <1>2, <1>3 DEF t
<1>5. filled \in Seq(Chars) /\ Len(filled) = Len(buf) + n /\ gone \o buf \in Seq(Chars)
  <2>1. buf \in Seq(Chars) /\ gone \in Seq(Chars)
    BY <1>2
  <2>2. buf \o t \in Seq(Chars) /\ Len(buf \o t) = Len(buf) + Len(t)
    BY ONLY <1>4, <2>1, ConcatProperties
  <2>3. gone \o buf \in Seq(Chars)
    BY ONLY <2>1, ConcatProperties
  <2> QED BY <1>4, <2>2, <2>3 DEF filled
<1>6. t \o pipe' = pipe
  <2>1. 1 \in 1..(Len(pipe) + 1) /\ n \in (1 - 1)..Len(pipe) /\ Len(pipe) \in n..Len(pipe)
    BY <1>2, <1>3
  <2>2. SubSeq(pipe, 1, n) \o SubSeq(pipe, n + 1, Len(pipe)) = SubSeq(pipe, 1, Len(pipe))
    BY <1>2, <2>1, ConcatAdjacentSubSeq
  <2> QED BY <1>1, <1>2, <2>2, SubSeqFull DEF t
<1>7. filled \o pipe' = buf \o pipe
  <2>1. (buf \o t) \o pipe' = buf \o (t \o pipe')
    BY <1>2, <1>4, JoinAssociative
  <2> QED BY <1>6, <2>1 DEF filled
<1>8. Line!TextFrom(1)' = Line!TextFrom(1)
  BY <1>1 DEF Line!TextFrom
<1>9. (gone \o filled) \o pipe' = Line!TextFrom(1)
  <2>1. (gone \o filled) \o pipe' = gone \o (filled \o pipe')
    BY <1>2, <1>4, <1>5, JoinAssociative
  <2>2. (gone \o buf) \o pipe = gone \o (buf \o pipe)
    BY <1>2, JoinAssociative
  <2> QED BY <1>7, <2>1, <2>2 DEF CliInv, Line!EveryCharacterOnce
<1>10. ready' \in 0..Len(pipe') /\ (~gui_open' => ready' = Len(pipe'))
  BY <1>1, <1>2, <1>3, <1>4
<1>11. Line!ExitsAtEnd'
  BY <1>1 DEF Line!ExitsAtEnd
<1>12. \A m \in DOMAIN executed : Line!CommandIsLineEnd(m)'
  BY <1>1 DEF CliInv, Line!CommandsInOrder, Line!CommandIsLineEnd
<1>13. CASE Line!Overflows(filled)
  <2>1. buf' = <<>> /\ gone' = gone \o filled /\ discarded'
    BY <1>1, <1>13
  <2>2. buf' \o pipe' = pipe' /\ gone \o filled \in Seq(Chars)
    BY <1>2, <1>4, <1>5, <2>1, ConcatProperties, ConcatEmptySeq
  <2>3. Line!EveryCharacterOnce'
    <3>1. (gone \o filled) \o <<>> = gone \o filled
      BY <2>2, ConcatEmptySeq
    <3> QED BY <1>8, <1>9, <2>1, <3>1 DEF Line!EveryCharacterOnce
  <2>4. Lined(buf' \o pipe', lens') /\ CommandsBeforeUnread'
    <3>1. /\ Lined(buf' \o pipe', lens')
          /\ \A m \in DOMAIN executed : \A i \in 1..Len(pipe') : executed[m].line < pipe'[i].line
      BY <1>1, <1>4, <1>5, <1>7, <2>2, FrontTaken
    <3> QED BY <1>1, <2>2, <3>1 DEF CommandsBeforeUnread
  <2>5. Line!CommandsInOrder'
    BY <1>1, <1>12, <2>1 DEF Line!CommandsInOrder
  <2>6. buf' \in Seq(Chars) /\ Len(buf') <= BUF_SZ - 2 /\ gone' \in Seq(Chars) /\ discarded' \in BOOLEAN
    BY <1>1, <1>2, <1>13, <2>1, <2>2
  <2> QED BY <1>1, <1>2, <1>4, <1>10, <1>11, <2>3, <2>4, <2>5, <2>6 DEF CliInv
<1>14. CASE ~Line!Overflows(filled)
  <2>1. buf' = filled /\ gone' = gone /\ discarded' = discarded
    BY <1>1, <1>14
  <2>2. buf' \o pipe' = buf \o pipe
    BY <1>7, <2>1
  <2>3. Line!EveryCharacterOnce'
    <3>1. (gone \o filled) \o pipe' = (gone' \o buf') \o pipe'
      BY <2>1
    <3> QED BY <1>8, <1>9, <3>1 DEF Line!EveryCharacterOnce
  <2>4. Lined(buf' \o pipe', lens') /\ CommandsBeforeUnread'
    BY <1>1, <2>2 DEF CliInv, CommandsBeforeUnread
  <2>5. Line!CommandsInOrder'
    <3>1. Line!TextFrom(Len(executed) + 1)' = Line!TextFrom(Len(executed) + 1)
      BY <1>1 DEF Line!TextFrom
    <3>2. ~discarded => \A m \in DOMAIN executed : Line!CommandIsLine(m)'
      BY <1>1 DEF CliInv, Line!CommandsInOrder, Line!CommandIsLine
    <3> QED BY <1>1, <1>12, <2>1, <2>2, <3>1, <3>2 DEF CliInv, Line!CommandsInOrder
  <2>6. Len(buf') <= BUF_SZ - 2
    <3>1. Len(filled) # BUF_SZ - 1
      BY <1>14 DEF Line!Overflows
    <3>2. Len(filled) \in Int /\ Len(filled) <= BUF_SZ - 1 /\ BUF_SZ \in Int
      BY <1>2, <1>3, <1>5
    <3>3. Len(filled) <= BUF_SZ - 2
      BY <3>1, <3>2
    <3> QED BY <2>1, <3>3
  <2> QED BY <1>1, <1>4, <1>5, <1>10, <1>11, <2>1, <2>3, <2>4, <2>5, <2>6 DEF CliInv
<1> QED BY <1>13, <1>14

\* The first line of the buffer is what is left of the next one written.
LEMMA TakeKeeps ==
  ASSUME CliInv, Line!TakeLine
  PROVE  CliInv'
<1> DEFINE e == Line!LineEnd(buf)
           a == SubSeq(buf, 1, e)
           line == SubSeq(buf, 1, e - 1)
           w == buf \o pipe
           r == buf' \o pipe
           command == [line |-> buf[e].line, text |-> Line!CutLine(line)]
           m == Len(executed) + 1
<1>1. /\ cli_pc = "search" /\ Line!HasLine(buf)
      /\ executed' = Append(executed, command)
      /\ buf' = Line!Rest(buf) /\ gone' = gone \o a
      /\ lens' = lens /\ gui_open' = gui_open /\ pipe' = pipe /\ ready' = ready
      /\ cli_pc' = cli_pc /\ discarded' = discarded
  BY DEF Line!TakeLine
<1>2. /\ lens \in Seq(Nat) /\ pipe \in Seq(Chars) /\ buf \in Seq(Chars) /\ gone \in Seq(Chars)
      /\ Len(buf) \in Nat /\ Len(pipe) \in Nat /\ Len(lens) \in Nat
      /\ executed \in Seq(Commands) /\ Len(executed) \in Nat
      /\ BUF_SZ \in Nat /\ Len(buf) <= BUF_SZ - 2 /\ CMD_SZ \in Nat \ {0}
      /\ ready \in 0..Len(pipe) /\ (~gui_open => ready = Len(pipe))
  BY PartsAssumption DEF CliInv, Line!CliAssumption
<1>3. e \in 1..Len(buf) /\ buf[e].eol /\ \A j \in 1..(e - 1) : ~buf[j].eol
  BY <1>1, <1>2, LineEndFacts
<1>4. buf[e].line \in Nat
  <2>1. buf[e] \in Chars
    <3> HIDE DEF Chars
    <3> QED BY <1>2, <1>3
  <2> QED BY <2>1 DEF Chars
<1> HIDE DEF Chars, e
<1>5. line \in Seq(Chars) /\ Len(line) = e - 1
  BY <1>2, <1>3
<1>6. Line!CutLine(line) \in Seq(Chars)
  <2> HIDE DEF line
  <2>1. \A k \in Nat : k <= Len(line) => SubSeq(line, 1, k) \in Seq(Chars)
    BY <1>5
  <2>2. CMD_SZ - 1 \in Nat /\ (~(CMD_SZ > Len(line)) => CMD_SZ - 1 <= Len(line))
    BY <1>2, <1>3, <1>5
  <2> QED BY <1>5, <2>1, <2>2 DEF Line!CutLine
<1>7. command \in Commands
  BY <1>4, <1>6 DEF Commands
<1> HIDE DEF Commands
<1>8. executed' \in Seq(Commands) /\ Len(executed') = m
      /\ executed'[m] = command
      /\ \A i \in 1..Len(executed) : executed'[i] = executed[i]
      /\ DOMAIN executed' = 1..m
      /\ DOMAIN executed = 1..Len(executed)
  <2> HIDE DEF command
  <2> QED BY <1>1, <1>2, <1>7
<1>9. buf' = SubSeq(buf, e + 1, Len(buf))
  BY <1>1 DEF Line!Rest, e
<1>10. /\ buf' \in Seq(Chars) /\ Len(buf') <= BUF_SZ - 2 /\ Len(buf') = Len(buf) - e
       /\ a \in Seq(Chars) /\ Len(a) = e
  BY <1>2, <1>3, <1>9, SMTT(30)
<1>11. a \o buf' = buf
  <2>1. 1 \in 1..(Len(buf) + 1) /\ e \in (1 - 1)..Len(buf) /\ Len(buf) \in e..Len(buf)
    BY <1>2, <1>3
  <2>2. SubSeq(buf, 1, e) \o SubSeq(buf, e + 1, Len(buf)) = SubSeq(buf, 1, Len(buf))
    BY <1>2, <2>1, ConcatAdjacentSubSeq
  <2> QED BY <1>2, <1>9, <2>2, SubSeqFull
<1> HIDE DEF a
<1>12. /\ r \in Seq(Chars) /\ w \in Seq(Chars) /\ w = a \o r /\ Len(w) = e + Len(r)
       /\ Len(r) \in Nat /\ e \in 1..Len(w)
       /\ \A i \in 1..Len(r) : r[i] = w[e + i]
       /\ \A i \in 1..Len(buf) : w[i] = buf[i]
  <2>1. r \in Seq(Chars) /\ Len(r) \in Nat
    BY <1>2, <1>10, ConcatProperties
  <2>2. (a \o buf') \o pipe = a \o (buf' \o pipe)
    <3>1. a \in Seq(Chars) /\ buf' \in Seq(Chars) /\ pipe \in Seq(Chars)
      BY <1>2, <1>10
    <3> QED BY ONLY <3>1, JoinAssociative
  <2>3. w = a \o r
    BY <1>11, <2>2
  <2>4. /\ w \in Seq(Chars) /\ Len(w) = Len(buf) + Len(pipe)
        /\ \A i \in 1..(Len(buf) + Len(pipe)) : w[i] = IF i <= Len(buf) THEN buf[i] ELSE pipe[i - Len(buf)]
    BY <1>2, ConcatProperties
  <2>5. \A i \in 1..Len(buf) : w[i] = buf[i]
    <3>1. \A i \in 1..Len(buf) : i \in 1..(Len(buf) + Len(pipe)) /\ i <= Len(buf)
      BY <1>2
    <3> HIDE DEF w
    <3> QED BY <2>4, <3>1
  <2> HIDE DEF r
  <2>6. /\ Len(a \o r) = Len(a) + Len(r)
        /\ \A i \in 1..(Len(a) + Len(r)) : (a \o r)[i] = IF i <= Len(a) THEN a[i] ELSE r[i - Len(a)]
    BY <1>10, <2>1, ConcatProperties
  <2>7. ASSUME NEW i \in 1..Len(r)
        PROVE  r[i] = w[e + i]
    <3>1. e + i \in 1..(Len(a) + Len(r)) /\ ~(e + i <= Len(a)) /\ (e + i) - Len(a) = i
      BY <1>3, <1>10, <2>1
    <3> QED BY <2>3, <2>6, <3>1
  <2>8. Len(w) = e + Len(r) /\ e \in 1..Len(w)
    BY <1>2, <1>3, <1>10, <2>1, <2>3, <2>4, <2>6
  <2> QED BY <2>1, <2>3, <2>4, <2>5, <2>7, <2>8
<1>13. Line!EveryCharacterOnce'
  <2>1. (gone \o buf) \o pipe = Line!TextFrom(1)
    BY DEF CliInv, Line!EveryCharacterOnce
  <2>2. (gone \o a) \o buf' = gone \o (a \o buf')
    BY <1>2, <1>10, JoinAssociative
  <2>3. (gone' \o buf') \o pipe' = Line!TextFrom(1)
    BY <1>1, <1>11, <2>1, <2>2
  <2>4. Line!TextFrom(1)' = Line!TextFrom(1)
    BY <1>1 DEF Line!TextFrom
  <2> QED BY <2>3, <2>4 DEF Line!EveryCharacterOnce
<1>14. gone' \in Seq(Chars)
  BY <1>1, <1>2, <1>10, ConcatProperties
<1> HIDE DEF w, r
<1>15. /\ Lined(buf' \o pipe', lens')
       /\ \A n \in 1..Len(executed) : \A i \in 1..Len(r) : executed[n].line < r[i].line
  <2>1. buf \o pipe = a \o r /\ buf' \o pipe' = r
    BY <1>1, <1>12 DEF w, r
  <2>2. lens' = lens
    BY <1>1
  <2>3. /\ Lined(buf' \o pipe', lens')
        /\ \A n \in DOMAIN executed : \A i \in 1..Len(r) : executed[n].line < r[i].line
    BY <1>10, <1>12, <2>1, <2>2, FrontTaken
  <2> QED BY <1>8, <2>3
<1>16. /\ buf[e].line \in 1..Len(lens)
       /\ \E k \in 1..(lens[buf[e].line] + 1) :
            line = SubSeq(Line!Text(buf[e].line, lens[buf[e].line]), k, lens[buf[e].line])
       /\ \A i \in 1..Len(r) : buf[e].line < r[i].line
  <2>1. w[e] = buf[e] /\ \A j \in 1..(e - 1) : w[j] = buf[j]
    <3>1. e \in 1..Len(buf) /\ \A j \in 1..(e - 1) : j \in 1..Len(buf)
      BY <1>2, <1>3
    <3>2. \A j \in 1..Len(buf) : w[j] = buf[j]
      BY <1>12
    <3> QED BY <3>1, <3>2
  <2>2. Lined(w, lens) /\ w[e].eol /\ \A j \in 1..(e - 1) : ~w[j].eol
    BY <1>3, <2>1 DEF CliInv, w
  <2>3. /\ w[e].line \in 1..Len(lens)
        /\ \E k \in 1..(lens[w[e].line] + 1) :
             SubSeq(w, 1, e - 1) = SubSeq(Line!Text(w[e].line, lens[w[e].line]), k, lens[w[e].line])
        /\ \A j \in (e + 1)..Len(w) : w[e].line < w[j].line
    BY <1>2, <1>12, <2>2, LinedHead
  <2>4. SubSeq(w, 1, e - 1) = line
    <3>1. /\ SubSeq(w, 1, e - 1) \in Seq(Chars) /\ Len(SubSeq(w, 1, e - 1)) = e - 1
          /\ \A i \in 1..(e - 1) : SubSeq(w, 1, e - 1)[i] = w[i]
      BY <1>3, <1>12
    <3>2. \A i \in 1..(e - 1) : line[i] = buf[i]
      BY <1>2, <1>3
    <3> HIDE DEF line
    <3> QED BY <1>5, <2>1, <3>1, <3>2, SeqEqual
  <2>5. ASSUME NEW i \in 1..Len(r)
        PROVE  buf[e].line < r[i].line
    <3>1. e + i \in (e + 1)..Len(w)
      BY <1>3, <1>12
    <3> QED BY <1>12, <2>1, <2>3, <3>1
  <2> QED BY <2>1, <2>3, <2>4, <2>5
<1>17. CommandsBeforeUnread'
  <2>1. ASSUME NEW n \in 1..m, NEW i \in 1..Len(r)
        PROVE  executed'[n].line < r[i].line
    <3>1. CASE n = m
      BY <1>8, <1>16, <3>1
    <3>2. CASE n # m
      <4>1. n \in 1..Len(executed)
        BY <1>2, <3>2
      <4> QED BY <1>8, <1>15, <4>1
    <3> QED BY <3>1, <3>2
  <2>2. buf' \o pipe' = r
    BY <1>1 DEF r
  <2> QED BY <1>8, <2>1, <2>2 DEF CommandsBeforeUnread
<1> HIDE DEF line
<1>18. ASSUME NEW n \in 1..m
       PROVE  Line!CommandIsLineEnd(n)'
  <2>1. CASE n = m
    <3>1. DOMAIN lens = 1..Len(lens)
      BY <1>2
    <3>2. PICK k \in 1..(lens[buf[e].line] + 1) :
            line = SubSeq(Line!Text(buf[e].line, lens[buf[e].line]), k, lens[buf[e].line])
      BY <1>16
    <3>3. executed'[n].line = buf[e].line /\ executed'[n].text = Line!CutLine(line)
      BY <1>8, <2>1
    <3>4. n > 1 => executed'[n - 1].line < executed'[n].line
      <4> SUFFICES ASSUME n > 1 PROVE executed'[n - 1].line < buf[e].line
        BY <3>3
      <4>1. n - 1 \in 1..Len(executed) /\ n - 1 \in DOMAIN executed
        BY <1>2, <1>8, <2>1
      <4>2. e \in 1..Len(w) /\ w[e] = buf[e]
        BY <1>3, <1>12
      <4>3. executed[n - 1].line < w[e].line
        BY <4>1, <4>2 DEF CliInv, CommandsBeforeUnread, w
      <4> QED BY <1>8, <4>1, <4>2, <4>3
    <3> QED BY <1>1, <1>16, <3>1, <3>2, <3>3, <3>4 DEF Line!CommandIsLineEnd
  <2>2. CASE n # m
    <3>1. n \in 1..Len(executed) /\ n \in DOMAIN executed /\ (n > 1 => n - 1 \in 1..Len(executed))
      BY <1>2, <1>8, <2>2, SMTT(30)
    <3>2. Line!CommandIsLineEnd(n)
      BY <3>1 DEF CliInv, Line!CommandsInOrder
    <3>3. executed'[n] = executed[n] /\ (n > 1 => executed'[n - 1] = executed[n - 1])
      BY <1>8, <3>1
    <3> QED BY <1>1, <3>2, <3>3 DEF Line!CommandIsLineEnd
  <2> QED BY <2>1, <2>2
<1>19. ASSUME ~discarded
       PROVE  /\ \A n \in 1..m : Line!CommandIsLine(n)'
              /\ r = From(lens, m + 1)
  <2>1. /\ \A n \in DOMAIN executed : Line!CommandIsLine(n)
        /\ w = From(lens, m)
    BY <1>19, TextFromIsFrom DEF CliInv, Line!CommandsInOrder, w
  <2>2. m \in 1..(Len(lens) + 1)
    <3>1. Len(executed) = 0 \/ Len(executed) \in DOMAIN executed
      BY <1>2, <1>8
    <3>2. Len(executed) <= Len(lens)
      BY <1>2, <2>1, <3>1 DEF Line!CommandIsLine
    <3> QED BY <1>2, <3>2
  <2>3. m \in 1..Len(lens)
    <3>1. m # Len(lens) + 1
      <4> SUFFICES ASSUME m = Len(lens) + 1 PROVE FALSE
        OBVIOUS
      <4>1. w = <<>>
        BY <1>2, <2>1, <2>2, FromFacts
      <4> QED BY <1>12, <4>1
    <3>2. Len(lens) \in Nat
      BY <1>2
    <3> HIDE DEF m
    <3> QED BY <2>2, <3>1, <3>2
  <2> DEFINE l == lens[m]
             x == Line!Text(m, l)
             u == From(lens, m + 1)
  <2>4. m \in Nat /\ l \in Nat
    BY <1>2, <2>3
  <2>5. u \in Seq(Chars)
    <3>1. m + 1 \in 1..(Len(lens) + 1)
      BY <1>2, <2>3
    <3> QED BY <1>2, <3>1, FromFacts
  <2>6. buf \o pipe = x \o u
    BY <1>2, <2>1, <2>3, FromFirst DEF w
  <2> HIDE DEF m, l, u
  <2>7. e = l + 1 /\ SubSeq(buf, 1, l + 1) = x /\ r = u
    <3>1. Line!HasLine(buf) /\ buf' = Line!Rest(buf)
      BY <1>1
    <3>2. buf \in Seq(Chars) /\ pipe \in Seq(Chars)
      BY <1>2
    <3>3. /\ Line!LineEnd(buf) = l + 1
          /\ SubSeq(buf, 1, l + 1) = Line!Text(m, l)
          /\ Line!Rest(buf) \o pipe = u
      BY <2>4, <2>5, <2>6, <3>1, <3>2, CutFirst
    <3> QED BY <3>1, <3>3 DEF e, r
  <2>8. x \in Seq(Chars) /\ Len(x) = l + 1
    BY <2>4, TextFacts
  <2>9. line = SubSeq(x, 1, l)
    <3>1. /\ SubSeq(x, 1, l) \in Seq(Chars) /\ Len(SubSeq(x, 1, l)) = l
          /\ \A i \in 1..l : SubSeq(x, 1, l)[i] = x[i]
      <4> HIDE DEF x
      <4> QED BY <2>4, <2>8
    <3>2. \A i \in 1..l : line[i] = buf[i] /\ SubSeq(buf, 1, l + 1)[i] = buf[i]
      BY <1>2, <1>3, <2>4, <2>7 DEF line
    <3>3. line \in Seq(Chars) /\ Len(line) = l
      BY <1>5, <2>4, <2>7
    <3> HIDE DEF x
    <3> QED BY <2>7, <3>1, <3>2, <3>3, SeqEqual
  <2>10. ASSUME NEW n \in 1..m
         PROVE  Line!CommandIsLine(n)'
    <3>1. CASE n = m
      <4>1. n <= Len(lens) /\ executed'[n].text = Line!CutLine(line)
        BY <1>2, <1>8, <2>3, <3>1
      <4>2. line = SubSeq(Line!Text(n, lens[n]), 1, lens[n])
        BY <2>9, <3>1 DEF l
      <4> QED BY <1>1, <4>1, <4>2 DEF Line!CommandIsLine
    <3>2. CASE n # m
      <4>1. n \in 1..Len(executed) /\ n \in DOMAIN executed /\ executed'[n] = executed[n]
        BY <1>2, <1>8, <3>2 DEF m
      <4>2. Line!CommandIsLine(n)
        BY <2>1, <4>1
      <4> QED BY <1>1, <4>1, <4>2 DEF Line!CommandIsLine
    <3> QED BY <3>1, <3>2
  <2> QED BY <2>7, <2>10 DEF u
<1>20. Line!CommandsInOrder'
  <2>1. Line!TextFrom(Len(executed) + 1)' = From(lens', Len(executed') + 1)
    BY DEF Line!TextFrom, From, TextsFrom
  <2>2. buf' \o pipe' = r
    BY <1>1 DEF r
  <2> QED BY <1>1, <1>8, <1>18, <1>19, <2>1, <2>2 DEF Line!CommandsInOrder
<1>21. Line!ExitsAtEnd'
  BY <1>1 DEF Line!ExitsAtEnd
<1> HIDE DEF command, m
<1> QED BY <1>1, <1>2, <1>8, <1>10, <1>13, <1>14, <1>15, <1>17, <1>20, <1>21 DEF CliInv

\* The other steps leave the characters alone.
LEMMA QuietLine ==
  ASSUME CliInv, UNCHANGED <<lens, pipe, buf, executed, gone, discarded>>,
         gui_open' \in BOOLEAN, ready' \in 0..Len(pipe),
         ~gui_open' => ready' = Len(pipe), Line!ExitsAtEnd'
  PROVE  CliInv'
<1> HIDE DEF Chars, Commands
<1>1. \A n : Line!TextFrom(n)' = Line!TextFrom(n)
  BY DEF Line!TextFrom
<1>2. Line!EveryCharacterOnce'
  BY <1>1 DEF CliInv, Line!EveryCharacterOnce
<1>3. Line!TextFrom(Len(executed) + 1)' = Line!TextFrom(Len(executed) + 1)
  BY DEF Line!TextFrom
<1>4. Line!CommandsInOrder'
  BY <1>3 DEF CliInv, Line!CommandsInOrder, Line!CommandIsLineEnd, Line!CommandIsLine
<1>5. Lined(buf' \o pipe', lens') /\ CommandsBeforeUnread'
  BY DEF CliInv, CommandsBeforeUnread
<1> QED BY <1>2, <1>4, <1>5 DEF CliInv

\* Every step keeps the invariant.
LEMMA CliStep ==
  ASSUME CliInv, [Line!Next]_(Line!vars)
  PROVE  CliInv'
<1> HIDE DEF Chars, Commands
<1>1. /\ gui_open \in BOOLEAN /\ ready \in 0..Len(pipe) /\ Len(pipe) \in Nat
      /\ (~gui_open => ready = Len(pipe)) /\ Line!ExitsAtEnd
      /\ pipe \in Seq(Chars)
  BY DEF CliInv
<1>2. CASE \E l \in Lengths : Line!GuiWrite(l)
  BY <1>2, WriteKeeps
<1>3. CASE Line!Arrive
  <2>1. ready' \in 0..Len(pipe) /\ gui_open
    BY <1>1, <1>3 DEF Line!Arrive
  <2>2. Line!ExitsAtEnd'
    BY <1>1, <1>3 DEF Line!ExitsAtEnd, Line!Arrive
  <2> QED BY <1>1, <1>3, <2>1, <2>2, QuietLine DEF Line!Arrive
<1>4. CASE Line!GuiClose
  <2>1. Line!ExitsAtEnd'
    BY <1>1, <1>4 DEF Line!ExitsAtEnd, Line!GuiClose
  <2> QED BY <1>1, <1>4, <2>1, QuietLine DEF Line!GuiClose
<1>5. CASE Line!PollInput
  <2>1. Line!ExitsAtEnd'
    BY <1>5 DEF Line!ExitsAtEnd, Line!PollInput
  <2> QED BY <1>1, <1>5, <2>1, QuietLine DEF Line!PollInput
<1>6. CASE Line!TakeLine
  BY <1>6, TakeKeeps
<1>7. CASE \E n \in 1..ready : Line!Read(n)
  BY <1>7, ReadKeeps
<1>8. CASE Line!ReadNothing
  <2>1. Line!ExitsAtEnd'
    BY <1>8 DEF Line!ExitsAtEnd, Line!ReadNothing
  <2> QED BY <1>1, <1>8, <2>1, QuietLine DEF Line!ReadNothing
<1>9. CASE Line!ReadEof
  <2>1. Line!Room # 0
    <3>1. Len(buf) \in Nat /\ Len(buf) <= BUF_SZ - 2 /\ BUF_SZ \in Nat
      BY PartsAssumption DEF CliInv, Line!CliAssumption
    <3> QED BY <3>1 DEF Line!Room
  <2>2. ~gui_open /\ Len(pipe) = 0 /\ ~Line!HasLine(buf)
    BY <1>1, <1>9, <2>1 DEF Line!ReadEof
  <2>3. pipe = <<>>
    BY <1>1, <2>2
  <2>4. Line!ExitsAtEnd'
    BY <1>9, <2>2, <2>3 DEF Line!ExitsAtEnd, Line!ReadEof, Line!HasLine
  <2> QED BY <1>1, <1>9, <2>4, QuietLine DEF Line!ReadEof
<1>10. CASE UNCHANGED Line!vars
  <2>1. Line!ExitsAtEnd'
    BY <1>1, <1>10 DEF Line!ExitsAtEnd, Line!vars
  <2> QED BY <1>1, <1>10, <2>1, QuietLine DEF Line!vars
<1> QED BY <1>2, <1>3, <1>4, <1>5, <1>6, <1>7, <1>8, <1>9, <1>10 DEF Line!Next

\* The inductive invariant of the command line.
THEOREM CliInvariance == Line!Spec => []CliInv
<1>1. Line!Init => CliInv
  BY CliInit
<1>2. CliInv /\ [Line!Next]_(Line!vars) => CliInv'
  BY CliStep
<1> QED BY <1>1, <1>2, PTL DEF Line!Spec

\* Whatever pieces the input arrives in, wherever read() cuts it and however
\* often the buffer is thrown away: what left the buffer, what it holds and what
\* is in the pipe are the characters written, in order and each once.
THEOREM NothingIsLost == Line!Spec => []EveryCharacterOnce
<1>1. CliInv => EveryCharacterOnce
  BY DEF CliInv, EveryCharacterOnce
<1> QED BY <1>1, CliInvariance, PTL

\* A command is the end of one line, and lines are taken in order; until a buffer
\* is thrown away the commands executed are the first lines written, each once
\* and whole but for what the caller's buffer does not hold.
THEOREM CommandsStayInOrder == Line!Spec => []CommandsInOrder
<1>1. CliInv => CommandsInOrder
  BY DEF CliInv, CommandsInOrder
<1> QED BY <1>1, CliInvariance, PTL

\* read() is never called for a buffer without room, so the program exits at the
\* end of its input only, with the lines it read executed.
THEOREM SenderExitsAtEnd == Line!Spec => []ExitsAtEnd
<1>1. CliInv => ExitsAtEnd
  BY DEF CliInv, ExitsAtEnd
<1> QED BY <1>1, CliInvariance, PTL

-----------------------------------------------------------------------------
(* TimedSender: products of a speed and times.                             *)

\* Products of a speed and times.
LEMMA Products ==
  /\ \A r, a, b, c \in Int : r * (b - a) + r * (c - b) = r * (c - a)
  /\ \A r \in Nat, x, y \in Int : x <= y => r * x <= r * y
  /\ \A b \in Nat, r \in Nat \ {0} : Timed!CeilDiv(b, r) \in Nat /\ b <= r * Timed!CeilDiv(b, r)
<1>1. \A r, a, b, c \in Int : r * (b - a) + r * (c - b) = r * (c - a)
  OBVIOUS
<1>2. ASSUME NEW r \in Nat, NEW x \in Int, NEW y \in Int, x <= y
      PROVE  r * x <= r * y
  <2>1. y - x \in Nat
    BY <1>2
  <2>2. r * (y - x) \in Nat
    BY <2>1
  <2>3. r * y = r * x + r * (y - x)
    OBVIOUS
  <2> QED BY <2>2, <2>3
<1>3. ASSUME NEW b \in Nat, NEW r \in Nat \ {0}
      PROVE  Timed!CeilDiv(b, r) \in Nat /\ b <= r * Timed!CeilDiv(b, r)
  <2> DEFINE a == b + r - 1
  <2>1. a \in Nat /\ a \div r \in Nat /\ a % r \in 0..(r - 1)
    OBVIOUS
  <2>2. a = r * (a \div r) + (a % r)
    BY <2>1
  <2> QED BY <2>1, <2>2 DEF Timed!CeilDiv
<1> QED BY <1>1, <1>2, <1>3

-----------------------------------------------------------------------------
(* TimedSender: the playout time of the files before a file.               *)

\* What PlayoutBefore is for a shorter playlist.
Playout(g, n) ==
  g = [f \in 0..n |-> IF f = 0 THEN 0 ELSE g[f - 1] + Duration[f - 1]]

\* The recursion defines a function.
LEMMA PlayoutExists ==
  ASSUME NEW N \in Nat
  PROVE  \E g : Playout(g, N)
<1> DEFINE T == {n \in 0..N : ~ \E g : Playout(g, n)}
<1> SUFFICES ASSUME T # {} PROVE FALSE
  <2>1. N \in 0..N
    OBVIOUS
  <2> QED BY <2>1
<1>1. T \in SUBSET Nat
  OBVIOUS
<1>2. PICK m \in T : \A n \in T : m <= n
  <2> HIDE DEF T
  <2> QED BY <1>1, LeastNatural
<1>3. m \in 0..N /\ ~ \E g : Playout(g, m)
  OBVIOUS
<1>4. CASE m = 0
  <2> DEFINE g == [f \in 0..0 |-> 0]
  <2>1. Playout(g, 0)
    BY DEF Playout
  <2> QED BY <1>3, <1>4, <2>1
<1>5. CASE m # 0
  <2>1. m - 1 \in 0..N /\ m - 1 \notin T
    BY <1>2, <1>3, <1>5
  <2>2. PICK g : Playout(g, m - 1)
    BY <2>1
  <2> DEFINE h == [f \in 0..m |-> IF f = m THEN g[m - 1] + Duration[m - 1] ELSE g[f]]
             e == [f \in 0..m |-> IF f = 0 THEN 0 ELSE h[f - 1] + Duration[f - 1]]
  <2>3. \A f \in 0..(m - 1) : g[f] = IF f = 0 THEN 0 ELSE g[f - 1] + Duration[f - 1]
    <3>1. g = [f \in 0..(m - 1) |-> IF f = 0 THEN 0 ELSE g[f - 1] + Duration[f - 1]]
      BY <2>2 DEF Playout
    <3> HIDE DEF h, e
    <3> QED BY <3>1
  <2>4. ASSUME NEW f \in 0..m
        PROVE  h[f] = IF f = 0 THEN 0 ELSE h[f - 1] + Duration[f - 1]
    <3>1. f # 0 => f - 1 \in 0..m /\ f - 1 # m /\ h[f - 1] = g[f - 1]
      BY <1>3
    <3>2. CASE f = m
      BY <1>5, <3>1, <3>2
    <3>3. CASE f # m
      <4>1. f \in 0..(m - 1) /\ h[f] = g[f]
        BY <1>3, <3>3
      <4> QED BY <2>3, <3>1, <4>1
    <3> QED BY <3>2, <3>3
  <2>5. h = e
    BY <2>4
  <2>6. Playout(h, m)
    BY <2>5 DEF Playout
  <2> QED BY <1>3, <2>6
<1> QED BY <1>4, <1>5

\* The playout times add up, and are naturals.
LEMMA PlayoutAdds ==
  ASSUME Timed!TimedAssumption
  PROVE  /\ Timed!PlayoutBefore[0] = 0
         /\ \A f \in Timed!Files : Timed!PlayoutBefore[f + 1] = Timed!PlayoutBefore[f] + Duration[f]
         /\ \A f \in 0..NFiles : Timed!PlayoutBefore[f] \in Nat
<1>1. NFiles \in Nat \ {0} /\ \A f \in Timed!Files : Duration[f] \in Nat
  BY DEF Timed!TimedAssumption
<1>2. Playout(Timed!PlayoutBefore, NFiles)
  BY <1>1, PlayoutExists DEF Timed!PlayoutBefore, Playout
<1>3. \A f \in 0..NFiles : Timed!PlayoutBefore[f] =
         IF f = 0 THEN 0 ELSE Timed!PlayoutBefore[f - 1] + Duration[f - 1]
  BY <1>2 DEF Playout
<1>4. Timed!PlayoutBefore[0] = 0
  BY <1>1, <1>3
<1>5. ASSUME NEW f \in Timed!Files
      PROVE  Timed!PlayoutBefore[f + 1] = Timed!PlayoutBefore[f] + Duration[f]
  <2>1. f + 1 \in 0..NFiles /\ f + 1 # 0 /\ (f + 1) - 1 = f
    BY <1>1 DEF Timed!Files
  <2> QED BY <1>3, <2>1
<1>6. \A f \in 0..NFiles : Timed!PlayoutBefore[f] \in Nat
  <2> DEFINE T == {f \in 0..NFiles : Timed!PlayoutBefore[f] \notin Nat}
  <2> SUFFICES ASSUME T # {} PROVE FALSE
    OBVIOUS
  <2>1. T \in SUBSET Nat
    BY <1>1
  <2>2. PICK m \in T : \A n \in T : m <= n
    <3> HIDE DEF T
    <3> QED BY <2>1, LeastNatural
  <2>3. m \in 0..NFiles /\ m # 0 /\ Timed!PlayoutBefore[m] \notin Nat
    BY <1>4
  <2>4. m - 1 \in Timed!Files /\ m - 1 \in 0..NFiles /\ m - 1 \notin T
    BY <1>1, <2>2, <2>3 DEF Timed!Files
  <2>5. Timed!PlayoutBefore[m - 1] \in Nat
    BY <2>4
  <2>6. (m - 1) + 1 = m
    BY <2>3
  <2> QED BY <1>1, <1>5, <2>3, <2>4, <2>5, <2>6
<1> QED BY <1>4, <1>5, <1>6

-----------------------------------------------------------------------------
(* TimedSender: the inductive invariant.                                   *)

Types ==
  /\ clock \in Nat /\ busy \in Nat
  /\ t_pc \in {"xmit", "sleep", "wait", "select", "exit"}
  /\ file \in 0..NFiles /\ (t_pc # "exit" => file \in Timed!Files)
  /\ next \in Nat
  /\ speed \in Nat
  /\ throttle_nbytes \in Nat /\ throttle_start \in Nat /\ wake \in Nat
  /\ cmd \in Nat \cup {Timed!NoCmd}
  /\ begun \in Seq(Nat) /\ sent \in Seq(Nat)
  /\ watch \in Nat /\ watch <= clock /\ bytes \in Nat

\* A burst that is under way is short of the limit, a complete one sleeps for
\* what it was too fast.
Bursts ==
  /\ throttle_start <= clock
  /\ t_pc # "sleep" => throttle_nbytes < BURST
  /\ t_pc = "sleep" => /\ speed > 0 /\ 0 < throttle_nbytes /\ throttle_nbytes <= Timed!MaxBurst
                     /\ throttle_nbytes <= speed * (wake - throttle_start)

\* What was sent since the observation began belongs to the burst under way
\* then, to bursts that have had their time, or to the burst under way now.
Counted ==
  speed > 0 =>
    \/ throttle_nbytes > 0 /\ bytes < throttle_nbytes
    \/ /\ throttle_nbytes > 0 /\ watch <= throttle_start
       /\ bytes < Timed!MaxBurst + speed * (throttle_start - watch) + throttle_nbytes
    \/ throttle_nbytes = 0 /\ bytes < Timed!MaxBurst + speed * (clock - watch)

\* The file is sent and being played out.
Waiting == t_pc \in {"wait", "select"}

\* The playout time is that of the files begun or sent, and waiting for it is
\* not computing.
Pacing ==
  /\ dur_accum = Timed!PlayoutBefore[IF Waiting THEN file + 1 ELSE file]
  /\ Len(begun) = IF t_pc = "exit" THEN file ELSE file + 1
  /\ Len(sent) = IF Waiting THEN file + 1 ELSE file
  /\ Waiting =>
       clock <= busy + IF sent[file + 1] > dur_accum THEN sent[file + 1]
                                                     ELSE dur_accum

TimedInv == Types /\ Bursts /\ Counted /\ Pacing /\ Timed!Paced

\* The constants and the sizes of messages.
LEMMA Sizes ==
  ASSUME Timed!TimedAssumption
  PROVE  /\ NFiles \in Nat \ {0} /\ BURST \in Nat \ {0} /\ HEADER \in Nat \ {0}
         /\ PD_T \in Nat \ {0} /\ Timed!MaxBurst \in Nat \ {0}
         /\ Timed!MaxBurst = BURST - 1 + HEADER + PD_T
         /\ Speeds \subseteq Nat
         /\ \A f \in Timed!Files : Duration[f] \in Nat /\ Timed!K(f) \in Nat \ {0}
         /\ \A f \in Timed!Files, i \in Nat :
              i < Timed!K(f) => Timed!MsgSize(f, i) \in 1..(HEADER + PD_T)
<1>1. /\ NFiles \in Nat \ {0} /\ BURST \in Nat \ {0} /\ HEADER \in Nat \ {0}
      /\ PD_T \in Nat \ {0} /\ Speeds \subseteq Nat
      /\ \A f \in Timed!Files : Duration[f] \in Nat /\ FileSize[f] \in Nat \ {0}
  BY CodingAssumption DEF Timed!TimedAssumption
<1>2. Timed!MaxBurst \in Nat \ {0} /\ Timed!MaxBurst = BURST - 1 + HEADER + PD_T
  BY <1>1 DEF Timed!MaxBurst
<1>3. ASSUME NEW f \in Timed!Files
      PROVE  /\ Timed!K(f) \in Nat \ {0}
             /\ \A i \in Nat : i < Timed!K(f) => Timed!MsgSize(f, i) \in 1..(HEADER + PD_T)
  <2> DEFINE s == FileSize[f]
             a == s + PD_T - 1
             q == a \div PD_T
  <2>1. s \in Nat \ {0} /\ a \in Nat /\ a >= PD_T
    BY <1>1
  <2>2. q \in Nat /\ a % PD_T \in 0..(PD_T - 1) /\ a = PD_T * q + (a % PD_T)
    <3> HIDE DEF a
    <3> QED BY <1>1, <2>1
  <2>3. Timed!K(f) = q
    BY DEF Timed!K, Timed!KLarge, Timed!CeilDiv
  <2> HIDE DEF q
  <2>4. q # 0
    BY <1>1, <2>1, <2>2
  <2>5. ASSUME NEW i \in Nat, i < q
        PROVE  Timed!MsgSize(f, i) \in 1..(HEADER + PD_T)
    <3>1. PD_T * i <= PD_T * (q - 1)
      BY <1>1, <2>2, <2>5, Products
    <3>2. PD_T * (q - 1) = PD_T * q - PD_T
      BY <1>1, <2>2
    <3>3. PD_T * i \in Nat
      BY <1>1
    <3>4. s - PD_T * i >= 1
      BY <1>1, <2>1, <2>2, <3>1, <3>2, <3>3
    <3>5. Timed!MsgSize(f, i) = HEADER + IF s - PD_T * i < PD_T THEN s - PD_T * i ELSE PD_T
      BY DEF Timed!MsgSize, Timed!SourcePacket
    <3> HIDE DEF s, a
    <3> QED BY <1>1, <2>1, <3>3, <3>4, <3>5
  <2> QED BY <2>2, <2>3, <2>4, <2>5
<1> QED BY <1>1, <1>2, <1>3

\* The first file begins at once.
LEMMA TimedInit ==
  ASSUME Timed!TimedAssumption, Timed!Init
  PROVE  TimedInv
<1>1. 0 \in Timed!Files /\ 0 \in 0..NFiles /\ Speeds \subseteq Nat /\ Timed!MaxBurst \in Nat \ {0}
      /\ BURST \in Nat \ {0}
  BY Sizes DEF Timed!Files
<1>2. /\ clock = 0 /\ busy = 0 /\ t_pc = "xmit" /\ file = 0 /\ next = 0 /\ dur_accum = 0
      /\ speed \in Nat /\ throttle_nbytes = 0 /\ throttle_start = 0 /\ wake = 0
      /\ cmd = Timed!NoCmd /\ begun = <<0>> /\ sent = <<>> /\ watch = 0 /\ bytes = 0
  BY <1>1 DEF Timed!Init
<1>3. Len(begun) = 1 /\ Len(sent) = 0 /\ begun \in Seq(Nat) /\ sent \in Seq(Nat)
      /\ DOMAIN begun = {1}
  BY <1>2
<1>4. Types
  BY <1>1, <1>2, <1>3 DEF Types
<1>5. Bursts
  BY <1>1, <1>2 DEF Bursts
<1>6. Counted
  <2>1. speed * (0 - 0) = 0
    BY <1>2
  <2> QED BY <1>1, <1>2, <2>1 DEF Counted
<1>7. Pacing
  BY <1>2, <1>3, PlayoutAdds DEF Pacing, Waiting
<1>8. Timed!Paced
  BY <1>3 DEF Timed!Paced
<1> QED BY <1>4, <1>5, <1>6, <1>7, <1>8 DEF TimedInv

\* A file that was begun has its place in the playlist, and the one before it
\* was sent.
LEMMA BegunFiles ==
  ASSUME Timed!TimedAssumption, Types, Pacing, NEW n \in DOMAIN begun \ {1}
  PROVE  /\ n - 1 \in 1..NFiles /\ n - 1 \in 1..Len(sent)
         /\ begun[n] \in Nat /\ sent[n - 1] \in Nat /\ Timed!PlayoutBefore[n - 1] \in Nat
<1>1. n \in 2..Len(begun) /\ begun \in Seq(Nat) /\ sent \in Seq(Nat)
  BY DEF Types
<1>2. n - 1 \in 1..NFiles /\ n - 1 \in 1..Len(sent)
  <2>1. Len(begun) \in Nat /\ Len(sent) \in Nat /\ NFiles \in Nat /\ file \in 0..NFiles
    <3>1. Len(begun) \in Nat /\ Len(sent) \in Nat
      BY <1>1
    <3>2. NFiles \in Nat
      BY Sizes
    <3> QED BY <3>1, <3>2 DEF Types
  <2>2. Len(begun) <= NFiles /\ Len(begun) <= Len(sent) + 1
    BY <2>1 DEF Types, Pacing, Timed!Files
  <2> QED BY <1>1, <2>1, <2>2
<1>3. Timed!PlayoutBefore[n - 1] \in Nat
  BY <1>2, PlayoutAdds, Sizes
<1>4. begun[n] \in Nat /\ sent[n - 1] \in Nat
  <2>1. n \in DOMAIN begun /\ n - 1 \in DOMAIN sent
    BY <1>1, <1>2
  <2> QED BY <1>1, <2>1
<1> QED BY <1>2, <1>3, <1>4

\* Steps that begin and send no file keep the pacing, as long as they only let
\* the time of computing go on.
LEMMA PacedKept ==
  ASSUME Timed!TimedAssumption, Types, Pacing, Timed!Paced, busy' \in Nat, busy <= busy',
         UNCHANGED <<begun, sent>>
  PROVE  Timed!Paced'
<1>1. ASSUME NEW n \in DOMAIN begun \ {1}
      PROVE  /\ Timed!PlayoutBefore[n - 1] <= begun[n]
             /\ begun[n] <= busy' + IF sent[n - 1] > Timed!PlayoutBefore[n - 1]
                                    THEN sent[n - 1] ELSE Timed!PlayoutBefore[n - 1]
  <2>1. /\ begun[n] \in Nat /\ sent[n - 1] \in Nat /\ Timed!PlayoutBefore[n - 1] \in Nat
        /\ busy \in Nat
    BY BegunFiles DEF Types
  <2>2. /\ Timed!PlayoutBefore[n - 1] <= begun[n]
        /\ begun[n] <= busy + IF sent[n - 1] > Timed!PlayoutBefore[n - 1]
                              THEN sent[n - 1] ELSE Timed!PlayoutBefore[n - 1]
    BY DEF Timed!Paced
  <2> QED BY <2>1, <2>2
<1> QED BY <1>1 DEF Timed!Paced

\* A packet is sent: the burst goes on, sleeps, or is over.
LEMMA SendKeeps ==
  ASSUME Timed!TimedAssumption, TimedInv, Timed!SendPacket
  PROVE  TimedInv'
<1> DEFINE msg == Timed!MsgSize(file, next)
           burst == throttle_nbytes + msg
<1>1. /\ t_pc = "xmit" /\ next < Timed!K(file) /\ file \in Timed!Files /\ bytes' = bytes + msg
      /\ UNCHANGED <<clock, busy, file, dur_accum, speed, cmd, begun, sent, watch>>
      /\ next' = next + 1
  BY DEF Timed!SendPacket, Timed!time, Timed!commands, TimedInv, Types
<1>2. msg \in 1..(HEADER + PD_T)
  BY <1>1, Sizes DEF TimedInv, Types
<1> HIDE DEF msg
<1>3. /\ clock \in Nat /\ speed \in Nat /\ throttle_nbytes \in Nat /\ throttle_start \in Nat
      /\ watch \in Nat /\ watch <= clock /\ bytes \in Nat /\ throttle_start <= clock
      /\ throttle_nbytes < BURST /\ BURST \in Nat /\ HEADER \in Nat /\ PD_T \in Nat
      /\ Timed!MaxBurst \in Nat \ {0} /\ Timed!MaxBurst = BURST - 1 + HEADER + PD_T
  BY <1>1, Sizes DEF TimedInv, Types, Bursts
<1>4. burst \in Nat \ {0} /\ burst <= Timed!MaxBurst
  BY <1>2, <1>3
<1>5. \/ speed = 0 /\ UNCHANGED <<t_pc, throttle_nbytes, throttle_start, wake>>
      \/ /\ speed > 0 /\ throttle_start' = Timed!BurstStart
         /\ \/ burst < BURST /\ throttle_nbytes' = burst /\ UNCHANGED <<t_pc, wake>>
            \/ /\ throttle_nbytes' = burst /\ t_pc' = "sleep"
               /\ wake' = Timed!BurstStart + Timed!CeilDiv(burst, speed)
            \/ /\ burst <= speed * (clock - Timed!BurstStart)
               /\ throttle_nbytes' = 0 /\ UNCHANGED <<t_pc, wake>>
  BY <1>3, <1>4 DEF Timed!SendPacket, Timed!BurstStart, msg
<1>6. Timed!BurstStart \in Nat /\ Timed!BurstStart <= clock
  BY <1>3 DEF Timed!BurstStart
<1>7. Types'
  <2>1. speed > 0 => Timed!CeilDiv(burst, speed) \in Nat
    BY <1>3, <1>4, Products
  <2> QED BY <1>1, <1>2, <1>3, <1>4, <1>5, <1>6, <2>1 DEF TimedInv, Types
<1>8. Bursts'
  <2>1. speed > 0 => burst <= speed * Timed!CeilDiv(burst, speed)
                     /\ Timed!CeilDiv(burst, speed) \in Nat
    BY <1>3, <1>4, Products
  <2>2. speed > 0 => (Timed!BurstStart + Timed!CeilDiv(burst, speed)) - Timed!BurstStart
                       = Timed!CeilDiv(burst, speed)
    BY <1>6, <2>1
  <2>3. throttle_start' <= clock'
    BY <1>1, <1>3, <1>5, <1>6
  <2>4. t_pc' # "sleep" => throttle_nbytes' < BURST
    BY <1>3, <1>5, Sizes
  <2>5. t_pc' = "sleep" => /\ speed' > 0 /\ 0 < throttle_nbytes' /\ throttle_nbytes' <= Timed!MaxBurst
                        /\ throttle_nbytes' <= speed' * (wake' - throttle_start')
    BY <1>1, <1>4, <1>5, <2>1, <2>2
  <2> QED BY <2>3, <2>4, <2>5 DEF Bursts
<1>9. Counted'
  <2> SUFFICES ASSUME speed > 0 PROVE Counted'
    BY <1>1 DEF Counted
  <2> DEFINE early == speed * (Timed!BurstStart - watch)
             late == speed * (clock - Timed!BurstStart)
             all == speed * (clock - watch)
  <2>1. early \in Int /\ late \in Int /\ all \in Nat /\ early + late = all
    BY <1>3, <1>6, Products
  <2>2. \/ bytes' < burst
        \/ watch <= Timed!BurstStart /\ bytes' < Timed!MaxBurst + early + burst
    <3>1. CASE throttle_nbytes > 0 /\ bytes < throttle_nbytes
      BY <1>1, <1>2, <1>3, <3>1
    <3>2. CASE /\ throttle_nbytes > 0 /\ watch <= throttle_start
               /\ bytes < Timed!MaxBurst + speed * (throttle_start - watch) + throttle_nbytes
      <4>1. Timed!BurstStart = throttle_start
        BY <3>2 DEF Timed!BurstStart
      <4> QED BY <1>1, <1>2, <1>3, <2>1, <3>2, <4>1
    <3>3. CASE throttle_nbytes = 0 /\ bytes < Timed!MaxBurst + speed * (clock - watch)
      <4>1. Timed!BurstStart = clock
        BY <3>3 DEF Timed!BurstStart
      <4> QED BY <1>1, <1>2, <1>3, <2>1, <3>3, <4>1
    <3> QED BY <3>1, <3>2, <3>3 DEF TimedInv, Counted
  <2>3. throttle_start' = Timed!BurstStart /\ clock' = clock /\ speed' = speed /\ watch' = watch
    BY <1>1, <1>5
  <2>4. CASE throttle_nbytes' = burst
    BY <1>4, <2>2, <2>3, <2>4 DEF Counted
  <2>5. CASE throttle_nbytes' # burst
    <3>1. throttle_nbytes' = 0 /\ burst <= late
      BY <1>5, <2>5
    <3>2. bytes' < Timed!MaxBurst + all
      <4>1. bytes' \in Nat
        BY <1>1, <1>2, <1>3
      <4> HIDE DEF early, late, all, burst
      <4> QED BY <1>3, <1>4, <2>1, <2>2, <3>1, <4>1
    <3> QED BY <2>3, <3>1, <3>2 DEF Counted
  <2> QED BY <2>4, <2>5
<1>10. Pacing'
  <2>1. t_pc' \in {"xmit", "sleep"}
    BY <1>1, <1>5
  <2> QED BY <1>1, <2>1 DEF TimedInv, Pacing, Waiting
<1>11. Timed!Paced'
  BY <1>1, PacedKept DEF TimedInv, Types
<1> QED BY <1>7, <1>8, <1>9, <1>10, <1>11 DEF TimedInv

\* A burst that was too fast has had its time.
LEMMA WakeKeeps ==
  ASSUME Timed!TimedAssumption, TimedInv, Timed!Wake
  PROVE  TimedInv'
<1>1. /\ t_pc = "sleep" /\ t_pc' = "xmit" /\ clock >= wake /\ throttle_nbytes' = 0
      /\ UNCHANGED <<clock, busy, file, next, dur_accum, speed, throttle_start, wake,
                     cmd, begun, sent, watch, bytes>>
  BY DEF Timed!Wake, Timed!time, Timed!commands, Timed!observed
<1>2. /\ clock \in Nat /\ speed \in Nat /\ throttle_nbytes \in Nat /\ throttle_start \in Nat
      /\ watch \in Nat /\ watch <= clock /\ bytes \in Nat /\ throttle_start <= clock
      /\ BURST \in Nat \ {0} /\ Timed!MaxBurst \in Nat \ {0} /\ wake \in Nat
      /\ speed > 0 /\ 0 < throttle_nbytes /\ throttle_nbytes <= Timed!MaxBurst
      /\ throttle_nbytes <= speed * (wake - throttle_start)
  BY <1>1, Sizes DEF TimedInv, Types, Bursts
<1>3. Types'
  BY <1>1 DEF TimedInv, Types
<1>4. Bursts'
  BY <1>1, <1>2 DEF Bursts
<1>5. Counted'
  <2> DEFINE early == speed * (throttle_start - watch)
             late == speed * (clock - throttle_start)
             all == speed * (clock - watch)
  <2>1. early \in Int /\ late \in Int /\ all \in Nat /\ early + late = all
    BY <1>2, Products
  <2>2. throttle_nbytes <= late
    <3>1. speed * (wake - throttle_start) <= late
      BY <1>1, <1>2, Products
    <3>2. speed * (wake - throttle_start) \in Int
      BY <1>2
    <3> QED BY <1>2, <2>1, <3>1, <3>2
  <2>3. \/ bytes < throttle_nbytes
        \/ bytes < Timed!MaxBurst + early + throttle_nbytes
    BY <1>2 DEF TimedInv, Counted
  <2>4. bytes < Timed!MaxBurst + all
    <3> HIDE DEF early, late, all
    <3> QED BY <1>2, <2>1, <2>2, <2>3
  <2> QED BY <1>1, <2>4 DEF Counted
<1>6. Pacing'
  BY <1>1 DEF TimedInv, Pacing, Waiting
<1>7. Timed!Paced'
  BY <1>1, PacedKept DEF TimedInv, Types
<1> QED BY <1>3, <1>4, <1>5, <1>6, <1>7 DEF TimedInv

\* A file is sent: its playout time counts from that of the files before.
LEMMA FileSentKeeps ==
  ASSUME Timed!TimedAssumption, TimedInv, Timed!FileSent
  PROVE  TimedInv'
<1>1. /\ t_pc = "xmit" /\ t_pc' = "wait" /\ sent' = Append(sent, clock)
      /\ dur_accum' = dur_accum + Duration[file]
      /\ UNCHANGED <<clock, busy, file, next, speed, throttle_nbytes, throttle_start,
                     wake, cmd, begun, watch, bytes>>
  BY DEF Timed!FileSent, Timed!Accum, Timed!time, Timed!throttle, Timed!commands, Timed!observed
<1>2. /\ file \in Timed!Files /\ file \in Nat /\ clock \in Nat /\ busy \in Nat
      /\ sent \in Seq(Nat) /\ Len(sent) = file
      /\ Duration[file] \in Nat /\ Timed!PlayoutBefore[file + 1] = Timed!PlayoutBefore[file] + Duration[file]
      /\ Timed!PlayoutBefore[file + 1] \in Nat
  <2>1. file \in Timed!Files /\ NFiles \in Nat
    BY <1>1, Sizes DEF TimedInv, Types
  <2>2. file + 1 \in 0..NFiles
    BY <2>1 DEF Timed!Files
  <2> QED BY <1>1, <2>1, <2>2, Sizes, PlayoutAdds DEF TimedInv, Types, Pacing, Waiting, Timed!Files
<1>3. /\ sent' \in Seq(Nat) /\ Len(sent') = file + 1 /\ sent'[file + 1] = clock
      /\ \A n \in 1..Len(sent) : sent'[n] = sent[n]
  BY <1>1, <1>2
<1>4. Types' /\ Bursts'
  BY <1>1, <1>3 DEF TimedInv, Types, Bursts
<1>5. Counted'
  BY <1>1 DEF TimedInv, Counted
<1>6. Pacing'
  <2>1. dur_accum' = Timed!PlayoutBefore[file + 1]
    BY <1>1, <1>2 DEF TimedInv, Pacing
  <2>2. Len(begun) = file + 1
    BY <1>1 DEF TimedInv, Pacing
  <2> QED BY <1>1, <1>2, <1>3, <2>1, <2>2 DEF Pacing, Waiting
<1>7. Timed!Paced'
  <2>1. ASSUME NEW n \in DOMAIN begun \ {1}
        PROVE  sent'[n - 1] = sent[n - 1]
    <3>1. n - 1 \in 1..Len(sent)
      BY BegunFiles DEF TimedInv
    <3> QED BY <1>3, <3>1
  <2> QED BY <1>1, <2>1 DEF TimedInv, Timed!Paced
<1> QED BY <1>4, <1>5, <1>6, <1>7 DEF TimedInv

\* The next file begins when its time has come.
LEMMA NextFileKeeps ==
  ASSUME Timed!TimedAssumption, TimedInv, Timed!NextFile
  PROVE  TimedInv'
<1>1. /\ t_pc = "wait" /\ clock >= dur_accum /\ file' = file + 1 /\ next' = 0
      /\ \/ file + 1 = NFiles /\ t_pc' = "exit" /\ begun' = begun
         \/ file + 1 # NFiles /\ t_pc' = "xmit" /\ begun' = Append(begun, clock)
      /\ UNCHANGED <<clock, busy, dur_accum, speed, throttle_nbytes, throttle_start,
                     wake, cmd, sent, watch, bytes>>
  BY DEF Timed!NextFile, Timed!PlayedOut, Timed!time, Timed!throttle, Timed!commands, Timed!observed
<1>2. /\ file \in Timed!Files /\ file \in Nat /\ file + 1 \in 0..NFiles /\ NFiles \in Nat
      /\ file + 1 # NFiles => file + 1 \in Timed!Files
      /\ clock \in Nat /\ busy \in Nat /\ begun \in Seq(Nat) /\ sent \in Seq(Nat)
      /\ Len(begun) = file + 1 /\ Len(sent) = file + 1
      /\ dur_accum = Timed!PlayoutBefore[file + 1]
      /\ clock <= busy + IF sent[file + 1] > dur_accum THEN sent[file + 1] ELSE dur_accum
  <2>1. /\ file \in 0..NFiles /\ NFiles \in Nat \ {0} /\ (t_pc # "exit" => file \in Timed!Files)
        /\ clock \in Nat /\ busy \in Nat /\ begun \in Seq(Nat) /\ sent \in Seq(Nat)
    BY Sizes DEF TimedInv, Types
  <2>2. file \in Timed!Files /\ file \in Nat /\ file + 1 \in 0..NFiles
    BY <1>1, <2>1 DEF Timed!Files
  <2>3. file + 1 # NFiles => file + 1 \in Timed!Files
    BY <2>1, <2>2 DEF Timed!Files
  <2>4. /\ Len(begun) = file + 1 /\ Len(sent) = file + 1
        /\ dur_accum = Timed!PlayoutBefore[file + 1]
        /\ clock <= busy + IF sent[file + 1] > dur_accum THEN sent[file + 1] ELSE dur_accum
    BY <1>1, <2>2 DEF TimedInv, Pacing, Waiting
  <2> QED BY <2>1, <2>2, <2>3, <2>4
<1>3. begun' = Append(begun, clock) =>
        /\ begun' \in Seq(Nat) /\ Len(begun') = file + 2 /\ begun'[file + 2] = clock
        /\ \A n \in 1..(file + 1) : begun'[n] = begun[n]
  BY <1>2
<1>4. Types' /\ Bursts'
  BY <1>1, <1>2, <1>3 DEF TimedInv, Types, Bursts
<1>5. Counted'
  BY <1>1 DEF TimedInv, Counted
<1>6. Pacing'
  BY <1>1, <1>2, <1>3 DEF Pacing, Waiting
<1>7. Timed!Paced'
  <2>1. CASE begun' = begun
    BY <1>1, <2>1 DEF TimedInv, Timed!Paced
  <2>2. CASE begun' = Append(begun, clock)
    <3>1. ASSUME NEW n \in DOMAIN begun' \ {1}
          PROVE  /\ Timed!PlayoutBefore[n - 1] <= begun'[n]
                 /\ begun'[n] <= busy + IF sent[n - 1] > Timed!PlayoutBefore[n - 1]
                                        THEN sent[n - 1] ELSE Timed!PlayoutBefore[n - 1]
      <4>1. n \in 2..(file + 2)
        BY <1>2, <1>3, <2>2
      <4>2. CASE n = file + 2
        <5>1. n - 1 = file + 1 /\ begun'[n] = clock
          BY <1>2, <1>3, <2>2, <4>2
        <5>2. Timed!PlayoutBefore[file + 1] <= clock
          BY <1>1, <1>2
        <5> QED BY <1>2, <5>1, <5>2
      <4>3. CASE n # file + 2
        <5>1. n \in 1..(file + 1) /\ n \in DOMAIN begun \ {1}
          BY <1>2, <4>1, <4>3, SMTT(30)
        <5>2. begun'[n] = begun[n]
          BY <1>3, <2>2, <5>1
        <5> QED BY <5>1, <5>2 DEF TimedInv, Timed!Paced
      <4> QED BY <4>2, <4>3
    <3> QED BY <1>1, <3>1 DEF Timed!Paced
  <2> QED BY <1>1, <2>1, <2>2
<1> QED BY <1>4, <1>5, <1>6, <1>7 DEF TimedInv

\* Commands and observers: counting begins anew.
LEMMA WatchKeeps ==
  ASSUME Timed!TimedAssumption, TimedInv, Timed!ServeCommand \/ Timed!StartWatching
  PROVE  TimedInv'
<1>1. /\ watch' = clock /\ bytes' = 0
      /\ UNCHANGED <<clock, busy, file, next, dur_accum, throttle_nbytes,
                     throttle_start, wake, begun, sent>>
      /\ \/ t_pc = "select" /\ t_pc' = "wait" /\ speed' = cmd /\ cmd # Timed!NoCmd /\ cmd' = Timed!NoCmd
         \/ t_pc' = t_pc /\ speed' = speed /\ cmd' = cmd
  BY DEF Timed!ServeCommand, Timed!StartWatching, Timed!time, Timed!throttle, Timed!commands
<1>2. /\ clock \in Nat /\ throttle_nbytes \in Nat /\ Timed!MaxBurst \in Nat \ {0}
      /\ speed \in Nat /\ cmd \in Nat \cup {Timed!NoCmd}
  BY Sizes DEF TimedInv, Types
<1>3. Types'
  BY <1>1, <1>2 DEF TimedInv, Types
<1>4. Bursts'
  BY <1>1 DEF TimedInv, Bursts
<1>5. Counted'
  <2>1. speed' \in Nat
    BY <1>1, <1>2
  <2>2. speed' * (clock - clock) = 0
    <3>1. clock - clock = 0
      BY <1>2
    <3>2. \A r \in Nat : r * 0 = 0
      OBVIOUS
    <3> QED BY <2>1, <3>1, <3>2
  <2> QED BY <1>1, <1>2, <2>2 DEF Counted
<1>6. Pacing'
  BY <1>1 DEF TimedInv, Pacing, Waiting
<1>7. Timed!Paced'
  BY <1>1, PacedKept DEF TimedInv, Types
<1> QED BY <1>3, <1>4, <1>5, <1>6, <1>7 DEF TimedInv

\* The clock ticks: what is blocked waits no longer than it asked for.
LEMMA TickKeeps ==
  ASSUME Timed!TimedAssumption, TimedInv, Timed!Tick
  PROVE  TimedInv'
<1>1. /\ clock' = clock + 1 /\ t_pc # "exit"
      /\ UNCHANGED <<t_pc, file, next, dur_accum, speed, throttle_nbytes, throttle_start,
                     wake, cmd, begun, sent, watch, bytes>>
      /\ (Timed!Blocked /\ busy' = busy) \/ busy' = busy + 1
      /\ Waiting => clock + 1 <= dur_accum \/ busy' = busy + 1
  <2>1. clock \in Nat /\ (Waiting => dur_accum \in Int)
    <3>1. Waiting => file + 1 \in 0..NFiles
      BY Sizes DEF TimedInv, Types, Timed!Files, Waiting
    <3> QED BY <3>1, PlayoutAdds DEF TimedInv, Types, Pacing
  <2> QED BY <2>1 DEF Waiting, Timed!Tick, Timed!Blocked, Timed!throttle, Timed!commands, Timed!observed
<1>2. /\ clock \in Nat /\ busy \in Nat /\ busy' \in Nat /\ busy <= busy'
      /\ speed \in Nat /\ watch \in Nat /\ watch <= clock /\ bytes \in Nat
      /\ throttle_start \in Nat /\ throttle_start <= clock /\ Timed!MaxBurst \in Nat
  <2>1. /\ clock \in Nat /\ busy \in Nat /\ speed \in Nat /\ watch \in Nat /\ watch <= clock
        /\ bytes \in Nat /\ throttle_start \in Nat /\ throttle_start <= clock
    BY DEF TimedInv, Types, Bursts
  <2>2. Timed!MaxBurst \in Nat
    BY Sizes
  <2> QED BY <1>1, <2>1, <2>2
<1>3. Types'
  BY <1>1, <1>2 DEF TimedInv, Types
<1>4. Bursts'
  BY <1>1, <1>2 DEF TimedInv, Bursts
<1>5. Counted'
  <2>1. speed * (clock - watch) <= speed * (clock' - watch)
    BY <1>1, <1>2, Products
  <2>2. speed * (clock - watch) \in Int /\ speed * (clock' - watch) \in Int
    BY <1>1, <1>2
  <2> QED BY <1>1, <1>2, <2>1, <2>2 DEF TimedInv, Counted
<1>6. Pacing'
  <2>1. CASE Waiting
    <3> DEFINE last == IF sent[file + 1] > dur_accum THEN sent[file + 1] ELSE dur_accum
    <3>1. clock <= busy + last /\ dur_accum \in Nat /\ sent[file + 1] \in Nat
      <4>1. file + 1 \in 0..NFiles /\ Len(sent) = file + 1 /\ sent \in Seq(Nat)
            /\ file + 1 \in 1..(file + 1)
        BY <2>1, Sizes DEF TimedInv, Types, Timed!Files, Pacing, Waiting
      <4> QED BY <2>1, <4>1, PlayoutAdds DEF TimedInv, Pacing
    <3>2. clock' <= busy' + last
      BY <1>1, <1>2, <2>1, <3>1
    <3> QED BY <1>1, <2>1, <3>2 DEF TimedInv, Pacing, Waiting
  <2>2. CASE ~Waiting
    BY <1>1, <2>2 DEF TimedInv, Pacing, Waiting
  <2> QED BY <2>1, <2>2
<1>7. Timed!Paced'
  BY <1>1, <1>2, PacedKept DEF TimedInv
<1> QED BY <1>3, <1>4, <1>5, <1>6, <1>7 DEF TimedInv

\* Steps that leave clock, files and throttle alone: pselect() is called or
\* returns, a command is given, or nothing happens.
LEMMA QuietKeeps ==
  ASSUME Timed!TimedAssumption, TimedInv,
         Timed!Select \/ Timed!SelectReturns \/ Timed!GiveCommand \/ UNCHANGED Timed!vars
  PROVE  TimedInv'
<1>1. /\ UNCHANGED <<clock, busy, file, next, dur_accum, speed, throttle_nbytes,
                     throttle_start, wake, begun, sent, watch, bytes>>
      /\ cmd' = cmd \/ cmd' \in Nat
      /\ t_pc' = t_pc \/ (Waiting /\ t_pc' \in {"wait", "select"})
  BY Sizes DEF Waiting, Timed!Select, Timed!SelectReturns, Timed!GiveCommand, Timed!vars, Timed!time, Timed!throttle, Timed!commands, Timed!observed
<1>2. Types' /\ Bursts'
  BY <1>1 DEF TimedInv, Types, Bursts, Waiting
<1>3. Counted' /\ Pacing' /\ Timed!Paced'
  BY <1>1 DEF TimedInv, Counted, Pacing, Waiting, Timed!Paced
<1> QED BY <1>2, <1>3 DEF TimedInv

\* Every step keeps the invariant.
LEMMA TimedStep ==
  ASSUME Timed!TimedAssumption, TimedInv, [Timed!Next]_(Timed!vars)
  PROVE  TimedInv'
BY SendKeeps, WakeKeeps, FileSentKeeps, NextFileKeeps, WatchKeeps, TickKeeps,
   QuietKeeps DEF Timed!Next

-----------------------------------------------------------------------------
(* TimedSender: the theorems.                                              *)

\* The strengthening from which rate and pacing follow.
THEOREM TimedInvariance ==
  ASSUME Timed!TimedAssumption
  PROVE  Timed!Spec => []TimedInv
<1>1. Timed!TimedAssumption
  OBVIOUS
<1>2. Timed!Init => TimedInv
  BY <1>1, TimedInit
<1>3. TimedInv /\ [Timed!Next]_(Timed!vars) => TimedInv'
  BY <1>1, TimedStep
<1> QED BY <1>2, <1>3, PTL DEF Timed!Spec

\* udp_sendmsg() keeps to the "maximum output rate" over every interval without
\* a change of speed, up to the burst under way at its beginning and the one
\* under way at its end.
THEOREM RateIsBounded == Timed!Spec => []RateBounded
<1>1. Timed!Spec => []TimedInv
  BY PartsAssumption, TimedInvariance
<1>2. TimedInv => RateBounded
  <2> SUFFICES ASSUME TimedInv, speed > 0
               PROVE  bytes <= speed * (clock - watch) + 2 * Timed!MaxBurst - 1
    BY DEF RateBounded, Timed!RateBounded
  <2> DEFINE early == speed * (throttle_start - watch)
             all == speed * (clock - watch)
  <2>0. Timed!TimedAssumption
    BY PartsAssumption
  <2>1. /\ clock \in Nat /\ speed \in Nat /\ throttle_nbytes \in Nat
        /\ throttle_start \in Nat /\ watch \in Nat /\ watch <= clock /\ bytes \in Nat
        /\ throttle_start <= clock /\ Timed!MaxBurst \in Nat \ {0}
        /\ BURST \in Nat /\ HEADER \in Nat /\ PD_T \in Nat
        /\ Timed!MaxBurst = BURST - 1 + HEADER + PD_T
    BY <2>0, Sizes DEF TimedInv, Types, Bursts
  <2>2. throttle_nbytes <= Timed!MaxBurst
    BY <2>1 DEF TimedInv, Bursts
  <2>3. early \in Int /\ all \in Nat /\ early <= all
    BY <2>1, Products
  <2>4. \/ bytes < throttle_nbytes
        \/ bytes < Timed!MaxBurst + early + throttle_nbytes
        \/ bytes < Timed!MaxBurst + all
    BY DEF TimedInv, Counted
  <2> HIDE DEF early, all
  <2>5. bytes <= all + 2 * Timed!MaxBurst - 1
    BY <2>1, <2>2, <2>3, <2>4
  <2> QED BY <2>5 DEF all
<1> QED BY <1>1, <1>2, PTL

\* send_segments() begins a file when those before it are played out, or as soon
\* as they are sent, give or take the time computing takes.
THEOREM FilesArePaced == Timed!Spec => []Paced
<1>1. Timed!Spec => []TimedInv
  BY PartsAssumption, TimedInvariance
<1>2. TimedInv => Paced
  BY DEF TimedInv, Paced
<1> QED BY <1>1, <1>2, PTL

-----------------------------------------------------------------------------
(* TimedSender: with the clock the sender does what Sender does.           *)

\* The names of the sender without a clock stand for those of this module; it
\* sends no repair packets here.
LEMMA SameFiles ==
  ASSUME Timed!TimedAssumption
  PROVE  /\ \A f : Timed!Untimed!K(f) = Timed!K(f)
         /\ \A f \in Timed!Files : Timed!Untimed!NExtra(f, 0) = 0
<1>1. \A f : Timed!Untimed!K(f) = Timed!K(f)
  BY DEF Timed!Untimed!K, Timed!Untimed!KLarge, Timed!Untimed!CeilDiv, Timed!K, Timed!KLarge, Timed!CeilDiv
<1>2. ASSUME NEW f \in Timed!Files
      PROVE  Timed!Untimed!NExtra(f, 0) = 0
  <2>1. Timed!K(f) \in Nat /\ Timed!K(f) * 0 = 0
    BY Sizes
  <2>2. (0 + 100 - 1) \div 100 = 0
    OBVIOUS
  <2> QED BY <1>1, <2>1, <2>2 DEF Timed!Untimed!NExtra, Timed!Untimed!CeilDiv
<1> QED BY <1>1, <1>2

\* Where the sender without a clock is.
At == CASE t_pc = "sleep" -> "xmit"
        [] t_pc = "select" -> "wait"
        [] OTHER -> t_pc

\* Every step is one of the sender without a clock, or none.
LEMMA UntimedStep ==
  ASSUME Timed!TimedAssumption, TimedInv, [Timed!Next]_(Timed!vars)
  PROVE  [Timed!Untimed!Next]_(Timed!Untimed!vars)
<1>1. /\ Timed!Untimed!vars = <<At, file, next, 0, 0, TRUE, <<>>>>
      /\ Timed!Untimed!vars' = <<At', file', next', 0, 0, TRUE, <<>>>>
  BY DEF Timed!Untimed!vars, At
<1>2. CASE Timed!SendPacket
  <2>1. t_pc = "xmit" /\ t_pc' \in {"xmit", "sleep"} /\ next < Timed!K(file) /\ next' = next + 1
        /\ file' = file /\ Timed!K(file) \in Nat
    BY <1>2, Sizes DEF Timed!SendPacket, TimedInv, Types
  <2>2. next < Timed!Untimed!K(file) + 0
    BY <2>1, SameFiles
  <2>3. Timed!Untimed!SendPacket
    BY <2>1, <2>2 DEF Timed!Untimed!SendPacket
  <2> QED BY <2>3 DEF Timed!Untimed!Next
<1>3. CASE Timed!FileSent
  <2>1. t_pc = "xmit" /\ t_pc' = "wait" /\ next = Timed!K(file) /\ next' = next
        /\ file' = file /\ Timed!K(file) \in Nat
    BY <1>3, Sizes DEF Timed!FileSent, TimedInv, Types
  <2>2. next = Timed!Untimed!K(file) + 0
    BY <2>1, SameFiles
  <2>3. Timed!Untimed!FileSent
    BY <2>1, <2>2 DEF Timed!Untimed!FileSent
  <2> QED BY <2>3 DEF Timed!Untimed!Next
<1>4. CASE Timed!NextFile
  <2>1. /\ t_pc = "wait" /\ file' = file + 1 /\ next' = 0
        /\ IF file' = NFiles THEN t_pc' = "exit" ELSE t_pc' = "xmit"
        /\ file + 1 # NFiles => file + 1 \in Timed!Files
    <3>1. /\ t_pc = "wait" /\ file' = file + 1 /\ next' = 0
          /\ IF file' = NFiles THEN t_pc' = "exit" ELSE t_pc' = "xmit"
      BY <1>4 DEF Timed!NextFile, Timed!PlayedOut
    <3>2. NFiles \in Nat /\ file \in 0..NFiles /\ (t_pc # "exit" => file \in Timed!Files)
      BY Sizes DEF TimedInv, Types
    <3> QED BY <3>1, <3>2 DEF Timed!Files
  <2>2. file' # NFiles => 0 = Timed!Untimed!NExtra(file', 0)
    BY <2>1, SameFiles
  <2>3. Timed!Untimed!NextFile
    BY <2>1, <2>2 DEF Timed!Untimed!NextFile
  <2> QED BY <2>3 DEF Timed!Untimed!Next
<1>5. CASE \/ Timed!Wake \/ Timed!Select \/ Timed!ServeCommand \/ Timed!SelectReturns
         \/ Timed!GiveCommand \/ Timed!StartWatching \/ Timed!Tick \/ UNCHANGED Timed!vars
  <2>1. file' = file /\ next' = next /\ At' = At
    BY <1>5 DEF Timed!Wake, Timed!Select, Timed!ServeCommand, Timed!SelectReturns,
                Timed!GiveCommand, Timed!StartWatching, Timed!Tick, Timed!vars, At
  <2> QED BY <1>1, <2>1
<1> QED BY <1>2, <1>3, <1>4, <1>5 DEF Timed!Next

\* Pacing and throttling only delay: whatever this sender does, the sender
\* without a clock, which is attached to the network in RouteDemo, may do.
THEOREM ClockOnlyDelays == Timed!Spec => OnlyDelays
<1>1. Timed!TimedAssumption
  BY PartsAssumption
<1>2. Timed!Init => Timed!Untimed!Init
  <2> SUFFICES ASSUME Timed!Init PROVE Timed!Untimed!Init
    OBVIOUS
  <2>1. 0 \in Timed!Files
    BY <1>1, Sizes DEF Timed!Files
  <2>2. 0 = Timed!Untimed!NExtra(0, 0)
    BY <1>1, <2>1, SameFiles
  <2> QED BY <2>2 DEF Timed!Init, Timed!Untimed!Init
<1>3. TimedInv /\ [Timed!Next]_(Timed!vars) => [Timed!Untimed!Next]_(Timed!Untimed!vars)
  BY <1>1, UntimedStep
<1>4. Timed!Spec => []TimedInv
  BY <1>1, TimedInvariance
<1> QED BY <1>2, <1>3, <1>4, PTL DEF Timed!Spec, Timed!Untimed!Spec, OnlyDelays, Timed!OnlyDelays
=============================================================================
