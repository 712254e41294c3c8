---------------------------- MODULE PartsProofs -----------------------------
(***************************************************************************)
(* The load monitor, the time arithmetic, the coding parameters, the       *)
(* memory of the decoder and the playlists, for any inputs.  The sender,   *)
(* which is three parts, and the hash table of CodeBlock have modules of   *)
(* their own.                                                              *)
(***************************************************************************)
EXTENDS Parts, SequenceTheorems, WellFoundedInduction, TLAPS

-----------------------------------------------------------------------------
(* Induction.                                                              *)

\* A set of naturals that is not empty has a least element.
LEMMA LeastNatural ==
  ASSUME NEW T \in SUBSET Nat, T # {}
  PROVE  \E m \in T : \A n \in T : m <= n
<1> DEFINE R == {p \in Nat \X Nat : p[1] < p[2]}
<1>1. IsWellFoundedOn(R, Nat)
  BY NatLessThanWellFounded DEF OpToRel
<1>2. \E m \in T : \A n \in T : <<n, m>> \notin R
  <2> HIDE DEF R
  <2> QED BY <1>1, WFMin
<1>3. PICK m \in T : \A n \in T : <<n, m>> \notin R
  BY <1>2
<1>4. ASSUME NEW n \in T
      PROVE  m <= n
  <2>1. m \in Nat /\ n \in Nat
    OBVIOUS
  <2>2. ~(n < m)
    <3>1. <<n, m>> \in Nat \X Nat /\ <<n, m>>[1] = n /\ <<n, m>>[2] = m
      BY <2>1
    <3> QED BY <1>3, <3>1
  <2> QED BY <2>1, <2>2
<1> QED BY <1>4

\* A set that has 0, and n + 1 with n below N, has the naturals up to N.
LEMMA UpTo ==
  ASSUME NEW N \in Nat, NEW T, 0 \in T, \A n \in 0..(N - 1) : n \in T => n + 1 \in T
  PROVE  \A n \in 0..N : n \in T
<1> DEFINE U == {n \in 0..N : n \notin T}
<1> SUFFICES ASSUME U # {} PROVE FALSE
  OBVIOUS
<1>1. U \in SUBSET Nat
  OBVIOUS
<1>2. PICK m \in U : \A n \in U : m <= n
  <2> HIDE DEF U
  <2> QED BY <1>1, LeastNatural
<1>3. m \in 0..N /\ m \notin T /\ m # 0
  OBVIOUS
<1>4. m - 1 \in 0..(N - 1) /\ m - 1 \notin U
  BY <1>2, <1>3
<1>5. m - 1 \in T
  BY <1>3, <1>4
<1> QED BY <1>3, <1>4, <1>5

-----------------------------------------------------------------------------
(* LoadMonitor.                                                            *)

\* A sample: processor time, and the time it was taken at.
Sample == [used : Nat, time : Nat]

\* From sample p to sample q time went on for k seconds at least, and the
\* process was on the processor for no more than all of it.
Follows(p, q, k) ==
  /\ q.time - p.time >= k
  /\ 0 <= q.used - p.used /\ q.used - p.used <= q.time - p.time

\* Samples are in the order of their times, at least a second apart.
Samples(d) ==
  /\ d \in Seq(Sample)
  /\ \A i, j \in 1..Len(d) : i <= j => Follows(d[i], d[j], j - i)

\* The last sample is of now; a sample was removed only if the window is full
\* without it.
LoadInv ==
  /\ lm_clock \in Nat /\ used \in Nat /\ removed \in BOOLEAN
  /\ Samples(data)
  /\ Len(data) > 0 => data[Len(data)].time = lm_clock /\ data[Len(data)].used = used
  /\ removed => Len(data) >= 2 /\ data[Len(data)].time - data[1].time >= win_sz
  /\ Len(data) <= win_sz + 1

\* Samples have numbers, and the order of samples is kept by what comes later.
LEMMA SampleFacts ==
  /\ \A p \in Sample : p.used \in Nat /\ p.time \in Nat /\ Follows(p, p, 0)
  /\ \A u, t \in Nat : /\ [used |-> u, time |-> t] \in Sample
                      /\ [used |-> u, time |-> t].used = u
                      /\ [used |-> u, time |-> t].time = t
  /\ \A p, q, r \in Sample, k \in Int :
        Follows(p, q, k) /\ Follows(q, r, 1) => Follows(p, r, k + 1)
<1>1. \A p \in Sample : p.used \in Nat /\ p.time \in Nat
  BY DEF Sample
<1>2. \A p \in Sample : Follows(p, p, 0)
  BY <1>1 DEF Follows
<1>3. \A u, t \in Nat : /\ [used |-> u, time |-> t] \in Sample
                       /\ [used |-> u, time |-> t].used = u
                       /\ [used |-> u, time |-> t].time = t
  BY DEF Sample
<1>4. ASSUME NEW p \in Sample, NEW q \in Sample, NEW r \in Sample, NEW k \in Int,
             Follows(p, q, k), Follows(q, r, 1)
      PROVE  Follows(p, r, k + 1)
  BY <1>1, <1>4 DEF Follows
<1> QED BY <1>1, <1>2, <1>3, <1>4

\* A sample that follows the last one goes to the end, and the first one may go.
LEMMA SamplesGrow ==
  ASSUME NEW d, Samples(d), NEW s \in Sample,
         Len(d) > 0 => Follows(d[Len(d)], s, 1)
  PROVE  /\ Samples(Append(d, s)) /\ Len(Append(d, s)) = Len(d) + 1
         /\ Append(d, s)[Len(d) + 1] = s
         /\ \A i \in 1..Len(d) : Append(d, s)[i] = d[i]
<1> DEFINE n == Len(d)
           e == Append(d, s)
<1>1. d \in Seq(Sample) /\ n \in Nat
  BY DEF Samples
<1>2. e \in Seq(Sample) /\ Len(e) = n + 1 /\ e[n + 1] = s /\ \A i \in 1..n : e[i] = d[i]
  BY <1>1
<1> HIDE DEF e
<1>3. ASSUME NEW i \in 1..(n + 1), NEW j \in 1..(n + 1), i <= j
      PROVE  Follows(e[i], e[j], j - i)
  <2>1. CASE j # n + 1
    <3>1. i \in 1..n /\ j \in 1..n
      BY <1>1, <1>3, <2>1
    <3> QED BY <1>2, <1>3, <3>1 DEF Samples
  <2>2. CASE i = n + 1
    <3>1. j = n + 1 /\ j - i = 0
      BY <1>1, <1>3, <2>2
    <3> QED BY <1>2, <2>2, <3>1, SampleFacts
  <2>3. CASE i # n + 1 /\ j = n + 1
    <3>1. i \in 1..n /\ n \in 1..n /\ i <= n /\ n > 0 /\ n - i \in Int
          /\ (n - i) + 1 = j - i
      BY <1>1, <1>3, <2>3
    <3>2. Follows(d[i], d[n], n - i) /\ Follows(d[n], s, 1)
      BY <3>1 DEF Samples
    <3>3. d[i] \in Sample /\ d[n] \in Sample
      BY <1>1, <3>1
    <3>4. Follows(d[i], s, (n - i) + 1)
      BY <3>1, <3>2, <3>3, SampleFacts
    <3> QED BY <1>2, <2>3, <3>1, <3>4
  <2> QED BY <2>1, <2>2, <2>3
<1>4. Samples(e)
  BY <1>1, <1>2, <1>3 DEF Samples
<1> QED BY <1>2, <1>4 DEF e

\* Without the first sample the others are still in order.
LEMMA SamplesShrink ==
  ASSUME NEW d, Samples(d), Len(d) > 0
  PROVE  /\ Samples(Tail(d)) /\ Len(Tail(d)) = Len(d) - 1
         /\ \A i \in 1..(Len(d) - 1) : Tail(d)[i] = d[i + 1]
<1> DEFINE n == Len(d) - 1
           e == Tail(d)
<1>1. d \in Seq(Sample) /\ n \in Nat
  BY DEF Samples
<1>2. e \in Seq(Sample) /\ Len(e) = n /\ \A i \in 1..n : e[i] = d[i + 1]
  BY <1>1
<1> HIDE DEF e
<1>3. ASSUME NEW i \in 1..n, NEW j \in 1..n, i <= j
      PROVE  Follows(e[i], e[j], j - i)
  <2>1. /\ i + 1 \in 1..Len(d) /\ j + 1 \in 1..Len(d) /\ i + 1 <= j + 1
        /\ (j + 1) - (i + 1) = j - i
    BY <1>1, <1>3
  <2>2. Follows(d[i + 1], d[j + 1], (j + 1) - (i + 1))
    BY <2>1 DEF Samples
  <2> QED BY <1>2, <2>1, <2>2
<1>4. Samples(e)
  BY <1>1, <1>2, <1>3 DEF Samples
<1> QED BY <1>2, <1>4 DEF e

\* A sample is added, and one removed if the window is full.
LEMMA LoadAdds ==
  ASSUME Load!LoadAssumption, LoadInv, Load!add_data_point
  PROVE  LoadInv'
<1> DEFINE s == [used |-> used', time |-> lm_clock']
           d == Append(data, s)
           n == Len(data)
<1>1. PICK step \in Steps :
        /\ lm_clock' = lm_clock + step
        /\ used' \in used..(used + step)
        /\ data' = IF Load!Outside(d) THEN Tail(d) ELSE d
        /\ removed' = (removed \/ Load!Outside(d))
  BY DEF Load!add_data_point
<1>2. /\ step \in Nat \ {0} /\ win_sz \in Nat \ {0} /\ lm_clock \in Nat /\ used \in Nat
      /\ lm_clock' \in Nat /\ used' \in Nat /\ lm_clock' = lm_clock + step
      /\ used <= used' /\ used' <= used + step
  <2>1. step \in Nat \ {0} /\ win_sz \in Nat \ {0} /\ lm_clock \in Nat /\ used \in Nat
    BY DEF Load!LoadAssumption, LoadInv
  <2>2. lm_clock' = lm_clock + step /\ used' \in used..(used + step)
    BY <1>1
  <2> QED BY <2>1, <2>2
<1>3. Samples(data) /\ data \in Seq(Sample) /\ n \in Nat /\ n <= win_sz + 1
  BY DEF LoadInv, Samples
<1>4. s \in Sample /\ s.used = used' /\ s.time = lm_clock'
  BY <1>2, SampleFacts
<1>5. n > 0 => data[n].time = lm_clock /\ data[n].used = used
  BY DEF LoadInv
<1> HIDE DEF s
<1>6. n > 0 => Follows(data[n], s, 1)
  BY <1>2, <1>4, <1>5 DEF Follows
<1>7. /\ Samples(d) /\ d \in Seq(Sample) /\ Len(d) = n + 1 /\ d[n + 1] = s
      /\ \A i \in 1..n : d[i] = data[i]
  BY <1>3, <1>4, <1>6, SamplesGrow DEF Samples
<1>8. /\ d[n + 1].time = lm_clock' /\ d[n + 1].used = used'
      /\ \A i \in 1..(n + 1) : d[i].time \in Nat
  BY <1>4, <1>7, SampleFacts
<1>9. Load!Outside(d) <=> n + 1 > 2 /\ lm_clock' - d[2].time >= win_sz
  BY <1>7, <1>8 DEF Load!Outside
<1> HIDE DEF d
<1>10. CASE Load!Outside(d)
  <2>1. data' = Tail(d) /\ removed' = TRUE /\ n + 1 > 2 /\ lm_clock' - d[2].time >= win_sz
    BY <1>1, <1>9, <1>10
  <2>2. /\ Samples(data') /\ Len(data') = n
        /\ \A i \in 1..n : data'[i] = d[i + 1]
    BY <1>3, <1>7, <2>1, SamplesShrink
  <2>3. n \in 1..n /\ 1 \in 1..n /\ 1 + 1 = 2
    BY <1>3, <2>1
  <2>4. data'[n] = d[n + 1] /\ data'[1] = d[2]
    BY <2>2, <2>3
  <2>5. Len(data') = n /\ n > 1 /\ n <= win_sz + 1 /\ Len(data') # 0
    BY <1>2, <1>3, <2>1, <2>2
  <2>6. data'[n].time = lm_clock' /\ data'[n].used = used'
    BY <1>8, <2>4
  <2>7. data'[n].time - data'[1].time >= win_sz
    BY <2>1, <2>4, <2>6
  <2> QED BY <1>2, <2>1, <2>2, <2>5, <2>6, <2>7 DEF LoadInv
<1>11. CASE ~Load!Outside(d)
  <2>1. data' = d /\ removed' = removed
    BY <1>1, <1>11 DEF LoadInv
  <2>2. removed => n >= 2 /\ data[n].time - data[1].time >= win_sz
    BY DEF LoadInv
  <2>3. removed => n + 1 >= 2 /\ d[n + 1].time - d[1].time >= win_sz
    <3> SUFFICES ASSUME removed PROVE n + 1 >= 2 /\ d[n + 1].time - d[1].time >= win_sz
      OBVIOUS
    <3>1. 1 \in 1..n /\ d[1] = data[1] /\ d[1].time \in Nat /\ n > 0
      BY <1>3, <1>7, <1>8, <2>2
    <3>2. data[n].time - d[1].time >= win_sz /\ n + 1 >= 2
      BY <1>3, <2>2, <3>1
    <3>3. data[n].time = lm_clock /\ d[n + 1].time = lm_clock + step /\ step >= 0
      BY <1>2, <1>5, <1>8, <3>1
    <3>4. \A x, y \in Nat : x - y >= win_sz => (x + step) - y >= win_sz
      BY <1>2
    <3>5. (lm_clock + step) - d[1].time >= win_sz
      BY <1>2, <3>1, <3>2, <3>3, <3>4
    <3> QED BY <3>2, <3>3, <3>5
  <2>4. n + 1 <= win_sz + 1
    <3>1. CASE n + 1 > 2
      <4>1. 2 \in 1..Len(d) /\ n + 1 \in 1..Len(d) /\ 2 <= n + 1 /\ 2 \in 1..(n + 1)
        BY <1>3, <1>7, <3>1
      <4>2. Follows(d[2], d[n + 1], (n + 1) - 2)
        BY <1>7, <4>1 DEF Samples
      <4>3. d[2].time \in Nat
        BY <1>8, <4>1
      <4>4. lm_clock' - d[2].time >= (n + 1) - 2
        BY <1>8, <4>2 DEF Follows
      <4>5. ~(lm_clock' - d[2].time >= win_sz)
        BY <1>9, <1>11, <3>1
      <4> QED BY <1>2, <1>3, <4>3, <4>4, <4>5
    <3>2. CASE ~(n + 1 > 2)
      BY <1>2, <1>3, <3>2
    <3> QED BY <3>1, <3>2
  <2> QED BY <1>2, <1>3, <1>7, <1>8, <2>1, <2>3, <2>4 DEF LoadInv
<1> QED BY <1>10, <1>11

\* load_monitor.py keeps its samples in order, of one process, and over a window.
LEMMA LoadInvariance ==
  ASSUME Load!LoadAssumption
  PROVE  Load!Spec => []LoadInv
<1>1. Load!LoadAssumption /\ win_sz \in Nat
  BY DEF Load!LoadAssumption
<1>2. data = <<>> => Samples(data) /\ Len(data) = 0
  BY DEF Samples
<1>3. data' = <<>> => Samples(data') /\ Len(data') = 0
  BY DEF Samples
<1>4. Load!Init => LoadInv
  <2> SUFFICES ASSUME Load!Init PROVE LoadInv
    OBVIOUS
  <2>1. /\ lm_clock \in Nat /\ used \in Nat /\ removed = FALSE
        /\ Samples(data) /\ Len(data) = 0
    BY <1>2 DEF Load!Init
  <2>2. 0 <= win_sz + 1 /\ ~(0 > 0)
    BY <1>1
  <2> QED BY <2>1, <2>2 DEF LoadInv
<1>5. LoadInv /\ [Load!Next]_(Load!vars) => LoadInv'
  <2>1. ASSUME LoadInv, Load!reset PROVE LoadInv'
    <3>1. /\ lm_clock' \in Nat /\ used' \in Nat /\ removed' = FALSE
          /\ Samples(data') /\ Len(data') = 0
      BY <1>3, <2>1 DEF Load!reset, LoadInv
    <3>2. 0 <= win_sz + 1 /\ ~(0 > 0)
      BY <1>1
    <3> QED BY <3>1, <3>2 DEF LoadInv
  <2>2. ASSUME LoadInv, UNCHANGED Load!vars PROVE LoadInv'
    BY <2>2 DEF Load!vars, LoadInv
  <2> QED BY <1>1, <2>1, <2>2, LoadAdds DEF Load!Next
<1> QED BY <1>1, <1>4, <1>5, PTL DEF Load!Spec

\* The load that load_monitor.py shows is an average over a full window as soon
\* as there was one, and its samples do not pile up, however late they come.
THEOREM LoadOverWindow == Load!Spec => []WindowIsFull
<1>1. Load!Spec => []LoadInv
  BY PartsAssumption, LoadInvariance
<1>2. LoadInv => WindowIsFull
  BY DEF LoadInv, WindowIsFull, Load!WindowIsFull, Load!delta_rt
<1> QED BY <1>1, <1>2, PTL

\* The load is that of one process and lies between 0 and 1.
THEOREM LoadOfOneProcess == Load!Spec => []LoadIsSound
<1>1. Load!Spec => []LoadInv
  BY PartsAssumption, LoadInvariance
<1>2. LoadInv => LoadIsSound
  <2> SUFFICES ASSUME LoadInv, Len(data) >= 2 PROVE LoadIsSound
    BY DEF LoadIsSound, Load!LoadIsSound
  <2>1. /\ data \in Seq(Sample) /\ 1 \in 1..Len(data) /\ Len(data) \in 1..Len(data)
        /\ 1 <= Len(data) /\ Len(data) \in Nat
    BY DEF LoadInv, Samples
  <2>2. data[1] \in Sample /\ data[Len(data)] \in Sample
    BY <2>1
  <2>3. Follows(data[1], data[Len(data)], Len(data) - 1)
    BY <2>1 DEF LoadInv, Samples
  <2> QED BY <2>1, <2>2, <2>3, SampleFacts
          DEF Follows, LoadIsSound, Load!LoadIsSound, Load!delta_pt, Load!delta_rt
<1> QED BY <1>1, <1>2, PTL

-----------------------------------------------------------------------------
(* TimeUtil.                                                               *)

\* Whole and fractional parts, and products that keep an order.
LEMMA WholeParts ==
  /\ \A a \in Int, n \in Nat \ {0} :
        /\ a \div n \in Int /\ a % n \in 0..(n - 1) /\ a = n * (a \div n) + (a % n)
        /\ a >= 0 => a \div n >= 0
  /\ \A a \in Int, n \in Nat \ {0} : (a * n) \div n = a /\ (a * n) % n = 0
  /\ \A a, b \in Int, n \in Nat \ {0} : a < b <=> a * n < b * n
<1>1. ASSUME NEW a \in Int, NEW n \in Nat \ {0}
      PROVE  /\ a \div n \in Int /\ a % n \in 0..(n - 1) /\ a = n * (a \div n) + (a % n)
             /\ a >= 0 => a \div n >= 0
  OBVIOUS
<1>2. ASSUME NEW a \in Int, NEW n \in Nat \ {0}
      PROVE  (a * n) \div n = a /\ (a * n) % n = 0
  OBVIOUS
<1>3. ASSUME NEW a \in Int, NEW b \in Int, NEW n \in Nat \ {0}
      PROVE  a < b <=> a * n < b * n
  OBVIOUS
<1> QED BY <1>1, <1>2, <1>3

\* What a fraction is made of: less than a second, or one when it was next to it.
LEMMA FractionFacts ==
  ASSUME Time!TimeAssumption, NEW d \in Int, NEW frac \in Time!Fractions(d)
  PROVE  /\ NS \in Nat \ {0} /\ SUB \in Nat \ {0, 1} /\ NS * SUB \in Nat \ {0}
         /\ d % (NS * SUB) \in 0..(NS * SUB - 1)
         /\ \/ frac = d % (NS * SUB)
            \/ frac = NS * SUB /\ d % (NS * SUB) = NS * SUB - 1
<1>1. NS \in Nat \ {0} /\ SUB \in Nat \ {0, 1} /\ NS * SUB \in Nat \ {0}
  BY DEF Time!TimeAssumption
<1>2. d % (NS * SUB) \in 0..(NS * SUB - 1)
  BY <1>1, WholeParts
<1>3. \/ frac = d % (NS * SUB)
      \/ frac = NS * SUB /\ d % (NS * SUB) = NS * SUB - 1
  BY DEF Time!Fractions, Time!Second
<1> QED BY <1>1, <1>2, <1>3

\* A sum in whole nanoseconds lies below two seconds, and is less than the sum
\* by a nanosecond at most and more by a part at most.
LEMMA SumFacts ==
  ASSUME Time!TimeAssumption, NEW d \in Int, NEW frac \in Time!Fractions(d),
         NEW n \in 0..(NS - 1),
         NEW ns \in IF frac = 0 THEN {n} ELSE Time!Whole(n * SUB + frac)
  PROVE  /\ ns \in 0..(2 * NS - 1)
         /\ n * SUB + (d % (NS * SUB)) - SUB <= ns * SUB
         /\ ns * SUB <= n * SUB + (d % (NS * SUB)) + 1
<1> DEFINE S == NS * SUB
           m == d % S
           x == n * SUB + frac
           q == x \div SUB
<1>1. /\ NS \in Nat \ {0} /\ SUB \in Nat \ {0, 1} /\ S \in Nat \ {0}
      /\ m \in 0..(S - 1) /\ (frac = m \/ (frac = S /\ m = S - 1))
  BY FractionFacts
<1>2. /\ n \in Nat /\ n * SUB \in Nat /\ frac \in Nat /\ frac <= S /\ x \in Nat
      /\ S = NS * SUB
  BY <1>1
<1>3. frac # 0 => ns \in Time!Whole(x)
  OBVIOUS
<1>4. frac = 0 => ns = n
  OBVIOUS
<1>5. ns \in {q} \cup (IF x % SUB = SUB - 1 THEN {q + 1} ELSE {})
                 \cup (IF x % SUB = 0 /\ x > 0 THEN {q - 1} ELSE {}) \/ frac = 0
  BY <1>3 DEF Time!Whole
<1> HIDE DEF x, m, S
<1>6. /\ q \in Nat /\ x % SUB \in 0..(SUB - 1) /\ x = SUB * q + (x % SUB)
      /\ q * SUB = SUB * q
  <2>1. x \in Int /\ x >= 0 /\ SUB \in Nat \ {0}
    BY <1>1, <1>2
  <2>2. /\ q \in Int /\ q >= 0 /\ x % SUB \in 0..(SUB - 1)
        /\ x = SUB * q + (x % SUB)
    BY <2>1, WholeParts
  <2> HIDE DEF q
  <2>3. q * SUB = SUB * q
    BY <2>1, <2>2
  <2> QED BY <2>2, <2>3
<1> HIDE DEF q
<1>7. CASE frac = 0
  <2>1. ns = n /\ m = 0
    BY <1>1, <1>4, <1>7
  <2> QED BY <1>1, <1>2, <2>1 DEF m, S
<1>8. CASE frac # 0 /\ frac = S
  <2>1. x = (n + NS) * SUB
    BY <1>1, <1>2, <1>8 DEF x
  <2>2. q = n + NS /\ x % SUB = 0
    <3>1. n + NS \in Int
      BY <1>1
    <3> QED BY <1>1, <2>1, <3>1, WholeParts DEF q
  <2>3. ns \in {q, q - 1}
    BY <1>1, <1>5, <1>8, <2>2
  <2>4. ns \in 0..(2 * NS - 1)
    BY <1>1, <1>2, <2>2, <2>3
  <2>5. ns * SUB = x \/ ns * SUB = x - SUB
    <3>1. (q - 1) * SUB = q * SUB - SUB
      BY <1>1, <1>6
    <3>2. q * SUB = x
      BY <1>1, <1>2, <1>6, <2>2
    <3> QED BY <2>3, <3>1, <3>2
  <2>6. x = n * SUB + S /\ m = S - 1
    <3>1. x = n * SUB + S
      BY <1>8 DEF x
    <3> QED BY <1>1, <1>8, <3>1
  <2> QED BY <1>1, <1>2, <2>4, <2>5, <2>6 DEF m, S
<1>9. CASE frac # 0 /\ frac # S
  <2>1. x = n * SUB + m /\ frac = m /\ m <= S - 1 /\ m > 0
    BY <1>1, <1>9 DEF x
  <2>2. \/ ns = q
        \/ ns = q + 1 /\ x % SUB = SUB - 1
        \/ ns = q - 1 /\ x % SUB = 0 /\ x > 0
    BY <1>5, <1>9
  <2>3. (q - 1) * SUB = q * SUB - SUB /\ (q + 1) * SUB = q * SUB + SUB
    BY <1>1, <1>6
  <2>4. \/ ns * SUB = q * SUB
        \/ ns * SUB = q * SUB + SUB /\ x % SUB = SUB - 1
        \/ ns * SUB = q * SUB - SUB /\ x % SUB = 0
    BY <2>2, <2>3
  <2>5. q * SUB \in Int /\ x - SUB <= ns * SUB /\ ns * SUB <= x + 1
    BY <1>1, <1>2, <1>6, <2>4
  <2>6. ns \in Int /\ ns >= 0
    <3>1. x > 0 /\ x % SUB = 0 => q > 0
      BY <1>1, <1>2, <1>6
    <3> QED BY <1>6, <2>2, <3>1
  <2>7. ns < 2 * NS
    <3>1. n * SUB <= NS * SUB - SUB
      <4>1. (n + 1) * SUB = n * SUB + SUB
        BY <1>1, <1>2
      <4>2. ~(NS * SUB < (n + 1) * SUB)
        <5>1. ~(NS < n + 1) /\ n + 1 \in Int
          BY <1>1
        <5> QED BY <1>1, <5>1, WholeParts
      <4> QED BY <1>1, <1>2, <4>1, <4>2
    <3>2. (2 * NS) * SUB = S + S
      BY <1>1 DEF S
    <3>3. x <= S + S - SUB - 1
      BY <1>1, <1>2, <2>1, <3>1 DEF S
    <3>4. ns * SUB < (2 * NS) * SUB
      <4>1. ns * SUB <= x + 1 /\ ns * SUB \in Int
        BY <1>1, <2>5, <2>6
      <4> QED BY <1>1, <1>2, <3>2, <3>3, <4>1
    <3> QED BY <1>1, <2>6, <3>4, WholeParts
  <2> QED BY <1>1, <1>2, <2>1, <2>5, <2>6, <2>7 DEF m, S
<1> QED BY <1>7, <1>8, <1>9

\* A timespec with less than a second of nanoseconds.
Proper == {t \in [tv_sec : Int, tv_nsec : Int] : 0 <= t.tv_nsec /\ t.tv_nsec < NS}

\* How much the deadline is late, in parts.
Error == Time!Nanoseconds(ts) * SUB - exact

\* A nanosecond is lost, or a part gained, by an addition; the timeout takes the
\* receiver to the deadline or to a nanosecond before it.
TimeInv ==
  /\ exact \in Int /\ adds \in Nat /\ now \in Int
  /\ ts \in Proper
  /\ -(adds * SUB) <= Error /\ Error <= adds
  /\ \/ timeout = Time!None
     \/ /\ timeout \in Proper
        /\ now < Time!Nanoseconds(ts) =>
             Time!Nanoseconds(ts) - (now + Time!Nanoseconds(timeout)) \in {0, 1}

\* Nanoseconds are taken apart and put together without loss, also when a full
\* second is carried.
LEMMA TimespecFacts ==
  ASSUME Time!TimeAssumption
  PROVE  /\ \A n \in Int : /\ Time!Timespec(n) \in Proper
                          /\ Time!Nanoseconds(Time!Timespec(n)) = n
         /\ \A t \in Proper : /\ t.tv_sec \in Int /\ t.tv_nsec \in 0..(NS - 1)
                             /\ Time!Nanoseconds(t) \in Int
         /\ \A sec \in Int, n \in 0..(2 * NS - 1) :
              LET t == Time!Carry([tv_sec |-> sec, tv_nsec |-> n])
              IN  t \in Proper /\ Time!Nanoseconds(t) = sec * NS + n
<1>1. NS \in Nat \ {0}
  BY DEF Time!TimeAssumption
<1>2. ASSUME NEW a \in Int, NEW b \in Int, 0 <= b, b < NS
      PROVE  /\ [tv_sec |-> a, tv_nsec |-> b] \in Proper
             /\ Time!Nanoseconds([tv_sec |-> a, tv_nsec |-> b]) = a * NS + b
  BY <1>2 DEF Proper, Time!Nanoseconds
<1>3. ASSUME NEW n \in Int
      PROVE  /\ Time!Timespec(n) \in Proper
             /\ Time!Nanoseconds(Time!Timespec(n)) = n
  <2>1. /\ n \div NS \in Int /\ n % NS \in 0..(NS - 1)
        /\ n = NS * (n \div NS) + (n % NS)
    BY <1>1, WholeParts
  <2> DEFINE a == n \div NS
             b == n % NS
  <2>2. Time!Timespec(n) = [tv_sec |-> a, tv_nsec |-> b]
    BY DEF Time!Timespec
  <2> HIDE DEF a, b
  <2>3. a \in Int /\ b \in Int /\ 0 <= b /\ b < NS /\ n = NS * a + b
    BY <1>1, <2>1 DEF a, b
  <2>4. a * NS = NS * a
    BY <1>1, <2>3
  <2> QED BY <1>1, <1>2, <2>2, <2>3, <2>4
<1>4. ASSUME NEW t \in Proper
      PROVE  /\ t.tv_sec \in Int /\ t.tv_nsec \in 0..(NS - 1)
             /\ Time!Nanoseconds(t) \in Int
  <2>1. t.tv_sec \in Int /\ t.tv_nsec \in 0..(NS - 1)
    BY <1>1 DEF Proper
  <2> QED BY <1>1, <2>1 DEF Time!Nanoseconds
<1>5. ASSUME NEW sec \in Int, NEW n \in 0..(2 * NS - 1)
      PROVE  LET t == Time!Carry([tv_sec |-> sec, tv_nsec |-> n])
             IN  t \in Proper /\ Time!Nanoseconds(t) = sec * NS + n
  <2>1. Time!Carry([tv_sec |-> sec, tv_nsec |-> n]) =
          IF n >= NS THEN [tv_sec |-> sec + 1, tv_nsec |-> n - NS]
                     ELSE [tv_sec |-> sec, tv_nsec |-> n]
    BY DEF Time!Carry
  <2>2. CASE n >= NS
    <3>1. sec + 1 \in Int /\ n - NS \in Int /\ 0 <= n - NS /\ n - NS < NS
      BY <1>1, <2>2
    <3>2. (sec + 1) * NS + (n - NS) = sec * NS + n
      BY <1>1
    <3> QED BY <1>2, <2>1, <2>2, <3>1, <3>2
  <2>3. CASE ~(n >= NS)
    <3>1. n \in Int /\ 0 <= n /\ n < NS
      BY <1>1, <2>3
    <3> QED BY <1>2, <2>1, <2>3, <3>1
  <2> QED BY <2>2, <2>3
<1> QED BY <1>3, <1>4, <1>5

\* A delay is added.
LEMMA AddKeeps ==
  ASSUME Time!TimeAssumption, TimeInv, NEW d \in Delays, Time!AddDelta(d)
  PROVE  TimeInv'
<1> DEFINE S == NS * SUB
           m == d % S
           e == d \div S
           sec == ts.tv_sec
           n == ts.tv_nsec
<1>1. /\ d \in Int /\ NS \in Nat \ {0} /\ SUB \in Nat \ {0, 1} /\ S \in Nat \ {0}
      /\ sec \in Int /\ n \in 0..(NS - 1) /\ exact \in Int /\ adds \in Nat
  BY TimespecFacts DEF Time!TimeAssumption, TimeInv
<1>2. m \in 0..(S - 1) /\ e \in Int /\ d = S * e + m
  BY <1>1, WholeParts
<1>3. PICK frac \in Time!Fractions(d) :
        \E ns \in IF frac = 0 THEN {n} ELSE Time!Whole(n * SUB + frac) :
          ts' = Time!Carry([tv_sec |-> sec + e, tv_nsec |-> ns])
  BY DEF Time!AddDelta, Time!Second
<1>4. PICK ns \in IF frac = 0 THEN {n} ELSE Time!Whole(n * SUB + frac) :
        ts' = Time!Carry([tv_sec |-> sec + e, tv_nsec |-> ns])
  BY <1>3
<1>5. /\ ns \in 0..(2 * NS - 1)
      /\ n * SUB + m - SUB <= ns * SUB /\ ns * SUB <= n * SUB + m + 1
  BY <1>1, SumFacts
<1>6. /\ exact' = exact + d /\ adds' = adds + 1 /\ now' = now
      /\ timeout' = timeout /\ timeout = Time!None
  BY DEF Time!AddDelta
<1>7. Time!Nanoseconds(ts) = sec * NS + n
  BY DEF Time!Nanoseconds
<1> HIDE DEF m, e, S, sec, n
<1>8. ts' \in Proper /\ Time!Nanoseconds(ts') = (sec + e) * NS + ns
  BY <1>1, <1>2, <1>4, <1>5, TimespecFacts
<1>9. Error = (sec * S + n * SUB) - exact
  <2>1. (sec * NS + n) * SUB = sec * S + n * SUB
    <3>1. (sec * NS + n) * SUB = sec * (NS * SUB) + n * SUB
      BY <1>1
    <3> QED BY <3>1 DEF S
  <2> DEFINE X == Time!Nanoseconds(ts) * SUB
             Y == sec * S + n * SUB
  <2>2. X = Y
    <3>1. X = (sec * NS + n) * SUB
      BY <1>7
    <3> QED BY <2>1, <3>1
  <2>3. Error = X - exact
    BY DEF Error
  <2> HIDE DEF X, Y
  <2>4. Error = Y - exact
    BY <2>2, <2>3
  <2> QED BY <2>4 DEF Y
<1>10. Error' = ((sec * S + S * e) + ns * SUB) - (exact + d)
  <2>1. ((sec + e) * NS + ns) * SUB = (sec * S + S * e) + ns * SUB
    <3>1. ((sec + e) * NS + ns) * SUB = (sec * (NS * SUB) + (NS * SUB) * e) + ns * SUB
      BY <1>1, <1>2, <1>5
    <3> QED BY <3>1 DEF S
  <2>2. Error' = Time!Nanoseconds(ts') * SUB - exact'
    BY DEF Error, Time!Nanoseconds
  <2>3. exact' = exact + d
    BY <1>6
  <2> DEFINE X == Time!Nanoseconds(ts') * SUB
             Y == (sec * S + S * e) + ns * SUB
  <2>4. X = Y
    <3>1. X = ((sec + e) * NS + ns) * SUB
      BY <1>8
    <3> QED BY <2>1, <3>1
  <2>5. Error' = X - exact'
    BY <2>2
  <2> HIDE DEF X, Y
  <2>6. Error' = Y - (exact + d)
    BY <2>3, <2>4, <2>5
  <2> QED BY <2>6 DEF Y
<1>11. Error' = Error + (ns * SUB - n * SUB - m)
  <2>1. sec * S \in Int /\ S * e \in Int /\ ns * SUB \in Int /\ n * SUB \in Int /\ m \in Int
    BY <1>1, <1>2, <1>5
  <2> QED BY <1>1, <1>2, <1>9, <1>10, <2>1
<1>12. -(adds' * SUB) <= Error' /\ Error' <= adds'
  <2>1. /\ Error \in Int /\ -(adds * SUB) <= Error /\ Error <= adds
        /\ ns * SUB \in Int /\ n * SUB \in Int /\ m \in Int /\ adds * SUB \in Int
    <3>1. sec * S \in Int /\ ns * SUB \in Int /\ n * SUB \in Int /\ m \in Int
          /\ adds * SUB \in Int
      BY <1>1, <1>2, <1>5
    <3> QED BY <1>1, <1>9, <3>1 DEF TimeInv
  <2>2. (adds + 1) * SUB = adds * SUB + SUB
    BY <1>1
  <2> QED BY <1>1, <1>5, <1>6, <1>11, <2>1, <2>2
<1> QED BY <1>1, <1>6, <1>8, <1>12 DEF TimeInv, Time!None

\* The timeout that is left until the deadline is computed.
LEMMA TimeoutKeeps ==
  ASSUME Time!TimeAssumption, TimeInv, Time!ComputeTimeout
  PROVE  TimeInv'
<1> DEFINE left == Time!Nanoseconds(ts) - now'
<1>1. /\ Time!Nanoseconds(ts) \in Int /\ now' \in Nat
  BY TimespecFacts DEF Time!TimeAssumption, TimeInv, Time!ComputeTimeout
<1>2. UNCHANGED <<ts, exact, adds>>
  BY DEF Time!ComputeTimeout
<1>3. IF left > 0 THEN \E d \in {left - 1, left} : timeout' = Time!Timespec(d)
                  ELSE timeout' = Time!Timespec(0)
  BY DEF Time!ComputeTimeout, Time!Split
<1>4. Time!Nanoseconds(ts') = Time!Nanoseconds(ts)
  BY <1>2
<1>5. /\ timeout' \in Proper
      /\ now' < Time!Nanoseconds(ts) =>
           Time!Nanoseconds(ts) - (now' + Time!Nanoseconds(timeout')) \in {0, 1}
  <2>1. CASE left > 0
    <3>1. PICK d \in {left - 1, left} : timeout' = Time!Timespec(d)
      BY <1>3, <2>1
    <3>2. d \in Int /\ Time!Nanoseconds(timeout') = d /\ timeout' \in Proper
      BY <1>1, <3>1, TimespecFacts
    <3> QED BY <1>1, <3>1, <3>2
  <2>2. CASE ~(left > 0)
    <3>1. timeout' \in Proper
      BY <1>3, <2>2, TimespecFacts
    <3> QED BY <1>1, <2>2, <3>1
  <2> QED BY <2>1, <2>2
<1>6. Error' = Error
  BY <1>2 DEF Error, Time!Nanoseconds
<1>7. Time!Nanoseconds(ts)' = Time!Nanoseconds(ts)
      /\ Time!Nanoseconds(timeout)' = Time!Nanoseconds(timeout')
  BY <1>2 DEF Time!Nanoseconds
<1> QED BY <1>1, <1>2, <1>5, <1>6, <1>7 DEF TimeInv

\* Every behaviour of the arithmetic keeps the invariant.
LEMMA TimeInvariance ==
  ASSUME Time!TimeAssumption
  PROVE  Time!Spec => []TimeInv
<1>1. Time!TimeAssumption
  OBVIOUS
<1>2. Time!Init => TimeInv
  <2> SUFFICES ASSUME Time!Init PROVE TimeInv
    OBVIOUS
  <2>1. PICK t \in START_TIMES : ts = Time!Timespec(t) /\ exact = t * SUB
    BY DEF Time!Init
  <2>2. t \in Int /\ SUB \in Nat
    BY <1>1, <2>1 DEF Time!TimeAssumption
  <2>3. ts \in Proper /\ Time!Nanoseconds(ts) = t
    BY <1>1, <2>1, <2>2, TimespecFacts
  <2>4. Error = 0 /\ exact \in Int /\ 0 * SUB = 0
    BY <2>1, <2>2, <2>3 DEF Error
  <2> QED BY <2>3, <2>4 DEF Time!Init, TimeInv
<1>3. TimeInv /\ [Time!Next]_(Time!vars) => TimeInv'
  <2>1. ASSUME TimeInv, UNCHANGED Time!vars PROVE TimeInv'
    BY <2>1 DEF Time!vars, TimeInv, Error, Time!Nanoseconds
  <2> QED BY <1>1, <2>1, AddKeeps, TimeoutKeeps DEF Time!Next
<1> QED BY <1>2, <1>3, PTL DEF Time!Spec

\* The assertion of add_delta_to() holds, whatever the signs of the delays and
\* the rounding of their fractions, and so does what pselect() asks for.
THEOREM TimespecsAreNormalised == Time!Spec => []Normalised
<1>1. Time!TimeAssumption
  BY PartsAssumption
<1>2. Time!Spec => []TimeInv
  BY <1>1, TimeInvariance
<1>3. TimeInv => Normalised
  BY DEF TimeInv, Proper, Normalised, Time!Normalised
<1> QED BY <1>2, <1>3, PTL

\* Additions lose a nanosecond or gain a part each, and the timeout loses one
\* nanosecond more: the receiver is not early by a second.
THEOREM TimesAreAccurate == Time!Spec => []Accurate
<1>1. Time!TimeAssumption
  BY PartsAssumption
<1>2. Time!Spec => []TimeInv
  BY <1>1, TimeInvariance
<1>3. TimeInv => Accurate
  <2> SUFFICES ASSUME TimeInv PROVE Accurate
    OBVIOUS
  <2> DEFINE N == Time!Nanoseconds(ts)
             T == Time!Nanoseconds(timeout)
  <2>1. SUB \in Nat \ {0, 1} /\ adds \in Nat /\ exact \in Int /\ N \in Int /\ now \in Int
    BY <1>1, TimespecFacts DEF TimeInv, Time!TimeAssumption
  <2>2. -(adds * SUB) <= N * SUB - exact /\ N * SUB - exact <= adds
    BY DEF TimeInv, Error
  <2>3. ASSUME timeout # Time!None, now < N
        PROVE  /\ -((adds + 1) * SUB) <= (now + T) * SUB - exact
               /\ (now + T) * SUB - exact <= adds
    <3>1. timeout \in Proper /\ N - (now + T) \in {0, 1}
      BY <2>3 DEF TimeInv
    <3>2. T \in Int
      BY <1>1, <3>1, TimespecFacts
    <3> HIDE DEF N, T
    <3>3. now + T = N \/ now + T = N - 1
      BY <2>1, <3>1, <3>2
    <3>4. (N - 1) * SUB = N * SUB - SUB /\ (adds + 1) * SUB = adds * SUB + SUB
      BY <2>1
    <3>5. N * SUB \in Int /\ adds * SUB \in Int
      BY <2>1
    <3> QED BY <2>1, <2>2, <3>3, <3>4, <3>5
  <2> QED BY <2>2, <2>3 DEF Accurate, Time!Accurate
<1> QED BY <1>2, <1>3, PTL

-----------------------------------------------------------------------------
(* ParamDeriv.                                                             *)

\* Conversion to int keeps what an int can hold; what it makes positive is the
\* rest modulo the number of its values.
LEMMA IntFacts ==
  ASSUME Params!ParamAssumption
  PROVE  /\ \A x \in Int : -(INT_MAX + 1) <= x /\ x <= INT_MAX => Params!ToInt(x) = x
         /\ \A x \in Int : Params!ToInt(x) \in Int /\ Params!ToInt(x) <= INT_MAX
         /\ \A x \in Int : INT_MAX < x /\ x <= Params!UINT_MOD =>
               Params!ToInt(x) = x - Params!UINT_MOD
         /\ \A x \in Nat : Params!ToInt(x) > 0 => Params!ToInt(x) = x % Params!UINT_MOD
         /\ \A x \in 0..INT_MAX : Params!ToUInt(x) = x
         /\ Params!UINT_MOD = 2 * INT_MAX + 2
<1> DEFINE M == INT_MAX + 1
           U == 2 * M
<1>1. M \in Nat \ {0} /\ U \in Nat \ {0} /\ INT_MAX = M - 1
  BY DEF Params!ParamAssumption
<1>2. /\ Params!UINT_MOD = U
      /\ \A x : Params!ToInt(x) = ((x + INT_MAX + 1) % U) - M
      /\ \A x : Params!ToUInt(x) = x % U
  BY DEF Params!UINT_MOD, Params!ToInt, Params!ToUInt
<1>3. ASSUME NEW x \in Int
      PROVE  Params!ToInt(x) = ((x + M) % U) - M
  BY <1>1, <1>2
<1>4. ASSUME NEW y \in Int
      PROVE  /\ y % U \in 0..(U - 1)
             /\ 0 <= y /\ y < U => y % U = y
             /\ U <= y /\ y < U + U => y % U = y - U
  <2> HIDE DEF U
  <2>1. y % U \in 0..(U - 1)
    BY <1>1
  <2>2. 0 <= y /\ y < U => y % U = y
    BY <1>1
  <2>3. U <= y /\ y < U + U => y % U = y - U
    BY <1>1
  <2> QED BY <2>1, <2>2, <2>3
<1>5. ASSUME NEW x \in Int, -(INT_MAX + 1) <= x, x <= INT_MAX
      PROVE  Params!ToInt(x) = x
  <2>1. x + M \in Int /\ 0 <= x + M /\ x + M < U
    BY <1>1, <1>5
  <2>2. Params!ToInt(x) = (x + M) - M
    BY <1>3, <1>4, <2>1
  <2> QED BY <1>1, <2>2
<1>6. ASSUME NEW x \in Int
      PROVE  Params!ToInt(x) \in Int /\ Params!ToInt(x) <= INT_MAX
  <2>1. (x + M) % U \in 0..(U - 1)
    BY <1>1, <1>4
  <2> DEFINE r == (x + M) % U
  <2>2. r \in Int /\ r <= U - 1
    <3> HIDE DEF r
    <3>1. r \in 0..(U - 1)
      BY <2>1 DEF r
    <3> QED BY <1>1, <3>1
  <2>3. Params!ToInt(x) = r - M
    BY <1>3
  <2> HIDE DEF r
  <2> QED BY <1>1, <2>2, <2>3
<1>7. ASSUME NEW x \in Int, INT_MAX < x, x <= Params!UINT_MOD
      PROVE  Params!ToInt(x) = x - Params!UINT_MOD
  <2>1. U <= x + M /\ x + M < U + U /\ x + M \in Int
    BY <1>1, <1>2, <1>7
  <2>2. Params!ToInt(x) = (x + M) - U - M
    BY <1>3, <1>4, <2>1
  <2> QED BY <1>1, <1>2, <2>2
<1>8. ASSUME NEW x \in 0..INT_MAX
      PROVE  Params!ToUInt(x) = x
  BY <1>1, <1>2, <1>4
<1>9. ASSUME NEW x \in Nat, Params!ToInt(x) > 0
      PROVE  Params!ToInt(x) = x % Params!UINT_MOD
  <2> DEFINE r == x % U
             q == x \div U
             t == (x + M) % U
             p == (x + M) \div U
  <2>1. M \in Nat \ {0} /\ U \in Nat \ {0} /\ x \in Int /\ x + M \in Int
    BY <1>1
  <2>2. q \in Int /\ r \in 0..(U - 1) /\ x = U * q + r
    BY ONLY <2>1, WholeParts
  <2>3. p \in Int /\ t \in 0..(U - 1) /\ x + M = U * p + t
    BY ONLY <2>1, WholeParts
  <2>4. Params!ToInt(x) = t - M
    BY <1>3
  <2>5. U = 2 * M
    OBVIOUS
  <2> HIDE DEF U, M, r, q, t, p
  <2> DEFINE k == p - q
  <2>6. k \in Int /\ U * k = (r + M) - t
    <3>1. U * k = U * p - U * q /\ U * p \in Int /\ U * q \in Int
      BY <2>1, <2>2, <2>3
    <3> QED BY <2>1, <2>2, <2>3, <3>1
  <2> HIDE DEF k
  <2>7. k < 1
    <3>1. t > M
      BY <1>9, <2>1, <2>3, <2>4
    <3>2. U * k < U
      BY <2>1, <2>2, <2>3, <2>6, <3>1
    <3>3. k >= 1 => U * k >= U
      BY <2>1, <2>6
    <3> QED BY <2>1, <2>6, <3>2, <3>3
  <2>8. k > -1
    <3>1. U * k > -U
      BY <2>1, <2>2, <2>3, <2>5, <2>6
    <3>2. k <= -1 => U * k <= -U
      BY <2>1, <2>6
    <3> QED BY <2>1, <2>6, <3>1, <3>2
  <2>9. k = 0
    BY <2>6, <2>7, <2>8
  <2>10. t - M = r
    BY <2>1, <2>2, <2>3, <2>6, <2>9
  <2> QED BY <1>2, <2>4, <2>10 DEF r
<1> QED BY <1>1, <1>2, <1>5, <1>6, <1>7, <1>8, <1>9

\* Rounding up, with the sum that fits an int and with the one that overflows.
LEMMA CeilFacts ==
  ASSUME Params!ParamAssumption, NEW a \in 1..INT_MAX, NEW b \in 1..INT_MAX
  PROVE  LET q == Params!ceildiv(a, b)
         IN  /\ q \in Int /\ -(INT_MAX + 1) <= q /\ q <= a
             /\ a + b - 1 <= INT_MAX =>
                  /\ q = (a + b - 1) \div b /\ q >= 1
                  /\ b * (q - 1) < a /\ a <= b * q
             /\ a + b - 1 > INT_MAX => q <= 0
<1> DEFINE q == Params!ceildiv(a, b)
<1>1. INT_MAX \in Nat /\ a \in Nat /\ b \in Nat \ {0} /\ a >= 1
      /\ a <= INT_MAX /\ b <= INT_MAX
  BY DEF Params!ParamAssumption
<1>2. q = Params!CDiv(Params!ToInt(a + b - 1), b)
  BY DEF Params!ceildiv
<1> HIDE DEF q
<1>3. CASE a + b - 1 <= INT_MAX
  <2> DEFINE s == a + b - 1
  <2>1. s \in Int /\ s >= 0 /\ Params!ToInt(s) = s
    BY <1>1, <1>3, IntFacts
  <2>2. q = s \div b
    BY <1>2, <2>1 DEF Params!CDiv
  <2>3. q \in Int /\ s % b \in 0..(b - 1) /\ s = b * q + (s % b)
    BY <1>1, <2>1, <2>2, WholeParts
  <2>4. b * (q - 1) = b * q - b
    BY <1>1, <2>3
  <2>5. b * q \in Int /\ b * (q - 1) < a /\ a <= b * q
    BY <1>1, <2>3, <2>4
  <2>6. q >= 1
    BY <1>1, <2>3, <2>5
  <2>7. q <= a
    <3>1. b * (q - 1) >= q - 1
      BY <1>1, <2>3, <2>6
    <3> QED BY <1>1, <2>3, <2>5, <3>1
  <2> QED BY <1>1, <1>3, <2>2, <2>3, <2>5, <2>6, <2>7 DEF q
<1>4. CASE a + b - 1 > INT_MAX
  <2> DEFINE t == (2 * INT_MAX + 2) - (a + b - 1)
  <2>1. Params!ToInt(a + b - 1) = -t /\ t \in Nat \ {0} /\ t <= INT_MAX + 1
    BY <1>1, <1>4, IntFacts
  <2> HIDE DEF t
  <2>2. q = -(t \div b)
    BY <1>2, <2>1 DEF Params!CDiv
  <2>3. t \div b \in Int /\ t \div b >= 0 /\ t \div b <= t
    BY <1>1, <2>1
  <2> QED BY <1>1, <1>4, <2>1, <2>2, <2>3 DEF q
<1> QED BY <1>1, <1>3, <1>4

\* What fits into a block passes the assertions, and nothing else: overflowing
\* sums lead to no block at all.  The block then has all symbols, and is full.
LEMMA PassFacts ==
  ASSUME Params!ParamAssumption, NEW x \in 1..INT_MAX
  PROVE  /\ Params!Passes(x) <=> x <= PD_T * PD_MAX_K
         /\ Params!Passes(x) =>
              LET q == Params!Exact!KLarge(x)
              IN  /\ q \in Nat /\ q <= PD_MAX_K
                  /\ PD_T * (q - 1) < x /\ x <= PD_T * q
                  /\ Params!Derived(x) =
                       [n_srcsym_tot |-> q, n_cb |-> 1, K_large |-> q, n_large |-> 1]
<1> DEFINE q == Params!n_srcsym_tot(x)
           c == Params!n_cb(x)
<1>1. /\ INT_MAX \in Nat /\ PD_T \in Nat \ {0} /\ PD_MAX_K \in Nat \ {0}
      /\ PD_T * PD_MAX_K \in Nat
      /\ PD_T * PD_MAX_K + (PD_T - 1) <= INT_MAX
      /\ 2 * PD_MAX_K - 1 <= INT_MAX
      /\ x \in Nat /\ x >= 1 /\ x <= INT_MAX
  BY DEF Params!ParamAssumption
<1>2. PD_T \in 1..INT_MAX /\ PD_MAX_K \in 1..INT_MAX
  <2>1. PD_T * PD_MAX_K >= PD_T
    BY <1>1
  <2> QED BY <1>1, <2>1
<1>3. q = Params!ceildiv(x, PD_T) /\ c = Params!ceildiv(q, PD_MAX_K)
  BY DEF Params!n_srcsym_tot, Params!n_cb
<1> HIDE DEF q, c
<1>4. /\ q \in Int /\ -(INT_MAX + 1) <= q /\ q <= x
      /\ x + PD_T - 1 <= INT_MAX =>
           /\ q = (x + PD_T - 1) \div PD_T /\ q >= 1
           /\ PD_T * (q - 1) < x /\ x <= PD_T * q
      /\ x + PD_T - 1 > INT_MAX => q <= 0
  BY <1>2, <1>3, CeilFacts
<1>5. q >= 1 => (c = 1 <=> q <= PD_MAX_K)
  <2> SUFFICES ASSUME q >= 1 PROVE c = 1 <=> q <= PD_MAX_K
    OBVIOUS
  <2>1. q \in 1..INT_MAX
    BY <1>1, <1>4
  <2>2. /\ c \in Int
        /\ q + PD_MAX_K - 1 <= INT_MAX =>
             c >= 1 /\ PD_MAX_K * (c - 1) < q /\ q <= PD_MAX_K * c
        /\ q + PD_MAX_K - 1 > INT_MAX => c <= 0
    BY <1>2, <1>3, <2>1, CeilFacts
  <2>3. CASE q + PD_MAX_K - 1 <= INT_MAX
    <3>1. c = 1 => q <= PD_MAX_K
      BY <1>1, <2>2, <2>3
    <3>2. c >= 2 => q > PD_MAX_K
      <4>1. c >= 2 => PD_MAX_K * (c - 1) >= PD_MAX_K
        BY <1>1, <2>2
      <4> QED BY <1>1, <1>4, <2>2, <2>3, <4>1
    <3> QED BY <1>1, <1>4, <2>2, <2>3, <3>1, <3>2
  <2>4. CASE q + PD_MAX_K - 1 > INT_MAX
    BY <1>1, <1>4, <2>2, <2>4
  <2> QED BY <1>1, <1>4, <2>3, <2>4
<1>6. q <= 0 => c # 1
  <2> SUFFICES ASSUME q <= 0 PROVE c # 1
    OBVIOUS
  <2> DEFINE y == q + PD_MAX_K - 1
  <2>1. y \in Int /\ Params!ToInt(y) = y /\ y < PD_MAX_K
    BY <1>1, <1>2, <1>4, IntFacts
  <2>2. c = Params!CDiv(y, PD_MAX_K)
    BY <1>3, <2>1 DEF Params!ceildiv
  <2> HIDE DEF y
  <2>3. CASE y >= 0
    <3>1. c = y \div PD_MAX_K
      BY <2>2, <2>3 DEF Params!CDiv
    <3>2. y \div PD_MAX_K = 0
      BY <1>1, <2>1, <2>3
    <3> QED BY <3>1, <3>2
  <2>4. CASE ~(y >= 0)
    <3> DEFINE z == -y
    <3>1. z \in Int /\ z >= 0
      BY <2>1, <2>4
    <3>2. c = -(z \div PD_MAX_K)
      BY <2>2, <2>4 DEF Params!CDiv
    <3> HIDE DEF z
    <3>3. z \div PD_MAX_K \in Int /\ z \div PD_MAX_K >= 0
      BY <1>1, <3>1
    <3> QED BY <3>2, <3>3
  <2> QED BY <2>3, <2>4
<1>7. x <= PD_T * PD_MAX_K <=> q >= 1 /\ q <= PD_MAX_K
  <2>1. ASSUME x <= PD_T * PD_MAX_K PROVE q >= 1 /\ q <= PD_MAX_K
    <3>1. x + PD_T - 1 <= INT_MAX
      BY <1>1, <2>1
    <3>2. PD_T * (q - 1) < PD_T * PD_MAX_K /\ q >= 1
      BY <1>1, <1>4, <2>1, <3>1
    <3>3. (q - 1) * PD_T < PD_MAX_K * PD_T /\ q - 1 \in Int
      BY <1>1, <1>4, <3>2
    <3>4. q - 1 < PD_MAX_K
      <4> DEFINE r == q - 1
      <4> HIDE DEF r
      <4>1. r \in Int /\ r * PD_T < PD_MAX_K * PD_T
        BY <3>3 DEF r
      <4>2. r < PD_MAX_K
        BY <1>1, <4>1, WholeParts
      <4> QED BY <4>2 DEF r
    <3> QED BY <1>1, <1>4, <3>2, <3>4
  <2>2. ASSUME q >= 1, q <= PD_MAX_K PROVE x <= PD_T * PD_MAX_K
    <3>1. x <= PD_T * q
      BY <1>1, <1>4, <2>2
    <3>2. PD_T * q <= PD_T * PD_MAX_K
      BY <1>1, <1>4, <2>2
    <3> QED BY <1>1, <1>4, <3>1, <3>2
  <2> QED BY <2>1, <2>2
<1>8. c = 1 <=> x <= PD_T * PD_MAX_K
  BY <1>1, <1>4, <1>5, <1>6, <1>7
<1>9. ASSUME c = 1
      PROVE  /\ Params!AddsUp(Params!Split(q, c))
             /\ Params!Split(q, c) =
                  [n_srcsym_tot |-> q, n_cb |-> 1, K_large |-> q, n_large |-> 1]
  <2>1. q >= 1 /\ q <= INT_MAX /\ INT_MAX >= 1
    BY <1>1, <1>4, <1>7, <1>8, <1>9
  <2>2. Params!ceildiv(q, 1) = q
    <3>1. q \in 1..INT_MAX /\ 1 \in 1..INT_MAX
      BY <1>1, <1>4, <2>1
    <3>2. q + 1 - 1 <= INT_MAX
      BY <1>1, <1>4, <2>1
    <3>3. Params!ceildiv(q, 1) = (q + 1 - 1) \div 1
      BY <3>1, <3>2, CeilFacts
    <3> QED BY <1>4, <3>3
  <2>3. 1 - (q * 1 - q) = 1
    BY <1>4
  <2>4. Params!Split(q, c) =
          [n_srcsym_tot |-> q, n_cb |-> 1, K_large |-> q, n_large |-> 1]
    BY <1>9, <2>2, <2>3 DEF Params!Split
  <2>5. q * 1 + (q - 1) * (1 - 1) = q
    BY <1>4
  <2> QED BY <2>4, <2>5 DEF Params!AddsUp
<1>10. Params!Passes(x) <=> c = 1
  BY <1>9 DEF Params!Passes, Params!OneBlock, q, c
<1>11. c = 1 => q = Params!Exact!KLarge(x)
  <2>1. c = 1 => x + PD_T - 1 <= INT_MAX
    BY <1>1, <1>8
  <2> QED BY <1>4, <2>1 DEF Params!Exact!KLarge, Params!Exact!CeilDiv
<1>12. Params!Derived(x) = Params!Split(q, c)
  BY DEF Params!Derived, q, c
<1>13. c = 1 => /\ q \in Nat /\ q <= PD_MAX_K
               /\ PD_T * (q - 1) < x /\ x <= PD_T * q
  BY <1>1, <1>4, <1>7, <1>8
<1> QED BY <1>8, <1>9, <1>10, <1>11, <1>12, <1>13

\* The size of a file that was accepted is the rest of its length modulo 2^32,
\* whole or cut; the parameters that were derived are those of a size that
\* passed, and only what does not fit into a block was refused.
ParamInv ==
  /\ len \in Nat
  /\ pd_pc \in {"derive", "sent", "received"} =>
       fsiz \in 1..INT_MAX /\ fsiz <= len /\ fsiz = len % Params!UINT_MOD
  /\ pd_pc \in {"sent", "received"} =>
       Params!Passes(fsiz) /\ s_params = Params!Derived(fsiz)
  /\ pd_pc \in {"fail", "abort"} => len = 0 \/ len > PD_T * PD_MAX_K
  /\ pd_pc = "received" => r_params = s_params /\ file_len = fsiz

\* Every behaviour of the two ends keeps the invariant.
LEMMA ParamInvariance ==
  ASSUME Params!ParamAssumption
  PROVE  Params!Spec => []ParamInv
<1>1. Params!ParamAssumption
  OBVIOUS
<1>2. Params!Init => ParamInv
  BY <1>1 DEF Params!Init, Params!ParamAssumption, ParamInv
<1>3. ASSUME ParamInv, Params!GetFileSize PROVE ParamInv'
  <2>1. /\ len' = len /\ len \in Nat /\ fsiz' = Params!ToInt(len)
        /\ IF fsiz' <= 0 THEN pd_pc' = "fail" ELSE pd_pc' = "derive"
    BY <1>3 DEF Params!GetFileSize, ParamInv
  <2>2. fsiz' \in Int /\ fsiz' <= INT_MAX /\ INT_MAX \in Nat
    BY <1>1, <2>1, IntFacts DEF Params!ParamAssumption
  <2>3. len <= INT_MAX => fsiz' = len
    BY <1>1, <2>1, <2>2, IntFacts
  <2>4. fsiz' > 0 => fsiz' = len % Params!UINT_MOD
    BY <1>1, <2>1, IntFacts
  <2>5. PD_T * PD_MAX_K \in Nat /\ PD_T * PD_MAX_K <= INT_MAX
    BY <1>1 DEF Params!ParamAssumption
  <2>6. CASE fsiz' <= 0
    <3>1. len = 0 \/ len > PD_T * PD_MAX_K
      BY <2>1, <2>2, <2>3, <2>5, <2>6
    <3> QED BY <2>1, <2>6, <3>1 DEF ParamInv
  <2>7. CASE ~(fsiz' <= 0)
    <3>1. fsiz' \in 1..INT_MAX
      BY <2>2, <2>7
    <3>2. fsiz' = len % Params!UINT_MOD
      BY <2>2, <2>4, <2>7
    <3>3. fsiz' <= len
      BY <2>1, <2>2, <2>3, <3>1
    <3>4. Params!UINT_MOD' = Params!UINT_MOD
      OBVIOUS
    <3> QED BY <2>1, <2>7, <3>1, <3>2, <3>3, <3>4 DEF ParamInv
  <2> QED BY <2>6, <2>7
<1>4. ASSUME ParamInv, Params!SenderDerives PROVE ParamInv'
  <2>1. /\ UNCHANGED <<len, fsiz>> /\ len \in Nat
        /\ fsiz \in 1..INT_MAX /\ fsiz <= len /\ fsiz = len % Params!UINT_MOD
    BY <1>4 DEF Params!SenderDerives, ParamInv
  <2>2. CASE Params!Passes(fsiz)
    <3>1. pd_pc' = "sent" /\ s_params' = Params!Derived(fsiz)
      BY <1>4, <2>2 DEF Params!SenderDerives
    <3>2. Params!Derived(fsiz') = Params!Derived(fsiz) /\ Params!Passes(fsiz')
      BY <2>1, <2>2
    <3> QED BY <2>1, <3>1, <3>2 DEF ParamInv
  <2>3. CASE ~Params!Passes(fsiz)
    <3>1. pd_pc' = "abort"
      BY <1>4, <2>3 DEF Params!SenderDerives
    <3>2. fsiz > PD_T * PD_MAX_K
      BY <1>1, <2>1, <2>3, PassFacts DEF Params!ParamAssumption
    <3>3. len > PD_T * PD_MAX_K
      <4>1. PD_T * PD_MAX_K \in Nat /\ INT_MAX \in Nat
        BY <1>1 DEF Params!ParamAssumption
      <4> QED BY <2>1, <3>2, <4>1
    <3> QED BY <2>1, <3>1, <3>3 DEF ParamInv
  <2> QED BY <2>2, <2>3
<1>5. ASSUME ParamInv, Params!ReceiverDerives PROVE ParamInv'
  <2>1. /\ UNCHANGED <<len, fsiz, s_params>> /\ len \in Nat
        /\ fsiz \in 1..INT_MAX /\ fsiz <= len /\ fsiz = len % Params!UINT_MOD
        /\ Params!Passes(fsiz) /\ s_params = Params!Derived(fsiz)
    BY <1>5 DEF Params!ReceiverDerives, ParamInv
  <2>2. Params!Tos = fsiz /\ Params!ToInt(Params!Tos) = fsiz
    <3>1. fsiz \in 0..INT_MAX /\ fsiz \in Int /\ -(INT_MAX + 1) <= fsiz
      BY <1>1, <2>1 DEF Params!ParamAssumption
    <3>2. Params!Tos = fsiz
      BY <1>1, <3>1, IntFacts DEF Params!Tos
    <3> QED BY <1>1, <3>1, <3>2, IntFacts
  <2>3. /\ pd_pc' = "received" /\ file_len' = fsiz
        /\ r_params' = Params!Derived(fsiz)
    BY <1>5, <2>1, <2>2 DEF Params!ReceiverDerives
  <2>4. Params!Derived(fsiz') = Params!Derived(fsiz) /\ Params!Passes(fsiz')
    BY <2>1
  <2> QED BY <2>1, <2>3, <2>4 DEF ParamInv
<1>6. ASSUME ParamInv, UNCHANGED Params!vars PROVE ParamInv'
  <2>1. UNCHANGED <<pd_pc, len, fsiz, file_len, s_params, r_params>>
    BY <1>6 DEF Params!vars
  <2>2. /\ Params!Derived(fsiz') = Params!Derived(fsiz)
        /\ Params!Passes(fsiz') <=> Params!Passes(fsiz)
    BY <2>1
  <2> QED BY <1>6, <2>1, <2>2 DEF ParamInv
<1>7. ParamInv /\ [Params!Next]_(Params!vars) => ParamInv'
  BY <1>3, <1>4, <1>5, <1>6 DEF Params!Next
<1> QED BY <1>2, <1>7, PTL DEF Params!Spec

\* No sum that overflowed passes the assertions: what is sent is one block with as
\* many bytes as the length of the file modulo 2^32, whatever the length.
THEOREM SentIsWhole == Params!Spec => []SentWhole
<1>1. Params!ParamAssumption
  BY PartsAssumption
<1>2. Params!Spec => []ParamInv
  BY <1>1, ParamInvariance
<1>3. ParamInv => SentWhole
  <2> SUFFICES ASSUME ParamInv, pd_pc \in {"sent", "received"}
               PROVE  SentWhole
    BY DEF SentWhole, Params!SentWhole
  <2>1. /\ fsiz \in 1..INT_MAX /\ fsiz = len % Params!UINT_MOD
        /\ Params!Passes(fsiz) /\ s_params = Params!Derived(fsiz)
    BY DEF ParamInv
  <2> DEFINE q == Params!Exact!KLarge(fsiz)
  <2>2. /\ q <= PD_MAX_K /\ PD_T * (q - 1) < fsiz /\ fsiz <= PD_T * q
        /\ fsiz <= PD_T * PD_MAX_K
        /\ Params!Derived(fsiz) =
             [n_srcsym_tot |-> q, n_cb |-> 1, K_large |-> q, n_large |-> 1]
    BY <1>1, <2>1, PassFacts
  <2>3. fsiz \in 1..(PD_T * PD_MAX_K)
    BY <1>1, <2>1, <2>2 DEF Params!ParamAssumption
  <2> HIDE DEF q
  <2>4. s_params = [n_srcsym_tot |-> q, n_cb |-> 1, K_large |-> q, n_large |-> 1]
        /\ s_params.K_large = q
    BY <2>1, <2>2
  <2> QED BY <2>1, <2>2, <2>3, <2>4 DEF SentWhole, Params!SentWhole, q
<1> QED BY <1>2, <1>3, PTL

\* Only what does not fit into a block is refused; the receiver comes to the
\* parameters of the sender, and to its size.
THEOREM ParametersAgree == Params!Spec => []SameParams
<1>1. Params!ParamAssumption
  BY PartsAssumption
<1>2. Params!Spec => []ParamInv
  BY <1>1, ParamInvariance
<1>3. ParamInv => SameParams
  BY DEF ParamInv, SameParams, Params!SameParams
<1> QED BY <1>2, <1>3, PTL

-----------------------------------------------------------------------------
(* MemBlocks.                                                              *)

\* The sizes are those of the allocations, and enough for every case; pointers
\* are of different allocations, none of which is to come.
MemInv ==
  /\ calls \in Nat /\ included \subseteq Cases /\ mem_pc \in {"run", "freed"}
  /\ size \in [Mem!Blocks -> Nat]
  /\ ptr \in [Mem!Blocks -> Nat]
  /\ \A b \in Mem!Blocks : ptr[b] <= 5 * calls
  /\ \A a, b \in Mem!Blocks : ptr[a] = ptr[b] /\ ptr[a] # 0 => a = b
  /\ DOMAIN heap = IF mem_pc = "run" THEN {ptr[b] : b \in Mem!Blocks} \ {0} ELSE {}
  /\ mem_pc = "run" => \A b \in Mem!Blocks : ptr[b] # 0 => heap[ptr[b]] = size[b]
  /\ ~AllocErrors => \A b \in Mem!Blocks : size[b] > 0 => ptr[b] # 0
  /\ \A c \in included, b \in Mem!Blocks : Mem!Needed(c)[b] <= size[b]

\* What a case needs is a number of bytes for each block.
LEMMA NeededFacts ==
  ASSUME Mem!MemAssumption, NEW c \in Cases
  PROVE  Mem!Needed(c) \in [Mem!Blocks -> Nat]
<1>1. /\ InterWorkSize(c.nMaxK, c.nMaxExtraIn) \in Nat
      /\ InterProgSize(c.nMaxK, c.nMaxExtraIn) \in Nat
      /\ InterSymNum(c.nMaxK, c.nMaxExtraIn) \in Nat
      /\ OutWorkSize(c.nMaxOut) \in Nat
      /\ OutProgSize(c.nMaxOut) \in Nat
  BY DEF Mem!MemAssumption
<1>2. c.nMaxT \in Nat
  BY DEF Mem!MemAssumption, Mem!Limits
<1>3. c.nMaxT * InterSymNum(c.nMaxK, c.nMaxExtraIn) \in Nat
  BY <1>1, <1>2
<1> QED BY <1>1, <1>3 DEF Mem!Needed, Mem!Blocks

\* Each block has an allocation of its own in each call, which no earlier call
\* made.
LEMMA FreshFacts ==
  ASSUME calls \in Nat
  PROVE  /\ \A b \in Mem!Blocks : /\ Mem!Fresh(b) \in Nat /\ Mem!Fresh(b) > 5 * calls
                                  /\ Mem!Fresh(b) <= 5 * (calls + 1)
         /\ \A a, b \in Mem!Blocks : Mem!Fresh(a) = Mem!Fresh(b) => a = b
<1>1. /\ \A b \in Mem!Blocks : Mem!Index[b] \in 1..5
      /\ \A a, b \in Mem!Blocks : Mem!Index[a] = Mem!Index[b] => a = b
  BY DEF Mem!Index, Mem!Blocks
<1>2. \A b \in Mem!Blocks : Mem!Fresh(b) = 5 * calls + Mem!Index[b]
  BY DEF Mem!Fresh
<1> QED BY <1>1, <1>2

\* A case is included: blocks that are too small are freed and allocated again.
LEMMA IncludeKeeps ==
  ASSUME Mem!MemAssumption, MemInv, NEW c \in Cases, Mem!RqMemBlocksIncludeCase(c)
  PROVE  MemInv'
<1> DEFINE B == Mem!Blocks
           N == Mem!Needed(c)
           grown == Mem!Growing(c)
           F(b) == Mem!Fresh(b)
<1>1. /\ mem_pc = "run" /\ mem_pc' = "run" /\ calls \in Nat /\ calls' = calls + 1
      /\ included' = included \cup {c} /\ included \subseteq Cases
      /\ size' = [b \in B |-> IF b \in grown THEN N[b] ELSE size[b]]
  BY DEF MemInv, Mem!RqMemBlocksIncludeCase
<1>2. PICK failed \in SUBSET grown :
        /\ AllocErrors \/ failed = {}
        /\ ptr' = [b \in B |-> IF b \in failed THEN 0
                               ELSE IF b \in grown THEN F(b) ELSE ptr[b]]
        /\ heap' = [p \in (DOMAIN heap \ Mem!Freed(grown))
                            \cup {F(b) : b \in grown \ failed} |->
                       IF p \in DOMAIN heap THEN heap[p]
                       ELSE N[CHOOSE b \in grown : p = F(b)]]
  BY DEF Mem!RqMemBlocksIncludeCase
<1>3. /\ N \in [B -> Nat] /\ size \in [B -> Nat] /\ ptr \in [B -> Nat]
      /\ grown = {b \in B : N[b] > size[b]}
  BY NeededFacts DEF MemInv, Mem!Growing
<1>4. /\ \A b \in B : F(b) \in Nat /\ F(b) > 5 * calls /\ F(b) <= 5 * (calls + 1)
      /\ \A a, b \in B : F(a) = F(b) => a = b
  BY <1>1, FreshFacts
<1>5. /\ \A b \in B : ptr[b] <= 5 * calls
      /\ \A a, b \in B : ptr[a] = ptr[b] /\ ptr[a] # 0 => a = b
      /\ DOMAIN heap = {ptr[b] : b \in B} \ {0}
      /\ \A b \in B : ptr[b] # 0 => heap[ptr[b]] = size[b]
  BY <1>1 DEF MemInv
<1>6. Mem!Freed(grown) = {ptr[b] : b \in grown} \ {0}
  BY DEF Mem!Freed
<1> HIDE DEF B, N, grown, F
<1>7. /\ size' \in [B -> Nat] /\ ptr' \in [B -> Nat]
      /\ \A b \in B : /\ size'[b] = IF b \in grown THEN N[b] ELSE size[b]
                      /\ ptr'[b] = IF b \in failed THEN 0
                                   ELSE IF b \in grown THEN F(b) ELSE ptr[b]
  BY <1>1, <1>2, <1>3, <1>4
<1>8. \A b \in B : size'[b] >= size[b] /\ size'[b] >= N[b]
  BY <1>3, <1>7
<1>9. \A b \in B : ptr'[b] <= 5 * calls'
  BY <1>1, <1>2, <1>3, <1>4, <1>5, <1>7
<1>10. \A a, b \in B : ptr'[a] = ptr'[b] /\ ptr'[a] # 0 => a = b
  <2> SUFFICES ASSUME NEW a \in B, NEW b \in B, ptr'[a] = ptr'[b], ptr'[a] # 0
               PROVE  a = b
    OBVIOUS
  <2>1. a \notin failed /\ b \notin failed
    BY <1>7
  <2>2. CASE a \in grown /\ b \in grown
    BY <1>4, <1>7, <2>1, <2>2
  <2>3. CASE a \notin grown /\ b \notin grown
    BY <1>5, <1>7, <2>1, <2>3
  <2>4. CASE a \in grown /\ b \notin grown
    <3>1. ptr[b] = F(a) /\ ptr[b] <= 5 * calls /\ F(a) > 5 * calls
      BY <1>4, <1>5, <1>7, <2>1, <2>4
    <3> QED BY <1>1, <1>3, <1>4, <3>1
  <2>5. CASE a \notin grown /\ b \in grown
    <3>1. ptr[a] = F(b) /\ ptr[a] <= 5 * calls /\ F(b) > 5 * calls
      BY <1>4, <1>5, <1>7, <2>1, <2>5
    <3> QED BY <1>1, <1>3, <1>4, <3>1
  <2> QED BY <2>2, <2>3, <2>4, <2>5
<1>11. DOMAIN heap' = (DOMAIN heap \ Mem!Freed(grown)) \cup {F(b) : b \in grown \ failed}
  BY <1>2
<1>12. DOMAIN heap' = {ptr'[b] : b \in B} \ {0}
  <2>1. ASSUME NEW p \in DOMAIN heap' PROVE p \in {ptr'[b] : b \in B} \ {0}
    <3>1. CASE p \in DOMAIN heap \ Mem!Freed(grown)
      <4>1. PICK b \in B : p = ptr[b] /\ p # 0
        BY <1>5, <3>1
      <4>2. b \notin grown /\ b \notin failed
        BY <1>2, <1>6, <3>1, <4>1
      <4> QED BY <1>7, <4>1, <4>2
    <3>2. CASE p \in {F(b) : b \in grown \ failed}
      <4>1. PICK b \in grown \ failed : p = F(b)
        BY <3>2
      <4>2. b \in B /\ ptr'[b] = p
        BY <1>3, <1>7, <4>1
      <4>3. p # 0
        BY <1>1, <1>4, <4>1, <4>2
      <4> QED BY <4>2, <4>3
    <3> QED BY <1>11, <2>1, <3>1, <3>2
  <2>2. ASSUME NEW b \in B, ptr'[b] # 0 PROVE ptr'[b] \in DOMAIN heap'
    <3>1. CASE b \in grown
      <4>1. b \notin failed /\ ptr'[b] = F(b)
        BY <1>7, <2>2, <3>1
      <4> QED BY <1>11, <3>1, <4>1
    <3>2. CASE b \notin grown
      <4>1. b \notin failed /\ ptr'[b] = ptr[b] /\ ptr[b] \in DOMAIN heap
        BY <1>2, <1>5, <1>7, <2>2, <3>2
      <4>2. ptr[b] \notin Mem!Freed(grown)
        BY <1>3, <1>5, <1>6, <2>2, <3>2, <4>1
      <4> QED BY <1>11, <4>1, <4>2
    <3> QED BY <3>1, <3>2
  <2> QED BY <2>1, <2>2
<1>13. ASSUME NEW b \in B, ptr'[b] # 0
       PROVE  heap'[ptr'[b]] = size'[b]
  <2>1. ptr'[b] \in DOMAIN heap'
    BY <1>12, <1>13
  <2>2. heap'[ptr'[b]] = IF ptr'[b] \in DOMAIN heap THEN heap[ptr'[b]]
                         ELSE N[CHOOSE a \in grown : ptr'[b] = F(a)]
    BY <1>2, <1>11, <2>1
  <2>3. CASE b \in grown
    <3>1. ptr'[b] = F(b) /\ size'[b] = N[b]
      BY <1>7, <1>13, <2>3
    <3>2. F(b) \notin DOMAIN heap
      <4>1. ASSUME NEW a \in B PROVE F(b) # ptr[a]
        BY <1>1, <1>3, <1>4, <1>5
      <4> QED BY <1>5, <4>1
    <3>3. (CHOOSE a \in grown : F(b) = F(a)) = b
      <4>1. \A a \in grown : F(b) = F(a) => a = b
        BY <1>3, <1>4
      <4> QED BY <2>3, <4>1
    <3>4. heap'[F(b)] = N[CHOOSE a \in grown : F(b) = F(a)]
      BY <2>2, <3>1, <3>2
    <3> QED BY <3>1, <3>3, <3>4
  <2>4. CASE b \notin grown
    <3>1. ptr'[b] = ptr[b] /\ size'[b] = size[b] /\ ptr[b] # 0
      BY <1>2, <1>7, <1>13, <2>4
    <3>2. ptr[b] \in DOMAIN heap
      BY <1>5, <3>1
    <3> QED BY <1>5, <2>2, <3>1, <3>2
  <2> QED BY <2>3, <2>4
<1>14. ASSUME ~AllocErrors, NEW b \in B, size'[b] > 0 PROVE ptr'[b] # 0
  <2>1. failed = {}
    BY <1>2, <1>14
  <2>2. CASE b \in grown
    <3>1. ptr'[b] = F(b) /\ F(b) > 5 * calls /\ F(b) \in Nat
      BY <1>4, <1>7, <2>1, <2>2
    <3> QED BY <1>1, <3>1
  <2>3. CASE b \notin grown
    <3>1. ptr'[b] = ptr[b] /\ size'[b] = size[b]
      BY <1>7, <2>1, <2>3
    <3> QED BY <1>14, <3>1 DEF MemInv, B
  <2> QED BY <2>2, <2>3
<1>15. ASSUME NEW k \in included', NEW b \in B PROVE Mem!Needed(k)[b] <= size'[b]
  <2>1. CASE k = c
    BY <1>3, <1>7, <1>8, <2>1 DEF N
  <2>2. CASE k \in included
    <3>1. Mem!Needed(k)[b] <= size[b]
      BY <2>2 DEF MemInv, B
    <3>2. Mem!Needed(k) \in [B -> Nat]
      BY <1>1, <2>2, NeededFacts DEF B
    <3> QED BY <1>3, <1>7, <1>8, <3>1, <3>2
  <2> QED BY <1>1, <1>15, <2>1, <2>2
<1> QED BY <1>1, <1>7, <1>9, <1>10, <1>12, <1>13, <1>14, <1>15 DEF MemInv, B

\* Every behaviour keeps the invariant.
LEMMA MemInvariance ==
  ASSUME Mem!MemAssumption
  PROVE  Mem!Spec => []MemInv
<1>1. Mem!MemAssumption
  OBVIOUS
<1>2. Mem!Init => MemInv
  <2> SUFFICES ASSUME Mem!Init PROVE MemInv
    OBVIOUS
  <2>1. /\ size = [b \in Mem!Blocks |-> 0] /\ ptr = [b \in Mem!Blocks |-> 0]
        /\ calls = 0 /\ included = {} /\ mem_pc = "run"
        /\ DOMAIN heap = {}
    BY DEF Mem!Init
  <2>2. {ptr[b] : b \in Mem!Blocks} \ {0} = {}
    BY <2>1
  <2> QED BY <2>1, <2>2 DEF MemInv
<1>3. ASSUME MemInv, Mem!CaseRefused PROVE MemInv'
  <2>1. /\ UNCHANGED <<size, ptr, heap, included, mem_pc>>
        /\ calls \in Nat /\ calls' = calls + 1
    BY <1>3 DEF Mem!CaseRefused, MemInv
  <2>2. \A b \in Mem!Blocks : ptr'[b] <= 5 * calls'
    BY <1>3, <2>1 DEF MemInv
  <2> QED BY <1>3, <2>1, <2>2 DEF MemInv
<1>4. ASSUME MemInv, Mem!RqMemBlocksFreeMem PROVE MemInv'
  <2>1. /\ UNCHANGED <<size, ptr, included, calls>>
        /\ mem_pc = "run" /\ mem_pc' = "freed"
        /\ DOMAIN heap' = DOMAIN heap \ Mem!Freed(Mem!Blocks)
    BY <1>4 DEF Mem!RqMemBlocksFreeMem
  <2>2. DOMAIN heap = {ptr[b] : b \in Mem!Blocks} \ {0}
    BY <1>4, <2>1 DEF MemInv
  <2>3. DOMAIN heap' = {}
    BY <2>1, <2>2 DEF Mem!Freed
  <2> QED BY <1>4, <2>1, <2>3 DEF MemInv
<1>5. ASSUME MemInv, UNCHANGED Mem!vars PROVE MemInv'
  BY <1>5 DEF Mem!vars, MemInv
<1>6. MemInv /\ [Mem!Next]_(Mem!vars) => MemInv'
  BY <1>1, <1>3, <1>4, <1>5, IncludeKeeps DEF Mem!Next
<1> QED BY <1>2, <1>6, PTL DEF Mem!Spec

\* Nothing is leaked, shared or freed under a pointer, whether or not allocations
\* fail.
THEOREM HeapIsExact == Mem!Spec => []HeapExact
<1>1. Mem!MemAssumption
  BY PartsAssumption
<1>2. Mem!Spec => []MemInv
  BY <1>1, MemInvariance
<1>3. MemInv => HeapExact
  BY DEF MemInv, HeapExact, Mem!HeapExact
<1> QED BY <1>2, <1>3, PTL

\* If no allocation fails, the memory is enough for every case that was included,
\* whatever the library asks for and in whatever order the cases come.
THEOREM MemoryIsEnough ==
  ASSUME ~AllocErrors
  PROVE  Mem!Spec => []EveryCaseFits
<1>1. Mem!MemAssumption /\ ~AllocErrors
  BY PartsAssumption
<1>2. Mem!Spec => []MemInv
  BY <1>1, MemInvariance
<1>3. MemInv => EveryCaseFits
  <2> SUFFICES ASSUME MemInv, mem_pc = "run", NEW c \in included, NEW b \in Mem!Blocks,
                      Mem!Needed(c)[b] > 0
               PROVE  /\ size[b] >= Mem!Needed(c)[b]
                      /\ ptr[b] \in DOMAIN heap /\ heap[ptr[b]] >= Mem!Needed(c)[b]
    BY DEF EveryCaseFits, Mem!EveryCaseFits
  <2>1. Mem!Needed(c) \in [Mem!Blocks -> Nat] /\ size \in [Mem!Blocks -> Nat]
    BY <1>1, NeededFacts DEF MemInv
  <2>2. Mem!Needed(c)[b] <= size[b]
    BY DEF MemInv
  <2>3. ptr[b] # 0
    BY <1>1, <2>1, <2>2 DEF MemInv
  <2>4. ptr[b] \in DOMAIN heap /\ heap[ptr[b]] = size[b]
    BY <2>3 DEF MemInv
  <2> QED BY <2>1, <2>2, <2>4
<1> QED BY <1>2, <1>3, PTL

-----------------------------------------------------------------------------
(* Playlist: the two readers.                                              *)

\* A line with a duration (#EXTINF: and a number) fits the buffer.  The sender
\* would take the rest of a longer one for a name.
InfFits ==
  \A l \in Lines : l.kind \in {"extinf", "badinf"} => l.len <= BUF - 1

\* A step over a list is the one of Kept.
KeptUpTo(g, n) ==
  g = [i \in 0..n |-> IF i = 0 THEN <<>>
                      ELSE IF Lists!Inf(i) THEN g[i - 1] ELSE Append(g[i - 1], i)]

\* The recursion defines a function.
LEMMA KeptExists ==
  ASSUME NEW N \in Nat
  PROVE  \E g : KeptUpTo(g, N)
<1> DEFINE T == {n \in Nat : \E g : KeptUpTo(g, n)}
           Then(d, i) == IF Lists!Inf(i) THEN d ELSE Append(d, i)
<1>1. 0 \in T
  <2> DEFINE g == [i \in 0..0 |-> <<>>]
  <2>1. KeptUpTo(g, 0)
    BY DEF KeptUpTo
  <2> QED BY <2>1
<1>2. ASSUME NEW n \in 0..(N - 1), n \in T
      PROVE  n + 1 \in T
  <2>1. PICK g : KeptUpTo(g, n)
    BY <1>2
  <2> HIDE DEF Then
  <2> DEFINE h == [i \in 0..(n + 1) |-> IF i = n + 1 THEN Then(g[n], i) ELSE g[i]]
             e == [i \in 0..(n + 1) |-> IF i = 0 THEN <<>> ELSE Then(h[i - 1], i)]
  <2>2. \A i \in 0..n : g[i] = IF i = 0 THEN <<>> ELSE Then(g[i - 1], i)
    <3>1. g = [i \in 0..n |-> IF i = 0 THEN <<>> ELSE Then(g[i - 1], i)]
      BY <2>1 DEF KeptUpTo, Then
    <3> HIDE DEF h, e
    <3> QED BY <3>1
  <2>3. ASSUME NEW i \in 0..(n + 1)
        PROVE  h[i] = IF i = 0 THEN <<>> ELSE Then(h[i - 1], i)
    <3>1. i # 0 => i - 1 \in 0..(n + 1) /\ i - 1 # n + 1 /\ h[i - 1] = g[i - 1]
      OBVIOUS
    <3>2. CASE i = n + 1
      BY <3>1, <3>2
    <3>3. CASE i # n + 1
      <4>1. i \in 0..n /\ h[i] = g[i]
        BY <3>3
      <4> QED BY <2>2, <3>1, <4>1
    <3> QED BY <3>2, <3>3
  <2>4. h = e
    BY <2>3
  <2> HIDE DEF h
  <2>5. KeptUpTo(h, n + 1)
    BY <2>4 DEF KeptUpTo, Then
  <2> QED BY <2>5
<1> HIDE DEF T
<1>3. N \in T
  BY <1>1, <1>2, UpTo
<1> QED BY <1>3 DEF T

\* Line m of the dummy list, and where the list ends: what lies before it.
Lower(d, m) == IF m = 0 THEN 0 ELSE d[m]
Upper(d, m, n) == IF m <= Len(d) THEN d[m] ELSE n + 1

\* Of the lines up to n, d leaves out lines with a duration only.
Gaps(d, n) ==
  /\ d \in Seq(Nat)
  /\ \A m \in 0..Len(d) :
       /\ Lower(d, m) < Upper(d, m + 1, n)
       /\ Upper(d, m + 1, n) <= n + 1
       /\ \A x \in (Lower(d, m) + 1)..(Upper(d, m + 1, n) - 1) : Lists!Inf(x)

\* One more line.
LEMMA GapsGrow ==
  ASSUME NEW n \in Nat, NEW d, Gaps(d, n)
  PROVE  /\ Lists!Inf(n + 1) => Gaps(d, n + 1)
         /\ Gaps(Append(d, n + 1), n + 1)
<1>1. /\ d \in Seq(Nat) /\ Len(d) \in Nat /\ \A m \in 1..Len(d) : d[m] \in Nat
      /\ \A m \in 0..Len(d) : Lower(d, m) \in Nat
  BY DEF Gaps, Lower
<1>2. ASSUME Lists!Inf(n + 1)
      PROVE  Gaps(d, n + 1)
  <2>1. ASSUME NEW m \in 0..Len(d)
        PROVE  /\ Lower(d, m) < Upper(d, m + 1, n + 1)
               /\ Upper(d, m + 1, n + 1) <= (n + 1) + 1
               /\ \A x \in (Lower(d, m) + 1)..(Upper(d, m + 1, n + 1) - 1) : Lists!Inf(x)
    <3>1. /\ Lower(d, m) < Upper(d, m + 1, n)
          /\ Upper(d, m + 1, n) <= n + 1
          /\ \A x \in (Lower(d, m) + 1)..(Upper(d, m + 1, n) - 1) : Lists!Inf(x)
      BY DEF Gaps
    <3>2. CASE m + 1 <= Len(d)
      <4>1. Upper(d, m + 1, n + 1) = Upper(d, m + 1, n) /\ Upper(d, m + 1, n) \in Nat
        BY <1>1, <3>2 DEF Upper
      <4> QED BY <3>1, <4>1
    <3>3. CASE ~(m + 1 <= Len(d))
      <4>1. Upper(d, m + 1, n + 1) = n + 2 /\ Upper(d, m + 1, n) = n + 1
        BY <1>1, <3>3 DEF Upper
      <4>2. Lower(d, m) \in Nat
        BY <1>1
      <4>3. \A x \in (Lower(d, m) + 1)..((n + 2) - 1) :
              x = n + 1 \/ x \in (Lower(d, m) + 1)..((n + 1) - 1)
        BY <4>2
      <4> QED BY <1>2, <3>1, <4>1, <4>2, <4>3
    <3> QED BY <3>2, <3>3
  <2> QED BY <1>1, <2>1 DEF Gaps
<1>3. Gaps(Append(d, n + 1), n + 1)
  <2> DEFINE e == Append(d, n + 1)
  <2>1. /\ e \in Seq(Nat) /\ Len(e) = Len(d) + 1
        /\ \A m \in 1..Len(d) : e[m] = d[m]
        /\ e[Len(d) + 1] = n + 1
    BY <1>1
  <2> HIDE DEF e
  <2>2. ASSUME NEW m \in 0..Len(e)
        PROVE  /\ Lower(e, m) < Upper(e, m + 1, n + 1)
               /\ Upper(e, m + 1, n + 1) <= (n + 1) + 1
               /\ \A x \in (Lower(e, m) + 1)..(Upper(e, m + 1, n + 1) - 1) : Lists!Inf(x)
    <3>1. CASE m <= Len(d)
      <4>1. /\ Lower(d, m) < Upper(d, m + 1, n)
            /\ Upper(d, m + 1, n) <= n + 1
            /\ \A x \in (Lower(d, m) + 1)..(Upper(d, m + 1, n) - 1) : Lists!Inf(x)
        BY <3>1 DEF Gaps
      <4>2. Lower(e, m) = Lower(d, m) /\ Lower(d, m) \in Nat
        BY <1>1, <2>1, <3>1 DEF Lower
      <4>3. Upper(e, m + 1, n + 1) = Upper(d, m + 1, n) /\ Upper(d, m + 1, n) \in Nat
        BY <1>1, <2>1, <3>1 DEF Upper
      <4> QED BY <4>1, <4>2, <4>3
    <3>2. CASE ~(m <= Len(d))
      <4>1. m = Len(d) + 1
        BY <1>1, <2>1, <3>2
      <4>2. Lower(e, m) = n + 1 /\ Upper(e, m + 1, n + 1) = n + 2
        BY <1>1, <2>1, <4>1 DEF Lower, Upper
      <4> QED BY <4>2
    <3> QED BY <3>1, <3>2
  <2> QED BY <2>1, <2>2 DEF Gaps, e
<1> QED BY <1>2, <1>3

\* The dummy list leaves out lines with a duration only.
LEMMA DummyGaps ==
  ASSUME list \in Seq(Lines)
  PROVE  Gaps(Lists!Dummy, Len(list))
<1>1. Len(list) \in Nat
  OBVIOUS
<1> DEFINE k == Lists!Kept
<1>2. KeptUpTo(k, Len(list))
  BY <1>1, KeptExists DEF Lists!Kept, KeptUpTo
<1>3. \A i \in 0..Len(list) : k[i] = IF i = 0 THEN <<>>
                      ELSE IF Lists!Inf(i) THEN k[i - 1] ELSE Append(k[i - 1], i)
  <2> HIDE DEF k
  <2> QED BY <1>2 DEF KeptUpTo
<1> HIDE DEF k
<1> DEFINE T == {n \in Nat : Gaps(k[n], n)}
<1>4. 0 \in T
  <2>1. k[0] = <<>>
    BY <1>1, <1>3
  <2>2. Gaps(<<>>, 0)
    BY DEF Gaps, Lower, Upper
  <2> QED BY <2>1, <2>2
<1>5. ASSUME NEW n \in 0..(Len(list) - 1), n \in T
      PROVE  n + 1 \in T
  <2>1. n + 1 \in 0..Len(list) /\ n + 1 # 0 /\ (n + 1) - 1 = n /\ n \in Nat /\ n + 1 \in Nat
    BY <1>1
  <2>2. Gaps(k[n], n)
    BY <1>5
  <2>3. k[n + 1] = IF Lists!Inf(n + 1) THEN k[n] ELSE Append(k[n], n + 1)
    BY <1>3, <2>1
  <2>4. /\ Lists!Inf(n + 1) => Gaps(k[n], n + 1)
        /\ Gaps(Append(k[n], n + 1), n + 1)
    BY <2>1, <2>2, GapsGrow
  <2>5. Gaps(k[n + 1], n + 1)
    BY <2>3, <2>4
  <2> QED BY <2>1, <2>5
<1>6. Len(list) \in T
  <2> HIDE DEF T
  <2>1. \A n \in 0..Len(list) : n \in T
    BY <1>1, <1>4, <1>5, UpTo
  <2> QED BY <1>1, <2>1
<1> QED BY <1>6 DEF Lists!Dummy, k

-----------------------------------------------------------------------------
(* Playlist: reading, from the beginning.                                  *)

Chunks == [line : Nat, offs : Nat]
Positions == Nat \X Nat

\* What is read at a position of list.m3u8, and where it goes on.
Entry(pos) == [line |-> pos[1], offs |-> pos[2]]
Passed(pos) == Lists!IsComment(Entry(pos))
After(pos) ==
  IF pos[2] + BUF - 1 >= list[pos[1]].len THEN <<pos[1] + 1, 0>>
                                          ELSE <<pos[1], pos[2] + BUF - 1>>

\* N chunks of list.m3u8 are read at the positions p, with the entries e so far.
Reading(p, e, N) ==
  /\ p \in [0..N -> Positions]
  /\ e \in [0..N -> Seq(Chunks)]
  /\ p[0] = <<1, 0>> /\ e[0] = <<>>
  /\ \A k \in 0..(N - 1) :
       /\ p[k][1] <= Len(list)
       /\ p[k + 1] = After(p[k])
       /\ e[k + 1] = IF Passed(p[k]) THEN e[k] ELSE Append(e[k], Entry(p[k]))

\* Places stay places.
LEMMA PositionFacts ==
  ASSUME list \in Seq(Lines), NEW pos \in Positions
  PROVE  /\ pos[1] \in Nat /\ pos[2] \in Nat
         /\ After(pos) \in Positions
         /\ Entry(pos) \in Chunks
<1>1. BUF \in Nat /\ BUF >= 2
  BY PartsAssumption DEF Lists!PlaylistAssumption
<1>2. pos[1] \in Nat /\ pos[2] \in Nat
  BY DEF Positions
<1>3. pos[1] + 1 \in Nat /\ pos[2] + BUF - 1 \in Nat
  BY <1>1, <1>2
<1>4. After(pos) \in Positions
  BY <1>2, <1>3 DEF After, Positions
<1>5. Entry(pos) \in Chunks
  BY <1>2 DEF Entry, Chunks
<1> QED BY <1>2, <1>4, <1>5

\* One more chunk.
LEMMA ReadingGoesOn ==
  ASSUME list \in Seq(Lines), NEW N \in Nat, NEW p, NEW e, Reading(p, e, N),
         p[N][1] <= Len(list)
  PROVE  \E q, f : /\ Reading(q, f, N + 1)
                   /\ q[N + 1] = After(p[N])
                   /\ f[N + 1] = IF Passed(p[N]) THEN e[N] ELSE Append(e[N], Entry(p[N]))
<1> DEFINE x == After(p[N])
           y == IF Passed(p[N]) THEN e[N] ELSE Append(e[N], Entry(p[N]))
           q == [k \in 0..(N + 1) |-> IF k = N + 1 THEN x ELSE p[k]]
           f == [k \in 0..(N + 1) |-> IF k = N + 1 THEN y ELSE e[k]]
<1> HIDE DEF Chunks
<1>1. /\ N \in 0..N
      /\ p \in [0..N -> Positions] /\ e \in [0..N -> Seq(Chunks)]
      /\ p[0] = <<1, 0>> /\ e[0] = <<>>
  BY DEF Reading
<1>2. p[N] \in Positions /\ e[N] \in Seq(Chunks)
  BY <1>1
<1>3. Entry(p[N]) \in Chunks /\ x \in Positions
  BY <1>2, PositionFacts
<1>4. y \in Seq(Chunks)
  BY <1>2, <1>3
<1> HIDE DEF x, y
<1>5. /\ q \in [0..(N + 1) -> Positions] /\ f \in [0..(N + 1) -> Seq(Chunks)]
      /\ q[N + 1] = x /\ f[N + 1] = y
      /\ \A k \in 0..N : q[k] = p[k] /\ f[k] = e[k]
  <2>1. \A k \in 0..(N + 1) : k = N + 1 \/ k \in 0..N
    OBVIOUS
  <2>2. \A k \in 0..N : k \in 0..(N + 1) /\ k # N + 1
    OBVIOUS
  <2>3. N + 1 \in 0..(N + 1)
    OBVIOUS
  <2> QED BY <1>1, <1>3, <1>4, <2>1, <2>2, <2>3
<1> HIDE DEF q, f
<1>6. q[0] = <<1, 0>> /\ f[0] = <<>>
  <2>1. 0 \in 0..N
    OBVIOUS
  <2> QED BY <1>1, <1>5, <2>1
<1>7. ASSUME NEW k \in 0..((N + 1) - 1)
      PROVE  /\ q[k][1] <= Len(list)
             /\ q[k + 1] = After(q[k])
             /\ f[k + 1] = IF Passed(q[k]) THEN f[k] ELSE Append(f[k], Entry(q[k]))
  <2>1. k \in 0..N /\ q[k] = p[k] /\ f[k] = e[k]
    BY <1>5
  <2>2. CASE k = N
    BY <1>5, <2>1, <2>2 DEF x, y
  <2>3. CASE k # N
    <3>1. k \in 0..(N - 1) /\ k + 1 \in 0..N
      BY <2>1, <2>3
    <3>2. q[k + 1] = p[k + 1] /\ f[k + 1] = e[k + 1]
      BY <1>5, <3>1
    <3>3. /\ p[k][1] <= Len(list)
          /\ p[k + 1] = After(p[k])
          /\ e[k + 1] = IF Passed(p[k]) THEN e[k] ELSE Append(e[k], Entry(p[k]))
      BY <3>1 DEF Reading
    <3> QED BY <2>1, <3>2, <3>3
  <2> QED BY <2>2, <2>3
<1>8. Reading(q, f, N + 1)
  BY <1>5, <1>6, <1>7 DEF Reading
<1>9. q[N + 1] = After(p[N]) /\ f[N + 1] = IF Passed(p[N]) THEN e[N] ELSE Append(e[N], Entry(p[N]))
  BY <1>5 DEF x, y
<1> QED BY <1>8, <1>9

\* Lines are counted from one.
LEMMA ReadingBegins ==
  ASSUME list \in Seq(Lines), NEW N \in Nat, NEW p, NEW e, Reading(p, e, N)
  PROVE  \A k \in 0..N : p[k][1] \in Nat \ {0}
<1> DEFINE T == {k \in Nat : p[k][1] \in Nat \ {0}}
<1>1. p[0] = <<1, 0>> /\ \A k \in 0..N : p[k] \in Positions
  BY DEF Reading
<1>2. 0 \in T
  BY <1>1
<1>3. ASSUME NEW k \in 0..(N - 1), k \in T
      PROVE  k + 1 \in T
  <2>1. k \in 0..N /\ k + 1 \in Nat /\ p[k][1] \in Nat \ {0}
    BY <1>3
  <2>2. p[k + 1] = After(p[k])
    BY DEF Reading
  <2>3. After(p[k])[1] \in {p[k][1], p[k][1] + 1}
    BY DEF After
  <2> QED BY <2>1, <2>2, <2>3
<1>4. \A k \in 0..N : k \in T
  <2> HIDE DEF T
  <2> QED BY <1>2, <1>3, UpTo
<1> QED BY <1>4

\* There is one way to read a list.
LEMMA ReadingsAgree ==
  ASSUME NEW N \in Nat, NEW p, NEW e, Reading(p, e, N),
         NEW M \in Nat, NEW q, NEW f, Reading(q, f, M), N <= M
  PROVE  \A k \in 0..N : p[k] = q[k] /\ e[k] = f[k]
<1> DEFINE T == {k \in Nat : p[k] = q[k] /\ e[k] = f[k]}
<1>1. 0 \in T
  BY DEF Reading
<1>2. ASSUME NEW k \in 0..(N - 1), k \in T
      PROVE  k + 1 \in T
  <2>1. k \in 0..(M - 1) /\ k + 1 \in Nat /\ p[k] = q[k] /\ e[k] = f[k]
    BY <1>2
  <2>2. /\ p[k + 1] = After(p[k])
        /\ e[k + 1] = IF Passed(p[k]) THEN e[k] ELSE Append(e[k], Entry(p[k]))
    BY DEF Reading
  <2>3. /\ q[k + 1] = After(q[k])
        /\ f[k + 1] = IF Passed(q[k]) THEN f[k] ELSE Append(f[k], Entry(q[k]))
    BY <2>1 DEF Reading
  <2>4. p[k + 1] = q[k + 1] /\ e[k + 1] = f[k + 1]
    BY <2>1, <2>2, <2>3
  <2> QED BY <2>1, <2>4
<1>3. \A k \in 0..N : k \in T
  <2> HIDE DEF T
  <2> QED BY <1>1, <1>2, UpTo
<1> QED BY <1>3

\* Entries are added at the end.
LEMMA ReadingGrows ==
  ASSUME list \in Seq(Lines), NEW N \in Nat, NEW p, NEW e, Reading(p, e, N),
         NEW k \in 0..N
  PROVE  /\ Len(e[k]) <= Len(e[N])
         /\ \A i \in DOMAIN e[k] : e[N][i] = e[k][i]
<1> DEFINE Grown(n) == Len(e[k]) <= Len(e[n]) /\ \A i \in DOMAIN e[k] : e[n][i] = e[k][i]
           T == {n \in Nat : n >= k => Grown(n)}
<1> HIDE DEF Chunks
<1>1. /\ e \in [0..N -> Seq(Chunks)] /\ p \in [0..N -> Positions]
      /\ \A n \in 0..N : e[n] \in Seq(Chunks) /\ Len(e[n]) \in Nat /\ p[n] \in Positions
  BY DEF Reading
<1>2. 0 \in T
  BY <1>1
<1>3. ASSUME NEW n \in 0..(N - 1), n \in T
      PROVE  n + 1 \in T
  <2>1. n \in 0..N /\ n + 1 \in 0..N /\ n + 1 \in Nat
    OBVIOUS
  <2>2. e[n + 1] = IF Passed(p[n]) THEN e[n] ELSE Append(e[n], Entry(p[n]))
    BY DEF Reading
  <2>3. CASE n + 1 <= k
    <3>1. n + 1 >= k => n + 1 = k
      BY <2>1, <2>3
    <3> QED BY <1>1, <2>1, <3>1
  <2>4. CASE n + 1 > k
    <3>1. Grown(n)
      BY <1>3, <2>1, <2>4
    <3>2. e[n] \in Seq(Chunks) /\ e[k] \in Seq(Chunks) /\ Entry(p[n]) \in Chunks
      BY <1>1, <2>1, PositionFacts
    <3> DEFINE a == e[n]
               b == e[k]
               c == Entry(p[n])
    <3> HIDE DEF c
    <3>3. Len(a) <= Len(Append(a, c)) /\ \A i \in 1..Len(a) : Append(a, c)[i] = a[i]
      BY <3>2 DEF c
    <3>4. DOMAIN b = 1..Len(b) /\ Len(b) <= Len(a) /\ Len(a) \in Nat /\ Len(b) \in Nat
          /\ Len(Append(a, c)) \in Nat
      BY <3>1, <3>2 DEF c
    <3>5. \A i \in DOMAIN b : Append(a, c)[i] = b[i]
      BY <3>1, <3>3, <3>4
    <3>6. Grown(n + 1)
      BY <2>2, <3>1, <3>3, <3>4, <3>5 DEF c
    <3> QED BY <2>1, <3>6
  <2> QED BY <2>1, <2>3, <2>4
<1>4. \A n \in 0..N : n \in T
  <2> HIDE DEF T
  <2> QED BY <1>2, <1>3, UpTo
<1> QED BY <1>4

\* A reader of list.m3u8 comes to a place, with these entries.
Reached(pos, ents) ==
  \E N \in Nat : \E p, e : Reading(p, e, N) /\ p[N] = pos /\ e[N] = ents

\* A reader goes on by one chunk.
LEMMA ReachedGoesOn ==
  ASSUME list \in Seq(Lines), NEW pos, NEW ents, Reached(pos, ents), pos[1] <= Len(list)
  PROVE  Reached(After(pos), IF Passed(pos) THEN ents ELSE Append(ents, Entry(pos)))
<1>1. PICK N \in Nat : \E p, e : Reading(p, e, N) /\ p[N] = pos /\ e[N] = ents
  BY DEF Reached
<1>2. PICK p, e : Reading(p, e, N) /\ p[N] = pos /\ e[N] = ents
  BY <1>1
<1>3. PICK q, f : /\ Reading(q, f, N + 1)
                  /\ q[N + 1] = After(p[N])
                  /\ f[N + 1] = IF Passed(p[N]) THEN e[N] ELSE Append(e[N], Entry(p[N]))
  BY <1>2, ReadingGoesOn
<1> DEFINE ents2 == IF Passed(pos) THEN ents ELSE Append(ents, Entry(pos))
<1>4. N + 1 \in Nat /\ q[N + 1] = After(pos) /\ f[N + 1] = ents2
  BY <1>2, <1>3
<1> HIDE DEF ents2
<1>5. Reached(After(pos), ents2)
  BY <1>3, <1>4 DEF Reached
<1> QED BY <1>5 DEF ents2

Skipped(a, b) == \A x \in a..(b - 1) : Lists!Inf(x)

\* Lines with a duration are read as one chunk and give no entry.
LEMMA ReachedSkips ==
  ASSUME list \in Seq(Lines), InfFits, NEW ents,
         NEW a \in Nat \ {0}, Reached(<<a, 0>>, ents),
         NEW b \in Nat, a <= b, b <= Len(list) + 1, Skipped(a, b)
  PROVE  Reached(<<b, 0>>, ents)
<1> DEFINE T == {d \in Nat : Reached(<<a + d, 0>>, ents)}
<1>1. 0 \in T
  <2>1. a + 0 = a
    OBVIOUS
  <2> QED BY <2>1
<1>2. ASSUME NEW d \in 0..((b - a) - 1), d \in T
      PROVE  d + 1 \in T
  <2> DEFINE x == a + d
  <2>1. Reached(<<x, 0>>, ents)
    BY <1>2
  <2>2. x \in a..(b - 1) /\ x \in 1..Len(list) /\ x \in Nat /\ x + 1 = a + (d + 1)
    OBVIOUS
  <2> HIDE DEF x
  <2>3. Lists!Inf(x) /\ list[x] \in Lines
    BY <2>2 DEF Skipped
  <2>4. list[x].len <= BUF - 1 /\ list[x].len \in Nat /\ list[x].kind # "name" /\ BUF \in Nat
    BY <2>3, PartsAssumption DEF InfFits, Lists!Inf, Lists!PlaylistAssumption
  <2>5. After(<<x, 0>>) = <<x + 1, 0>>
    BY <2>4 DEF After
  <2>6. Passed(<<x, 0>>)
    BY <2>4 DEF Passed, Entry, Lists!IsComment
  <2>7. <<x, 0>>[1] <= Len(list)
    BY <2>2
  <2>8. Reached(<<x + 1, 0>>, ents)
    BY <2>1, <2>5, <2>6, <2>7, ReachedGoesOn
  <2> QED BY <2>2, <2>8
<1>3. b - a \in Nat /\ a + (b - a) = b
  OBVIOUS
<1>4. b - a \in T
  <2> HIDE DEF T
  <2>1. \A d \in 0..(b - a) : d \in T
    BY <1>1, <1>2, <1>3, UpTo
  <2> QED BY <1>3, <2>1
<1> QED BY <1>3, <1>4

-----------------------------------------------------------------------------
(* Playlist: the inductive invariant.                                      *)

\* The sender has read list.m3u8 so far.
SenderReading == Reached(s_pos, s_ents)

\* The place in list.m3u8 of a place in the dummy list.
Real(pos) ==
  IF pos[1] <= Len(Lists!Dummy) THEN <<Lists!Dummy[pos[1]], pos[2]>>
                                ELSE <<Len(list) + 1, 0>>

\* The receiver has what a reader of list.m3u8 would have there.
ReceiverReading == Reached(Real(r_pos), r_ents)

ListInv ==
  /\ list \in Seq(Lines)
  /\ SenderReading
  /\ ReceiverReading
  /\ r_pos \in Positions /\ 1 <= r_pos[1] /\ r_pos[1] <= Len(Lists!Dummy) + 1
  /\ s_eof => s_pos[1] > Len(list) \/ \E n \in DOMAIN list : list[n].kind = "badinf"
  /\ r_eof => r_pos[1] > Len(Lists!Dummy)

\* Readings and places are about the list only.
LEMMA SameList ==
  ASSUME list' = list
  PROVE  /\ SenderReading' <=> Reached(s_pos', s_ents')
         /\ ReceiverReading' <=> Reached(Real(r_pos'), r_ents')
         /\ Lists!Dummy' = Lists!Dummy
<1>1. \A N, p, e : Reading(p, e, N)' <=> Reading(p, e, N)
  BY DEF Reading, After, Passed, Lists!IsComment, Entry
<1>2. Lists!Dummy' = Lists!Dummy
  BY DEF Lists!Dummy, Lists!Kept, Lists!Inf
<1>3. Real(r_pos)' = Real(r_pos')
  BY <1>2 DEF Real
<1>4. SenderReading' <=> Reached(s_pos', s_ents')
  BY <1>1 DEF SenderReading, Reached
<1>5. ReceiverReading' <=> Reached(Real(r_pos'), r_ents')
  BY <1>1, <1>3 DEF ReceiverReading, Reached
<1> QED BY <1>2, <1>4, <1>5

\* Both readers begin at the first line that they read.
LEMMA ListInit ==
  ASSUME InfFits, Lists!Init
  PROVE  ListInv
<1>1. /\ s_pos = <<1, 0>> /\ s_ents = <<>> /\ s_eof = FALSE
      /\ r_pos = <<1, 0>> /\ r_ents = <<>> /\ r_eof = FALSE
  BY DEF Lists!Init
<1>2. list \in Seq(Lines)
  <2>1. LIST_LINES \in Nat /\ list \in Lists!BoundedSeq(Lines, LIST_LINES)
    BY PartsAssumption DEF Lists!Init, Lists!PlaylistAssumption
  <2> QED BY <2>1, SeqDef DEF Lists!BoundedSeq, Lists!SeqOf
<1> DEFINE d == Lists!Dummy
<1>3. Gaps(d, Len(list))
  BY <1>2, DummyGaps
<1> HIDE DEF d, Chunks
<1>4. Reached(<<1, 0>>, <<>>)
  <2> DEFINE p == [k \in 0..0 |-> <<1, 0>>]
             e == [k \in 0..0 |-> <<>>]
  <2>1. Reading(p, e, 0) /\ p[0] = <<1, 0>> /\ e[0] = <<>>
    BY DEF Reading, Positions
  <2> HIDE DEF p, e
  <2> QED BY <2>1 DEF Reached
<1>5. SenderReading
  BY <1>1, <1>4 DEF SenderReading
<1>6. /\ Len(d) \in Nat /\ Len(list) \in Nat
      /\ \A m \in 1..Len(d) : d[m] \in Nat
  BY <1>2, <1>3 DEF Gaps
<1> DEFINE b == Upper(d, 1, Len(list))
<1>7. b \in Nat /\ 1 <= b /\ b <= Len(list) + 1 /\ Skipped(1, b)
  <2>1. b \in Nat
    BY <1>6 DEF Upper
  <2>2. /\ Lower(d, 0) < Upper(d, 0 + 1, Len(list))
        /\ Upper(d, 0 + 1, Len(list)) <= Len(list) + 1
        /\ \A x \in (Lower(d, 0) + 1)..(Upper(d, 0 + 1, Len(list)) - 1) : Lists!Inf(x)
    BY <1>3, <1>6 DEF Gaps
  <2>3. Lower(d, 0) = 0
    BY DEF Lower
  <2> HIDE DEF b
  <2>4. 1 <= b /\ b <= Len(list) + 1 /\ \A x \in 1..(b - 1) : Lists!Inf(x)
    BY <2>1, <2>2, <2>3 DEF b
  <2> QED BY <2>1, <2>4 DEF Skipped
<1>8. Real(r_pos) = <<b, 0>>
  BY <1>1 DEF Real, Upper, d
<1> HIDE DEF b
<1>9. Reached(<<b, 0>>, <<>>)
  <2>1. 1 \in Nat \ {0}
    OBVIOUS
  <2> QED BY <1>2, <1>4, <1>7, <2>1, ReachedSkips
<1>10. ReceiverReading
  BY <1>1, <1>8, <1>9 DEF ReceiverReading
<1>11. r_pos \in Positions /\ 1 <= r_pos[1] /\ r_pos[1] <= Len(d) + 1
  BY <1>1, <1>6 DEF Positions
<1> QED BY <1>1, <1>2, <1>5, <1>10, <1>11 DEF ListInv, d

\* The sender reads the next chunk.
LEMMA SenderReadsKeeps ==
  ASSUME ListInv, Lists!SenderReads
  PROVE  ListInv'
<1> DEFINE c == Lists!Chunk(Lists!List, s_pos)
<1>1. /\ ~s_eof /\ ~Lists!AtEof(Lists!List, s_pos)
      /\ s_pos' = Lists!After(Lists!List, s_pos)
      /\ s_eof' = Lists!Starts(c, "badinf")
      /\ s_ents' = IF Lists!IsComment(c) THEN s_ents ELSE Append(s_ents, c)
      /\ list' = list /\ r_pos' = r_pos /\ r_ents' = r_ents /\ r_eof' = r_eof
  BY DEF Lists!SenderReads, Lists!receiver
<1>2. list \in Seq(Lines) /\ Len(list) \in Nat /\ DOMAIN list = 1..Len(list)
  BY DEF ListInv
<1>3. s_pos \in Positions /\ s_pos[1] \in Nat \ {0}
  <2>1. PICK N \in Nat : \E p, e : Reading(p, e, N) /\ p[N] = s_pos /\ e[N] = s_ents
    BY DEF ListInv, SenderReading, Reached
  <2>2. PICK p, e : Reading(p, e, N) /\ p[N] = s_pos /\ e[N] = s_ents
    BY <2>1
  <2>3. N \in 0..N /\ p[N][1] \in Nat \ {0}
    BY <1>2, <2>2, ReadingBegins
  <2> QED BY <2>2, <2>3 DEF Reading
<1>4. s_pos[1] \in 1..Len(list)
  <2>1. Len(Lists!List) = Len(list)
    BY <1>2 DEF Lists!List
  <2> QED BY <1>1, <1>2, <1>3, <2>1 DEF Lists!AtEof
<1>5. Lists!List[s_pos[1]] = s_pos[1]
  BY <1>2, <1>4 DEF Lists!List
<1>6. c = Entry(s_pos)
  BY <1>5 DEF Lists!Chunk, Entry
<1>7. s_pos' = After(s_pos)
  BY <1>1, <1>5 DEF Lists!After, After
<1>8. s_ents' = IF Passed(s_pos) THEN s_ents ELSE Append(s_ents, Entry(s_pos))
  BY <1>1, <1>6 DEF Passed
<1>9. Reached(s_pos', s_ents')
  <2>1. Reached(s_pos, s_ents) /\ s_pos[1] <= Len(list)
    BY <1>2, <1>4 DEF ListInv, SenderReading
  <2> QED BY <1>2, <1>7, <1>8, <2>1, ReachedGoesOn
<1>10. SenderReading'
  BY <1>1, <1>9, SameList
<1>11. ReceiverReading'
  <2>1. Reached(Real(r_pos), r_ents)
    BY DEF ListInv, ReceiverReading
  <2> QED BY <1>1, <2>1, SameList
<1>12. s_eof' => \E n \in DOMAIN list' : list'[n].kind = "badinf"
  <2>1. s_eof' => list[c.line].kind = "badinf"
    BY <1>1 DEF Lists!Starts
  <2>2. c.line = s_pos[1]
    BY <1>6 DEF Entry
  <2> QED BY <1>1, <1>2, <1>4, <2>1, <2>2
<1> QED BY <1>1, <1>10, <1>11, <1>12, SameList DEF ListInv

\* The receiver reads the next chunk, and is past the lines the dummy list leaves
\* out.
LEMMA ReceiverReadsKeeps ==
  ASSUME InfFits, ListInv, Lists!ReceiverReads
  PROVE  ListInv'
<1> DEFINE d == Lists!Dummy
           c == Lists!Chunk(d, r_pos)
           m == r_pos[1]
           o == r_pos[2]
           n == d[m]
<1>1. /\ ~r_eof /\ ~Lists!AtEof(d, r_pos)
      /\ r_pos' = Lists!After(d, r_pos)
      /\ r_ents' = IF Lists!DummyIsComment(c) THEN r_ents ELSE Append(r_ents, c)
      /\ list' = list /\ r_eof' = r_eof /\ s_pos' = s_pos /\ s_ents' = s_ents /\ s_eof' = s_eof
  BY DEF Lists!ReceiverReads, Lists!sender
<1>2. list \in Seq(Lines) /\ Len(list) \in Nat
  BY DEF ListInv
<1>3. Gaps(d, Len(list))
  BY <1>2, DummyGaps
<1> HIDE DEF d
<1>4. Len(d) \in Nat /\ \A i \in 1..Len(d) : d[i] \in Nat
  BY <1>3 DEF Gaps
<1>5. m \in 1..Len(d) /\ o \in Nat /\ r_pos = <<m, o>>
  <2>1. r_pos \in Positions /\ 1 <= r_pos[1]
    BY DEF ListInv
  <2>2. m \in Nat /\ o \in Nat /\ r_pos = <<m, o>>
    BY <2>1 DEF Positions
  <2>3. m <= Len(d)
    BY <1>1, <1>4, <2>2 DEF Lists!AtEof
  <2> QED BY <1>4, <2>1, <2>2, <2>3
<1>6. n \in Nat /\ n <= Len(list)
  <2>1. n \in Nat
    BY <1>4, <1>5
  <2>2. n < Upper(d, m + 1, Len(list)) /\ Upper(d, m + 1, Len(list)) <= Len(list) + 1
    <3>1. m \in 0..Len(d) /\ m # 0
      BY <1>4, <1>5
    <3> QED BY <1>3, <3>1 DEF Gaps, Lower
  <2>3. Upper(d, m + 1, Len(list)) \in Nat
    BY <1>2, <1>4, <1>5 DEF Upper
  <2> QED BY <1>2, <2>1, <2>2, <2>3
<1>7. Real(r_pos) = <<n, o>>
  BY <1>4, <1>5 DEF Real, d
<1>8. Reached(<<n, o>>, r_ents)
  BY <1>7 DEF ListInv, ReceiverReading
<1>9. r_ents' = IF Passed(<<n, o>>) THEN r_ents ELSE Append(r_ents, Entry(<<n, o>>))
  <2>1. c = Entry(<<n, o>>)
    BY DEF Lists!Chunk, Entry
  <2>2. Lists!DummyIsComment(c) <=> Passed(<<n, o>>)
    BY <2>1 DEF Lists!DummyIsComment, Lists!IsComment, Passed
  <2> QED BY <1>1, <2>1, <2>2
<1> HIDE DEF c, n
<1>10. Reached(After(<<n, o>>), r_ents')
  <2>1. <<n, o>>[1] <= Len(list)
    BY <1>6
  <2> QED BY <1>2, <1>8, <1>9, <2>1, ReachedGoesOn
<1>11. BUF \in Nat /\ BUF >= 2
  BY PartsAssumption DEF Lists!PlaylistAssumption
<1> DEFINE end == o + BUF - 1
<1>12. SenderReading' /\ Lists!Dummy' = d
  <2>1. Reached(s_pos, s_ents)
    BY DEF ListInv, SenderReading
  <2> QED BY <1>1, <2>1, SameList DEF d
<1>13. ASSUME Reached(Real(r_pos'), r_ents'),
              r_pos' \in Positions, 1 <= r_pos'[1], r_pos'[1] <= Len(d) + 1
       PROVE  ListInv'
  <2>1. ReceiverReading'
    BY <1>1, <1>13, SameList
  <2>2. ~r_eof'
    BY <1>1
  <2>3. s_eof' => s_pos'[1] > Len(list') \/ \E i \in DOMAIN list' : list'[i].kind = "badinf"
    BY <1>1 DEF ListInv
  <2> QED BY <1>1, <1>2, <1>12, <1>13, <2>1, <2>2, <2>3 DEF ListInv
<1>14. CASE end >= list[n].len
  <2> DEFINE b == Upper(d, m + 1, Len(list))
  <2>1. r_pos' = <<m + 1, 0>> /\ After(<<n, o>>) = <<n + 1, 0>>
    BY <1>1, <1>5, <1>14 DEF Lists!After, After, n
  <2>2. b \in Nat /\ n + 1 <= b /\ b <= Len(list) + 1 /\ n + 1 \in Nat \ {0}
        /\ Skipped(n + 1, b)
    <3>1. m \in 0..Len(d) /\ m # 0 /\ Lower(d, m) = n
      BY <1>4, <1>5 DEF Lower, n
    <3>2. b \in Nat
      BY <1>2, <1>4, <1>5 DEF Upper
    <3> HIDE DEF b
    <3>3. /\ n < b /\ b <= Len(list) + 1
          /\ \A x \in (n + 1)..(b - 1) : Lists!Inf(x)
      BY <1>3, <3>1 DEF Gaps, b
    <3> QED BY <1>6, <3>2, <3>3 DEF Skipped
  <2>3. Real(r_pos') = <<b, 0>>
    BY <2>1 DEF Real, Upper, d
  <2> HIDE DEF b
  <2>4. Reached(<<b, 0>>, r_ents')
    BY <1>2, <1>10, <2>1, <2>2, ReachedSkips
  <2>5. r_pos' \in Positions /\ 1 <= r_pos'[1] /\ r_pos'[1] <= Len(d) + 1
    BY <1>4, <1>5, <2>1 DEF Positions
  <2> QED BY <1>13, <2>3, <2>4, <2>5
<1>15. CASE ~(end >= list[n].len)
  <2>1. r_pos' = <<m, end>> /\ After(<<n, o>>) = <<n, end>> /\ end \in Nat
    BY <1>1, <1>5, <1>11, <1>15 DEF Lists!After, After, n
  <2> HIDE DEF end
  <2>2. Real(r_pos') = <<n, end>>
    BY <1>4, <1>5, <2>1 DEF Real, d, n
  <2>3. r_pos' \in Positions /\ 1 <= r_pos'[1] /\ r_pos'[1] <= Len(d) + 1
    BY <1>4, <1>5, <2>1 DEF Positions
  <2> QED BY <1>10, <1>13, <2>1, <2>2, <2>3
<1> QED BY <1>14, <1>15

\* Every step keeps the invariant.
LEMMA ListStep ==
  ASSUME InfFits, ListInv, [Lists!Next]_(Lists!vars)
  PROVE  ListInv'
<1>1. CASE Lists!SenderReads
  BY <1>1, SenderReadsKeeps
<1>2. CASE Lists!ReceiverReads
  BY <1>2, ReceiverReadsKeeps
<1>3. ASSUME list' = list, s_pos' = s_pos, s_ents' = s_ents, r_pos' = r_pos, r_ents' = r_ents,
             s_eof' => s_pos[1] > Len(list) \/ \E n \in DOMAIN list : list[n].kind = "badinf",
             r_eof' => r_pos[1] > Len(Lists!Dummy)
      PROVE  ListInv'
  <2>1. Reached(s_pos, s_ents) /\ Reached(Real(r_pos), r_ents)
    BY DEF ListInv, SenderReading, ReceiverReading
  <2>2. SenderReading' /\ ReceiverReading' /\ Lists!Dummy' = Lists!Dummy
    BY <1>3, <2>1, SameList
  <2> QED BY <1>3, <2>2 DEF ListInv
<1>4. CASE Lists!SenderAtEof
  <2>1. s_pos[1] > Len(list)
    <3>1. list \in Seq(Lines)
      BY DEF ListInv
    <3>2. Len(Lists!List) = Len(list)
      BY <3>1 DEF Lists!List
    <3> QED BY <1>4, <3>2 DEF Lists!SenderAtEof, Lists!AtEof
  <2> QED BY <1>3, <1>4, <2>1 DEF ListInv, Lists!SenderAtEof, Lists!receiver
<1>5. CASE Lists!ReceiverAtEof
  BY <1>3, <1>5 DEF ListInv, Lists!ReceiverAtEof, Lists!AtEof, Lists!sender
<1>6. CASE UNCHANGED Lists!vars
  BY <1>3, <1>6 DEF ListInv, Lists!vars, Lists!sender, Lists!receiver
<1> QED BY <1>1, <1>2, <1>4, <1>5, <1>6 DEF Lists!Next

\* The inductive invariant of the two readers: what either has read is a
\* reading of list.m3u8.
THEOREM ListInvariance == InfFits => (Lists!Spec => []ListInv)
<1> SUFFICES ASSUME InfFits PROVE Lists!Spec => []ListInv
  OBVIOUS
<1>1. Lists!Init => ListInv
  BY ListInit
<1>2. ListInv /\ [Lists!Next]_(Lists!vars) => ListInv'
  BY ListStep
<1> QED BY <1>1, <1>2, PTL DEF Lists!Spec

\* Sender and receiver number the segments alike for any lines, buffer size and
\* interleaving, when the lines with a duration fit the buffer.
THEOREM NumbersAreTheSame == InfFits => (Lists!Spec => []SameNumbering)
<1> SUFFICES ASSUME InfFits PROVE Lists!Spec => []SameNumbering
  OBVIOUS
<1>1. ListInv => SameNumbering
  <2> SUFFICES ASSUME ListInv PROVE SameNumbering
    OBVIOUS
  <2>1. list \in Seq(Lines) /\ Len(list) \in Nat
    BY DEF ListInv
  <2>2. PICK N \in Nat : \E p, e : Reading(p, e, N) /\ p[N] = s_pos /\ e[N] = s_ents
    BY DEF ListInv, SenderReading, Reached
  <2>3. PICK p, e : Reading(p, e, N) /\ p[N] = s_pos /\ e[N] = s_ents
    BY <2>2
  <2>4. PICK M \in Nat : \E q, f : Reading(q, f, M) /\ q[M] = Real(r_pos) /\ f[M] = r_ents
    BY DEF ListInv, ReceiverReading, Reached
  <2>5. PICK q, f : Reading(q, f, M) /\ q[M] = Real(r_pos) /\ f[M] = r_ents
    BY <2>4
  <2>6. CASE N <= M
    <3>1. \A k \in 0..N : p[k] = q[k] /\ e[k] = f[k]
      BY <2>3, <2>5, <2>6, ReadingsAgree
    <3>2. N \in 0..M /\ e[N] = f[N] /\ p[N] = q[N]
      BY <2>6, <3>1
    <3>3. Len(f[N]) <= Len(f[M]) /\ \A i \in DOMAIN f[N] : f[M][i] = f[N][i]
      BY <2>1, <2>5, <3>2, ReadingGrows
    <3>4. Len(s_ents) <= Len(r_ents) /\ \A i \in DOMAIN s_ents : s_ents[i] = r_ents[i]
      BY <2>3, <2>5, <3>2, <3>3
    <3>5. ASSUME s_eof, \A n \in DOMAIN list : list[n].kind # "badinf"
          PROVE  s_ents = r_ents
      <4>1. p[N][1] > Len(list)
        BY <2>3, <3>5 DEF ListInv
      <4>2. M = N
        <5>1. ASSUME N < M PROVE FALSE
          <6>1. N \in 0..(M - 1)
            BY <5>1
          <6>2. q[N][1] <= Len(list) /\ q[N] \in Positions
            BY <2>5, <3>2, <6>1 DEF Reading
          <6>3. q[N][1] \in Nat
            BY <2>1, <6>2, PositionFacts
          <6> QED BY <2>1, <3>2, <4>1, <6>2, <6>3
        <5> QED BY <2>6, <5>1
      <4> QED BY <2>3, <2>5, <3>2, <4>2
    <3> QED BY <3>4, <3>5 DEF SameNumbering, Lists!SameNumbering
  <2>7. CASE ~(N <= M)
    <3>0. M <= N
      BY <2>7
    <3>1. \A k \in 0..M : q[k] = p[k] /\ f[k] = e[k]
      BY <2>3, <2>5, <3>0, ReadingsAgree
    <3>2. M \in 0..N /\ M \in 0..(N - 1) /\ e[M] = f[M] /\ p[M] = q[M]
      BY <2>7, <3>1
    <3>3. Len(e[M]) <= Len(e[N]) /\ \A i \in DOMAIN e[M] : e[N][i] = e[M][i]
      BY <2>1, <2>3, <3>2, ReadingGrows
    <3>4. \A i \in DOMAIN r_ents : s_ents[i] = r_ents[i]
      BY <2>3, <2>5, <3>2, <3>3
    <3>5. ~r_eof
      <4>1. p[M][1] <= Len(list)
        BY <2>3, <3>2 DEF Reading
      <4> SUFFICES ASSUME r_eof PROVE FALSE
        OBVIOUS
      <4>2. Real(r_pos) = <<Len(list) + 1, 0>>
        <5>1. Gaps(Lists!Dummy, Len(list))
          BY <2>1, DummyGaps
        <5>2. Len(Lists!Dummy) \in Nat
          BY <5>1 DEF Gaps
        <5>3. r_pos[1] > Len(Lists!Dummy) /\ r_pos[1] \in Nat
          BY <2>1, PositionFacts DEF ListInv
        <5> QED BY <5>2, <5>3 DEF Real
      <4> QED BY <2>1, <2>5, <3>2, <4>1, <4>2
    <3> QED BY <3>4, <3>5 DEF SameNumbering, Lists!SameNumbering
  <2> QED BY <2>6, <2>7
<1>2. Lists!Spec => []ListInv
  BY ListInvariance
<1> QED BY <1>1, <1>2, PTL

-----------------------------------------------------------------------------
(* Playlist: durations.                                                    *)

\* The last duration before line l is that of line d, or there is none.
Latest(d, l) ==
  /\ d \in Nat
  /\ d # 0 => d < l /\ list[d].kind = "extinf"
  /\ \A n \in 1..(l - 1) : list[n].kind = "extinf" => n <= d

\* A line that the sender is inside of is not one with a duration.
DurationInv ==
  /\ list \in Seq(Lines)
  /\ s_pos \in Positions /\ 1 <= s_pos[1] /\ s_pos[1] <= Len(list) + 1
  /\ s_pos[2] # 0 => ~Lists!Inf(s_pos[1])
  /\ Latest(s_dur, s_pos[1])
  /\ s_ents \in Seq(Chunks) /\ s_durs \in Seq(Nat) /\ Len(s_durs) = Len(s_ents)
  /\ \A i \in DOMAIN s_ents : Latest(s_durs[i], s_ents[i].line)

\* The last duration is about the list only.
LEMMA SameLatest ==
  ASSUME list' = list
  PROVE  \A d, l : Latest(d, l)' <=> Latest(d, l)
BY DEF Latest

\* Appending to numbers.
LEMMA AppendNat ==
  ASSUME NEW ds \in Seq(Nat), NEW d \in Nat
  PROVE  /\ Append(ds, d) \in Seq(Nat) /\ Len(Append(ds, d)) = Len(ds) + 1
         /\ \A i \in 1..Len(ds) : Append(ds, d)[i] = ds[i]
         /\ Append(ds, d)[Len(ds) + 1] = d
OBVIOUS

\* An entry takes the duration that was parsed last.
LEMMA EntryKeeps ==
  ASSUME NEW es \in Seq(Chunks), NEW ds \in Seq(Nat), Len(ds) = Len(es),
         \A i \in DOMAIN es : Latest(ds[i], es[i].line),
         NEW c \in Chunks, NEW d \in Nat, Latest(d, c.line)
  PROVE  /\ Append(es, c) \in Seq(Chunks) /\ Append(ds, d) \in Seq(Nat)
         /\ Len(Append(ds, d)) = Len(Append(es, c))
         /\ \A i \in DOMAIN Append(es, c) : Latest(Append(ds, d)[i], Append(es, c)[i].line)
<1> HIDE DEF Chunks
<1>1. /\ Append(es, c) \in Seq(Chunks) /\ Len(Append(es, c)) = Len(es) + 1
      /\ \A i \in 1..Len(es) : Append(es, c)[i] = es[i]
      /\ Append(es, c)[Len(es) + 1] = c
      /\ Len(es) \in Nat /\ DOMAIN es = 1..Len(es)
      /\ DOMAIN Append(es, c) = 1..(Len(es) + 1)
  BY AppendProperties, LenProperties
<1>2. /\ Append(ds, d) \in Seq(Nat) /\ Len(Append(ds, d)) = Len(ds) + 1
      /\ \A i \in 1..Len(ds) : Append(ds, d)[i] = ds[i]
      /\ Append(ds, d)[Len(ds) + 1] = d
  BY AppendNat
<1>3. ASSUME NEW i \in 1..(Len(es) + 1)
      PROVE  Latest(Append(ds, d)[i], Append(es, c)[i].line)
  <2>1. CASE i = Len(es) + 1
    BY <1>1, <1>2, <2>1
  <2>2. CASE i # Len(es) + 1
    <3>1. i \in 1..Len(es)
      BY <1>1, <2>2
    <3> QED BY <1>1, <1>2, <3>1
  <2> QED BY <2>1, <2>2
<1> QED BY <1>1, <1>2, <1>3

\* Before the first line there is no duration.
LEMMA DurationInit ==
  ASSUME Lists!Init
  PROVE  DurationInv
<1>1. s_pos = <<1, 0>> /\ s_ents = <<>> /\ s_durs = <<>> /\ s_dur = 0
  BY DEF Lists!Init
<1>2. list \in Seq(Lines)
  <2>1. LIST_LINES \in Nat /\ list \in Lists!BoundedSeq(Lines, LIST_LINES)
    BY PartsAssumption DEF Lists!Init, Lists!PlaylistAssumption
  <2> QED BY <2>1, SeqDef DEF Lists!BoundedSeq, Lists!SeqOf
<1> HIDE DEF Chunks
<1>3. s_ents \in Seq(Chunks) /\ s_durs \in Seq(Nat) /\ Len(s_durs) = Len(s_ents) /\ DOMAIN s_ents = {}
  BY <1>1
<1>4. s_pos \in Positions /\ s_pos[1] = 1 /\ s_pos[2] = 0 /\ 1 <= Len(list) + 1
  BY <1>1, <1>2 DEF Positions
<1>5. Latest(s_dur, s_pos[1])
  BY <1>1, <1>4 DEF Latest
<1> QED BY <1>2, <1>3, <1>4, <1>5 DEF DurationInv

\* The duration parsed last is the last one before the place of the sender.
LEMMA DurationReads ==
  ASSUME InfFits, DurationInv, Lists!SenderReads
  PROVE  DurationInv'
<1> DEFINE c == Lists!Chunk(Lists!List, s_pos)
           l == s_pos[1]
           o == s_pos[2]
<1>1. /\ ~Lists!AtEof(Lists!List, s_pos)
      /\ s_pos' = Lists!After(Lists!List, s_pos)
      /\ s_dur' = Lists!Parsed(c)
      /\ \/ Lists!IsComment(c) /\ s_ents' = s_ents /\ s_durs' = s_durs
         \/ ~Lists!IsComment(c) /\ s_ents' = Append(s_ents, c) /\ s_durs' = Append(s_durs, s_dur)
      /\ list' = list
  BY DEF Lists!SenderReads
<1>2. /\ list \in Seq(Lines) /\ Len(list) \in Nat /\ DOMAIN list = 1..Len(list)
      /\ s_pos \in Positions
  BY DEF DurationInv
<1>3. l \in 1..Len(list) /\ o \in Nat
  <2>1. Len(Lists!List) = Len(list)
    BY <1>2 DEF Lists!List
  <2> QED BY <1>1, <1>2, <2>1, PositionFacts DEF Lists!AtEof, DurationInv
<1>4. Lists!List[l] = l
  BY <1>2, <1>3 DEF Lists!List
<1>5. c = Entry(s_pos) /\ c \in Chunks /\ c.line = l /\ c.offs = o
  BY <1>2, <1>4, PositionFacts DEF Lists!Chunk, Entry
<1>6. s_pos' = IF o + BUF - 1 >= list[l].len THEN <<l + 1, 0>> ELSE <<l, o + BUF - 1>>
  BY <1>1, <1>4 DEF Lists!After
<1>7. /\ BUF \in Nat /\ BUF >= 2 /\ list[l].len \in Nat
      /\ Lists!Inf(l) => list[l].len <= BUF - 1
  <2>1. list[l] \in Lines
    BY <1>2, <1>3
  <2> QED BY <2>1, PartsAssumption DEF InfFits, Lists!Inf, Lists!PlaylistAssumption
<1>8. /\ s_dur' = IF o = 0 /\ list[l].kind = "extinf" THEN l ELSE s_dur
      /\ ~Lists!IsComment(c) => ~(o = 0 /\ list[l].kind = "extinf")
  BY <1>1, <1>5 DEF Lists!Parsed, Lists!Starts, Lists!IsComment
<1>9. Latest(s_dur, l) /\ (o # 0 => ~Lists!Inf(l))
  BY DEF DurationInv
<1> HIDE DEF c, l, o, Chunks
<1>10. s_pos' \in Positions /\ 1 <= s_pos'[1] /\ s_pos'[1] <= Len(list) + 1
  BY <1>2, <1>3, <1>6, <1>7 DEF Positions
<1>11. s_pos'[2] # 0 => ~Lists!Inf(s_pos'[1])
  BY <1>3, <1>6, <1>7
<1>12. Latest(s_dur', s_pos'[1])
  <2>1. s_dur \in Nat
    BY <1>9 DEF Latest
  <2>2. CASE list[l].kind = "extinf"
    <3>1. o = 0 /\ s_pos'[1] = l + 1 /\ s_dur' = l
      BY <1>3, <1>6, <1>7, <1>8, <1>9, <2>2 DEF Lists!Inf
    <3> QED BY <1>3, <2>2, <3>1 DEF Latest
  <2>3. CASE list[l].kind # "extinf"
    <3>1. s_dur' = s_dur /\ s_pos'[1] \in {l, l + 1}
      BY <1>6, <1>8, <2>3
    <3>2. Latest(s_dur, l + 1)
      BY <1>3, <1>9, <2>3 DEF Latest
    <3> QED BY <1>9, <3>1, <3>2
  <2> QED BY <2>2, <2>3
<1>13. /\ s_ents' \in Seq(Chunks) /\ s_durs' \in Seq(Nat) /\ Len(s_durs') = Len(s_ents')
       /\ \A i \in DOMAIN s_ents' : Latest(s_durs'[i], s_ents'[i].line)
  <2>1. /\ s_ents \in Seq(Chunks) /\ s_durs \in Seq(Nat) /\ Len(s_durs) = Len(s_ents)
        /\ \A i \in DOMAIN s_ents : Latest(s_durs[i], s_ents[i].line)
    BY DEF DurationInv
  <2>2. s_dur \in Nat /\ Latest(s_dur, c.line)
    BY <1>5, <1>9 DEF Latest
  <2>3. CASE s_ents' = s_ents /\ s_durs' = s_durs
    BY <2>1, <2>3
  <2>4. CASE s_ents' = Append(s_ents, c) /\ s_durs' = Append(s_durs, s_dur)
    BY <1>5, <2>1, <2>2, <2>4, EntryKeeps
  <2> QED BY <1>1, <2>3, <2>4
<1>14. \A d, k : Latest(d, k)' <=> Latest(d, k)
  BY <1>1, SameLatest
<1>15. Latest(s_dur, s_pos[1])'
  BY <1>12, <1>14
<1>16. Lists!Inf(s_pos[1])' <=> Lists!Inf(s_pos'[1])
  BY <1>1 DEF Lists!Inf
<1>17. \A i \in DOMAIN s_ents' : Latest(s_durs[i], s_ents[i].line)'
  BY <1>13, <1>14
<1> QED BY <1>1, <1>2, <1>10, <1>11, <1>13, <1>15, <1>16, <1>17 DEF DurationInv

\* A segment is paced by the last duration before its name, for any lines of
\* which those with a duration fit the buffer.
THEOREM DurationsAreOwn == InfFits => (Lists!Spec => []OwnDuration)
<1> SUFFICES ASSUME InfFits PROVE Lists!Spec => []OwnDuration
  OBVIOUS
<1>1. Lists!Init => DurationInv
  BY DurationInit
<1>2. DurationInv /\ [Lists!Next]_(Lists!vars) => DurationInv'
  <2> SUFFICES ASSUME DurationInv, [Lists!Next]_(Lists!vars) PROVE DurationInv'
    OBVIOUS
  <2>1. CASE Lists!SenderReads
    BY <2>1, DurationReads
  <2>2. CASE UNCHANGED <<list, s_pos, s_ents, s_durs, s_dur>>
    <3>1. Latest(s_dur, s_pos[1])'
      BY <2>2, SameLatest DEF DurationInv, Latest
    <3>2. \A i \in DOMAIN s_ents' : Latest(s_durs[i], s_ents[i].line)'
      BY <2>2 DEF DurationInv, Latest
    <3> QED BY <2>2, <3>1, <3>2 DEF DurationInv, Lists!Inf
  <2> QED BY <2>1, <2>2 DEF Lists!Next, Lists!SenderAtEof, Lists!ReceiverReads, Lists!ReceiverAtEof,
                            Lists!vars, Lists!sender
<1>3. DurationInv => OwnDuration
  <2> SUFFICES ASSUME DurationInv, NEW i \in DOMAIN s_ents
               PROVE  LET given == {n \in 1..(s_ents[i].line - 1) : list[n].kind = "extinf"}
                      IN  s_durs[i] = IF given = {} THEN 0 ELSE Lists!Max(given)
    BY DEF OwnDuration, Lists!OwnDuration
  <2> DEFINE l == s_ents[i].line
             d == s_durs[i]
             given == {n \in 1..(l - 1) : list[n].kind = "extinf"}
  <2>1. Latest(d, l)
    BY DEF DurationInv
  <2>2. l \in Nat
    <3>1. s_ents[i] \in Chunks
      BY DEF DurationInv
    <3> QED BY <3>1 DEF Chunks
  <2> HIDE DEF l, d
  <2>3. CASE d = 0
    <3>1. given = {}
      BY <2>1, <2>2, <2>3 DEF Latest
    <3> QED BY <2>3, <3>1 DEF l, d
  <2>4. CASE d # 0
    <3>1. d \in given /\ \A y \in given : d >= y
      BY <2>1, <2>2, <2>4 DEF Latest
    <3>2. \A x \in given : x \in Nat
      BY <2>2
    <3> HIDE DEF given
    <3>3. Lists!Max(given) = d
      <4>1. \E x \in given : \A y \in given : x >= y
        BY <3>1
      <4>2. Lists!Max(given) \in given /\ \A y \in given : Lists!Max(given) >= y
        BY <4>1 DEF Lists!Max
      <4> QED BY <3>1, <3>2, <4>2
    <3>4. given # {}
      BY <3>1
    <3> QED BY <3>3, <3>4 DEF given, l, d
  <2> QED BY <2>3, <2>4
<1> QED BY <1>1, <1>2, <1>3, PTL DEF Lists!Spec
=============================================================================
