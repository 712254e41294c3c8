-------------------------- MODULE CodeBlockProofs ---------------------------
(***************************************************************************)
(* The hash table of a code block, for every size of the block and every   *)
(* set of identifiers: a symbol that is in the table is found, so that the *)
(* array holds each symbol once, and the block is the set of symbols that  *)
(* the receiver takes it for.                                              *)
(***************************************************************************)
EXTENDS Parts, FiniteSetTheorems, TLAPS

-----------------------------------------------------------------------------
(* Sizes and paths.                                                        *)

\* The block has room for its source symbols, the table has entries, and a
\* symbol has its home in it.
LEMMA Sizes ==
  ASSUME Block!CodeBlockAssumption
  PROVE  /\ BLOCK_K \in Nat \ {0} /\ Block!n_esi_max \in Nat /\ BLOCK_K <= Block!n_esi_max
         /\ Block!hash_esi_sz \in Nat \ {0}
         /\ \A id \in Ids : id \in Nat /\ id # Block!NoSymbol /\ Block!Home(id) \in Block!Entries
<1> USE CodingAssumption DEF Block!CodeBlockAssumption
<1>1. Block!n_esi_max \in Nat /\ BLOCK_K <= Block!n_esi_max
  BY DEF Block!n_esi_max, Block!Capacity
<1>2. Block!hash_esi_sz \in Nat \ {0}
  <2>1. Block!n_esi_max >= 1
    BY <1>1
  <2>2. (Block!n_esi_max * 5) \div 2 \in Nat /\ (Block!n_esi_max * 5) \div 2 >= 1
    BY <1>1, <2>1
  <2> QED BY <2>2 DEF Block!hash_esi_sz
<1>3. ASSUME NEW id \in Ids
      PROVE  id \in Nat /\ id # Block!NoSymbol /\ Block!Home(id) \in Block!Entries
  <2>1. id \in Nat /\ id # Block!NoSymbol
    BY DEF Block!NoSymbol
  <2>2. id * H_MULT \in Nat
    BY <2>1
  <2>3. \A n \in Nat : n % Block!hash_esi_sz \in 0..(Block!hash_esi_sz - 1)
    BY <1>2
  <2> QED BY <2>1, <2>2, <2>3 DEF Block!Home, Block!Entries
<1> QED BY <1>1, <1>2, <1>3

\* Walking on adds one entry to the path, and of two entries one lies on the
\* path to the other, also when the paths go round the end of the table.
LEMMA Paths ==
  ASSUME Block!CodeBlockAssumption, NEW id \in Ids, NEW h \in Block!Entries
  PROVE  /\ Block!Path(id, h) \subseteq Block!Entries /\ h \in Block!Path(id, h)
         /\ Block!Path(id, Block!Home(id)) = {Block!Home(id)}
         /\ Block!After(h) \in Block!Entries
         /\ Block!Path(id, Block!After(h)) \subseteq Block!Path(id, h) \cup {Block!After(h)}
         /\ \A g \in Block!Entries : g \in Block!Path(id, h) \/ h \in Block!Path(id, g)
<1>1. Block!hash_esi_sz \in Nat \ {0} /\ Block!Home(id) \in Block!Entries
  BY Sizes
<1> DEFINE n == Block!hash_esi_sz
           a == Block!Home(id)
<1>2. n \in Nat \ {0} /\ a \in 0..(n - 1) /\ h \in 0..(n - 1)
  BY <1>1 DEF Block!Entries
<1>3. Block!After(h) = IF h + 1 = n THEN 0 ELSE h + 1
  BY DEF Block!After
<1>4. \A g : Block!Path(id, g) = IF a <= g THEN a..g ELSE (a..(n - 1)) \cup (0..g)
  BY DEF Block!Path
<1>5. Block!Entries = 0..(n - 1)
  BY DEF Block!Entries
<1> HIDE DEF n, a
<1>6. Block!Path(id, h) \subseteq Block!Entries /\ h \in Block!Path(id, h)
  BY <1>2, <1>4, <1>5
<1>7. Block!Path(id, a) = {a}
  BY <1>2, <1>4
<1>8. Block!After(h) \in Block!Entries
  BY <1>2, <1>3, <1>5
<1>9. Block!Path(id, Block!After(h)) \subseteq Block!Path(id, h) \cup {Block!After(h)}
  BY <1>2, <1>3, <1>4
<1>10. \A g \in Block!Entries : g \in Block!Path(id, h) \/ h \in Block!Path(id, g)
  BY <1>2, <1>4, <1>5
<1> QED BY <1>6, <1>7, <1>8, <1>9, <1>10 DEF a

-----------------------------------------------------------------------------
(* The inductive invariant.                                                *)

\* The entries in use.
Used == {h \in Block!Entries : hash_esi[h] # Block!NoSymbol}

\* The table holds the symbols of the array, each in one entry.
Table ==
  /\ \A h \in Used : hash_esi[h] \in Block!Held
  /\ \A id \in Block!Held : \E h \in Used : hash_esi[h] = id
  /\ \A g, h \in Used : hash_esi[g] = hash_esi[h] => g = h

\* The array holds what the counters say.
Array ==
  /\ syms_buf = esi
  /\ IsFiniteSet(Block!Held)
  /\ Cardinality(Block!Held) = Len(esi) /\ Cardinality(Used) = Len(esi)
  /\ Len(esi) <= Block!n_esi_max
  /\ n_src_esi = Cardinality(Block!Held \cap Block!SourceIds(BLOCK_K))

\* The entries the probe loop has left hold other symbols.
Probing ==
  cb_pc = "probe" =>
    /\ sym_id \in Ids /\ Len(esi) < Block!n_esi_max
    /\ \A g \in Block!Path(sym_id, hent) \ {hent} :
         hash_esi[g] \notin {Block!NoSymbol, sym_id}

CodeInv == Block!TypeOK /\ Table /\ Array /\ Block!ProbeFinds /\ Probing

\* The block is empty at the start.
LEMMA CodeInit ==
  ASSUME Block!CodeBlockAssumption, Block!Init
  PROVE  CodeInv
<1>1. BLOCK_K \in Nat \ {0} /\ Block!n_esi_max \in Nat /\ Block!hash_esi_sz \in Nat \ {0}
  BY Sizes
<1>2. 0 \in Block!Entries
  BY <1>1 DEF Block!Entries
<1>3. Block!Held = {} /\ Used = {} /\ Len(esi) = 0
  BY DEF Block!Init, Block!Held, Used
<1>4. IsFiniteSet({}) /\ Cardinality({}) = 0
  BY FS_EmptySet
<1>5. Block!TypeOK
  <2>1. <<>> \in Seq(Ids)
    OBVIOUS
  <2>2. [h \in Block!Entries |-> Block!NoSymbol] \in [Block!Entries -> Ids \cup {Block!NoSymbol}]
    OBVIOUS
  <2> QED BY <1>2, <2>1, <2>2 DEF Block!Init, Block!TypeOK
<1>6. Array
  <2>1. Block!Held \cap Block!SourceIds(BLOCK_K) = {}
    BY <1>3
  <2> QED BY <1>1, <1>3, <1>4, <2>1 DEF Block!Init, Array
<1>7. Table
  BY <1>3 DEF Table
<1>8. Block!ProbeFinds /\ Probing
  BY DEF Block!Init, Block!ProbeFinds, Probing
<1> QED BY <1>5, <1>6, <1>7, <1>8 DEF CodeInv

\* A step that leaves table and array alone keeps what is said of them.
LEMMA BlockKept ==
  ASSUME CodeInv, UNCHANGED <<esi, n_src_esi, hash_esi, syms_buf>>
  PROVE  Table' /\ Array' /\ Block!ProbeFinds'
<1>1. Block!Held' = Block!Held /\ Used' = Used
  BY DEF Block!Held, Used
<1>2. Table'
  BY <1>1 DEF CodeInv, Table
<1>3. Array'
  BY <1>1 DEF CodeInv, Array
<1>4. Block!ProbeFinds'
  BY DEF CodeInv, Block!ProbeFinds
<1> QED BY <1>2, <1>3, <1>4

\* A symbol that is added begins to be looked for at its home.
LEMMA AddSymKeeps ==
  ASSUME Block!CodeBlockAssumption, CodeInv, NEW id \in Ids, Block!AddSym(id)
  PROVE  CodeInv'
<1>1. /\ UNCHANGED <<esi, n_src_esi, hash_esi, syms_buf>>
      /\ cb_pc' = "probe" /\ sym_id' = id /\ hent' = Block!Home(id)
      /\ Len(esi) < Block!n_esi_max
  <2>1. Len(esi) \in Nat /\ Block!n_esi_max \in Nat
    BY Sizes DEF CodeInv, Block!TypeOK
  <2> QED BY <2>1 DEF Block!AddSym, Block!Full
<1>2. Block!Home(id) \in Block!Entries /\ Block!Path(id, Block!Home(id)) = {Block!Home(id)}
  BY Sizes, Paths
<1>3. Block!TypeOK'
  BY <1>1, <1>2 DEF CodeInv, Block!TypeOK
<1>4. Table' /\ Array' /\ Block!ProbeFinds'
  BY <1>1, BlockKept
<1>5. Probing'
  BY <1>1, <1>2 DEF Probing
<1> QED BY <1>3, <1>4, <1>5 DEF CodeInv

\* An entry with another symbol is left.
LEMMA NextSlotKeeps ==
  ASSUME Block!CodeBlockAssumption, CodeInv, Block!NextSlot
  PROVE  CodeInv'
<1>1. /\ UNCHANGED <<esi, n_src_esi, hash_esi, syms_buf, cb_pc, sym_id>>
      /\ cb_pc = "probe" /\ hent' = Block!After(hent) /\ sym_id \in Ids /\ hent \in Block!Entries
      /\ hash_esi[hent] \notin {Block!NoSymbol, sym_id}
  BY DEF Block!NextSlot, CodeInv, Block!TypeOK, Probing
<1>2. /\ Block!After(hent) \in Block!Entries
      /\ Block!Path(sym_id, Block!After(hent)) \subseteq Block!Path(sym_id, hent) \cup {Block!After(hent)}
  BY <1>1, Paths
<1>3. Block!TypeOK'
  BY <1>1, <1>2 DEF CodeInv, Block!TypeOK
<1>4. Table' /\ Array' /\ Block!ProbeFinds'
  BY <1>1, BlockKept
<1>5. Probing'
  <2>1. \A g \in Block!Path(sym_id, Block!After(hent)) \ {Block!After(hent)} :
           hash_esi[g] \notin {Block!NoSymbol, sym_id}
    BY <1>1, <1>2 DEF CodeInv, Probing
  <2> QED BY <1>1, <2>1 DEF CodeInv, Probing
<1> QED BY <1>3, <1>4, <1>5 DEF CodeInv

\* The end of the loop at a duplicate, and the reading of the block.
LEMMA QuietKeeps ==
  ASSUME CodeInv, UNCHANGED <<esi, n_src_esi, hash_esi, syms_buf, sym_id, hent>>,
         cb_pc' \in {"idle", "read"} \/ cb_pc' = cb_pc
  PROVE  CodeInv'
<1>1. Block!TypeOK'
  BY DEF CodeInv, Block!TypeOK
<1>2. Table' /\ Array' /\ Block!ProbeFinds'
  BY BlockKept
<1>3. Probing'
  BY DEF CodeInv, Probing
<1> QED BY <1>1, <1>2, <1>3 DEF CodeInv

\* An empty entry ends the search for good: the symbol is nowhere in the table.
\* Either the empty entry would lie on the path to it, or it on the path that
\* has been walked.
LEMMA EmptyMeansAbsent ==
  ASSUME Block!CodeBlockAssumption, CodeInv, cb_pc = "probe", hash_esi[hent] = Block!NoSymbol
  PROVE  sym_id \notin Block!Held
<1>1. sym_id \in Ids /\ hent \in Block!Entries
  BY DEF CodeInv, Probing, Block!TypeOK
<1> SUFFICES ASSUME sym_id \in Block!Held PROVE FALSE
  OBVIOUS
<1>2. PICK h \in Used : hash_esi[h] = sym_id
  BY DEF CodeInv, Table
<1>3. h \in Block!Entries /\ hash_esi[h] # Block!NoSymbol /\ h # hent
  BY <1>2 DEF Used
<1>4. h \in Block!Path(sym_id, hent) \/ hent \in Block!Path(sym_id, h)
  BY <1>1, <1>3, Paths
<1>5. h \notin Block!Path(sym_id, hent)
  BY <1>2, <1>3 DEF CodeInv, Probing
<1>6. hent \notin Block!Path(sym_id, h)
  BY <1>2, <1>3 DEF CodeInv, Block!ProbeFinds
<1> QED BY <1>4, <1>5, <1>6

\* The symbol is put into the empty entry and at the end of the array.
LEMMA InsertKeeps ==
  ASSUME Block!CodeBlockAssumption, CodeInv, Block!Insert
  PROVE  CodeInv' /\ Block!Held' = Block!Held \cup {sym_id}
<1>1. /\ cb_pc = "probe" /\ hash_esi[hent] = Block!NoSymbol /\ cb_pc' = "idle"
      /\ hash_esi' = [hash_esi EXCEPT ![hent] = sym_id]
      /\ esi' = Append(esi, sym_id) /\ syms_buf' = Append(syms_buf, sym_id)
      /\ n_src_esi' = IF sym_id < BLOCK_K THEN n_src_esi + 1 ELSE n_src_esi
      /\ UNCHANGED <<sym_id, hent>>
  BY DEF Block!Insert, Block!IsSource
<1>2. /\ sym_id \in Ids /\ sym_id \in Nat /\ sym_id # Block!NoSymbol /\ hent \in Block!Entries
      /\ BLOCK_K \in Nat \ {0} /\ Block!n_esi_max \in Nat /\ Block!hash_esi_sz \in Nat \ {0}
      /\ esi \in Seq(Ids) /\ Len(esi) \in Nat /\ Len(esi) < Block!n_esi_max
      /\ hash_esi \in [Block!Entries -> Ids \cup {Block!NoSymbol}]
  BY <1>1, Sizes DEF CodeInv, Block!TypeOK, Probing
<1>3. sym_id \notin Block!Held
  BY <1>1, EmptyMeansAbsent
<1>4. Block!Held' = Block!Held \cup {sym_id}
  <2>1. /\ DOMAIN esi' = DOMAIN esi \cup {Len(esi) + 1}
        /\ \A i \in DOMAIN esi : esi'[i] = esi[i]
        /\ esi'[Len(esi) + 1] = sym_id
    BY <1>1, <1>2
  <2> QED BY <2>1 DEF Block!Held
<1>5. \A h \in Block!Entries : hash_esi'[h] = IF h = hent THEN sym_id ELSE hash_esi[h]
  BY <1>1, <1>2
<1>6. Used' = Used \cup {hent} /\ hent \notin Used
  BY <1>1, <1>2, <1>5 DEF Used
<1>7. Block!TypeOK'
  <2>1. esi' \in Seq(Ids) /\ syms_buf' \in Seq(Ids) /\ n_src_esi' \in Nat
    BY <1>1, <1>2 DEF CodeInv, Block!TypeOK
  <2>2. hash_esi' \in [Block!Entries -> Ids \cup {Block!NoSymbol}]
    BY <1>1, <1>2
  <2> QED BY <1>1, <1>2, <2>1, <2>2 DEF Block!TypeOK
<1>8. Table'
  <2>1. \A h \in Used' : hash_esi'[h] = IF h = hent THEN sym_id ELSE hash_esi[h]
    BY <1>5, <1>6 DEF Used
  <2>2. \A h \in Used' : hash_esi'[h] \in Block!Held'
    BY <1>4, <1>6, <2>1 DEF CodeInv, Table
  <2>3. \A id \in Block!Held' : \E h \in Used' : hash_esi'[h] = id
    BY <1>4, <1>6, <2>1 DEF CodeInv, Table
  <2>4. \A g, h \in Used' : hash_esi'[g] = hash_esi'[h] => g = h
    BY <1>3, <1>6, <2>1 DEF CodeInv, Table
  <2> QED BY <2>2, <2>3, <2>4 DEF Table
<1>9. Array'
  <2>1. IsFiniteSet(Used)
    <3>1. IsFiniteSet(Block!Entries)
      BY <1>2, FS_Interval DEF Block!Entries
    <3> QED BY <3>1, FS_Subset DEF Used
  <2>2. IsFiniteSet(Block!Held') /\ Cardinality(Block!Held') = Len(esi')
    <3>1. IsFiniteSet(Block!Held) /\ Cardinality(Block!Held) = Len(esi)
      BY DEF CodeInv, Array
    <3>2. Len(esi') = Len(esi) + 1
      BY <1>1, <1>2
    <3> QED BY <1>3, <1>4, <3>1, <3>2, FS_AddElement
  <2>3. Cardinality(Used') = Len(esi')
    <3>1. Cardinality(Used) = Len(esi)
      BY DEF CodeInv, Array
    <3>2. Len(esi') = Len(esi) + 1
      BY <1>1, <1>2
    <3> QED BY <1>6, <2>1, <3>1, <3>2, FS_AddElement
  <2>4. n_src_esi' = Cardinality(Block!Held' \cap Block!SourceIds(BLOCK_K))
    <3> DEFINE S == Block!Held \cap Block!SourceIds(BLOCK_K)
    <3>1. IsFiniteSet(Block!Held) /\ n_src_esi = Cardinality(S)
      BY DEF CodeInv, Array
    <3>2. IsFiniteSet(S)
      BY <3>1, FS_Subset
    <3>3. sym_id < BLOCK_K <=> sym_id \in Block!SourceIds(BLOCK_K)
      BY <1>2 DEF Block!SourceIds
    <3>4. CASE sym_id \in Block!SourceIds(BLOCK_K)
      <4>1. Block!Held' \cap Block!SourceIds(BLOCK_K) = S \cup {sym_id} /\ sym_id \notin S
        BY <1>3, <1>4, <3>4
      <4> HIDE DEF S
      <4>2. Cardinality(S \cup {sym_id}) = Cardinality(S) + 1
        BY <3>2, <4>1, FS_AddElement
      <4> QED BY <1>1, <3>1, <3>3, <3>4, <4>1, <4>2
    <3>5. CASE sym_id \notin Block!SourceIds(BLOCK_K)
      <4>1. Block!Held' \cap Block!SourceIds(BLOCK_K) = S
        BY <1>4, <3>5
      <4> QED BY <1>1, <3>1, <3>3, <3>5, <4>1
    <3> QED BY <3>4, <3>5
  <2>5. syms_buf' = esi' /\ Len(esi') <= Block!n_esi_max
    BY <1>1, <1>2 DEF CodeInv, Array
  <2> QED BY <2>2, <2>3, <2>4, <2>5 DEF Array
<1>10. Block!ProbeFinds'
  <2>1. \A h \in Block!Entries, id \in Ids : Block!Path(id, h) \subseteq Block!Entries
    BY Paths
  <2>2. \A g \in Block!Entries : hash_esi[g] # Block!NoSymbol => hash_esi'[g] # Block!NoSymbol
    BY <1>1, <1>2, <1>5
  <2>3. ASSUME NEW h \in Block!Entries, hash_esi'[h] # Block!NoSymbol,
               NEW g \in Block!Path(hash_esi'[h], h)
        PROVE  hash_esi'[g] # Block!NoSymbol
    <3>1. CASE h = hent
      <4>1. hash_esi'[h] = sym_id
        BY <1>5, <3>1
      <4>2. g \in Block!Entries
        BY <1>2, <2>1, <2>3, <4>1
      <4>3. g # hent => hash_esi[g] # Block!NoSymbol
        BY <1>1, <2>3, <3>1, <4>1 DEF CodeInv, Probing
      <4> QED BY <1>2, <1>5, <2>2, <4>2, <4>3
    <3>2. CASE h # hent
      <4>1. hash_esi'[h] = hash_esi[h]
        BY <1>5, <3>2
      <4>2. hash_esi[h] \in Ids
        BY <1>2, <2>3, <4>1
      <4>3. g \in Block!Entries
        BY <2>1, <2>3, <4>1, <4>2
      <4>4. hash_esi[g] # Block!NoSymbol
        BY <2>3, <4>1 DEF CodeInv, Block!ProbeFinds
      <4> QED BY <2>2, <4>3, <4>4
    <3> QED BY <3>1, <3>2
  <2> QED BY <2>3 DEF Block!ProbeFinds, Block!Path, Block!Home
<1>11. Probing'
  BY <1>1 DEF Probing
<1> QED BY <1>4, <1>7, <1>8, <1>9, <1>10, <1>11 DEF CodeInv

\* Every step keeps the invariant.
LEMMA CodeStep ==
  ASSUME Block!CodeBlockAssumption, CodeInv, [Block!Next]_(Block!vars)
  PROVE  CodeInv'
<1>1. CASE Block!Insert
  BY <1>1, InsertKeeps
<1>2. CASE Block!NextSlot
  BY <1>2, NextSlotKeeps
<1>3. CASE \E id \in Ids : Block!AddSym(id)
  BY <1>3, AddSymKeeps
<1>4. CASE Block!Duplicate \/ Block!GetData \/ UNCHANGED Block!vars
  <2>1. /\ UNCHANGED <<esi, n_src_esi, hash_esi, syms_buf, sym_id, hent>>
        /\ cb_pc' \in {"idle", "read"} \/ cb_pc' = cb_pc
    BY <1>4 DEF Block!Duplicate, Block!GetData, Block!vars
  <2> QED BY <2>1, QuietKeeps
<1> QED BY <1>1, <1>2, <1>3, <1>4 DEF Block!Next, Block!Probe

\* codeblockstate_add_sym() and codeblockstate_get_data() keep table, array and
\* counters together.
THEOREM CodeInvariance ==
  ASSUME Block!CodeBlockAssumption
  PROVE  Block!Spec => []CodeInv
<1>1. Block!CodeBlockAssumption
  OBVIOUS
<1>2. Block!Init => CodeInv
  BY <1>1, CodeInit
<1>3. CodeInv /\ [Block!Next]_(Block!vars) => CodeInv'
  BY <1>1, CodeStep
<1> QED BY <1>2, <1>3, PTL DEF Block!Spec

\* The probe loop of codeblockstate_add_sym() finds a symbol that is there: no
\* empty entry lies between its home and its place.
THEOREM ProbesFind == Block!Spec => []ProbeFinds
<1>1. Block!Spec => []CodeInv
  BY PartsAssumption, CodeInvariance
<1>2. CodeInv => ProbeFinds
  BY DEF CodeInv, ProbeFinds
<1> QED BY <1>1, <1>2, PTL

\* The block and the abstract block count as this module does.
LEMMA SameCardinality ==
  \A S : /\ Block!Cardinality(S) = Cardinality(S)
         /\ Block!Block!Cardinality(S) = Cardinality(S)
  BY DEF Block!Cardinality, Block!Block!Cardinality, Cardinality

\* The array of codeblockstate_add_sym() holds no symbol twice, does not outgrow
\* its memory, and counts its source symbols.
THEOREM TableAndArrayAgree == Block!Spec => []TableMatchesArray
<1>1. Block!Spec => []CodeInv
  BY PartsAssumption, CodeInvariance
<1>2. CodeInv => TableMatchesArray
  <2> SUFFICES ASSUME CodeInv PROVE TableMatchesArray
    OBVIOUS
  <2>1. {hash_esi[h] : h \in Block!Entries} \ {Block!NoSymbol} = Block!Held
    BY DEF CodeInv, Table, Used
  <2>2. {h \in Block!Entries : hash_esi[h] # Block!NoSymbol} = Used
    BY DEF Used
  <2> QED BY <2>1, <2>2, SameCardinality
          DEF CodeInv, Array, TableMatchesArray, Block!TableMatchesArray
<1> QED BY <1>1, <1>2, PTL

-----------------------------------------------------------------------------
(* Refinement: the block is the set of symbols that Receiver takes it for. *)

\* The names of the abstract block stand for those of this module.
LEMMA SameBlock ==
  /\ Block!Block!SourceIds(BLOCK_K) = Block!SourceIds(BLOCK_K)
  /\ \A S, id : Block!Block!AddSymbol(S, BLOCK_K, id) =
                 IF Cardinality(S) >= Block!n_esi_max THEN S ELSE S \cup {id}
  /\ \A S : Block!Block!Reconstructions(S, BLOCK_K) =
              IF Block!SourceIds(BLOCK_K) \subseteq S \/ Cardinality(S) < BLOCK_K
              THEN {S \cap Block!SourceIds(BLOCK_K)}
              ELSE {Block!SourceIds(BLOCK_K), S \cap Block!SourceIds(BLOCK_K), {}}
  BY SameCardinality
     DEF Block!Block!SourceIds, Block!SourceIds, Block!Block!AddSymbol, Block!Block!Capacity, Block!n_esi_max,
         Block!Capacity, Block!Block!Reconstructions

\* The source symbols that were right when the block was read.
Data == IF cb_pc = "read" THEN {k \in Block!SourceIds(BLOCK_K) : data_out[k] = k} ELSE {}

\* The counter tells whether all source symbols are there.
LEMMA CountTells ==
  ASSUME Block!CodeBlockAssumption, CodeInv
  PROVE  n_src_esi >= BLOCK_K <=> Block!SourceIds(BLOCK_K) \subseteq Block!Held
<1> DEFINE S == Block!Held \cap Block!SourceIds(BLOCK_K)
<1>1. BLOCK_K \in Nat \ {0}
  BY Sizes
<1>2. IsFiniteSet(Block!SourceIds(BLOCK_K)) /\ Cardinality(Block!SourceIds(BLOCK_K)) = BLOCK_K
  BY <1>1, FS_Interval DEF Block!SourceIds
<1>3. n_src_esi = Cardinality(S) /\ n_src_esi \in Nat
  BY DEF CodeInv, Array, Block!TypeOK
<1>4. S \in SUBSET Block!SourceIds(BLOCK_K) /\ (Block!SourceIds(BLOCK_K) \subseteq Block!Held <=> S = Block!SourceIds(BLOCK_K))
  OBVIOUS
<1> HIDE DEF S
<1>5. Cardinality(S) <= BLOCK_K /\ (Cardinality(S) = BLOCK_K => S = Block!SourceIds(BLOCK_K))
  BY <1>2, <1>4, FS_Subset
<1> QED BY <1>1, <1>2, <1>3, <1>4, <1>5

\* What is read is one of the results the abstract block allows: the source
\* symbols received, the whole block, or zeros.
LEMMA ReadIsReconstruction ==
  ASSUME Block!CodeBlockAssumption, CodeInv, Block!GetData
  PROVE  {k \in Block!SourceIds(BLOCK_K) : data_out'[k] = k} \in Block!Block!Reconstructions(Block!Held, BLOCK_K)
<1> DEFINE src == Block!SourceIds(BLOCK_K)
           Right(d) == {k \in src : d[k] = k}
<1>1. BLOCK_K \in Nat \ {0} /\ src \subseteq Nat
  BY Sizes DEF Block!SourceIds
<1>2. Right(Block!copy_source_syms) = Block!Held \cap src
  <2>1. ASSUME NEW k \in src
        PROVE  Block!copy_source_syms[k] = k <=> k \in Block!Held
    <3>1. CASE k \in Block!Held
      <4>1. \E i \in DOMAIN esi : esi[i] = k
        BY <3>1 DEF Block!Held
      <4> DEFINE i == CHOOSE i \in DOMAIN esi : esi[i] = k
      <4>2. Block!copy_source_syms[k] = syms_buf[i]
        BY <4>1 DEF Block!copy_source_syms
      <4>3. esi[i] = k
        BY <4>1
      <4>4. syms_buf = esi
        BY DEF CodeInv, Array
      <4> QED BY <3>1, <4>2, <4>3, <4>4
    <3>2. CASE k \notin Block!Held
      <4>1. ~ \E i \in DOMAIN esi : esi[i] = k
        BY <3>2 DEF Block!Held
      <4>2. Block!copy_source_syms[k] = Block!NoSymbol
        BY <4>1 DEF Block!copy_source_syms
      <4> QED BY <1>1, <3>2, <4>2 DEF Block!NoSymbol
    <3> QED BY <3>1, <3>2
  <2> QED BY <2>1
<1>3. Right(Block!Cleared) = {}
  BY <1>1 DEF Block!Cleared, Block!NoSymbol
<1>4. \A d \in Block!Decoded : Right(d) = src
  BY DEF Block!Decoded
<1>5. Cardinality(Block!Held) = Len(esi)
  BY DEF CodeInv, Array
<1>6. CASE n_src_esi >= BLOCK_K \/ Len(esi) < BLOCK_K
  <2>1. data_out' = Block!copy_source_syms
    BY <1>6 DEF Block!GetData
  <2> QED BY <1>2, <1>5, <1>6, <2>1, CountTells, SameBlock
<1>7. CASE ~(n_src_esi >= BLOCK_K \/ Len(esi) < BLOCK_K)
  <2>1. data_out' \in Block!Decoded \cup {Block!copy_source_syms, Block!Cleared}
    BY <1>7 DEF Block!GetData
  <2>2. Right(data_out') \in {src, Block!Held \cap src, {}}
    BY <1>2, <1>3, <1>4, <2>1
  <2> QED BY <1>5, <1>7, <2>2, CountTells, SameBlock
<1> QED BY <1>6, <1>7

\* Every step is one of the set of symbols, or none.
LEMMA BlockStep ==
  ASSUME Block!CodeBlockAssumption, CodeInv, [Block!Next]_(Block!vars)
  PROVE  [Block!Block!Next]_(Block!Block!vars)
<1>1. /\ Block!Block!vars = <<Block!Held, cb_pc = "read", Data>>
      /\ Block!Block!vars' = <<Block!Held', (cb_pc = "read")', Data'>>
  BY DEF Block!Block!vars, Data
<1>2. CASE Block!Insert
  <2>1. cb_pc = "probe" /\ cb_pc' = "idle" /\ sym_id \in Ids
        /\ Block!Held' = Block!Held \cup {sym_id}
        /\ ~(Cardinality(Block!Held) >= Block!n_esi_max)
    <3>1. Len(esi) < Block!n_esi_max /\ Cardinality(Block!Held) = Len(esi) /\ sym_id \in Ids
      BY <1>2 DEF Block!Insert, CodeInv, Array, Probing
    <3>2. Len(esi) \in Nat /\ Block!n_esi_max \in Nat
      BY Sizes DEF CodeInv, Block!TypeOK
    <3> QED BY <1>2, <3>1, <3>2, InsertKeeps DEF Block!Insert
  <2>2. Block!Held' = Block!Block!AddSymbol(Block!Held, BLOCK_K, sym_id)
    BY <2>1, SameBlock
  <2>3. Block!Block!Add(sym_id)
    BY <2>1, <2>2 DEF Block!Block!Add
  <2> QED BY <2>1, <2>3 DEF Block!Block!Next
<1>3. CASE Block!GetData
  <2>1. cb_pc = "idle" /\ cb_pc' = "read" /\ Block!Held' = Block!Held
    BY <1>3 DEF Block!GetData, Block!Held
  <2>2. Block!Block!Get
    BY <1>3, <2>1, ReadIsReconstruction, SameBlock DEF Block!Block!Get
  <2> QED BY <2>2 DEF Block!Block!Next
<1>4. CASE Block!NextSlot \/ Block!Duplicate \/ (\E id \in Ids : Block!AddSym(id)) \/ UNCHANGED Block!vars
  <2>1. /\ Block!Held' = Block!Held /\ data_out' = data_out
        /\ cb_pc' = cb_pc \/ (cb_pc # "read" /\ cb_pc' # "read")
    BY <1>4 DEF Block!NextSlot, Block!Duplicate, Block!AddSym, Block!vars, Block!Held
  <2>2. Block!Held' = Block!Held /\ (cb_pc = "read")' = (cb_pc = "read") /\ Data' = Data
    BY <2>1 DEF Data
  <2> QED BY <1>1, <2>2
<1> QED BY <1>2, <1>3, <1>4 DEF Block!Next, Block!Probe

\* codeblockstate.c implements the set of symbols, of limited size and read once,
\* that Receiver is built from.
THEOREM BlockIsSymbolSet == Block!Spec => ImplementsSymbolSet
<1>1. Block!CodeBlockAssumption
  BY PartsAssumption
<1>2. Block!Init => Block!Block!Init
  BY DEF Block!Init, Block!Block!Init, Block!Held
<1>3. CodeInv /\ [Block!Next]_(Block!vars) => [Block!Block!Next]_(Block!Block!vars)
  BY <1>1, BlockStep
<1>4. Block!Spec => []CodeInv
  BY <1>1, CodeInvariance
<1> QED BY <1>2, <1>3, <1>4, PTL DEF Block!Spec, Block!Block!Spec, ImplementsSymbolSet, Block!ImplementsSymbolSet
=============================================================================
