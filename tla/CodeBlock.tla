----------------------------- MODULE CodeBlock ------------------------------
(***************************************************************************)
(* receiver/codeblockstate.c: the symbols of one code block, as an array   *)
(* in the order of arrival with a hash table of their identifiers.         *)
(*                                                                         *)
(* Collisions are resolved by going to the next entry.  Nothing is ever    *)
(* removed from the table.  One turn of the probe loop is one action.  The *)
(* content of a symbol is named by its identifier: the zeros that fill up  *)
(* a short one are those of the sender's block (sender.c:126).             *)
(***************************************************************************)
EXTENDS Coding, Sequences

CONSTANTS
  K,        \* source symbols of the block
  H_MULT,   \* multiplier for hashing (29)
  Ids       \* identifiers of the symbols that may come

CodeBlockAssumption ==
  K \in Nat \ {0} /\ H_MULT \in Nat \ {0} /\ Ids \subseteq Nat

n_esi_max == Capacity(K)

hash_esi_sz ==
  LET sz == (n_esi_max * 5) \div 2
  IN  IF sz % H_MULT = 0 THEN sz + 1 ELSE sz

Entries == 0..(hash_esi_sz - 1)
NoSymbol == -1

VARIABLES
  esi,        \* identifiers held; n_esi is its length
  n_src_esi,  \* how many of them are source symbols
  hash_esi,   \* the table
  syms_buf,   \* contents, at the places of esi
  pc,         \* "idle", "probe" (in codeblockstate_add_sym()), "read"
  sym_id,     \* the symbol being added
  hent,       \* the entry being looked at
  data_out    \* the source block, once it has been asked for

vars == <<esi, n_src_esi, hash_esi, syms_buf, pc, sym_id, hent, data_out>>

Init ==
  /\ esi = <<>>
  /\ n_src_esi = 0
  /\ hash_esi = [h \in Entries |-> NoSymbol]
  /\ syms_buf = <<>>
  /\ pc = "idle"
  /\ sym_id = NoSymbol
  /\ hent = 0
  /\ data_out = <<>>

-----------------------------------------------------------------------------
(* codeblockstate_add_sym().                                               *)

\* Variant: the last place is given twice.
FullOneLate == Len(esi) > n_esi_max
\* A full block returns at once.
Full == Len(esi) >= n_esi_max

Home(id) == (id * H_MULT) % hash_esi_sz

AddSym(id) ==
  /\ pc = "idle"
  /\ ~Full
  /\ sym_id' = id
  /\ hent' = Home(id)
  /\ pc' = "probe"
  /\ UNCHANGED <<esi, n_src_esi, hash_esi, syms_buf, data_out>>

\* Variant: the end of the table is not left.
AfterSticks(h) == IF h + 1 = hash_esi_sz THEN h ELSE h + 1
\* Variant: every second entry is passed over.
AfterByTwo(h) == (h + 2) % hash_esi_sz
After(h) == IF h + 1 = hash_esi_sz THEN 0 ELSE h + 1

NextSlot ==
  /\ pc = "probe"
  /\ hash_esi[hent] \notin {NoSymbol, sym_id}
  /\ hent' = After(hent)
  /\ UNCHANGED <<esi, n_src_esi, hash_esi, syms_buf, pc, sym_id, data_out>>

Duplicate ==
  /\ pc = "probe"
  /\ hash_esi[hent] = sym_id
  /\ pc' = "idle"
  /\ UNCHANGED <<esi, n_src_esi, hash_esi, syms_buf, sym_id, hent, data_out>>

\* Variant: the first repair symbol counts as a source symbol.
IsSourceOneMore(id) == id <= K
IsSource(id) == id < K

Insert ==
  /\ pc = "probe"
  /\ hash_esi[hent] = NoSymbol
  /\ hash_esi' = [hash_esi EXCEPT ![hent] = sym_id]
  /\ esi' = Append(esi, sym_id)
  /\ syms_buf' = Append(syms_buf, sym_id)
  /\ n_src_esi' = IF IsSource(sym_id) THEN n_src_esi + 1 ELSE n_src_esi
  /\ pc' = "idle"
  /\ UNCHANGED <<sym_id, hent, data_out>>

-----------------------------------------------------------------------------
(* codeblockstate_get_data().                                              *)

Cleared == [k \in SourceIds(K) |-> NoSymbol]

\* copy_source_syms() into the cleared buffer.
copy_source_syms ==
  [k \in SourceIds(K) |->
     IF \E i \in DOMAIN esi : esi[i] = k
     THEN syms_buf[CHOOSE i \in DOMAIN esi : esi[i] = k]
     ELSE NoSymbol]

\* The decoder is external: it needs the identifiers in the order of the
\* contents, and succeeds, finds the symbols insufficient, or fails.
Decoded ==
  IF esi = syms_buf THEN {[k \in SourceIds(K) |-> k]} ELSE {}

GetData ==
  /\ pc = "idle"
  /\ data_out' \in
       IF n_src_esi >= K \/ Len(esi) < K
       THEN {copy_source_syms}
       ELSE Decoded \cup {copy_source_syms, Cleared}
  /\ pc' = "read"
  /\ UNCHANGED <<esi, n_src_esi, hash_esi, syms_buf, sym_id, hent>>

Probe == NextSlot \/ Duplicate \/ Insert

Next == Probe \/ GetData \/ \E id \in Ids : AddSym(id)

Spec == Init /\ [][Next]_vars

\* The loop runs once it has been entered.
FairSpec == Spec /\ WF_vars(Probe)

-----------------------------------------------------------------------------
(* Properties.                                                             *)

Held == {esi[i] : i \in DOMAIN esi}

\* Every variable has its type, and hent stays inside the table.
TypeOK ==
  /\ esi \in Seq(Ids) /\ syms_buf \in Seq(Ids)
  /\ n_src_esi \in Nat
  /\ hash_esi \in [Entries -> Ids \cup {NoSymbol}]
  /\ pc \in {"idle", "probe", "read"}
  /\ sym_id \in Ids \cup {NoSymbol}
  /\ hent \in Entries

\* The entries that are looked at for a symbol, up to entry h.
Path(id, h) ==
  IF Home(id) <= h THEN Home(id)..h
                   ELSE (Home(id)..(hash_esi_sz - 1)) \cup (0..h)

\* A symbol in the table is found before an empty entry is: the entries from
\* its home to its place are all in use.  Duplicates are recognised by that.
ProbeFinds ==
  \A h \in Entries :
     hash_esi[h] # NoSymbol =>
       \A g \in Path(hash_esi[h], h) : hash_esi[g] # NoSymbol

\* Table, array and counter agree: each symbol held is in the table once, and
\* the array holds nothing twice and does not outgrow its memory; neither is
\* indexed out of its bounds.
TableMatchesArray ==
  /\ TypeOK
  /\ {hash_esi[h] : h \in Entries} \ {NoSymbol} = Held
  /\ Cardinality({h \in Entries : hash_esi[h] # NoSymbol}) = Len(esi)
  /\ Cardinality(Held) = Len(esi)
  /\ Len(esi) <= n_esi_max
  /\ n_src_esi = Cardinality(Held \cap SourceIds(K))

\* The probe loop ends: an empty entry is always left, and is reached.
ProbeEnds == pc = "probe" ~> pc = "idle"

\* The block is the set of symbols that Receiver takes it for.
Block == INSTANCE SymbolSet WITH
           esis <- Held,
           read <- pc = "read",
           data <- IF pc = "read" THEN {k \in SourceIds(K) : data_out[k] = k}
                                  ELSE {}
ImplementsSymbolSet == Block!Spec
=============================================================================
