----------------------------- MODULE ParamDeriv -----------------------------
(***************************************************************************)
(* The size of a file on its way to the coding parameters of both ends, in *)
(* machine integers: get_file_size() of sender.c, the field tos of the     *)
(* header, and param_deriv() of utils/param_deriv.c, which sender and      *)
(* receiver call on their own.  Coding has the result with unbounded       *)
(* integers, and one block.                                                *)
(***************************************************************************)
EXTENDS Integers

CONSTANTS
  PD_T,      \* symbol size (1024)
  PD_MAX_K,  \* symbols in a block (50000)
  INT_MAX,   \* 2^31 - 1
  MAX_LEN    \* bound: longest file

\* No sum overflows on the way to the parameters of a file that fits a block.
ParamAssumption ==
  /\ PD_T \in Nat \ {0} /\ PD_MAX_K \in Nat \ {0} /\ INT_MAX \in Nat
  /\ PD_T * PD_MAX_K + (PD_T - 1) <= INT_MAX
  /\ 2 * PD_MAX_K - 1 <= INT_MAX
  /\ MAX_LEN \in Nat

VARIABLES
  pc,       \* "size", "derive", "sent", "received"; "fail": the sender
            \* refuses the file, "abort": an assertion failed
  len,      \* length of the file
  fsiz,     \* size as the sender takes it
  file_len, \* size as the receiver takes it
  s_params, r_params

vars == <<pc, len, fsiz, file_len, s_params, r_params>>

-----------------------------------------------------------------------------
(* Machine integers.                                                       *)

UINT_MOD == 2 * (INT_MAX + 1)
\* Conversion to int, and the result of an overflowing sum in the build.
ToInt(x) == ((x + INT_MAX + 1) % UINT_MOD) - (INT_MAX + 1)
ToUInt(x) == x % UINT_MOD
\* Division of C rounds to 0.
CDiv(a, b) == IF a >= 0 THEN a \div b ELSE -((-a) \div b)

ceildiv(a, b) == CDiv(ToInt(a + b - 1), b)

-----------------------------------------------------------------------------
(* param_deriv().                                                          *)

NoParams == [n_cb |-> 0, K_large |-> 0, n_large |-> 0, n_srcsym_tot |-> 0]

\* n_cb blocks for the symbols: n_large of K_large, the others of one less.
Split(total, n_cb) ==
  [n_srcsym_tot |-> total, n_cb |-> n_cb, K_large |-> ceildiv(total, n_cb),
   n_large |-> n_cb - (ceildiv(total, n_cb) * n_cb - total)]

n_srcsym_tot(size) == ceildiv(size, PD_T)
n_cb(size) == ceildiv(n_srcsym_tot(size), PD_MAX_K)

\* The two assertions on the result.
AddsUp(p) ==
  /\ 1 <= p.n_large /\ p.n_large <= p.n_cb
  /\ p.K_large * p.n_large + (p.K_large - 1) * (p.n_cb - p.n_large) = p.n_srcsym_tot

\* Variant: several blocks are let through.
SomeBlocks(n) == n >= 1
OneBlock(n) == n = 1

Passes(size) == OneBlock(n_cb(size)) /\ AddsUp(Split(n_srcsym_tot(size), n_cb(size)))
Derived(size) == Split(n_srcsym_tot(size), n_cb(size))

-----------------------------------------------------------------------------
Init ==
  /\ pc = "size" /\ len \in 0..MAX_LEN
  /\ fsiz = 0 /\ file_len = 0 /\ s_params = NoParams /\ r_params = NoParams

\* Sizes below 1 are refused.
GetFileSize ==
  /\ pc = "size"
  /\ fsiz' = ToInt(len)
  /\ pc' = IF fsiz' <= 0 THEN "fail" ELSE "derive"
  /\ UNCHANGED <<len, file_len, s_params, r_params>>

SenderDerives ==
  /\ pc = "derive"
  /\ IF Passes(fsiz) THEN s_params' = Derived(fsiz) /\ pc' = "sent"
                     ELSE pc' = "abort" /\ UNCHANGED s_params
  /\ UNCHANGED <<len, fsiz, file_len, r_params>>

\* Variant: the header has the size of the padded block.
PaddedTos == ToUInt(s_params.n_srcsym_tot * PD_T)
\* The header has 32 bits for the size.
Tos == ToUInt(fsiz)

\* segstate_init() keeps the size and passes it on as an int.
ReceiverDerives ==
  /\ pc = "sent"
  /\ file_len' = Tos
  /\ IF Passes(ToInt(Tos)) THEN r_params' = Derived(ToInt(Tos)) /\ pc' = "received"
                         ELSE pc' = "abort" /\ UNCHANGED r_params
  /\ UNCHANGED <<len, fsiz, s_params>>

Next ==
  \/ GetFileSize
  \/ SenderDerives
  \/ ReceiverDerives

Spec == Init /\ [][Next]_vars

-----------------------------------------------------------------------------
(* Properties.                                                             *)

\* What is sent is one block, the one that Coding takes it for: as many bytes of
\* the file as its length is modulo 2^32, which is the whole of every file below
\* 2^32 and never more than fits into a block.  No sum that overflowed on the way
\* passes the tests; a length of 2^32 and more that was cut may.
Exact == INSTANCE Coding WITH ESI_SLACK <- 0
SentWhole ==
  pc \in {"sent", "received"} =>
    /\ fsiz = len % UINT_MOD /\ fsiz \in 1..(PD_T * PD_MAX_K)
    /\ s_params = [n_srcsym_tot |-> Exact!KLarge(fsiz), n_cb |-> 1,
                   K_large |-> Exact!KLarge(fsiz), n_large |-> 1]
    /\ PD_T * (s_params.K_large - 1) < fsiz /\ fsiz <= PD_T * s_params.K_large
    /\ s_params.K_large <= PD_MAX_K

\* All that fits into a block is sent, and the receiver, which derives the
\* parameters from the header, comes to those of the sender and to the size
\* at which the padding is cut off.
SameParams ==
  /\ pc \in {"fail", "abort"} => len = 0 \/ len > PD_T * PD_MAX_K
  /\ pc = "received" => r_params = s_params /\ file_len = fsiz
=============================================================================
