------------------------------ MODULE Decoding ------------------------------
(***************************************************************************)
(* Instruction words, how the translator decodes them (IInfo,              *)
(* InsDecoding), and the register stores it emits for the instructions     *)
(* that only compute (Translation_IPE).                                    *)
(*                                                                         *)
(* A word is the record of its fields.  The translator re-emits most       *)
(* guest instructions for the host, with the operands loaded from and the  *)
(* result stored to the guest's registers in memory: what the host         *)
(* computes is external (Result, Taken), which registers are read and      *)
(* written is the translator's doing.                                      *)
(***************************************************************************)
EXTENDS Integers

Word == [op : 0 .. 63, rs : 0 .. 31, rt : 0 .. 31, rd : 0 .. 31,
         sh : 0 .. 31, fn : 0 .. 63]

Imm(w) == w.rd * 2048 + w.sh * 64 + w.fn
(* 16 bits, taken with their sign.                                         *)
Sext(x) == IF x >= 32768 THEN x - 65536 ELSE x
Nop == [op |-> 0, rs |-> 0, rt |-> 0, rd |-> 0, sh |-> 0, fn |-> 0]

(* The word fixBlock ends a block with, 0xEC000000.                        *)
TERMINATION_INS == [Nop EXCEPT !.op = 59]

-----------------------------------------------------------------------------
(* IInfo::parse: the words that end a block                                *)

getType(w) ==
  IF w.op \in {0, 16, 17, 18, 19, 28, 31} THEN "R"
  ELSE IF w.op \in {2, 3} THEN "J" ELSE "I"

isCntrlInstR(w) ==
  \/ w.op = 0 /\ w.fn \in {8, 9}
  \/ w.op \in {16, 18} /\ w.rs = 8
  \/ w.op = 17 /\ w.rs \in 8 .. 10

isCntrlInstI(w) ==
  \/ w.op \in (4 .. 7) \cup (20 .. 23) \cup {50, 54, 58, 62}
  \/ w.op = 1 /\ w.rt \in (0 .. 3) \cup (16 .. 19)

isCntrlInstJ(w) == w.op \in {2, 3, 29}

isControlInst(w) ==
  CASE getType(w) = "R" -> isCntrlInstR(w)
    [] getType(w) = "I" -> isCntrlInstI(w)
    [] getType(w) = "J" -> isCntrlInstJ(w)

-----------------------------------------------------------------------------
(* InsDecoding: the seven tables, as the indices that have a handler       *)

opcode_funs_array == (0 .. 63) \ {17, 19, 29, 30, 49, 53, 57, 61}
opcode0_0to5_bits == (0 .. 63) \ {1, 5, 21, 40, 41, 53, 55, 57, 61}
opcode1_16to20_bits ==
  (0 .. 3) \cup (8 .. 12) \cup {14} \cup (16 .. 19) \cup {31}
opcode16_21to25_bits == {0, 1, 4, 5, 10, 11, 14}
opcode16_0to5_bits == {1, 2, 6, 8, 24, 31, 32}
opcode28_0to5_bits ==
  (0 .. 5) \cup (8 .. 13) \cup (15 .. 17) \cup {24, 25, 32, 33, 36, 37, 40}
    \cup (42 .. 47) \cup {50, 51, 58, 59, 63}
opcode31_0to5_bits == (0 .. 7) \cup {32, 36, 59}

(* A word of opcode 1 that names no register and ends in 58 is taken for a *)
(* drotr, whatever its rt.                                                 *)
Drotr(w) == w.op = 1 /\ w.fn = 58 /\ w.rs = 0

(* Two tables are shorter than the field that indexes them: the word past  *)
(* the end is called as if it were a handler.                              *)
PastTable(w) ==
  \/ w.op = 16 /\ w.rs = 16 /\ w.fn >= 33
  \/ w.op = 31 /\ w.fn >= 60

(* not_an_Ins is the handler: the program prints the word and exits.       *)
not_an_Ins(w) ==
  \/ w.op \notin opcode_funs_array
  \/ w.op = 0 /\ w.fn \notin opcode0_0to5_bits
  \/ w.op = 1 /\ ~Drotr(w) /\ w.rt \notin opcode1_16to20_bits
  \/ w.op = 16 /\ w.rs # 16 /\ w.rs \notin opcode16_21to25_bits
  \/ w.op = 16 /\ w.rs = 16 /\ w.fn \notin opcode16_0to5_bits
  \/ w.op = 28 /\ w.fn \notin opcode28_0to5_bits
  \/ w.op = 31 /\ w.fn \notin opcode31_0to5_bits

(* The handlers, as the translator each of them calls.  "nothing": the     *)
(* handler emits no code.                                                  *)

OP0_0to5bits_0(w) ==
  IF w.rs = 0 /\ w.rt = 0 /\ w.rd = 0
  THEN IF w.sh \in {0, 1, 3} THEN "nop" ELSE "nothing"
  ELSE "shift_R"

OP0_low(w) ==
  CASE w.fn = 0 -> OP0_0to5bits_0(w)
    [] w.fn \in {2, 3} -> "shift_R"
    [] w.fn \in {4, 6, 7, 10, 11} -> "unprev_R"
    [] w.fn = 8 -> "jr"
    [] w.fn = 9 -> "jalr"
    [] w.fn = 12 -> "syscall"
    [] w.fn = 13 -> "br"
    [] w.fn \in {14, 15} -> "nop"
    [] w.fn \in {16, 18} -> "moveFromLoHi_R"
    [] w.fn \in {17, 19} -> "moveToLoHi_R"

OP0_middle(w) ==
  CASE w.fn \in {20, 22, 23} \cup (32 .. 39) -> "unprev_R"
    [] w.fn \in 24 .. 31 -> "mulDiv_R"

OP0_high(w) ==
  CASE w.fn \in 42 .. 47 -> "unprev_R"
    [] w.fn \in 48 .. 51 -> "tge_tgeu_tlt_tltu_R"
    [] w.fn \in {52, 54} -> "teq_tne_R"
    [] w.fn \in {56, 58, 59, 60, 62, 63} -> "shift_R"

OP1_16to20bits(w) ==
  CASE w.rt \in {0, 1, 16, 17} -> "branch"
    [] w.rt \in {2, 3, 18, 19} -> "branch_likely"
    [] w.rt \in 8 .. 11 -> "tgei_tgeiu_tlti_tltiu_I"
    [] w.rt \in {12, 14} -> "teqi_tnei_I"
    [] w.rt = 31 -> "nop"

Opcode_1(w) == IF Drotr(w) THEN "drotr" ELSE OP1_16to20bits(w)

OP16_0to5bits(w) ==
  CASE w.fn \in {1, 2, 6, 8} -> "tlb"
    [] w.fn = 24 -> "eret"
    [] w.fn = 31 -> "nop"
    [] w.fn = 32 -> "wait"

OP16_21to25bits(w) ==
  CASE w.rs \in {0, 1} -> "mfc0"
    [] w.rs \in {4, 5} -> "mtc0"
    [] w.rs \in {10, 14} -> "nop"
    [] w.rs = 11 -> CASE w.fn = 0 -> "di" [] w.fn = 32 -> "ei" [] OTHER -> "nothing"

OP28_0to5bits(w) ==
  CASE w.fn \in {0, 1, 4, 5} -> "madd"
    [] w.fn \in {2, 3, 32, 33, 36, 37, 40} \cup (42 .. 45) -> "unprev_R"
    [] w.fn \in 8 .. 13 -> "multiplier"
    [] w.fn \in {15, 16} -> "nothing"
    [] w.fn = 17 -> "v3mulu"
    [] w.fn \in {24, 25} -> "saa"
    [] w.fn \in {46, 47} -> "seqi_snei"
    [] w.fn \in {50, 51} -> "ins_R"
    [] w.fn \in {58, 59} -> "ext_R"
    [] w.fn = 63 -> "nop"

OP31_0to5bits(w) ==
  CASE w.fn \in 0 .. 3 -> "ext_R"
    [] w.fn \in 4 .. 7 -> "ins_R"
    [] w.fn \in {32, 36} -> "unprev_R"
    [] w.fn = 59 -> "rdhwr"

Opcode_2to25(w) ==
  CASE w.op = 2 -> "j"
    [] w.op = 3 -> "jal"
    [] w.op \in {4, 5} -> "bne_beq"
    [] w.op \in {6, 7} -> "branch"
    [] w.op \in (8 .. 15) \cup {24, 25} -> "unprev_I"
    [] w.op = 18 -> IF w.rs \in {1, 5} THEN "nop" ELSE "nothing"
    [] w.op \in {20, 21} -> "bne_beq_likely"
    [] w.op \in {22, 23} -> "branch_likely"

Opcode_26to63(w) ==
  CASE w.op \in {26, 27, 55} \cup (32 .. 39) -> "unprev_I_Load"
    [] w.op \in (40 .. 46) \cup {63} -> "unprev_I_Store"
    [] w.op \in {47, 51} -> "nop"
    [] w.op \in {48, 52} -> "ll"
    [] w.op \in {56, 60} -> "sc"
    [] w.op \in {50, 54, 58, 62} -> "bbit"
    [] w.op = 59 -> "TerminateBlock"

(* What findInstrCase does with a word: the translator it reaches,         *)
(* "exit" for not_an_Ins, "astray" past the end of a table.                *)
findInstrCase(w) ==
  CASE PastTable(w) -> "astray"
    [] not_an_Ins(w) /\ ~PastTable(w) -> "exit"
    [] ~not_an_Ins(w) ->
         CASE w.op = 0 /\ w.fn < 20 -> OP0_low(w)
           [] w.op = 0 /\ w.fn \in 20 .. 39 -> OP0_middle(w)
           [] w.op = 0 /\ w.fn > 39 -> OP0_high(w)
           [] w.op = 1 -> Opcode_1(w)
           [] w.op = 16 /\ w.rs = 16 -> OP16_0to5bits(w)
           [] w.op = 16 /\ w.rs # 16 -> OP16_21to25bits(w)
           [] w.op = 28 -> OP28_0to5bits(w)
           [] w.op = 31 -> OP31_0to5bits(w)
           [] w.op \in (2 .. 15) \cup (18 .. 25) -> Opcode_2to25(w)
           [] w.op > 25 /\ w.op \notin {28, 31} -> Opcode_26to63(w)

(* What a word is handed to.                                               *)
Translators ==
  {"exit", "astray", "nothing", "nop", "shift_R", "unprev_R", "jr", "jalr", "syscall", "br",
   "moveFromLoHi_R", "moveToLoHi_R", "mulDiv_R", "tge_tgeu_tlt_tltu_R", "teq_tne_R",
   "branch", "branch_likely", "tgei_tgeiu_tlti_tltiu_I", "teqi_tnei_I", "drotr", "tlb",
   "eret", "wait", "mfc0", "mtc0", "di", "ei", "madd", "multiplier", "v3mulu", "saa",
   "seqi_snei", "ins_R", "ext_R", "rdhwr", "j", "jal", "bne_beq", "unprev_I",
   "bne_beq_likely", "unprev_I_Load", "unprev_I_Store", "ll", "sc", "bbit",
   "TerminateBlock"}

-----------------------------------------------------------------------------
(* What the emitted code computes.  The guest's registers are 0 .. 31, HI  *)
(* and LO of GPR_IPE.  Here they have 29 bits, which is two of the regions *)
(* of 2^28 bytes a jump stays in, and wider than an immediate.             *)

HI == 32
LO == 33
GPRs == 0 .. 33
Region == 268435456
Wrap == 2 * Region
Value == 0 .. Wrap - 1
Negative(a) == a >= Wrap \div 2
Signed(a) == IF Negative(a) THEN a - Wrap ELSE a

(* The host's result for two operands: for LUI its immediate, shifted; an  *)
(* instruction on an immediate and register 0 computes the immediate.      *)
Result(w, a, b) ==
  CASE w.op = 15 -> (Imm(w) * 65536) % Wrap
    [] w.op \in (8 .. 14) \cup {24, 25} -> (a + Imm(w)) % Wrap
    [] OTHER -> (a + 2 * b + w.op + w.fn) % Wrap

(* What a computing instruction leaves in its destination, from the        *)
(* registers g.                                                            *)
Computed(w, g) ==
  CASE w.op = 0 /\ w.fn = 16 -> g[HI]
    [] w.op = 0 /\ w.fn = 18 -> g[LO]
    [] w.op = 0 /\ w.fn \in {17, 19} -> g[w.rs]
    [] OTHER -> Result(w, g[w.rs], g[w.rt])

(* Whether the host takes a conditional branch on two operands.            *)
Taken(w, a, b) ==
  LET bit == IF w.rt > 28 THEN 0 ELSE (a \div 2^w.rt) % 2
  IN CASE w.op \in {4, 20} -> a = b
       [] w.op \in {5, 21} -> a # b
       [] w.op \in {6, 22} -> a = 0 \/ Negative(a)
       [] w.op \in {7, 23} -> a # 0 /\ ~Negative(a)
       [] w.op = 50 -> bit = 0
       [] w.op = 58 -> bit = 1
       [] w.op = 54 -> TRUE          \* bits from 29 on are not modelled
       [] w.op = 62 -> FALSE
       [] w.op = 1 /\ w.rt \in {0, 2, 16, 18} -> Negative(a)
       [] w.op = 1 /\ w.rt \in {1, 3, 17, 19} -> ~Negative(a)

(* The registers a computing instruction's code stores to, by translator.  *)

unprev_R(w) == IF w.rd # 0 THEN {w.rd} ELSE {}
shift_R(w) == {w.rd}
mulDiv_R(w) == {HI, LO}
madd(w) == {HI, LO}
moveFromLoHi_R(w) == IF w.rd # 0 THEN {w.rd} ELSE {}
moveToLoHi_R(w) ==
  (IF w.fn = 16 THEN {HI} ELSE {}) \cup (IF w.fn = 18 THEN {LO} ELSE {})
ext_R(w) == {w.rt}
ins_R(w) == {w.rt}
unprev_I(w) == {w.rt}
unprev_I_Load(w) == IF w.rt # 0 THEN {w.rt} ELSE {}
ll(w) == {w.rt}
sc(w) == {w.rt}
seqi_snei(w) == {w.rt}
rdhwr(w) == {w.rt}
v3mulu(w) == unprev_R(w)

Stored(w) ==
  LET t == findInstrCase(w)
  IN CASE t = "unprev_R" -> unprev_R(w)
       [] t = "shift_R" -> shift_R(w)
       [] t = "mulDiv_R" -> mulDiv_R(w)
       [] t = "madd" -> madd(w)
       [] t = "moveFromLoHi_R" -> moveFromLoHi_R(w)
       [] t = "moveToLoHi_R" -> moveToLoHi_R(w)
       [] t = "ext_R" -> ext_R(w)
       [] t = "ins_R" -> ins_R(w)
       [] t = "unprev_I" -> unprev_I(w)
       [] t = "unprev_I_Load" -> unprev_I_Load(w)
       [] t = "ll" -> ll(w)
       [] t = "sc" -> sc(w)
       [] t = "seqi_snei" -> seqi_snei(w)
       [] t = "rdhwr" -> rdhwr(w)
       [] t = "v3mulu" -> v3mulu(w)
       [] OTHER -> {}
=============================================================================
