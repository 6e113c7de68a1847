---------------------------- MODULE BlocksProofs ----------------------------
(***************************************************************************)
(* Theorems about Blocks and Decoding, for every guest, page size and size *)
(* of the block cache: every instruction word is decoded, the core always  *)
(* has a word to execute and registers of their width, and the blocks in   *)
(* the cache are translations of their own addresses.                      *)
(*                                                                         *)
(* MemoryOK and PageTablesOK say what a guest is.  BlocksEnd and           *)
(* MappedCode say what is asked of the guest while it runs; getBlock reads *)
(* on without a bound until it meets a control instruction, and blocks are *)
(* cut at the end of a page at user level only.                            *)
(***************************************************************************)
EXTENDS Blocks, SequenceTheorems, WellFoundedInduction, TLAPS

-----------------------------------------------------------------------------
(* Decoding *)

(* The handlers of every table lead to a translator: the CASEs of the      *)
(* tables leave no index out that has a handler.                           *)
LEMMA Table0 ==
  ASSUME NEW w \in Word, w.op = 0, ~not_an_Ins(w)
  PROVE  /\ w.fn < 20 => OP0_low(w) \in Translators
         /\ w.fn \in 20 .. 39 => OP0_middle(w) \in Translators
         /\ w.fn > 39 => OP0_high(w) \in Translators
<1>1. w.fn \in opcode0_0to5_bits /\ w.fn \in 0 .. 63
  BY DEF not_an_Ins, Word
<1>2. OP0_0to5bits_0(w) \in {"nop", "nothing", "shift_R"}
  BY DEF OP0_0to5bits_0
<1>3. ASSUME w.fn < 20 PROVE OP0_low(w) \in Translators
  BY <1>1, <1>2, <1>3 DEF OP0_low, opcode0_0to5_bits, Translators
<1>4. ASSUME w.fn \in 20 .. 39 PROVE OP0_middle(w) \in Translators
  BY <1>1, <1>4 DEF OP0_middle, opcode0_0to5_bits, Translators
<1>5. ASSUME w.fn > 39 PROVE OP0_high(w) \in Translators
  BY <1>1, <1>5 DEF OP0_high, opcode0_0to5_bits, Translators
<1> QED BY <1>3, <1>4, <1>5

(* Opcode 1: every rt field the table has an entry for is translated.      *)
LEMMA Table1 ==
  ASSUME NEW w \in Word, w.op = 1, ~not_an_Ins(w)
  PROVE  Opcode_1(w) \in Translators
<1>1. CASE Drotr(w)
  BY <1>1 DEF Opcode_1, Translators
<1>2. CASE ~Drotr(w)
  <2>1. w.rt \in opcode1_16to20_bits
    BY <1>2 DEF not_an_Ins
  <2>2. OP1_16to20bits(w) \in Translators
    BY <2>1 DEF opcode1_16to20_bits, OP1_16to20bits, Translators
  <2> QED BY <1>2, <2>2 DEF Opcode_1
<1> QED BY <1>1, <1>2

(* Opcode 16: every entry of the two CP0 tables is translated.             *)
LEMMA Table16 ==
  ASSUME NEW w \in Word, w.op = 16, ~not_an_Ins(w)
  PROVE  /\ w.rs = 16 => OP16_0to5bits(w) \in Translators
         /\ w.rs # 16 => OP16_21to25bits(w) \in Translators
<1>1. ASSUME w.rs = 16 PROVE OP16_0to5bits(w) \in Translators
  <2>1. w.fn \in opcode16_0to5_bits
    BY <1>1 DEF not_an_Ins
  <2> QED BY <2>1 DEF opcode16_0to5_bits, OP16_0to5bits, Translators
<1>2. ASSUME w.rs # 16 PROVE OP16_21to25bits(w) \in Translators
  <2>1. w.rs \in opcode16_21to25_bits
    BY <1>2 DEF not_an_Ins
  <2> QED BY <2>1 DEF opcode16_21to25_bits, OP16_21to25bits, Translators
<1> QED BY <1>1, <1>2

(* Opcode 28: every entry of the SPECIAL2 table is translated.             *)
LEMMA Table28 ==
  ASSUME NEW w \in Word, w.op = 28, ~not_an_Ins(w)
  PROVE  OP28_0to5bits(w) \in Translators
<1>1. w.fn \in opcode28_0to5_bits
  BY DEF not_an_Ins
<1> QED BY <1>1 DEF opcode28_0to5_bits, OP28_0to5bits, Translators

(* Opcode 31: every entry of the SPECIAL3 table is translated.             *)
LEMMA Table31 ==
  ASSUME NEW w \in Word, w.op = 31, ~not_an_Ins(w)
  PROVE  OP31_0to5bits(w) \in Translators
<1>1. w.fn \in opcode31_0to5_bits
  BY DEF not_an_Ins
<1> QED BY <1>1 DEF opcode31_0to5_bits, OP31_0to5bits, Translators

(* The other opcodes: those with an entry of their own in the main table   *)
(* are translated, by one of the two functions that share them.            *)
LEMMA TableOpcodes ==
  ASSUME NEW w \in Word, w.op \notin {0, 1, 16, 28, 31}, ~not_an_Ins(w)
  PROVE  /\ w.op \in (2 .. 15) \cup (18 .. 25) => Opcode_2to25(w) \in Translators
         /\ w.op > 25 => Opcode_26to63(w) \in Translators
         /\ w.op \in (2 .. 15) \cup (18 .. 25) \/ w.op > 25
<1>1. w.op \in opcode_funs_array /\ w.op \in 0 .. 63
  BY DEF not_an_Ins, Word
<1>2. ASSUME w.op \in (2 .. 15) \cup (18 .. 25) PROVE Opcode_2to25(w) \in Translators
  BY <1>1, <1>2 DEF opcode_funs_array, Opcode_2to25, Translators
<1>3. ASSUME w.op > 25 PROVE Opcode_26to63(w) \in Translators
  BY <1>1, <1>3 DEF opcode_funs_array, Opcode_26to63, Translators
<1>4. w.op \in (2 .. 15) \cup (18 .. 25) \/ w.op > 25
  BY <1>1 DEF opcode_funs_array
<1> QED BY <1>2, <1>3, <1>4

(* Every word has exactly one fate: a translator, the exit of not_an_Ins   *)
(* or a call past the end of a table.  No word falls through the tables.   *)
THEOREM DecodingTotal == \A w \in Word : findInstrCase(w) \in Translators
<1> SUFFICES ASSUME NEW w \in Word PROVE findInstrCase(w) \in Translators
  OBVIOUS
<1>1. CASE PastTable(w)
  <2>1. not_an_Ins(w)
    <3>1. CASE w.op = 16 /\ w.rs = 16 /\ w.fn >= 33
      BY <3>1 DEF not_an_Ins, opcode16_0to5_bits
    <3>2. CASE w.op = 31 /\ w.fn >= 60
      BY <3>2 DEF not_an_Ins, opcode31_0to5_bits
    <3> QED BY <1>1, <3>1, <3>2 DEF PastTable
  <2>2. findInstrCase(w) = "astray"
    BY <1>1, <2>1 DEF findInstrCase
  <2> QED BY <2>2 DEF Translators
<1>2. CASE not_an_Ins(w) /\ ~PastTable(w)
  <2>1. findInstrCase(w) = "exit"
    BY <1>2 DEF findInstrCase
  <2> QED BY <2>1 DEF Translators
<1>3. CASE ~not_an_Ins(w) /\ ~PastTable(w)
  <2> DEFINE c == CASE w.op = 0 /\ w.fn < 20 -> OP0_low(w)
                    [] w.op = 0 /\ w.fn \in 20 .. 39 -> OP0_middle(w)
                    [] w.op = 0 /\ w.fn > 39 -> OP0_high(w)
                    [] w.op = 1 -> Opcode_1(w)
                    [] w.op = 16 /\ w.rs = 16 -> OP16_0to5bits(w)
                    [] w.op = 16 /\ w.rs # 16 -> OP16_21to25bits(w)
                    [] w.op = 28 -> OP28_0to5bits(w)
                    [] w.op = 31 -> OP31_0to5bits(w)
                    [] w.op \in (2 .. 15) \cup (18 .. 25) -> Opcode_2to25(w)
                    [] w.op > 25 /\ w.op \notin {28, 31} -> Opcode_26to63(w)
  <2>1. findInstrCase(w) = c
    BY <1>3 DEF findInstrCase
  <2>2. w.op \in 0 .. 63 /\ w.fn \in 0 .. 63
    BY DEF Word
  <2>3. ASSUME w.op = 0 PROVE c \in Translators
    BY <1>3, <2>2, <2>3, Table0
  <2>4. ASSUME w.op = 1 PROVE c \in Translators
    BY <1>3, <2>4, Table1
  <2>5. ASSUME w.op = 16 PROVE c \in Translators
    BY <1>3, <2>5, Table16
  <2>6. ASSUME w.op = 28 PROVE c \in Translators
    BY <1>3, <2>6, Table28
  <2>7. ASSUME w.op = 31 PROVE c \in Translators
    BY <1>3, <2>7, Table31
  <2>8. ASSUME w.op \notin {0, 1, 16, 28, 31} PROVE c \in Translators
    BY <1>3, <2>2, <2>8, TableOpcodes
  <2> HIDE DEF c
  <2> QED BY <2>1, <2>3, <2>4, <2>5, <2>6, <2>7, <2>8
<1> QED BY <1>1, <1>2, <1>3

-----------------------------------------------------------------------------
(* Making a block *)

(* What a guest's memory and page tables are: every address holds a word,  *)
(* and a page of an address space has at most one frame.                   *)
MemoryOK == \A g \in Programs, pa \in Nat : WordIn(g, pa) \in Word
PageTablesOK ==
  \A g \in Programs, a \in 0 .. 255, p \in Nat :
    /\ FrameIn(g, a, p) \in SUBSET Nat
    /\ \A e, f \in FrameIn(g, a, p) : e = f

(* A set of numbers that is not empty has a least one.                     *)
LEMMA Least ==
  ASSUME NEW S \in SUBSET Nat, S # {}
  PROVE  \E x \in S : \A y \in S : x <= y
<1>1. \E x \in S : \A y \in S : ~(<<y, x>> \in OpToRel(<, Nat))
  BY NatLessThanWellFounded, WFMin
<1>2. PICK x \in S : \A y \in S : ~(<<y, x>> \in OpToRel(<, Nat))
  BY <1>1
<1>3. ASSUME NEW y \in S PROVE x <= y
  <2>1. ~(y < x)
    BY <1>2, <1>3 DEF OpToRel
  <2> QED BY <2>1, <1>3
<1> QED BY <1>3

(* InstBlock::getBlock stops at the first control instruction and returns  *)
(* the words up to its delay slot.                                         *)
LEMMA BlockWords ==
  ASSUME MemoryOK, prog \in Programs, NEW pa \in Nat,
         NEW k \in 0 .. MaxBlock, isControlInst(WordAt(pa + 4 * k))
  PROVE  \E n \in 0 .. k :
           /\ getBlock(pa) \in Seq(Word)
           /\ Len(getBlock(pa)) = n + 2
           /\ \A j \in 1 .. n + 2 : getBlock(pa)[j] = WordAt(pa + 4 * (j - 1))
<1> DEFINE ends(l) == isControlInst(WordAt(pa + 4 * l))
           S == {l \in 0 .. MaxBlock : ends(l)}
           n == CHOOSE m \in 0 .. MaxBlock : ends(m) /\ \A l \in 0 .. m - 1 : ~ends(l)
           all == [m \in 1 .. MaxBlock + 2 |-> WordAt(pa + 4 * (m - 1))]
<1>1. MaxBlock \in Nat
  BY SizesAssumption
<1>2. \E m \in 0 .. MaxBlock : ends(m) /\ \A l \in 0 .. m - 1 : ~ends(l)
  <2> HIDE DEF ends
  <2>1. S \in SUBSET Nat /\ k \in S
    BY <1>1 DEF ends
  <2>2. PICK x \in S : \A y \in S : x <= y
    <3> HIDE DEF S
    <3> QED BY <2>1, Least
  <2>3. ASSUME NEW l \in 0 .. x - 1 PROVE ~ends(l)
    <3>1. l \in 0 .. MaxBlock /\ ~(x <= l)
      BY <1>1, <2>2, <2>3
    <3> QED BY <2>2, <3>1
  <2> QED BY <2>2, <2>3
<1>3. n \in 0 .. MaxBlock /\ ends(n) /\ \A l \in 0 .. n - 1 : ~ends(l)
  <2> HIDE DEF ends
  <2> QED BY <1>2
<1> HIDE DEF n
<1>4. n \in 0 .. k
  <2>1. ~(k < n)
    BY <1>1, <1>3
  <2> QED BY <1>1, <1>3, <2>1
<1>5. \A j \in 1 .. n + 2 : all[j] = WordAt(pa + 4 * (j - 1)) /\ all[j] \in Word
  <2> SUFFICES ASSUME NEW j \in 1 .. n + 2
               PROVE  all[j] = WordAt(pa + 4 * (j - 1)) /\ all[j] \in Word
    OBVIOUS
  <2>1. j \in 1 .. MaxBlock + 2 /\ pa + 4 * (j - 1) \in Nat
    BY <1>1, <1>3
  <2>2. WordAt(pa + 4 * (j - 1)) \in Word
    BY <2>1 DEF WordAt, MemoryOK
  <2> QED BY <2>1, <2>2
<1> HIDE DEF all
<1>6. n + 2 \in Int /\ 1 \in Int /\ 1 <= n + 2 /\ (n + 2) - 1 + 1 = n + 2
  BY <1>1, <1>3
<1>7. /\ SubSeq(all, 1, n + 2) \in Seq(Word)
      /\ Len(SubSeq(all, 1, n + 2)) = n + 2
      /\ \A j \in 1 .. n + 2 : SubSeq(all, 1, n + 2)[j] = all[1 + j - 1]
  BY <1>5, <1>6, SubSeqProperties
<1>8. \A j \in 1 .. n + 2 : SubSeq(all, 1, n + 2)[j] = WordAt(pa + 4 * (j - 1))
  <2> SUFFICES ASSUME NEW j \in 1 .. n + 2
               PROVE  SubSeq(all, 1, n + 2)[j] = WordAt(pa + 4 * (j - 1))
    OBVIOUS
  <2>1. 1 + j - 1 = j
    BY <1>6
  <2> QED BY <1>5, <1>7, <2>1
<1>9. getBlock(pa) = SubSeq(all, 1, n + 2)
  BY DEF getBlock, all, n
<1> QED BY <1>4, <1>7, <1>8, <1>9

(* A page begins at or below its addresses and is PageSize long.           *)
LEMMA PageBounds ==
  ASSUME NEW a \in Nat
  PROVE  /\ PageOf(a) \in Nat /\ a \div PageSize \in Nat
         /\ a % PageSize \in 0 .. PageSize - 1
         /\ a = PageOf(a) + (a % PageSize)
         /\ PageOf(a) <= a /\ a < PageOf(a) + PageSize
  BY SizesAssumption DEF PageOf

(* Pages that differ do not overlap, and their order is that of their      *)
(* addresses.                                                              *)
LEMMA PageOrder ==
  ASSUME NEW a \in Nat, NEW b \in Nat, a <= b, PageOf(a) # PageOf(b)
  PROVE  PageOf(a) + PageSize <= PageOf(b)
<1> DEFINE x == a \div PageSize
           y == b \div PageSize
<1>1. x \in Nat /\ y \in Nat /\ PageOf(a) \in Nat /\ PageOf(b) \in Nat /\ PageSize \in Nat
  BY PageBounds, SizesAssumption
<1>2. PageOf(a) = x * PageSize /\ PageOf(b) = y * PageSize
  BY DEF PageOf
<1>3. PageOf(a) <= a /\ b < PageOf(b) + PageSize
  BY <1>1, PageBounds
<1> HIDE DEF x, y
<1>4. x # y
  BY <1>2
<1>5. ASSUME NEW c \in Nat, NEW d \in Nat, c < d
      PROVE  c * PageSize + PageSize <= d * PageSize
  <2>1. (c + 1) * PageSize <= d * PageSize
    BY <1>1, <1>5
  <2>2. (c + 1) * PageSize = c * PageSize + PageSize
    BY <1>1
  <2> QED BY <2>1, <2>2
<1>6. ~(y < x)
  <2> SUFFICES ASSUME y < x PROVE FALSE
    OBVIOUS
  <2>1. PageOf(b) + PageSize <= PageOf(a)
    BY <1>1, <1>2, <1>5
  <2> QED BY <1>1, <1>3, <2>1
<1>7. x < y
  BY <1>1, <1>4, <1>6
<1> QED BY <1>1, <1>2, <1>5, <1>7

(* An address before the end of a page it follows the start of, is on it.  *)
LEMMA SamePage ==
  ASSUME NEW a \in Nat, NEW b \in Nat, a <= b, b < PageOf(a) + PageSize
  PROVE  PageOf(b) = PageOf(a) /\ b % PageSize = (a % PageSize) + (b - a)
<1>1. PageSize \in Nat /\ PageOf(a) \in Nat /\ PageOf(b) \in Nat /\ PageOf(b) <= b
  BY PageBounds, SizesAssumption
<1>2. PageOf(b) = PageOf(a)
  <2> SUFFICES ASSUME PageOf(a) # PageOf(b) PROVE FALSE
    OBVIOUS
  <2>1. PageOf(a) + PageSize <= PageOf(b)
    BY PageOrder
  <2> QED BY <1>1, <2>1
<1>3. /\ a = PageOf(a) + (a % PageSize) /\ a % PageSize \in Int
      /\ b = PageOf(b) + (b % PageSize) /\ b % PageSize \in Int
  BY PageBounds, SizesAssumption
<1> QED BY <1>1, <1>2, <1>3

(* Processor_IPE::fixBlock keeps the words before the last page, ends the  *)
(* block there and never takes its second case.                            *)
LEMMA FixedBlock ==
  ASSUME NEW code \in Seq(Word), NEW start \in Nat, NEW n \in Nat, Len(code) = n + 2,
         PageOf(start) # PageOf(start + 4 * n)
  PROVE  \E v \in 0 .. n :
           /\ v = (PageOf(start + 4 * n) - start) \div 4
           /\ fixBlock(code, start, start + 4 * n) \in Seq(Word)
           /\ Len(fixBlock(code, start, start + 4 * n)) = v + 2
           /\ \A j \in 1 .. v : fixBlock(code, start, start + 4 * n)[j] = code[j]
<1> DEFINE end == start + 4 * n
           v == (PageOf(end) - start) \div 4
           kept == SubSeq(code, 1, v)
<1>1. end \in Nat /\ start <= end
  OBVIOUS
<1>2. /\ PageSize \in Nat /\ PageOf(start) \in Nat /\ PageOf(end) \in Nat
      /\ PageOf(end) <= end /\ start < PageOf(start) + PageSize
  <2> HIDE DEF end
  <2> QED BY <1>1, PageBounds, SizesAssumption
<1>3. PageOf(start) + PageSize <= PageOf(end)
  <2>1. PageOf(start) # PageOf(end)
    OBVIOUS
  <2> HIDE DEF end
  <2> QED BY <1>1, <2>1, PageOrder
<1>4. v \in 0 .. n
  <2> DEFINE d == PageOf(end) - start
  <2>1. d \in Nat /\ d <= 4 * n
    BY <1>1, <1>2, <1>3
  <2>2. d \div 4 \in 0 .. n
    <3> HIDE DEF d
    <3> QED BY <2>1
  <2> QED BY <2>2
<1> HIDE DEF v
<1>5. Len(code) - v > 1
  BY <1>4
<1>6. fixBlock(code, start, end) = kept \o <<TERMINATION_INS, Nop>>
  BY <1>5 DEF fixBlock, v
<1>7. kept \in Seq(Word) /\ Len(kept) = v /\ \A j \in 1 .. v : kept[j] = code[j]
  <2>1. \A j \in 1 .. v : code[j] \in Word
    <3> SUFFICES ASSUME NEW j \in 1 .. v PROVE code[j] \in Word
      OBVIOUS
    <3>1. j \in 1 .. Len(code)
      BY <1>4
    <3> QED BY <3>1, ElementOfSeq
  <2>2. v \in Int /\ 1 \in Int /\ v - 1 + 1 = v /\ (1 <= v \/ v = 0)
    BY <1>4
  <2>3. /\ SubSeq(code, 1, v) \in Seq(Word)
        /\ Len(SubSeq(code, 1, v)) = (IF 1 <= v THEN v - 1 + 1 ELSE 0)
        /\ \A j \in 1 .. v - 1 + 1 : SubSeq(code, 1, v)[j] = code[1 + j - 1]
    BY <2>1, <2>2, SubSeqProperties
  <2>4. ASSUME NEW j \in 1 .. v PROVE kept[j] = code[j]
    <3>1. 1 + j - 1 = j /\ j \in 1 .. v - 1 + 1
      BY <2>2
    <3> QED BY <2>3, <3>1
  <2> QED BY <2>2, <2>3, <2>4
<1> HIDE DEF kept
<1>8. <<TERMINATION_INS, Nop>> \in Seq(Word) /\ Len(<<TERMINATION_INS, Nop>>) = 2
  <2>1. TERMINATION_INS \in Word /\ Nop \in Word
    BY DEF TERMINATION_INS, Nop, Word
  <2> QED BY <2>1
<1>9. /\ kept \o <<TERMINATION_INS, Nop>> \in Seq(Word)
      /\ Len(kept \o <<TERMINATION_INS, Nop>>) = v + 2
      /\ \A j \in 1 .. v + 2 : j <= v => (kept \o <<TERMINATION_INS, Nop>>)[j] = kept[j]
  <2> DEFINE tail == <<TERMINATION_INS, Nop>>
  <2>1. tail \in Seq(Word) /\ Len(tail) = 2
    BY <1>8
  <2> HIDE DEF tail
  <2>2. /\ kept \o tail \in Seq(Word)
        /\ Len(kept \o tail) = Len(kept) + Len(tail)
        /\ \A j \in 1 .. Len(kept) + Len(tail) :
             (kept \o tail)[j] = IF j <= Len(kept) THEN kept[j] ELSE tail[j - Len(kept)]
    BY <1>7, <2>1, ConcatProperties
  <2>3. /\ kept \o tail \in Seq(Word)
        /\ Len(kept \o tail) = v + 2
        /\ \A j \in 1 .. v + 2 : j <= v => (kept \o tail)[j] = kept[j]
    BY <1>7, <2>1, <2>2
  <2> QED BY <2>3 DEF tail
<1>10. \A j \in 1 .. v : (kept \o <<TERMINATION_INS, Nop>>)[j] = code[j]
  <2> SUFFICES ASSUME NEW j \in 1 .. v
               PROVE  (kept \o <<TERMINATION_INS, Nop>>)[j] = code[j]
    OBVIOUS
  <2>1. j \in 1 .. v + 2 /\ j <= v
    BY <1>4
  <2> QED BY <1>7, <1>9, <2>1
<1> QED BY <1>4, <1>6, <1>9, <1>10 DEF v

(* doBlockTranslation gives a block with a translator for every word.      *)
LEMMA BlockMade ==
  ASSUME asid \in 0 .. 255, NEW start \in Value, NEW end \in Nat, NEW code \in Seq(Word)
  PROVE  /\ doBlockTranslation(start, end, code) \in Block
         /\ doBlockTranslation(start, end, code).start = start
         /\ doBlockTranslation(start, end, code).asid = asid
         /\ doBlockTranslation(start, end, code).code = code
<1> DEFINE fates == [k \in DOMAIN code |-> findInstrCase(code[k])]
<1>1. Len(code) \in Nat /\ DOMAIN code = 1 .. Len(code)
  BY LenProperties
<1>2. \A k \in 1 .. Len(code) : fates[k] \in Translators
  <2> SUFFICES ASSUME NEW k \in 1 .. Len(code) PROVE fates[k] \in Translators
    OBVIOUS
  <2>1. code[k] \in Word
    BY ElementOfSeq
  <2>2. findInstrCase(code[k]) \in Translators
    BY <2>1, DecodingTotal
  <2> QED BY <1>1, <2>2
<1> HIDE DEF fates
<1>3. SubSeq(fates, 1, Len(code)) \in Seq(Translators)
  BY <1>1, <1>2, SubSeqProperties
<1>4. doBlockTranslation(start, end, code) =
        [start |-> start, end |-> end, asid |-> asid, code |-> code,
         calls |-> SubSeq(fates, 1, Len(code))]
  BY DEF doBlockTranslation, fates
<1> QED BY <1>3, <1>4 DEF Block

(* The words of a block at user level, cut at the end of a page or not:    *)
(* all but the last two are as they were read, and on the block's own page *)
(* if the words read end at the latest on the next page.                   *)
Cut(code, start, end) ==
  IF PageOf(start) # PageOf(end) THEN fixBlock(code, start, end) ELSE code

(* The end of translateBlock for a block at user level cuts off the words  *)
(* of the next page, and adds or changes nothing before them.              *)
LEMMA CutWords ==
  ASSUME NEW code \in Seq(Word), NEW start \in Nat, NEW n \in Nat, Len(code) = n + 2
  PROVE  /\ Cut(code, start, start + 4 * n) \in Seq(Word)
         /\ Len(Cut(code, start, start + 4 * n)) \in 2 .. n + 2
         /\ \A j \in 1 .. Len(Cut(code, start, start + 4 * n)) - 2 :
              /\ Cut(code, start, start + 4 * n)[j] = code[j]
              /\ PageOf(start + 4 * n) <= PageOf(start) + PageSize =>
                   start + 4 * (j - 1) < PageOf(start) + PageSize
<1> DEFINE end == start + 4 * n
           words == Cut(code, start, end)
<1>1. end \in Nat
  OBVIOUS
<1>2. /\ PageOf(end) \in Nat /\ end < PageOf(end) + PageSize
      /\ PageOf(start) \in Nat /\ PageSize \in Nat
  <2> HIDE DEF end
  <2> QED BY <1>1, PageBounds, SizesAssumption
<1>3. CASE PageOf(start) # PageOf(end)
  <2>1. words = fixBlock(code, start, end)
    BY <1>3 DEF Cut
  <2>2. PICK v \in 0 .. n :
          /\ v = (PageOf(end) - start) \div 4
          /\ fixBlock(code, start, end) \in Seq(Word)
          /\ Len(fixBlock(code, start, end)) = v + 2
          /\ \A j \in 1 .. v : fixBlock(code, start, end)[j] = code[j]
    BY <1>3, FixedBlock
  <2>3. start + 4 * v <= PageOf(end)
    <3> DEFINE d == PageOf(end) - start
    <3>1. d \in Int /\ v = d \div 4 /\ v \in Nat /\ start + d = PageOf(end)
      <4>1. v = (PageOf(end) - start) \div 4 /\ v \in Nat
        BY <2>2
      <4> HIDE DEF end
      <4> QED BY <1>2, <4>1
    <3>2. 4 * v <= d
      <4> HIDE DEF d
      <4> QED BY <3>1
    <3> HIDE DEF d, end
    <3> QED BY <1>2, <3>1, <3>2
  <2> HIDE DEF end, words
  <2>4. words \in Seq(Word) /\ Len(words) = v + 2 /\ v \in Nat /\ v <= n
    BY <2>1, <2>2
  <2>5. ASSUME NEW j \in 1 .. Len(words) - 2
        PROVE  /\ words[j] = code[j]
               /\ PageOf(end) <= PageOf(start) + PageSize =>
                    start + 4 * (j - 1) < PageOf(start) + PageSize
    <3>1. j \in 1 .. v /\ j \in Nat /\ j <= v
      BY <2>4, <2>5
    <3>2. words[j] = code[j]
      BY <2>1, <2>2, <3>1
    <3>3. start + 4 * (j - 1) < start + 4 * v
      BY <2>4, <3>1
    <3> QED BY <1>2, <2>3, <2>4, <3>1, <3>2, <3>3
  <2> QED BY <2>4, <2>5 DEF words, end
<1>4. CASE PageOf(start) = PageOf(end)
  <2>1. words = code
    BY <1>4 DEF Cut
  <2>2. ASSUME NEW j \in 1 .. n PROVE start + 4 * (j - 1) < end
    BY <2>2
  <2> HIDE DEF end, words
  <2>3. ASSUME NEW j \in 1 .. n PROVE start + 4 * (j - 1) < PageOf(start) + PageSize
    <3>1. start + 4 * (j - 1) < end /\ start + 4 * (j - 1) \in Nat
      BY <2>2, <2>3
    <3> QED BY <1>1, <1>2, <1>4, <3>1
  <2>4. Len(words) - 2 = n /\ Len(words) \in 2 .. n + 2
    BY <2>1
  <2> QED BY <2>1, <2>3, <2>4 DEF words, end
<1> QED BY <1>3, <1>4

(* The block fetchNextBlock makes for an address whose words end in a      *)
(* control instruction is well formed, at every level.                     *)
LEMMA NewBlock ==
  ASSUME MemoryOK, prog \in Programs, asid \in 0 .. 255, NEW start \in Value, NEW pa \in Nat,
         NEW k \in 0 .. MaxBlock, isControlInst(WordAt(pa + 4 * k)), NEW user
  PROVE  LET b == Translated(start, getBlock(pa), user)
         IN b \in Block /\ b.start = start /\ b.asid = asid /\ Len(b.code) >= 2
<1> DEFINE code == getBlock(pa)
<1>1. PICK n \in 0 .. k : code \in Seq(Word) /\ Len(code) = n + 2
  BY BlockWords
<1>2. k \in Nat /\ n \in Nat /\ start \in Nat
  BY SizesAssumption DEF Value
<1> DEFINE end == start + 4 * n
           words == IF user THEN Cut(code, start, end) ELSE code
<1>3. (Len(code) - 2) * 4 = 4 * n /\ end \in Nat
  BY <1>1, <1>2
<1> HIDE DEF code
<1>4. Translated(start, code, user) = doBlockTranslation(start, end, words)
  BY <1>3 DEF Translated, Cut
<1>5. words \in Seq(Word) /\ Len(words) >= 2
  <2>1. Cut(code, start, end) \in Seq(Word) /\ Len(Cut(code, start, end)) >= 2
    BY <1>1, <1>2, CutWords
  <2>2. code \in Seq(Word) /\ Len(code) >= 2
    BY <1>1, <1>2
  <2> HIDE DEF end
  <2> QED BY <2>1, <2>2
<1> HIDE DEF end, words
<1> QED BY <1>3, <1>4, <1>5, BlockMade DEF code

(* At kernel level its words are those that were read.                     *)
LEMMA KernelBlock ==
  ASSUME NEW start, NEW code
  PROVE  /\ Translated(start, code, FALSE).start = start
         /\ Translated(start, code, FALSE).code = code
  BY DEF Translated, doBlockTranslation

(* At user level its words but the last two are those of its own page.     *)
LEMMA UserBlock ==
  ASSUME MemoryOK, prog \in Programs, asid \in 0 .. 255, NEW start \in Value, NEW pa \in Nat,
         NEW k \in 0 .. MaxBlock, isControlInst(WordAt(pa + 4 * k)),
         PageOf(start + 4 * k) <= PageOf(start) + PageSize
  PROVE  LET b == Translated(start, getBlock(pa), TRUE)
         IN /\ b \in Block /\ b.start = start /\ b.asid = asid
            /\ \A j \in 1 .. Len(b.code) - 2 :
                 /\ start + 4 * (j - 1) < PageOf(start) + PageSize
                 /\ b.code[j] = WordAt(pa + 4 * (j - 1))
<1> DEFINE code == getBlock(pa)
<1>1. PICK n \in 0 .. k :
        /\ code \in Seq(Word) /\ Len(code) = n + 2
        /\ \A j \in 1 .. n + 2 : code[j] = WordAt(pa + 4 * (j - 1))
  BY BlockWords
<1>2. k \in Nat /\ n \in Nat /\ n <= k /\ start \in Nat /\ PageSize \in Nat
  BY SizesAssumption DEF Value
<1> DEFINE end == start + 4 * n
           far == start + 4 * k
           words == Cut(code, start, end)
<1>3. (Len(code) - 2) * 4 = 4 * n /\ end \in Nat /\ far \in Nat /\ end <= far
  BY <1>1, <1>2
<1> HIDE DEF code
<1>4. Translated(start, code, TRUE) = doBlockTranslation(start, end, words)
  BY <1>3 DEF Translated, Cut
<1>5. /\ words \in Seq(Word) /\ Len(words) \in 2 .. n + 2
      /\ \A j \in 1 .. Len(words) - 2 :
           /\ words[j] = code[j]
           /\ PageOf(end) <= PageOf(start) + PageSize =>
                start + 4 * (j - 1) < PageOf(start) + PageSize
  BY <1>1, <1>2, CutWords
<1>6. PageOf(end) <= PageOf(start) + PageSize
  <2>1. PageOf(far) <= PageOf(start) + PageSize
    OBVIOUS
  <2> HIDE DEF far, end
  <2>2. PageOf(far) \in Nat /\ PageOf(end) \in Nat /\ PageOf(start) \in Nat
    BY <1>2, <1>3, PageBounds
  <2>3. CASE PageOf(end) = PageOf(far)
    BY <2>1, <2>3
  <2>4. CASE PageOf(end) # PageOf(far)
    <3>1. PageOf(end) + PageSize <= PageOf(far)
      BY <1>3, <2>4, PageOrder
    <3> QED BY <1>2, <2>1, <2>2, <3>1
  <2> QED BY <2>3, <2>4
<1> HIDE DEF end, words
<1>7. ASSUME NEW j \in 1 .. Len(words) - 2
      PROVE  /\ start + 4 * (j - 1) < PageOf(start) + PageSize
             /\ words[j] = WordAt(pa + 4 * (j - 1))
  <2>1. j \in 1 .. n + 2
    BY <1>2, <1>5, <1>7
  <2> QED BY <1>1, <1>5, <1>6, <1>7, <2>1
<1> DEFINE b == doBlockTranslation(start, end, words)
<1>8. b \in Block /\ b.start = start /\ b.asid = asid /\ b.code = words
  BY <1>3, <1>5, BlockMade
<1> HIDE DEF b
<1>9. Translated(start, getBlock(pa), TRUE) = b
  BY <1>4 DEF code, b
<1>10. /\ b \in Block /\ b.start = start /\ b.asid = asid
       /\ \A j \in 1 .. Len(b.code) - 2 :
            /\ start + 4 * (j - 1) < PageOf(start) + PageSize
            /\ b.code[j] = WordAt(pa + 4 * (j - 1))
  BY <1>7, <1>8
<1> QED BY <1>9, <1>10

-----------------------------------------------------------------------------
(* Type correctness *)

(* A block that is fetched is still to be made.                            *)
Making == phase = "fetch" /\ ~doesExists(pc)

(* What is asked of the guest: where a block is made, from its address or  *)
(* from the exception vector, a control instruction follows within the     *)
(* MaxBlock words that name the longest block.                             *)
BlocksEnd ==
  Making => \A pa \in Physical(pc) \cup {Vector} :
              \E k \in 0 .. MaxBlock : isControlInst(WordAt(pa + 4 * k))

(* The inductive invariant.  RegistersOK: the guest's registers have their *)
(* width.                                                                  *)
RegistersOK ==
  /\ prog \in Programs
  /\ pc \in Value /\ epc \in Value /\ errorepc \in Value
  /\ gpr \in [GPRs -> Value]
  /\ status \in [ie : BOOLEAN, exl : BOOLEAN, erl : BOOLEAN, user : BOOLEAN]
  /\ asid \in 0 .. 255
  /\ intr \in BOOLEAN /\ nmi \in BOOLEAN
  /\ saved \in Value \X Value

(* A block with an address has a control instruction and a slot: only the  *)
(* blocks nobody made, and the current one after an NMI, are at 0.         *)
Filled(b) == b.start # 0 => Len(b.code) >= 2

(* Address 0, at which the empty blocks are, is never looked up; the word  *)
(* executed next is one of the body in "run" and the last one in "slot".   *)
EngineOK ==
  /\ cache \in [Indices -> Block] /\ \A s \in Indices : Filled(cache[s])
  /\ blk \in Block /\ Filled(blk)
  /\ i \in Nat
  /\ phase \in Phases
  /\ phase \in {"next", "fetch"} => pc # 0
  /\ phase = "run" => 1 <= i /\ i < Len(blk.code)
  /\ phase = "slot" => 2 <= i /\ i = Len(blk.code)

BlocksInv == RegistersOK /\ EngineOK

(* The invariant gives the types, and a word to execute.                   *)
LEMMA InvTypes == BlocksInv => TypeOK
<1> SUFFICES ASSUME BlocksInv PROVE TypeOK
  OBVIOUS
<1>1. blk.code \in Seq(Word)
  BY DEF BlocksInv, EngineOK, Block
<1>2. DOMAIN blk.code = 1 .. Len(blk.code) /\ Len(blk.code) \in Nat
  BY <1>1, LenProperties
<1>3. phase \in {"run", "slot"} => i \in DOMAIN blk.code
  BY <1>2 DEF BlocksInv, EngineOK
<1> QED BY <1>3 DEF BlocksInv, EngineOK, RegistersOK, TypeOK

(* Arithmetic on addresses and registers keeps their width.                *)
LEMMA Remainder ==
  ASSUME NEW x \in Int, NEW m \in Nat \ {0}
  PROVE  x % m \in 0 .. m - 1
OBVIOUS

(* A region, and so the register width, is a positive number.              *)
LEMMA WidthType ==
  /\ Region \in Nat \ {0}
  /\ Wrap \in Nat \ {0}
  /\ 0 \in Value
<1>1. Region \in Nat \ {0}
  BY SMT DEF Region
<1>2. Wrap \in Nat \ {0}
  BY <1>1, SMT DEF Wrap
<1>3. 0 \in Value
  BY <1>2, SMT DEF Value
<1> QED BY <1>1, <1>2, <1>3

(* What is computed modulo the register width fits a register.             *)
LEMMA WrapType ==
  ASSUME NEW x \in Int
  PROVE  x % Wrap \in Value
<1> QED BY WidthType, Remainder DEF Value

(* In translated code there is a word to execute.                          *)
LEMMA CurrentWord ==
  ASSUME EngineOK, phase \in {"run", "slot"}
  PROVE  /\ word \in Word /\ Len(blk.code) \in Nat
         /\ blk.end \in Nat /\ AfterSlot \in Value
         /\ 1 <= i /\ i <= Len(blk.code)
         /\ word.rs \in GPRs /\ word.rt \in GPRs
<1>1. blk.code \in Seq(Word) /\ blk.end \in Nat
  BY DEF EngineOK, Block
<1>2. Len(blk.code) \in Nat
  BY <1>1, LenProperties
<1>3. i \in 1 .. Len(blk.code)
  BY <1>2 DEF EngineOK
<1>4. word \in Word
  BY <1>1, <1>3, ElementOfSeq DEF word
<1>5. AfterSlot \in Value
  <2>1. blk.end + 8 \in Int
    BY <1>1
  <2> QED BY <2>1, WrapType DEF AfterSlot
<1>6. word.rs \in GPRs /\ word.rt \in GPRs
  BY <1>4 DEF Word, GPRs
<1> QED BY <1>1, <1>2, <1>3, <1>4, <1>5, <1>6

(* An immediate is a number, a result is as wide as the registers.         *)
LEMMA ImmType ==
  ASSUME NEW w \in Word
  PROVE  Imm(w) \in Nat
<1>1. w.rd \in Nat /\ w.sh \in Nat /\ w.fn \in Nat
  BY DEF Word
<1> QED BY <1>1 DEF Imm

(* The result of a computing word fits a register.                         *)
LEMMA ResultType ==
  ASSUME NEW w \in Word, NEW a \in Value, NEW b \in Value
  PROVE  Result(w, a, b) \in Value
<1>1. w.op \in Nat /\ w.fn \in Nat /\ Imm(w) \in Nat
  BY ImmType DEF Word
<1>2. a \in Nat /\ b \in Nat
  BY DEF Value
<1>3. Imm(w) * 65536 \in Int /\ a + Imm(w) \in Int /\ a + 2 * b + w.op + w.fn \in Int
  BY <1>1, <1>2
<1>4. /\ (Imm(w) * 65536) % Wrap \in Value
      /\ (a + Imm(w)) % Wrap \in Value /\ (a + 2 * b + w.op + w.fn) % Wrap \in Value
  BY <1>3, WrapType
<1> QED BY <1>4 DEF Result

(* So does what it computes from the registers it names, HI and LO too.    *)
LEMMA ComputedType ==
  ASSUME NEW w \in Word, NEW g \in [GPRs -> Value]
  PROVE  Computed(w, g) \in Value
<1>1. w.rs \in GPRs /\ w.rt \in GPRs /\ HI \in GPRs /\ LO \in GPRs
  BY DEF Word, GPRs, HI, LO
<1>2. g[w.rs] \in Value /\ g[w.rt] \in Value /\ g[HI] \in Value /\ g[LO] \in Value
  BY <1>1
<1>3. Result(w, g[w.rs], g[w.rt]) \in Value
  BY <1>2, ResultType
<1> QED BY <1>2, <1>3 DEF Computed

(* Writing such a value leaves the registers what they were.               *)
LEMMA WriteType ==
  ASSUME gpr \in [GPRs -> Value], NEW S, NEW v \in Value
  PROVE  Write(S, v) \in [GPRs -> Value]
  BY DEF Write

(* A branch goes to an address.                                            *)
LEMMA GoesType ==
  ASSUME blk \in Block, NEW b \in Word, NEW s \in Value \X Value
  PROVE  Goes(b, s) \in Value
<1>1. blk.end \in Nat /\ Imm(b) \in Nat /\ b.rs \in Nat /\ b.rt \in Nat
  <2>1. blk.end \in Nat
    BY DEF Block
  <2>2. b.rs \in Nat /\ b.rt \in Nat
    BY DEF Word
  <2> QED BY <2>1, <2>2, ImmType
<1>2. ASSUME NEW x \in Int PROVE x % Wrap \in Value
  BY WrapType
<1>3. (Imm(b) * 4 + 4) % 65536 \in Int
  BY <1>1
<1>4. Sext((Imm(b) * 4 + 4) % 65536) \in Int
  BY <1>3 DEF Sext
<1>5. /\ blk.end + Sext((Imm(b) * 4 + 4) % 65536) \in Int
      /\ blk.end + 8 \in Int
      /\ (blk.end \div Region) * Region + 4 * ((b.rs * 32 + b.rt) * 65536 + Imm(b)) \in Int
  <2>1. blk.end \div Region \in Int
    BY <1>1, WidthType
  <2>2. (blk.end \div Region) * Region \in Int
    BY <2>1, WidthType
  <2> QED BY <1>1, <1>4, <2>2
<1>6. AfterSlot \in Value /\ JTarget(b) \in Value
  BY <1>2, <1>5 DEF AfterSlot, JTarget
<1>7. (blk.end + Sext((Imm(b) * 4 + 4) % 65536)) % Wrap \in Value
  BY <1>2, <1>5
<1>8. BranchPath(b, s) \in Value
  BY <1>6, <1>7 DEF BranchPath
<1>9. s[1] \in Value
  OBVIOUS
<1> QED BY <1>6, <1>8, <1>9 DEF Goes

(* The values of the Status register.                                      *)
StatusValues == [ie : BOOLEAN, exl : BOOLEAN, erl : BOOLEAN, user : BOOLEAN]

(* The four changes exceptions and ERET make to Status, one bit each.      *)
LEMMA StatusBits ==
  ASSUME status \in StatusValues
  PROVE  /\ [status EXCEPT !.exl = TRUE] \in StatusValues
         /\ [status EXCEPT !.erl = TRUE] \in StatusValues
         /\ [status EXCEPT !.exl = FALSE] \in StatusValues
         /\ [status EXCEPT !.erl = FALSE] \in StatusValues
<1>1. [status EXCEPT !.exl = TRUE] \in StatusValues
  BY DEF StatusValues
<1>2. [status EXCEPT !.erl = TRUE] \in StatusValues
  BY DEF StatusValues
<1>3. [status EXCEPT !.exl = FALSE] \in StatusValues
  BY DEF StatusValues
<1>4. [status EXCEPT !.erl = FALSE] \in StatusValues
  BY DEF StatusValues
<1> QED BY <1>1, <1>2, <1>3, <1>4

(* An exception leaves addresses in the pc and in the register it saves    *)
(* the pc to.                                                              *)
LEMMA ExceptionTypes ==
  ASSUME RegistersOK, NEW at \in Value, Perform_Exception(at), UNCHANGED saved
  PROVE  RegistersOK' /\ pc' = Vector /\ pc' # 0
<1>1. pc' = Vector /\ Vector \in Value /\ Vector # 0
  BY VectorAssumption DEF Perform_Exception
<1>2. epc' \in Value /\ errorepc' \in Value
  BY DEF Perform_Exception, RegistersOK
<1>3. status' \in StatusValues
  <2>1. status \in StatusValues
    BY DEF RegistersOK, StatusValues
  <2>2. \/ status' = [status EXCEPT !.erl = TRUE]
        \/ status' = [status EXCEPT !.exl = TRUE]
    BY Zenon DEF Perform_Exception
  <2> QED BY <2>1, <2>2, StatusBits, Zenon
<1>4. status' \in [ie : BOOLEAN, exl : BOOLEAN, erl : BOOLEAN, user : BOOLEAN]
  BY <1>3 DEF StatusValues
<1>5. UNCHANGED <<prog, gpr, asid, intr, nmi>>
  BY DEF Perform_Exception
<1> QED BY <1>1, <1>2, <1>4, <1>5 DEF RegistersOK

(* Leaving the translated code, towards NewBlock or for good.              *)
LEMMA LeaveBlock ==
  ASSUME EngineOK, UNCHANGED <<cache, blk, i>>,
         phase' \in {"int", "nmi", "wait", "halt", "astray"}
  PROVE  EngineOK'
  BY DEF EngineOK, Phases

(* Leaving it to fetch another block: never the one at address 0.          *)
LEMMA FetchAnother ==
  ASSUME EngineOK, UNCHANGED <<cache, blk, i>>, phase' = "fetch", pc' # 0
  PROVE  EngineOK'
  BY DEF EngineOK, Phases

(* Going on after a word of the body or after the slot.                    *)
LEMMA DoneTypes ==
  ASSUME BlocksInv, Body \/ InSlot, Done, UNCHANGED <<cache, blk>>
  PROVE  EngineOK' /\ pc' \in Value
<1>0. RegistersOK /\ EngineOK /\ phase \in {"run", "slot"}
  BY DEF BlocksInv, Body, InSlot
<1>1. /\ Len(blk.code) \in Nat /\ 1 <= i /\ i <= Len(blk.code) /\ i \in Nat
  BY <1>0, CurrentWord DEF EngineOK
<1>2. CASE InSlot
  <2>1. phase' = "int" /\ i' = i
    BY <1>2 DEF Done
  <2>2. EngineOK'
    BY <1>0, <2>1, LeaveBlock
  <2>3. Len(blk.code) >= 2
    BY <1>0, <1>1, <1>2 DEF InSlot, EngineOK
  <2>4. Goes(blk.code[Len(blk.code) - 1], saved) \in Value
    <3>1. Len(blk.code) - 1 \in 1 .. Len(blk.code) /\ blk.code \in Seq(Word)
      BY <1>0, <1>1, <2>3 DEF EngineOK, Block
    <3>2. blk.code[Len(blk.code) - 1] \in Word
      BY <3>1, ElementOfSeq
    <3>3. blk \in Block /\ saved \in Value \X Value
      BY <1>0 DEF EngineOK, RegistersOK
    <3> QED BY <3>2, <3>3, GoesType
  <2> QED BY <1>2, <2>2, <2>4 DEF Done
<1>3. CASE ~InSlot
  <2>1. pc' = (pc + 4) % Wrap /\ i' = i + 1 /\ phase' = phase
    BY <1>3 DEF Done
  <2>2. Body /\ phase = "run" /\ i < Len(blk.code) - 1
    BY <1>3 DEF Body
  <2>3. pc' \in Value
    <3>1. pc + 4 \in Int
      BY <1>0 DEF RegistersOK, Value
    <3> QED BY <2>1, <3>1, WrapType
  <2>4. i' \in Nat /\ 1 <= i' /\ i' < Len(blk.code)
    BY <1>1, <2>1, <2>2
  <2> QED BY <1>0, <2>1, <2>2, <2>3, <2>4 DEF EngineOK
<1> QED BY <1>2, <1>3

(* The steps that end a word and change the registers in between.          *)
LEMMA WordDone ==
  ASSUME BlocksInv, Body \/ InSlot, Done, UNCHANGED <<prog, nmi, cache, blk, saved>>,
         gpr' \in [GPRs -> Value], epc' \in Value, errorepc' \in Value,
         status' \in [ie : BOOLEAN, exl : BOOLEAN, erl : BOOLEAN, user : BOOLEAN],
         asid' \in 0 .. 255, intr' \in BOOLEAN
  PROVE  BlocksInv'
<1>1. EngineOK' /\ pc' \in Value
  BY DoneTypes
<1> QED BY <1>1 DEF BlocksInv, RegistersOK

(* handleLDST, handleSigFPE, Handle_RI, Syscall and Handle_Trap.           *)
LEMMA RaiseTypes ==
  ASSUME BlocksInv, Raise
  PROVE  BlocksInv'
<1>1. pc \in Value /\ RegistersOK /\ EngineOK
  BY DEF BlocksInv, RegistersOK
<1>2. /\ Perform_Exception(pc) /\ saved' = saved /\ phase' = "fetch"
      /\ UNCHANGED <<cache, blk, i>>
  BY DEF Raise
<1>3. RegistersOK' /\ pc' # 0
  BY <1>1, <1>2, ExceptionTypes
<1>4. EngineOK'
  BY <1>1, <1>2, <1>3, FetchAnother
<1> QED BY <1>3, <1>4 DEF BlocksInv

(* What StatusOf makes of a register is a status.                          *)
LEMMA StatusType ==
  ASSUME NEW v
  PROVE  StatusOf(v) \in [ie : BOOLEAN, exl : BOOLEAN, erl : BOOLEAN, user : BOOLEAN]
  BY DEF StatusOf

(* The words that only end with Done.                                      *)
LEMMA ComputeTypes ==
  ASSUME BlocksInv, Compute \/ NoTrap \/ mfc0 \/ mtc0 \/ di_ei \/ tlb
  PROVE  BlocksInv'
<1>0. /\ Body \/ InSlot
      /\ Done
      /\ UNCHANGED <<prog, nmi, cache, blk, saved>>
  BY DEF Compute, NoTrap, mfc0, mtc0, di_ei, tlb, regs
<1>1. RegistersOK /\ EngineOK /\ phase \in {"run", "slot"}
  BY <1>0 DEF BlocksInv, Body, InSlot
<1>2. word \in Word /\ word.rt \in GPRs
  BY <1>1, CurrentWord
<1>3. 0 \in Value
  BY WidthType
<1>4. CASE Compute
  <2>1. PICK S : gpr' = Write(S, Computed(word, gpr))
    BY <1>4 DEF Compute
  <2>2. gpr' \in [GPRs -> Value]
    BY <1>1, <1>2, <2>1, ComputedType, WriteType DEF RegistersOK
  <2>3. UNCHANGED <<status, epc, errorepc, asid, intr>>
    BY <1>4 DEF Compute
  <2> QED BY <1>0, <1>1, <2>2, <2>3, WordDone DEF RegistersOK
<1>5. CASE NoTrap \/ tlb
  <2>1. UNCHANGED <<gpr, status, epc, errorepc, asid, intr>>
    BY <1>5 DEF NoTrap, tlb, regs
  <2> QED BY <1>0, <1>1, <2>1, WordDone DEF RegistersOK
<1>6. CASE mfc0
  <2>1. Result(word, 0, 0) \in Value /\ epc \in Value /\ gpr \in [GPRs -> Value]
    BY <1>1, <1>2, <1>3, ResultType DEF RegistersOK
  <2>2. gpr' \in [GPRs -> Value]
    BY <1>6, <2>1, WriteType DEF mfc0
  <2>3. UNCHANGED <<status, epc, errorepc, asid, intr>>
    BY <1>6 DEF mfc0
  <2> QED BY <1>0, <1>1, <2>2, <2>3, WordDone DEF RegistersOK
<1>7. CASE mtc0
  <2> DEFINE v == gpr[word.rt]
  <2>1. v \in Value /\ v \in Int
    BY <1>1, <1>2 DEF RegistersOK, Value
  <2>2. v % 256 \in 0 .. 255
    <3> HIDE DEF v
    <3> QED BY <2>1
  <2>3. asid' \in 0 .. 255
    BY <1>1, <1>7, <2>2 DEF mtc0, RegistersOK
  <2>4. epc' \in Value /\ errorepc' \in Value /\ gpr' = gpr
    BY <1>1, <1>7, <2>1 DEF mtc0, RegistersOK
  <2>5. intr' \in BOOLEAN
    BY <1>7 DEF mtc0
  <2>6. status' \in [ie : BOOLEAN, exl : BOOLEAN, erl : BOOLEAN, user : BOOLEAN]
    <3>1. status' = StatusOf(v) \/ status' = status
      BY <1>7 DEF mtc0
    <3> QED BY <1>1, <3>1, StatusType DEF RegistersOK
  <2> QED BY <1>0, <1>1, <2>3, <2>4, <2>5, <2>6, WordDone DEF RegistersOK
<1>8. CASE di_ei
  <2>1. Result(word, 0, 0) \in Value /\ gpr \in [GPRs -> Value]
    BY <1>1, <1>2, <1>3, ResultType DEF RegistersOK
  <2>2. gpr' \in [GPRs -> Value]
    BY <1>8, <2>1, WriteType DEF di_ei
  <2>3. status' \in [ie : BOOLEAN, exl : BOOLEAN, erl : BOOLEAN, user : BOOLEAN]
    BY <1>1, <1>8 DEF di_ei, RegistersOK
  <2>4. UNCHANGED <<epc, errorepc, asid, intr>>
    BY <1>8 DEF di_ei
  <2> QED BY <1>0, <1>1, <2>2, <2>3, <2>4, WordDone DEF RegistersOK
<1> QED BY <1>4, <1>5, <1>6, <1>7, <1>8

(* A control instruction links, saves its sources and goes to its slot.    *)
LEMMA BeginTypes ==
  ASSUME BlocksInv, Begin \/ BranchPath_likely
  PROVE  BlocksInv'
<1> DEFINE g == Write(LinksTo, AfterSlot)
<1>0. AtEnd /\ phase = "run" /\ i = Len(blk.code) - 1
  BY DEF Begin, BranchPath_likely, AtEnd
<1>1. RegistersOK /\ EngineOK /\ phase \in {"run", "slot"}
  BY <1>0 DEF BlocksInv
<1>2. /\ word.rs \in GPRs /\ word.rt \in GPRs /\ AfterSlot \in Value
      /\ Len(blk.code) \in Nat /\ 1 <= i /\ i \in Nat
  BY <1>1, CurrentWord DEF EngineOK
<1>3. g \in [GPRs -> Value]
  BY <1>1, <1>2, WriteType DEF RegistersOK
<1>4. g[word.rs] \in Value /\ g[word.rt] \in Value
  <2> HIDE DEF g
  <2> QED BY <1>2, <1>3
<1>5. /\ gpr' = g /\ saved' = <<g[word.rs], g[word.rt]>>
      /\ UNCHANGED <<prog, status, epc, errorepc, asid, intr, nmi, cache, blk>>
  BY DEF Begin, BranchPath_likely
<1>6. pc' \in Value
  BY <1>1, <1>2 DEF Begin, BranchPath_likely, RegistersOK
<1>7. RegistersOK'
  <2> HIDE DEF g
  <2> QED BY <1>1, <1>3, <1>4, <1>5, <1>6 DEF RegistersOK
<1>8. \/ phase' = "slot" /\ i' = i + 1
      \/ phase' = "int" /\ i' = i
  BY DEF Begin, BranchPath_likely
<1>9. EngineOK'
  <2>1. CASE phase' = "slot" /\ i' = i + 1
    <3>1. i' \in Nat /\ 2 <= i' /\ i' = Len(blk.code)
      BY <1>0, <1>2, <2>1
    <3>2. UNCHANGED <<cache, blk>>
      BY <1>5
    <3> QED BY <1>1, <2>1, <3>1, <3>2 DEF EngineOK, Phases
  <2>2. CASE phase' = "int" /\ i' = i
    BY <1>1, <1>5, <2>2, LeaveBlock
  <2> QED BY <1>8, <2>1, <2>2
<1> QED BY <1>7, <1>9 DEF BlocksInv

(* ERET, WAIT and the words that end the execution of the block.           *)
LEMMA OtherWordTypes ==
  ASSUME BlocksInv, eret \/ handlewait \/ TerminateBlock \/ Astray
  PROVE  BlocksInv'
<1>1. RegistersOK /\ EngineOK /\ pc \in Value
  BY DEF BlocksInv, RegistersOK
<1>2. CASE eret
  <2>1. pc' \in Value
    BY <1>1, <1>2 DEF eret, RegistersOK
  <2>2. status' \in [ie : BOOLEAN, exl : BOOLEAN, erl : BOOLEAN, user : BOOLEAN]
    <3>1. status \in StatusValues
      BY <1>1 DEF RegistersOK, StatusValues
    <3>2. \/ status' = [status EXCEPT !.erl = FALSE]
          \/ status' = [status EXCEPT !.exl = FALSE]
      BY <1>2, Zenon DEF eret
    <3>3. status' \in StatusValues
      BY <3>1, <3>2, StatusBits, Zenon
    <3> QED BY <3>3 DEF StatusValues
  <2>3. RegistersOK'
    <3>1. UNCHANGED <<prog, gpr, epc, errorepc, asid, intr, nmi, saved>>
      BY <1>2 DEF eret
    <3> QED BY <1>1, <2>1, <2>2, <3>1 DEF RegistersOK
  <2>4. EngineOK'
    BY <1>1, <1>2, LeaveBlock DEF eret
  <2> QED BY <2>3, <2>4 DEF BlocksInv
<1>3. CASE handlewait
  <2>1. CASE phase' = "wait"
    <3>1. /\ pc' = (pc + 4) % Wrap
          /\ UNCHANGED <<prog, regs, intr, nmi, cache, blk, i, saved>>
      BY <1>3, <2>1 DEF handlewait
    <3>2. pc' \in Value
      <4>1. pc + 4 \in Int
        BY <1>1 DEF Value
      <4> QED BY <3>1, <4>1, WrapType
    <3>3. RegistersOK'
      BY <1>1, <3>1, <3>2 DEF RegistersOK, regs
    <3>4. EngineOK'
      BY <1>1, <2>1, <3>1, LeaveBlock
    <3> QED BY <3>3, <3>4 DEF BlocksInv
  <2>2. CASE phase' # "wait"
    <3>1. /\ Perform_Exception(pc) /\ phase' = "fetch" /\ saved' = saved
          /\ UNCHANGED <<cache, blk, i>>
      BY <1>3, <2>2 DEF handlewait
    <3>2. RegistersOK' /\ pc' # 0
      BY <1>1, <3>1, ExceptionTypes
    <3>3. EngineOK'
      BY <1>1, <3>1, <3>2, FetchAnother
    <3> QED BY <3>2, <3>3 DEF BlocksInv
  <2> QED BY <2>1, <2>2
<1>4. CASE TerminateBlock \/ Astray
  <2>1. RegistersOK'
    BY <1>1, <1>4 DEF TerminateBlock, Astray, RegistersOK, regs
  <2>2. EngineOK'
    BY <1>1, <1>4, LeaveBlock DEF TerminateBlock, Astray
  <2> QED BY <2>1, <2>2 DEF BlocksInv
<1> QED BY <1>2, <1>3, <1>4

(* The block cache is indexed within its bounds.                           *)
LEMMA IndexType ==
  ASSUME NEW a \in Value
  PROVE  updateIndex(a) \in Indices
<1>1. a \in Nat /\ a \div 4 \in Nat
  BY DEF Value
<1>2. 4 * FirstLevel \in Nat \ {0}
  BY SizesAssumption
<1>3. a \div (4 * FirstLevel) \in Nat
  BY <1>1, <1>2
<1>4. (a \div 4) % FirstLevel \in 0 .. FirstLevel - 1
  BY <1>1, SizesAssumption, Remainder
<1>5. (a \div (4 * FirstLevel)) % SecondLevel \in 0 .. SecondLevel - 1
  <2> DEFINE q == a \div (4 * FirstLevel)
  <2>1. q \in Int
    BY <1>3
  <2> HIDE DEF q
  <2>2. q % SecondLevel \in 0 .. SecondLevel - 1
    BY <2>1, SizesAssumption, Remainder
  <2> QED BY <2>2 DEF q
<1> QED BY <1>4, <1>5 DEF updateIndex, Indices

(* A block entered is made of words and goes to its slot of the cache.     *)
LEMMA EnterTypes ==
  ASSUME EngineOK, NEW b \in Block, Len(b.code) >= 2, Enter(b)
  PROVE  EngineOK'
<1>1. phase' = Outcome(b) /\ Outcome(b) \in {"run", "halt", "astray"}
  BY DEF Enter, Outcome
<1>2. CASE Outcome(b) = "run"
  <2>1. /\ blk' = b /\ i' = 1 /\ phase' = "run"
        /\ cache' = [cache EXCEPT ![updateIndex(b.start)] = b]
    BY <1>1, <1>2 DEF Enter
  <2>2. cache' \in [Indices -> Block] /\ \A s \in Indices : cache'[s] = cache[s] \/ cache'[s] = b
    BY <2>1 DEF EngineOK
  <2>3. \A s \in Indices : Filled(cache'[s])
    BY <2>2 DEF EngineOK, Filled
  <2>4. Len(b.code) \in Nat
    <3>1. b.code \in Seq(Word)
      BY DEF Block
    <3> QED BY <3>1, LenProperties
  <2>5. 1 < Len(b.code)
    BY <2>4
  <2> QED BY <2>1, <2>2, <2>3, <2>5 DEF EngineOK, Filled, Phases
<1>3. CASE Outcome(b) # "run"
  BY <1>1, <1>3, LeaveBlock DEF Enter
<1> QED BY <1>2, <1>3

(* The addresses of code that translate are numbers.                       *)
LEMMA PhysicalType ==
  ASSUME PageTablesOK, RegistersOK
  PROVE  Physical(pc) \in SUBSET Nat
<1>1. pc \in Nat /\ PageSize \in Nat /\ pc % PageSize \in Nat /\ pc \div PageSize \in Nat
  <2>1. pc \in Nat
    BY DEF RegistersOK, Value
  <2> QED BY <2>1, PageBounds, SizesAssumption
<1>2. FrameIn(prog, asid, pc \div PageSize) \in SUBSET Nat
  BY <1>1 DEF PageTablesOK, RegistersOK
<1>3. ASSUME NEW f \in FrameIn(prog, asid, pc \div PageSize)
      PROVE  f * PageSize + (pc % PageSize) \in Nat
  BY <1>1, <1>2, <1>3
<1> QED BY <1>1, <1>3 DEF Physical

(* fetchNextBlock makes a block that can be executed.                      *)
LEMMA FetchTypes ==
  ASSUME MemoryOK, PageTablesOK, BlocksInv, BlocksEnd, FetchCached \/ FetchNew \/ FetchFault
  PROVE  BlocksInv'
<1>1. RegistersOK /\ EngineOK /\ pc \in Value /\ prog \in Programs /\ asid \in 0 .. 255
  BY DEF BlocksInv, RegistersOK
<1>2. CASE FetchCached
  <2>1. /\ blk' = cache[updateIndex(pc)] /\ i' = 1 /\ phase' = "run" /\ cache' = cache
        /\ cache[updateIndex(pc)].start = pc /\ pc # 0
    BY <1>1, <1>2 DEF FetchCached, doesExists, EngineOK
  <2>2. updateIndex(pc) \in Indices
    BY <1>1, IndexType
  <2>3. blk' \in Block /\ Filled(blk') /\ blk'.start # 0
    BY <1>1, <2>1, <2>2 DEF EngineOK
  <2>4. 1 < Len(blk'.code)
    <3>1. blk'.code \in Seq(Word)
      BY <2>3 DEF Block
    <3>2. Len(blk'.code) \in Nat
      BY <3>1, LenProperties
    <3> QED BY <2>3, <3>2 DEF Filled
  <2>5. EngineOK'
    BY <1>1, <2>1, <2>3, <2>4 DEF EngineOK, Filled, Phases
  <2>6. RegistersOK'
    BY <1>1, <1>2 DEF FetchCached, RegistersOK, regs
  <2> QED BY <2>5, <2>6 DEF BlocksInv
<1>3. CASE FetchNew
  <2>1. PICK pa \in Physical(pc) : Enter(Translated(pc, getBlock(pa), UserMode))
    BY <1>3 DEF FetchNew
  <2>2. pa \in Nat
    BY <1>1, PhysicalType
  <2>3. PICK k \in 0 .. MaxBlock : isControlInst(WordAt(pa + 4 * k))
    BY <1>3 DEF BlocksEnd, Making, FetchNew
  <2> DEFINE b == Translated(pc, getBlock(pa), UserMode)
  <2>4. b \in Block /\ Len(b.code) >= 2
    BY <1>1, <2>2, <2>3, NewBlock
  <2>5. EngineOK'
    <3> HIDE DEF b
    <3> QED BY <1>1, <2>1, <2>4, EnterTypes DEF b
  <2>6. RegistersOK'
    BY <1>1, <1>3, <2>1 DEF FetchNew, Enter, RegistersOK, regs
  <2> QED BY <2>5, <2>6 DEF BlocksInv
<1>4. CASE FetchFault
  <2> DEFINE b == Translated(Vector, getBlock(Vector), FALSE)
  <2>1. Perform_Exception(pc) /\ Enter(b)
    BY <1>4 DEF FetchFault
  <2>2. Vector \in Nat /\ Vector \in Value
    BY VectorAssumption DEF Value
  <2>3. PICK k \in 0 .. MaxBlock : isControlInst(WordAt(Vector + 4 * k))
    BY <1>4 DEF BlocksEnd, Making, FetchFault
  <2>4. b \in Block /\ Len(b.code) >= 2
    BY <1>1, <2>2, <2>3, NewBlock
  <2> HIDE DEF b
  <2>5. EngineOK'
    BY <1>1, <2>1, <2>4, EnterTypes
  <2>6. RegistersOK'
    BY <1>1, <2>1, ExceptionTypes DEF Enter
  <2> QED BY <2>5, <2>6 DEF BlocksInv
<1> QED BY <1>2, <1>3, <1>4

(* The tests of NewBlock.                                                  *)
LEMMA TestTypes ==
  ASSUME BlocksInv, TestInterrupt \/ handleNMI \/ TestBlock
  PROVE  BlocksInv'
<1>1. RegistersOK /\ EngineOK /\ pc \in Value
  BY DEF BlocksInv, RegistersOK
<1>2. CASE TestInterrupt
  <2>1. UNCHANGED <<cache, blk, i, saved>> /\ phase' = "nmi"
    BY <1>2 DEF TestInterrupt
  <2>2. EngineOK'
    BY <1>1, <2>1, LeaveBlock
  <2>3. RegistersOK'
    <3>1. CASE Pending
      BY <1>1, <1>2, <2>1, <3>1, ExceptionTypes DEF TestInterrupt
    <3>2. CASE ~Pending
      BY <1>1, <1>2, <3>2 DEF TestInterrupt, RegistersOK, regs
    <3> QED BY <3>1, <3>2
  <2> QED BY <2>2, <2>3 DEF BlocksInv
<1>3. CASE handleNMI
  <2>1. CASE nmi /\ pc # 0
    <3>1. /\ status' = [status EXCEPT !.erl = TRUE] /\ pc' = ResetVector
          /\ blk' = [blk EXCEPT !.start = 0, !.end = 0] /\ nmi' = FALSE
          /\ phase' = "next"
          /\ UNCHANGED <<prog, gpr, epc, errorepc, asid, intr, cache, i, saved>>
      BY <1>3, <2>1 DEF handleNMI
    <3>2. pc' \in Value /\ pc' # 0
      BY <3>1, VectorAssumption
    <3>3. status' \in [ie : BOOLEAN, exl : BOOLEAN, erl : BOOLEAN, user : BOOLEAN]
      BY <1>1, <3>1 DEF RegistersOK
    <3>4. RegistersOK'
      BY <1>1, <3>1, <3>2, <3>3 DEF RegistersOK
    <3>5. 0 \in Value /\ 0 \in Nat
      BY WidthType
    <3>6. blk' \in Block /\ blk'.start = 0
      BY <1>1, <3>1, <3>5 DEF EngineOK, Block
    <3>7. EngineOK'
      BY <1>1, <3>1, <3>2, <3>6 DEF EngineOK, Filled, Phases
    <3> QED BY <3>4, <3>7 DEF BlocksInv
  <2>2. CASE ~(nmi /\ pc # 0)
    <3>1. /\ UNCHANGED <<status, pc, blk, nmi>>
          /\ UNCHANGED <<prog, gpr, epc, errorepc, asid, intr, cache, i, saved>>
          /\ phase' \in {"halt", "next"}
          /\ phase' = "next" => pc # 0
      BY <1>3, <2>2 DEF handleNMI
    <3>2. RegistersOK'
      BY <1>1, <3>1 DEF RegistersOK
    <3>3. EngineOK'
      BY <1>1, <3>1 DEF EngineOK, Phases
    <3> QED BY <3>2, <3>3 DEF BlocksInv
  <2> QED BY <2>1, <2>2
<1>4. CASE TestBlock
  <2>1. /\ UNCHANGED <<prog, pc, regs, intr, nmi, cache, blk, saved>>
        /\ phase = "next" /\ pc # 0
        /\ \/ pc = blk.start /\ phase' = "run" /\ i' = 1
           \/ phase' = "fetch" /\ i' = i
    BY <1>1, <1>4 DEF TestBlock, EngineOK
  <2>2. RegistersOK'
    BY <1>1, <2>1 DEF RegistersOK, regs
  <2>3. EngineOK'
    <3>1. CASE pc = blk.start /\ phase' = "run" /\ i' = 1
      <4>1. blk.code \in Seq(Word) /\ Len(blk.code) >= 2
        BY <1>1, <2>1, <3>1 DEF EngineOK, Filled, Block
      <4>2. Len(blk.code) \in Nat
        BY <4>1, LenProperties
      <4>3. 1 < Len(blk.code)
        BY <4>1, <4>2
      <4> QED BY <1>1, <2>1, <3>1, <4>3 DEF EngineOK, Phases
    <3>2. CASE phase' = "fetch" /\ i' = i
      BY <1>1, <2>1, <3>2, FetchAnother
    <3> QED BY <2>1, <3>1, <3>2
  <2> QED BY <2>2, <2>3 DEF BlocksInv
<1> QED BY <1>2, <1>3, <1>4

(* The core starts with empty blocks.                                      *)
LEMMA BlocksInit == Init => BlocksInv
<1> SUFFICES ASSUME Init PROVE BlocksInv
  OBVIOUS
<1>1. 0 \in Value
  BY WidthType
<1>2. NoBlock \in Block /\ NoBlock.start = 0
  <2>1. << >> \in Seq(Word) /\ << >> \in Seq(Translators)
    BY EmptySeq
  <2> QED BY <1>1, <2>1 DEF NoBlock, Block
<1>3. status \in [ie : BOOLEAN, exl : BOOLEAN, erl : BOOLEAN, user : BOOLEAN]
  BY StatusType DEF Init
<1>4. RegistersOK
  <2>1. gpr \in [GPRs -> Value] /\ saved \in Value \X Value
    BY <1>1 DEF Init
  <2>2. pc \in Value /\ epc \in Value /\ errorepc \in Value
    BY <1>1, VectorAssumption DEF Init
  <2>3. prog \in Programs /\ intr \in BOOLEAN /\ nmi \in BOOLEAN
    BY DEF Init
  <2>4. asid \in 0 .. 255
    BY DEF Init
  <2> QED BY <1>3, <2>1, <2>2, <2>3, <2>4 DEF RegistersOK
<1>5. EngineOK
  <2> HIDE DEF NoBlock
  <2> QED BY <1>2 DEF Init, EngineOK, Filled, Phases
<1> QED BY <1>4, <1>5 DEF BlocksInv

(* Every step keeps the invariant, as long as the blocks made end.         *)
LEMMA BlocksStep ==
  ASSUME MemoryOK, PageTablesOK, BlocksInv, BlocksEnd, [Next]_vars
  PROVE  BlocksInv'
<1>1. CASE C2Assembly2C
  BY <1>1, TestTypes, FetchTypes DEF C2Assembly2C
<1>2. CASE Executing
  <2>1. CASE handleLDST \/ handleSigFPE \/ Handle_RI \/ Syscall \/ Handle_Trap
    BY <2>1, RaiseTypes DEF handleLDST, handleSigFPE, Handle_RI, Syscall, Handle_Trap
  <2> QED BY <1>2, <2>1, ComputeTypes, OtherWordTypes, BeginTypes DEF Executing
<1>3. CASE RaiseInterrupt
  BY <1>3 DEF RaiseInterrupt, BlocksInv, RegistersOK, EngineOK, regs
<1>4. CASE setNMI
  BY <1>4 DEF setNMI, BlocksInv, RegistersOK, EngineOK, regs
<1>5. CASE UNCHANGED vars
  BY <1>5 DEF vars, regs, BlocksInv, RegistersOK, EngineOK
<1> QED BY <1>1, <1>2, <1>3, <1>4, <1>5 DEF Next

(* TypeOK: whatever guest is run, however its blocks are cut and cached,   *)
(* and whenever interrupts and NMIs come, the core executes a word that is *)
(* there and its registers keep their width.                               *)
THEOREM TypeCorrect ==
  ASSUME MemoryOK, PageTablesOK
  PROVE  Spec /\ []BlocksEnd => []TypeOK
<1>1. BlocksInv /\ BlocksEnd /\ [Next]_vars => BlocksInv'
  BY BlocksStep
<1> QED BY <1>1, BlocksInit, InvTypes, PTL DEF Spec

-----------------------------------------------------------------------------
(* The block cache *)

(* What is asked of the guest's mapped code: it is executed at user level  *)
(* (a block made at kernel level is not cut at the end of its page), and   *)
(* the words read for a block, which are those that follow in host memory, *)
(* end at the latest on what would be the next page.                       *)
MappedCode ==
  Making /\ pc >= UserBase =>
    /\ UserMode
    /\ \A pa \in Physical(pc) : \E k \in 0 .. MaxBlock :
         /\ isControlInst(WordAt(pa + 4 * k))
         /\ PageOf(pc + 4 * k) <= PageOf(pc) + PageSize

(* What CacheCurrent says of one block.                                    *)
Current(b) ==
  IF b.start < UserBase
  THEN b.code = getBlock(b.start)
  ELSE \A f \in FrameIn(prog, b.asid, b.start \div PageSize),
          k \in 1 .. Len(b.code) - 2 :
         LET a == b.start + 4 * (k - 1)
         IN /\ PageOf(a) = PageOf(b.start)
            /\ b.code[k] = WordAt(f * PageSize + (a % PageSize))

(* A block made for a mapped address holds the words of its page.          *)
LEMMA MappedCurrent ==
  ASSUME MemoryOK, PageTablesOK, BlocksInv, MappedCode, Making, pc >= UserBase,
         NEW pa \in Physical(pc)
  PROVE  Current(Translated(pc, getBlock(pa), UserMode))
<1> DEFINE b == Translated(pc, getBlock(pa), UserMode)
<1>1. RegistersOK /\ pc \in Value /\ prog \in Programs /\ asid \in 0 .. 255
  BY DEF BlocksInv, RegistersOK
<1>2. pc \in Nat /\ pa \in Nat /\ UserBase \in Nat
  BY <1>1, PhysicalType, VectorAssumption DEF Value
<1>3. PICK k \in 0 .. MaxBlock :
        /\ isControlInst(WordAt(pa + 4 * k))
        /\ PageOf(pc + 4 * k) <= PageOf(pc) + PageSize
  BY DEF MappedCode
<1>4. UserMode
  BY DEF MappedCode
<1>5. /\ b.start = pc /\ b.asid = asid /\ b \in Block
      /\ \A j \in 1 .. Len(b.code) - 2 :
           /\ pc + 4 * (j - 1) < PageOf(pc) + PageSize
           /\ b.code[j] = WordAt(pa + 4 * (j - 1))
  <2>1. UserMode = TRUE
    BY <1>4 DEF UserMode
  <2>2. b = Translated(pc, getBlock(pa), TRUE)
    BY <2>1
  <2> HIDE DEF b
  <2> QED BY <1>1, <1>2, <1>3, <2>2, UserBlock
<1> HIDE DEF b
<1>6. ASSUME NEW f \in FrameIn(prog, asid, pc \div PageSize), NEW j \in 1 .. Len(b.code) - 2
      PROVE  /\ PageOf(pc + 4 * (j - 1)) = PageOf(pc)
             /\ b.code[j] = WordAt(f * PageSize + ((pc + 4 * (j - 1)) % PageSize))
  <2> DEFINE a == pc + 4 * (j - 1)
  <2>1. Len(b.code) \in Nat
    <3>1. b.code \in Seq(Word)
      BY <1>5 DEF Block
    <3> QED BY <3>1, LenProperties
  <2>2. a \in Nat /\ pc <= a /\ a < PageOf(pc) + PageSize /\ a - pc = 4 * (j - 1)
    <3>1. j \in Nat /\ 1 <= j
      BY <1>6, <2>1
    <3>2. a < PageOf(pc) + PageSize
      BY <1>5, <1>6
    <3>3. 4 * (j - 1) \in Nat
      BY <3>1
    <3> DEFINE d == 4 * (j - 1)
    <3> HIDE DEF d
    <3>4. d \in Nat
      BY <3>3 DEF d
    <3>5. pc + d \in Nat /\ pc <= pc + d /\ (pc + d) - pc = d
      BY <1>2, <3>4
    <3> QED BY <3>2, <3>5 DEF d
  <2>3. PageOf(a) = PageOf(pc) /\ a % PageSize = (pc % PageSize) + (a - pc)
    <3> HIDE DEF a
    <3> QED BY <1>2, <2>2, SamePage
  <2>4. pc \div PageSize \in Nat /\ pc % PageSize \in Int /\ PageSize \in Nat
    <3>1. PageSize \in Nat /\ \A x \in 0 .. PageSize - 1 : x \in Int
      BY SizesAssumption
    <3> QED BY <1>2, <3>1, PageBounds
  <2>5. f \in Nat /\ pa = f * PageSize + (pc % PageSize)
    <3>1. PICK e \in FrameIn(prog, asid, pc \div PageSize) :
            pa = e * PageSize + (pc % PageSize)
      BY <1>2 DEF Physical
    <3>2. e = f /\ f \in Nat
      BY <1>1, <1>6, <2>4 DEF PageTablesOK
    <3> QED BY <3>1, <3>2
  <2>6. f * PageSize + (a % PageSize) = pa + 4 * (j - 1)
    <3> DEFINE base == f * PageSize
               low == pc % PageSize
    <3>1. base \in Nat /\ low \in Int /\ pa = base + low
      BY <2>4, <2>5
    <3>2. a % PageSize = low + 4 * (j - 1)
      BY <2>2, <2>3
    <3> HIDE DEF base, low, a
    <3>3. base + (low + 4 * (j - 1)) = pa + 4 * (j - 1)
      BY <2>1, <3>1
    <3> QED BY <3>2, <3>3 DEF base
  <2> QED BY <1>5, <2>3, <2>6
<1>7. ~(pc < UserBase)
  BY <1>2
<1> QED BY <1>5, <1>6, <1>7 DEF Current, b

(* Any block fetchNextBlock makes is current.                              *)
LEMMA MadeCurrent ==
  ASSUME MemoryOK, PageTablesOK, BlocksInv, MappedCode, Making
  PROVE  /\ \A pa \in Physical(pc) : Current(Translated(pc, getBlock(pa), UserMode))
         /\ Current(Translated(Vector, getBlock(Vector), FALSE))
<1>1. RegistersOK /\ pc \in Value /\ prog \in Programs /\ asid \in 0 .. 255
  BY DEF BlocksInv, RegistersOK
<1>2. ASSUME NEW a, a < UserBase PROVE Current(Translated(a, getBlock(a), FALSE))
  <2> DEFINE b == Translated(a, getBlock(a), FALSE)
  <2>1. b.start = a /\ b.code = getBlock(a)
    BY KernelBlock
  <2> HIDE DEF b
  <2>2. Current(b)
    BY <1>2, <2>1 DEF Current
  <2> QED BY <2>2 DEF b
<1>3. ASSUME NEW pa \in Physical(pc) PROVE Current(Translated(pc, getBlock(pa), UserMode))
  <2>1. CASE pc >= UserBase
    BY <1>3, <2>1, MappedCurrent
  <2>2. CASE ~(pc >= UserBase)
    <3>1. pc < UserBase
      BY <1>1, <2>2, VectorAssumption DEF Value
    <3>2. pa = pc /\ UserMode = FALSE
      BY <1>3, <3>1 DEF Physical, UserMode
    <3>3. Current(Translated(pc, getBlock(pc), FALSE))
      BY <1>2, <3>1
    <3> QED BY <3>2, <3>3
  <2> QED BY <2>1, <2>2
<1>4. Current(Translated(Vector, getBlock(Vector), FALSE))
  BY <1>2, VectorAssumption
<1> QED BY <1>3, <1>4

CurrentCache ==
  \A s \in Indices : cache[s] # NoBlock => updateIndex(cache[s].start) = s /\ Current(cache[s])

(* Entering a current block keeps the cache current: the block replaces    *)
(* the one that had its slot.                                              *)
LEMMA EnterCurrent ==
  ASSUME EngineOK, CurrentCache, NEW b, Current(b), Enter(b), UNCHANGED prog
  PROVE  CurrentCache'
<1>1. ASSUME NEW c, Current(c) PROVE Current(c)'
  BY <1>1 DEF Current, getBlock, WordAt
<1>2. \A s \in Indices : cache'[s] = cache[s] \/ (cache'[s] = b /\ s = updateIndex(b.start))
  BY DEF Enter, EngineOK
<1> QED BY <1>1, <1>2 DEF CurrentCache

(* Only fetchNextBlock changes the cache, and nothing changes the guest's  *)
(* memory.                                                                 *)
LEMMA CacheStep ==
  ASSUME MemoryOK, PageTablesOK, BlocksInv, BlocksEnd, MappedCode, CurrentCache, [Next]_vars
  PROVE  CurrentCache'
<1>0. EngineOK
  BY DEF BlocksInv
<1>1. ASSUME NEW c, Current(c), UNCHANGED prog PROVE Current(c)'
  BY <1>1 DEF Current, getBlock, WordAt
<1>2. ASSUME UNCHANGED <<cache, prog>> PROVE CurrentCache'
  BY <1>1, <1>2 DEF CurrentCache
<1>3. CASE FetchNew
  <2>1. PICK pa \in Physical(pc) : Enter(Translated(pc, getBlock(pa), UserMode))
    BY <1>3 DEF FetchNew
  <2>2. Making /\ prog' = prog
    BY <1>3 DEF FetchNew, Making
  <2>3. Current(Translated(pc, getBlock(pa), UserMode))
    BY <2>2, MadeCurrent
  <2> QED BY <1>0, <2>1, <2>2, <2>3, EnterCurrent
<1>4. CASE FetchFault
  <2>1. Enter(Translated(Vector, getBlock(Vector), FALSE)) /\ Making /\ prog' = prog
    BY <1>4 DEF FetchFault, Making, Perform_Exception
  <2>2. Current(Translated(Vector, getBlock(Vector), FALSE))
    BY <2>1, MadeCurrent
  <2> QED BY <1>0, <2>1, <2>2, EnterCurrent
<1>5. CASE TestInterrupt \/ handleNMI \/ TestBlock \/ FetchCached
  BY <1>2, <1>5 DEF TestInterrupt, handleNMI, TestBlock, FetchCached, Perform_Exception
<1>6. CASE Executing
  <2>1. ASSUME Raise PROVE CurrentCache'
    BY <1>2, <2>1 DEF Raise, Perform_Exception
  <2>2. CASE handleLDST \/ handleSigFPE \/ Handle_RI \/ Syscall \/ Handle_Trap
    BY <2>1, <2>2 DEF handleLDST, handleSigFPE, Handle_RI, Syscall, Handle_Trap
  <2>3. CASE Compute \/ NoTrap \/ mfc0 \/ mtc0 \/ di_ei \/ tlb
    BY <1>2, <2>3 DEF Compute, NoTrap, mfc0, mtc0, di_ei, tlb
  <2>4. CASE eret \/ handlewait \/ Begin \/ BranchPath_likely \/ TerminateBlock \/ Astray
    BY <1>2, <2>4 DEF eret, handlewait, Begin, BranchPath_likely, TerminateBlock, Astray,
       Perform_Exception
  <2> QED BY <1>6, <2>2, <2>3, <2>4 DEF Executing
<1>7. CASE RaiseInterrupt \/ setNMI \/ UNCHANGED vars
  BY <1>2, <1>7 DEF RaiseInterrupt, setNMI, vars
<1> QED BY <1>3, <1>4, <1>5, <1>6, <1>7 DEF Next, C2Assembly2C

(* CacheCurrent: for every guest whose blocks end and whose mapped code    *)
(* runs at user level, every block in the cache is the translation of its  *)
(* own address in its own address space.                                   *)
THEOREM CachedBlocksCurrent ==
  ASSUME MemoryOK, PageTablesOK
  PROVE  Spec /\ []BlocksEnd /\ []MappedCode => []CacheCurrent
<1>1. Init => CurrentCache
  BY DEF Init, CurrentCache
<1>2. BlocksInv /\ BlocksEnd /\ [Next]_vars => BlocksInv'
  BY BlocksStep
<1>3. BlocksInv /\ BlocksEnd /\ MappedCode /\ CurrentCache /\ [Next]_vars => CurrentCache'
  BY CacheStep
<1>4. CurrentCache => CacheCurrent
  BY DEF CurrentCache, CacheCurrent, Current
<1> QED BY <1>1, <1>2, <1>3, <1>4, BlocksInit, PTL DEF Spec
=============================================================================
